----------------------------- MODULE SwapFreeze -----------------------------
(***************************************************************************)
(* The two levers that pause the commands of the agents, and the ledger    *)
(* that lets the next server continue what a dead one left stopped.        *)
(*                                                                         *)
(*   freezer   server/services/swap-freeze.ts: under swap, one tree a beat *)
(*   governor  server/services/budget-governor.ts: over the CPU budget     *)
(*   ledger    server/services/swap-freeze-ledger.ts, shared by both       *)
(*   boot      thawLedgerAtBoot, server.ts: before any beat.  Its ps has a *)
(*             deadline of 4 s and the beats come every 10 s, so no lever  *)
(*             acts before it ends                                         *)
(*                                                                         *)
(* A tree is the command (root), a deeper process of it (rest), and two    *)
(* children it may fork at any moment: kin stays in the root's process     *)
(* group, stray leads its own.  The swap readings, the budget, the spacing *)
(* of the levers and who is heaviest only choose the moment and the tree:  *)
(* they are left to the environment.  What a handler does between two      *)
(* awaits is a stretch (js) that nothing of this process interrupts, but   *)
(* a SIGKILL of the server may fall between any two writes and signals of  *)
(* it.  A pid is not used again while a ps answer about it is acted on.    *)
(***************************************************************************)
EXTENDS Naturals, FiniteSets

CONSTANTS
  Tree,         \* the commands, by the pid of their root
  NoTree,       \* no tree
  Limit,        \* FREEZES_PER_TREE and BUDGET_FREEZES_PER_RUN: 2
  Late,         \* the children a tree may fork: kin, stray
  DiskFails,    \* TRUE: a write of the ledger may fail (flush swallows it), and a boot may
                \* find the file unreadable (readLedger starts from EMPTY)
  MaxLife,      \* bound: how often the pids of a tree are used again
  MaxBoots      \* bound: boots of the server in one behaviour; the last one is not killed

ASSUME TreeNames == NoTree \notin Tree
ASSUME FreezeSettings ==
  /\ Limit \in Nat \ {0} /\ DiskFails \in BOOLEAN
  /\ MaxLife \in Nat /\ MaxBoots \in Nat /\ Late \subseteq {"kin", "stray"}

Part == {"root", "rest"} \cup Late
Lever == {"freezer", "governor"}
FirstBatch == {"root", "kin", "stray"}

VARIABLES
  \* The machine
  os,       \* each process: none, run, gone (a stopped one is run with stoppers)
  by,       \* the levers whose SIGSTOP holds it: stopped iff not empty
  life,     \* which use of its pids a tree is: the lstart of an identity
  \* On disk, and the copy in memory that every flush writes
  disk, diskCount,   \* active: the batches stopped; counts: freezes per identity
  mem, memCount,
  \* The server
  server,   \* down, boot, continued (boot thaw before clearActive), up, closing
  boots,
  js,       \* the stretch being run: its next step and its tree
  \* The freezer
  beatOn,   \* the tree the beat in flight (ticking) is about
  fz,       \* frozen map and its awaits: no, reading, checking, frozen, thawing
  snap,     \* the processes read before a freeze
  tired,    \* noEffectThisEpisode
  disabled, \* the freezer switched itself off
  \* The governor
  glist,    \* state.frozen
  gstop,    \* its SIGSTOP in flight: no, recording, hitting
  gcont,    \* its SIGCONT in flight
  gcount,   \* freezeCounts
  \* Bookkeeping that is not in the code
  times,    \* freezes of the freezer that stood, for this life of the tree
  cut,      \* trees whose governor stop was in flight when it was to be continued
  unseen    \* trees whose rest the last reading of the governor missed

osVars     == <<os, by, life>>
diskVars   == <<disk, diskCount, mem, memCount>>
freezeVars == <<beatOn, fz, snap, tired, disabled>>
govVars    == <<glist, gstop, gcont, gcount>>
ghostVars  == <<times, cut, unseen>>
vars == <<osVars, diskVars, server, boots, js, freezeVars, govVars, ghostVars>>

Idle == [op |-> "idle", tree |-> NoTree, mute |-> FALSE]
Step(op, t, mute) == [op |-> op, tree |-> t, mute |-> mute]

NoTimes == [t \in Tree |-> [l \in 0..MaxLife |-> 0]]

Init ==
  /\ os = [t \in Tree |-> [p \in Part |-> IF p \in Late THEN "none" ELSE "run"]]
  /\ by = [t \in Tree |-> [p \in Part |-> {}]] /\ life = [t \in Tree |-> 0]
  /\ disk = {} /\ mem = {} /\ diskCount = NoTimes /\ memCount = NoTimes
  /\ server = "up" /\ boots = 0 /\ js = Idle
  /\ beatOn = NoTree /\ fz = [t \in Tree |-> "no"] /\ snap = [t \in Tree |-> {}]
  /\ tired = {} /\ disabled = FALSE
  /\ glist = {} /\ gstop = [t \in Tree |-> "no"]
  /\ gcont = [t \in Tree |-> FALSE] /\ gcount = [t \in Tree |-> 0]
  /\ times = [t \in Tree |-> 0] /\ cut = {} /\ unseen = {}

-----------------------------------------------------------------------------
(* Helpers *)

Alive(t) == {p \in Part : os[t][p] = "run"}
Runs(t, p) == os[t][p] = "run" /\ by[t][p] = {}
Stopped(t, p) == by[t][p] # {}
Running == server \in {"up", "closing"}
Free == Running /\ js = Idle

\* The id of a ledger tree.  The freezer's holds the time of the freeze, here the
\* boot; the governor's is the run's, and is used again.
TreeId(lever, t) == [lever |-> lever, tree |-> t,
                     boot |-> IF lever = "freezer" THEN boots ELSE 0]
IdOf(e) == [lever |-> e.lever, tree |-> e.tree, boot |-> e.boot]
Without(led, id) == {e \in led : IdOf(e) # id}
\* A batch of a ledger tree, with the identity of its processes.
Entry(id, l, parts) == [lever |-> id.lever, tree |-> id.tree, boot |-> id.boot,
                        life |-> l, parts |-> parts]

\* Every write is the whole file; one that fails is only logged.
Flush(active, counts) ==
  /\ mem' = active /\ memCount' = counts
  /\ \/ disk' = active /\ diskCount' = counts
     \/ DiskFails /\ UNCHANGED <<disk, diskCount>>

\* readLedger: the file, or EMPTY when it cannot be read or is not a ledger.
LedgerRead ==
  \/ mem' = disk /\ memCount' = diskCount
  \/ DiskFails /\ mem' = {} /\ memCount' = NoTimes

\* A signal to the parts of a tree, its group included when the root is one of
\* them: kin is in the group whether or not it was seen.
Reaches(t, parts) ==
  {p \in Alive(t) : p \in parts \/ (p = "kin" /\ "root" \in parts)}
Stop(lever, t, parts) ==
  by' = [by EXCEPT ![t] =
          [p \in Part |-> IF p \in Reaches(t, parts) THEN @[p] \cup {lever} ELSE @[p]]]
Cont(t, parts) ==
  by' = [by EXCEPT ![t] = [p \in Part |-> IF p \in Reaches(t, parts) THEN {} ELSE @[p]]]

\* getDescendantPids: the root and what a fresh ps says of the processes under it.  A ps
\* that failed, or was cut by its deadline, says some of them or none, and no error.
Readings(t) ==
  IF "root" \in Alive(t) THEN {seen \in SUBSET Alive(t) : "root" \in seen} ELSE {{}}
\* The recorded parts of an entry that still are who was stopped, or all of them
\* when ps was mute.  A group is recorded by its leader.
Matching(e, mute) ==
  IF mute THEN e.parts
  ELSE IF life[e.tree] = e.life THEN e.parts \cap Alive(e.tree) ELSE {}

FreezerEntry(t) == {e \in mem : IdOf(e) = TreeId("freezer", t)}

\* measure and pickVictim: not frozen, not already tried in this episode, its
\* root alive, and not frozen Limit times under this identity.
Candidate(t) ==
  /\ fz[t] = "no" /\ t \notin tired /\ "root" \in Alive(t)
  /\ memCount[t][life[t]] < Limit

\* freezableCommands: what the governor may pause is not on the freezer's map.
Freezable(t) ==
  ~disabled /\ "root" \in Alive(t) /\ fz[t] \notin {"frozen", "thawing"}

-----------------------------------------------------------------------------
(* The machine *)

\* A process ends by itself, or a stopped one by a SIGKILL; or all of a tree do.
Exits(t, parts) ==
  /\ parts \in {{"root"}, {"rest"}, Part} /\ \E p \in parts : os[t][p] = "run"
  /\ os' = [os EXCEPT ![t] = [p \in Part |-> IF p \in parts THEN "gone" ELSE @[p]]]
  /\ by' = [by EXCEPT ![t] = [p \in Part |-> IF p \in parts THEN {} ELSE @[p]]]
  /\ UNCHANGED <<life, diskVars, server, boots, js, freezeVars, govVars, ghostVars>>

\* A running process forks: kin from the root, stray from the root or the rest.
Forks(t, p) ==
  /\ p \in Late /\ os[t][p] = "none"
  /\ Runs(t, "root") \/ (p = "stray" /\ Runs(t, "rest"))
  /\ os' = [os EXCEPT ![t][p] = "run"]
  /\ UNCHANGED <<by, life, diskVars, server, boots, js, freezeVars, govVars, ghostVars>>

\* The pids of a tree that is gone belong to a later command.
PidsUsedAgain(t) ==
  /\ Alive(t) = {} /\ life[t] < MaxLife
  /\ js.tree # t /\ fz[t] \notin {"reading", "checking"} /\ gstop[t] = "no"
  /\ life' = [life EXCEPT ![t] = @ + 1]
  /\ os' = [os EXCEPT ![t] = [p \in Part |-> IF p \in Late THEN "none" ELSE "run"]]
  /\ times' = [times EXCEPT ![t] = 0] /\ cut' = cut \ {t} /\ unseen' = unseen \ {t}
  /\ UNCHANGED <<by, diskVars, server, boots, js, freezeVars, govVars>>

-----------------------------------------------------------------------------
(* The freezer: one beat acts on one tree *)

\* A mistake kept for checking: the freezes of a tree are not counted.
BeatPicksAgain(t) ==
  /\ server = "up" /\ js = Idle /\ beatOn = NoTree /\ ~disabled
  /\ fz[t] = "no" /\ t \notin tired /\ "root" \in Alive(t)
  /\ beatOn' = t /\ fz' = [fz EXCEPT ![t] = "reading"]
  /\ snap' = [snap EXCEPT ![t] = Alive(t)]
  /\ UNCHANGED <<osVars, diskVars, server, boots, js, tired, disabled, govVars, ghostVars>>

\* tick: the swap holds, the brake had nothing, and t was chosen.
BeatPicks(t) ==
  /\ server = "up" /\ js = Idle /\ beatOn = NoTree /\ ~disabled /\ Candidate(t)
  /\ beatOn' = t /\ fz' = [fz EXCEPT ![t] = "reading"]
  /\ snap' = [snap EXCEPT ![t] = Alive(t)]
  /\ UNCHANGED <<osVars, diskVars, server, boots, js, tired, disabled, govVars, ghostVars>>

\* freeze: refused before any signal (ps mute, root gone), or for ever when a
\* guarded process is in the set.
FreezeRefused(t, guarded) ==
  /\ Free /\ fz[t] = "reading"
  /\ fz' = [fz EXCEPT ![t] = "no"] /\ beatOn' = NoTree /\ snap' = [snap EXCEPT ![t] = {}]
  /\ disabled' = (disabled \/ guarded)
  /\ UNCHANGED <<osVars, diskVars, server, boots, js, tired, govVars, ghostVars>>

\* A mistake kept for checking: the signal first, the disk after.
FreezeBeginsLate(t) ==
  /\ Free /\ fz[t] = "reading" /\ "root" \in Alive(t)
  /\ snap' = [snap EXCEPT ![t] = @ \cap Alive(t)]
  /\ Stop("freezer", t, snap'[t] \cap FirstBatch)
  /\ js' = Step("record2", t, FALSE)
  /\ Flush(mem \cup {Entry(TreeId("freezer", t), life[t], {})}, memCount)
  /\ UNCHANGED <<os, life, server, boots, beatOn, fz, tired, disabled, govVars, ghostVars>>

\* freeze: the start times came, those who still live are recorded: the root, its
\* children and its group first.
FreezeBegins(t) ==
  /\ Free /\ fz[t] = "reading" /\ "root" \in Alive(t)
  /\ snap' = [snap EXCEPT ![t] = @ \cap Alive(t)]
  /\ Flush(mem \cup {Entry(TreeId("freezer", t), life[t], snap'[t] \cap FirstBatch)}, memCount)
  /\ js' = Step("stop1", t, FALSE)
  /\ UNCHANGED <<osVars, server, boots, beatOn, fz, tired, disabled, govVars, ghostVars>>

\* sendBatch of the first batch.
StopFirstBatch(t) ==
  /\ Running /\ js = Step("stop1", t, FALSE)
  /\ Stop("freezer", t, snap[t] \cap FirstBatch)
  /\ js' = Step("record2", t, FALSE)
  /\ UNCHANGED <<os, life, diskVars, server, boots, freezeVars, govVars, ghostVars>>

\* sendBatch of the others: on disk.
RecordSecondBatch(t) ==
  /\ Running /\ js = Step("record2", t, FALSE)
  /\ Flush(mem \cup {Entry(TreeId("freezer", t), life[t], snap[t] \ FirstBatch)}, memCount)
  /\ js' = Step("stop2", t, FALSE)
  /\ UNCHANGED <<osVars, server, boots, freezeVars, govVars, ghostVars>>

\* sendBatch of the others: SIGSTOP.  Then freeze awaits the post-check.
StopSecondBatch(t) ==
  /\ Running /\ js = Step("stop2", t, FALSE)
  /\ Stop("freezer", t, snap[t] \ FirstBatch)
  /\ js' = Idle /\ fz' = [fz EXCEPT ![t] = "checking"]
  /\ UNCHANGED <<os, life, diskVars, server, boots, beatOn, snap, tired, disabled, govVars, ghostVars>>

\* The post-check of freeze: ps was mute, or one signalled process reads T, or
\* none of them is there any more.
FreezeStands(t) ==
  /\ Free /\ fz[t] = "checking"
  /\ Flush(mem, [memCount EXCEPT ![t][life[t]] = @ + 1])
  /\ fz' = [fz EXCEPT ![t] = "frozen"] /\ beatOn' = NoTree
  /\ times' = [times EXCEPT ![t] = @ + 1]
  /\ UNCHANGED <<osVars, server, boots, js, snap, tired, disabled, govVars, cut, unseen>>

\* The post-check of freeze: none of those still there reads T (not tried again
\* in this episode), or a guarded process does (freezer off).  undo continues all.
FreezeUndone(t, guarded) ==
  /\ Free /\ fz[t] = "checking"
  /\ guarded \/ (snap[t] \cap Alive(t) # {} /\ \A p \in snap[t] : ~Stopped(t, p))
  /\ fz' = [fz EXCEPT ![t] = "thawing"] /\ js' = Step("cont2", t, TRUE)
  /\ disabled' = (disabled \/ guarded)
  /\ tired' = IF guarded THEN tired ELSE tired \cup {t}
  /\ UNCHANGED <<osVars, diskVars, server, boots, beatOn, snap, govVars, ghostVars>>

\* thawPass: room, ten minutes, no effect, or the owner is gone.
BeatThaws(t, useless) ==
  /\ server = "up" /\ js = Idle /\ beatOn = NoTree /\ fz[t] = "frozen"
  /\ beatOn' = t /\ fz' = [fz EXCEPT ![t] = "thawing"]
  /\ tired' = IF useless THEN tired \cup {t} ELSE tired
  /\ UNCHANGED <<osVars, diskVars, server, boots, js, snap, disabled, govVars, ghostVars>>

\* release (a session is stopped) and thawAll (shutdown).
Releases(t) ==
  /\ Free /\ fz[t] = "frozen"
  /\ fz' = [fz EXCEPT ![t] = "thawing"]
  /\ UNCHANGED <<osVars, diskVars, server, boots, js, beatOn, snap, tired, disabled, govVars, ghostVars>>

\* thaw: ps answered about the recorded pids, or was mute.
ThawReads(t, mute) ==
  /\ Free /\ fz[t] = "thawing"
  /\ js' = Step("cont2", t, mute)
  /\ UNCHANGED <<osVars, diskVars, server, boots, freezeVars, govVars, ghostVars>>

\* thaw: the batches in reverse, each its pids and then its groups.
ThawSecondBatch(t) ==
  /\ Running /\ js.op = "cont2" /\ js.tree = t
  /\ Cont(t, UNION {Matching(e, js.mute) \ FirstBatch : e \in FreezerEntry(t)})
  /\ js' = Step("cont1", t, js.mute)
  /\ UNCHANGED <<os, life, diskVars, server, boots, freezeVars, govVars, ghostVars>>

ThawFirstBatch(t) ==
  /\ Running /\ js.op = "cont1" /\ js.tree = t
  /\ Cont(t, UNION {Matching(e, js.mute) \cap FirstBatch : e \in FreezerEntry(t)})
  /\ js' = Step("release", t, js.mute)
  /\ UNCHANGED <<os, life, diskVars, server, boots, freezeVars, govVars, ghostVars>>

\* thaw: off the map and off the ledger.
ThawEnds(t) ==
  /\ Running /\ js.op = "release" /\ js.tree = t
  /\ Flush(Without(mem, TreeId("freezer", t)), memCount)
  /\ fz' = [fz EXCEPT ![t] = "no"] /\ snap' = [snap EXCEPT ![t] = {}]
  /\ beatOn' = IF beatOn = t THEN NoTree ELSE beatOn
  /\ js' = Idle
  /\ UNCHANGED <<osVars, server, boots, tired, disabled, govVars, ghostVars>>

\* A calm as long as an episode: the roots tried in it may be tried again.
EpisodeEnds ==
  /\ server = "up" /\ js = Idle /\ beatOn = NoTree /\ tired # {}
  /\ tired' = {}
  /\ UNCHANGED <<osVars, diskVars, server, boots, js, beatOn, fz, snap, disabled, govVars, ghostVars>>

-----------------------------------------------------------------------------
(* The governor *)

\* sampleOnce: over the budget twice; t is a command freezableCommands cleared.
GovPlans(t) ==
  /\ server = "up" /\ js = Idle /\ gstop[t] = "no" /\ ~gcont[t] /\ t \notin glist
  /\ gcount[t] < Limit /\ Freezable(t)
  /\ glist' = glist \cup {t} /\ gstop' = [gstop EXCEPT ![t] = "recording"]
  /\ UNCHANGED <<osVars, diskVars, server, boots, js, freezeVars, gcont, gcount, ghostVars>>

\* apply: record threw (ps mute, root gone), the tree is not stopped.
GovRecordThrows(t) ==
  /\ Free /\ gstop[t] = "recording"
  /\ gstop' = [gstop EXCEPT ![t] = "no"]
  /\ UNCHANGED <<osVars, diskVars, server, boots, js, freezeVars, glist, gcont, gcount, ghostVars>>

\* record: the root has a start time.  begin opens the tree on disk, with no process,
\* in the place of what the id held.
GovBegins(t) ==
  /\ Free /\ gstop[t] = "recording" /\ "root" \in Alive(t)
  /\ Flush(Without(mem, TreeId("governor", t)) \cup {Entry(TreeId("governor", t), life[t], {})},
           memCount)
  /\ js' = Step("gadd", t, FALSE)
  /\ UNCHANGED <<osVars, server, boots, freezeVars, govVars, ghostVars>>

\* record: addBatch writes the processes that were read.
GovRecords(t, seen) ==
  /\ Running /\ js = Step("gadd", t, FALSE) /\ "root" \in seen
  /\ Flush(Without(mem, TreeId("governor", t)) \cup {Entry(TreeId("governor", t), life[t], seen)},
           memCount)
  /\ js' = Step("gstop", t, FALSE)
  /\ unseen' = IF "rest" \in Alive(t) \ seen THEN unseen \cup {t} ELSE unseen \ {t}
  /\ UNCHANGED <<osVars, server, boots, freezeVars, govVars, times, cut>>

\* signalProcessTree: the group at once, then it awaits the descendants.
GovStopsGroup(t) ==
  /\ Running /\ js = Step("gstop", t, FALSE)
  /\ IF "root" \in Alive(t) THEN Stop("governor", t, {"root"}) ELSE UNCHANGED by
  /\ gstop' = [gstop EXCEPT ![t] = "hitting"] /\ js' = Idle
  /\ UNCHANGED <<os, life, diskVars, server, boots, freezeVars, glist, gcont, gcount, ghostVars>>

\* signalProcessTree: every process another ps finds, whatever the record holds.
GovStopsPids(t, seen) ==
  /\ Free /\ gstop[t] = "hitting"
  /\ by' = [by EXCEPT ![t] =
              [p \in Part |-> IF p \in seen THEN @[p] \cup {"governor"} ELSE @[p]]]
  /\ gstop' = [gstop EXCEPT ![t] = "no"] /\ gcount' = [gcount EXCEPT ![t] = @ + 1]
  /\ UNCHANGED <<os, life, diskVars, server, boots, js, freezeVars, glist, gcont, ghostVars>>

\* sampleOnce: under the budget, or past four minutes (releaseExpired).  A beat does not
\* wait for the one before it, which may still be stopping the tree.
GovThaws(t) ==
  /\ server = "up" /\ js = Idle /\ t \in glist /\ ~gcont[t]
  /\ glist' = glist \ {t} /\ gcont' = [gcont EXCEPT ![t] = TRUE]
  /\ cut' = IF gstop[t] = "no" THEN cut ELSE cut \cup {t}
  /\ UNCHANGED <<osVars, diskVars, server, boots, js, freezeVars, gstop, gcount, times, unseen>>

\* apply of a SIGCONT: the processes another ps finds, the group, and then the record is
\* dropped, whatever it held.
GovContinues(t, seen) ==
  /\ Free /\ gcont[t]
  /\ Cont(t, seen \cup {"root", "kin"})
  /\ Flush(Without(mem, TreeId("governor", t)), memCount)
  /\ gcont' = [gcont EXCEPT ![t] = FALSE]
  /\ unseen' = IF "rest" \in Alive(t) \ seen THEN unseen \cup {t} ELSE unseen
  /\ UNCHANGED <<os, life, server, boots, js, freezeVars, glist, gstop, gcount, times, cut>>

-----------------------------------------------------------------------------
(* The life of the server *)

\* The shutdown: the governor's thawAll, then the freezer's (Releases).
Shutdown ==
  /\ server = "up" /\ js = Idle /\ boots < MaxBoots
  /\ server' = "closing"
  /\ glist' = {} /\ gcont' = [t \in Tree |-> gcont[t] \/ t \in glist]
  /\ cut' = cut \cup {t \in Tree : gstop[t] # "no"}
  /\ UNCHANGED <<osVars, diskVars, boots, js, freezeVars, gstop, gcount, times, unseen>>

\* A SIGKILL, or the exit that ends a shutdown: what is in memory is lost.
Dies ==
  /\ server # "down" /\ boots < MaxBoots
  /\ server' = "down" /\ js' = Idle
  /\ beatOn' = NoTree /\ fz' = [t \in Tree |-> "no"] /\ snap' = [t \in Tree |-> {}]
  /\ tired' = {} /\ disabled' = FALSE
  /\ glist' = {} /\ gstop' = [t \in Tree |-> "no"]
  /\ gcont' = [t \in Tree |-> FALSE] /\ gcount' = [t \in Tree |-> 0]
  /\ UNCHANGED <<osVars, diskVars, boots, ghostVars>>

\* A mistake kept for checking: the counts start again with the server.
BootsForgetting ==
  /\ server = "down"
  /\ server' = "boot" /\ boots' = boots + 1
  /\ mem' = disk /\ memCount' = NoTimes
  /\ UNCHANGED <<osVars, disk, diskCount, js, freezeVars, govVars, ghostVars>>

\* createSwapFreezeLedger reads the file.
Boots ==
  /\ server = "down"
  /\ server' = "boot" /\ boots' = boots + 1
  /\ LedgerRead
  /\ UNCHANGED <<osVars, disk, diskCount, js, freezeVars, govVars, ghostVars>>

\* A mistake kept for checking: a mute ps is read as every pid gone.
BootThawMuteIsGone(mute) ==
  /\ server = "boot"
  /\ by' = [t \in Tree |-> [p \in Part |->
       IF ~mute /\ \E e \in mem : e.tree = t /\ p \in Reaches(t, Matching(e, FALSE))
       THEN {} ELSE by[t][p]]]
  /\ server' = "continued" /\ js' = Step("clear", NoTree, FALSE)
  /\ UNCHANGED <<os, life, diskVars, boots, freezeVars, govVars, ghostVars>>

\* thawLedgerAtBoot: every recorded process that is still who it was is continued.
BootThaw(mute) ==
  /\ server = "boot"
  /\ by' = [t \in Tree |-> [p \in Part |->
       IF \E e \in mem : e.tree = t /\ p \in Reaches(t, Matching(e, mute))
       THEN {} ELSE by[t][p]]]
  /\ server' = "continued" /\ js' = Step("clear", NoTree, mute)
  /\ UNCHANGED <<os, life, diskVars, boots, freezeVars, govVars, ghostVars>>

\* thawLedgerAtBoot: the ledger is emptied, unless ps was mute or it had no tree.
BootClears ==
  /\ server = "continued"
  /\ IF js.mute \/ mem = {} THEN UNCHANGED diskVars ELSE Flush({}, memCount)
  /\ server' = "up" /\ js' = Idle
  /\ UNCHANGED <<osVars, boots, freezeVars, govVars, ghostVars>>

-----------------------------------------------------------------------------

Machine ==
  \E t \in Tree :
    \/ \E parts \in SUBSET Part : Exits(t, parts)
    \/ \E p \in Part : Forks(t, p)
    \/ PidsUsedAgain(t)

Thawing(t) ==
  \/ \E mute \in BOOLEAN : ThawReads(t, mute)
  \/ ThawSecondBatch(t) \/ ThawFirstBatch(t) \/ ThawEnds(t)

Freezing(t) ==
  \/ \E guarded \in BOOLEAN : FreezeRefused(t, guarded) \/ FreezeUndone(t, guarded)
  \/ FreezeBegins(t) \/ StopFirstBatch(t) \/ RecordSecondBatch(t) \/ StopSecondBatch(t)
  \/ FreezeStands(t)

Freezer ==
  \/ \E t \in Tree : BeatPicks(t) \/ Freezing(t) \/ Releases(t) \/ Thawing(t)
  \/ \E t \in Tree, useless \in BOOLEAN : BeatThaws(t, useless)
  \/ EpisodeEnds

Governing(t) ==
  \/ GovRecordThrows(t) \/ GovBegins(t) \/ GovStopsGroup(t)
  \/ \E seen \in Readings(t) : GovRecords(t, seen) \/ GovStopsPids(t, seen) \/ GovContinues(t, seen)

Governor == \E t \in Tree : GovPlans(t) \/ GovThaws(t) \/ Governing(t)

Booting == Boots \/ (\E mute \in BOOLEAN : BootThaw(mute)) \/ BootClears

Next == Machine \/ Freezer \/ Governor \/ Shutdown \/ Dies \/ Booting

\* A handler that was called goes on: every ps has a deadline.  The beats come
\* every ten seconds and no freeze outlasts ten minutes (the freezer) or four
\* (the governor).  A server that is down, or is closing, comes back.
Fairness ==
  /\ \A t \in Tree :
       /\ WF_vars(Thawing(t)) /\ WF_vars(Freezing(t)) /\ WF_vars(Governing(t))
       /\ SF_vars(\E useless \in BOOLEAN : BeatThaws(t, useless)) /\ SF_vars(GovThaws(t))
  /\ WF_vars(Booting) /\ WF_vars(server = "closing" /\ Dies)

Spec == Init /\ [][Next]_vars /\ Fairness

-----------------------------------------------------------------------------
(* Properties *)

LedgerEntry == [lever : Lever, tree : Tree, boot : 0..MaxBoots, life : 0..MaxLife,
                parts : SUBSET Part]
Counts == [Tree -> [0..MaxLife -> 0..Limit]]
Ops == {"idle", "stop1", "record2", "stop2", "cont2", "cont1", "release", "gadd", "gstop",
        "clear"}

MachineTypes ==
  /\ os \in [Tree -> [Part -> {"none", "run", "gone"}]]
  /\ by \in [Tree -> [Part -> SUBSET Lever]] /\ life \in [Tree -> 0..MaxLife]
LedgerTypes ==
  /\ disk \subseteq LedgerEntry /\ mem \subseteq LedgerEntry
  /\ diskCount \in Counts /\ memCount \in Counts
ServerTypes ==
  /\ server \in {"down", "boot", "continued", "up", "closing"} /\ boots \in 0..MaxBoots
  /\ js \in [op : Ops, tree : Tree \cup {NoTree}, mute : BOOLEAN]
FreezerTypes ==
  /\ beatOn \in Tree \cup {NoTree}
  /\ fz \in [Tree -> {"no", "reading", "checking", "frozen", "thawing"}]
  /\ snap \in [Tree -> SUBSET Part] /\ tired \subseteq Tree /\ disabled \in BOOLEAN
GovernorTypes ==
  /\ glist \subseteq Tree /\ gstop \in [Tree -> {"no", "recording", "hitting"}]
  /\ gcont \in [Tree -> BOOLEAN] /\ gcount \in [Tree -> 0..Limit]
GhostTypes == times \in [Tree -> Nat] /\ cut \subseteq Tree /\ unseen \subseteq Tree

(* The shapes of the variables.  The counts of both levers never pass the limit, *)
(* in the ledger of any server.                                                  *)
TypeOK ==
  /\ MachineTypes /\ LedgerTypes /\ ServerTypes
  /\ FreezerTypes /\ GovernorTypes /\ GhostTypes

\* A lever's record on disk tells the next server to continue the process: by
\* its own identity, or by that of the leader of its group.
OnDisk(lever, t, p) ==
  \E e \in disk :
    /\ e.lever = lever /\ e.tree = t /\ e.life = life[t]
    /\ p \in e.parts \/ (p = "kin" /\ "root" \in e.parts /\ os[t]["root"] = "run")

(* No pid is stopped by the freezer unless it is on disk: at no moment, a       *)
(* SIGKILL between two steps included, is there a stopped process that the next *)
(* server does not know.  A child forked after the processes were read has no   *)
(* identity of its own on disk, and needs the leader of its group.              *)
FreezerStopsAreOnDisk ==
  DiskFails \/ \A t \in Tree : \A p \in Part :
    "freezer" \in by[t][p] =>
      OnDisk("freezer", t, p) \/ (p = "kin" /\ os[t]["root"] # "run")

(* What the governor stopped is on disk until it has continued it, whatever the  *)
(* freezer does to the same tree and the same file meanwhile, as long as the     *)
(* root lives: but for a child forked into a group of its own after the record,  *)
(* a process that a reading of the governor missed, and a stop that was still in *)
(* flight when the tree was continued (README, section 6).                       *)
GovernorStopsAreOnDisk ==
  DiskFails \/ \A t \in Tree \ cut : \A p \in Part \ {"stray"} :
    "governor" \in by[t][p] /\ os[t]["root"] = "run" =>
      OnDisk("governor", t, p) \/ (p = "rest" /\ t \in unseen)

(* No process is stopped unless the ledger has it, whichever lever stopped it.   *)
StopsAreOnDisk == FreezerStopsAreOnDisk /\ GovernorStopsAreOnDisk

(* At most two freezes of one command, however often the server restarts.       *)
AtMostTwoFreezes == DiskFails \/ \A t \in Tree : times[t] <= Limit

(* A process that a lever stopped runs again, or is gone: the server that       *)
(* stopped it continues it, or the next one does; but for the rest of a tree     *)
(* that a reading of the governor missed, and the stops of the governor that     *)
(* outlived its continue or their root (README, section 6).                      *)
StoppedIsContinued ==
  \A t \in Tree, p \in {"root", "rest"} :
    Stopped(t, p) ~> (~Stopped(t, p) \/ os[t]["root"] = "gone" \/ t \in cut
                        \/ (p = "rest" /\ t \in unseen))

(* "NO PID IS EVER SIGSTOPPED UNLESS IT IS ALREADY ON DISK" (swap-freeze-        *)
(* ledger.ts:2), of a process that was there when the governor read the tree, in *)
(* a tree that nobody is continuing: another ps reads what is stopped, and it    *)
(* may see more than the one that was recorded.                                  *)
NoStopOffDisk ==
  \A t \in Tree \ cut : os[t]["root"] = "run" /\ "governor" \in by[t]["rest"] =>
    OnDisk("governor", t, "rest")

(* "`active` ... loses a tree only after its SIGCONT" (swap-freeze-ledger.ts:13- *)
(* 14): a record of the governor leaves the disk only when none of the processes *)
(* it names is still stopped by it.                                              *)
DroppedOnlyWhenContinued ==
  [][\A t \in Tree : \A p \in Part :
       OnDisk("governor", t, p) /\ ~OnDisk("governor", t, p)' /\ os'[t]["root"] = "run"
         => "governor" \notin by'[t][p]]_vars
=============================================================================
