-------------------------- MODULE SwapFreeze_proofs --------------------------
(***************************************************************************)
(* Proofs about SwapFreeze, for any commands, limits and bounds: the shapes*)
(* of the variables, and, when the disk accepts its writes, that what a    *)
(* lever stopped is on disk and that a command is frozen Limit times at    *)
(* most.                                                                   *)
(***************************************************************************)
EXTENDS SwapFreeze, TLAPS

USE DEF osVars, diskVars, freezeVars, govVars, ghostVars

\* Between the choice of a tree and the end of its freeze nothing counts it.
PickedMayCount ==
  \A t \in Tree : fz[t] \in {"reading", "checking"} => memCount[t][life[t]] < Limit
PlannedMayCount == \A t \in Tree : gstop[t] # "no" => gcount[t] < Limit

\* The stretch of a freeze or of a thaw is about a tree in that state.
StretchOf ==
  \A t \in Tree : js.tree = t =>
    /\ js.op \in {"stop1", "record2", "stop2"} => fz[t] = "reading"
    /\ js.op \in {"gadd", "gstop"} => gstop[t] = "recording"

\* The levers rest until the boot thaw has ended.
Asleep ==
  server \in {"down", "boot", "continued"} =>
    \A t \in Tree : fz[t] = "no" /\ gstop[t] = "no" /\ ~gcont[t]
DownMayBoot == server = "down" => boots < MaxBoots

Shape == TypeOK /\ PickedMayCount /\ PlannedMayCount /\ StretchOf /\ Asleep /\ DownMayBoot

-----------------------------------------------------------------------------
(* What the helpers do *)

LEMMA StopShape ==
  ASSUME by \in [Tree -> [Part -> SUBSET Lever]], NEW lever \in Lever, NEW t \in Tree,
         NEW parts, Stop(lever, t, parts)
  PROVE  /\ by' \in [Tree -> [Part -> SUBSET Lever]]
         /\ \A u \in Tree : \A p \in Part :
              by'[u][p] = IF u = t /\ p \in Reaches(t, parts) THEN by[u][p] \cup {lever}
                          ELSE by[u][p]
BY DEF Stop

LEMMA ContShape ==
  ASSUME by \in [Tree -> [Part -> SUBSET Lever]], NEW t \in Tree, NEW parts, Cont(t, parts)
  PROVE  /\ by' \in [Tree -> [Part -> SUBSET Lever]]
         /\ \A u \in Tree : \A p \in Part :
              by'[u][p] = IF u = t /\ p \in Reaches(t, parts) THEN {} ELSE by[u][p]
BY DEF Cont

\* What a reading may leave of a tree: its root, if that lives, and part of the rest.
LEMMA ReadingShape ==
  ASSUME NEW t \in Tree, NEW seen \in Readings(t)
  PROVE  /\ seen \subseteq Alive(t) /\ seen \in SUBSET Part
         /\ "root" \in Alive(t) => "root" \in seen
BY DEF Readings, Alive

\* A write leaves ledger and counts as they were, or as memory has them.
LEMMA FlushShape ==
  ASSUME NEW active, NEW counts, Flush(active, counts)
  PROVE  /\ mem' = active /\ memCount' = counts
         /\ disk' \in {disk, active} /\ diskCount' \in {diskCount, counts}
         /\ ~DiskFails => disk' = active /\ diskCount' = counts
BY DEF Flush

LEMMA EntryShape ==
  ASSUME NEW lever \in Lever, NEW t \in Tree, boots \in 0..MaxBoots, NEW l \in 0..MaxLife,
         NEW parts \in SUBSET Part
  PROVE  Entry(TreeId(lever, t), l, parts) \in LedgerEntry
<1>1. 0 \in 0..MaxBoots
  BY FreezeSettings
<1> QED
  BY <1>1 DEF Entry, TreeId, LedgerEntry

-----------------------------------------------------------------------------
(* The shapes *)

LEMMA ShapeInit == Init => Shape
<1> SUFFICES ASSUME Init PROVE Shape
  OBVIOUS
<1>1. MachineTypes
  BY FreezeSettings DEF Init, MachineTypes
<1>2. LedgerTypes
  BY FreezeSettings DEF Init, LedgerTypes, NoTimes, Counts
<1>3. ServerTypes
  BY FreezeSettings DEF Init, ServerTypes, Idle, Ops
<1>4. FreezerTypes
  BY DEF Init, FreezerTypes
<1>5. GovernorTypes /\ GhostTypes
  BY FreezeSettings DEF Init, GovernorTypes, GhostTypes
<1>6. PickedMayCount /\ PlannedMayCount /\ StretchOf /\ Asleep /\ DownMayBoot
  BY TreeNames DEF Init, PickedMayCount, PlannedMayCount, StretchOf, Asleep, DownMayBoot, Idle
<1> QED
  BY <1>1, <1>2, <1>3, <1>4, <1>5, <1>6 DEF Shape, TypeOK

\* The processes of the machine change neither ledger nor server.
LEMMA MachineShape ==
  ASSUME Shape, Machine
  PROVE  Shape'
<1> USE DEF Shape, TypeOK
<1>0. UNCHANGED <<diskVars, server, boots, js, freezeVars, govVars>>
  BY DEF Machine, Exits, Forks, PidsUsedAgain
<1>1. LedgerTypes' /\ ServerTypes' /\ FreezerTypes' /\ GovernorTypes'
  BY <1>0 DEF LedgerTypes, ServerTypes, FreezerTypes, GovernorTypes
<1>2. PlannedMayCount' /\ StretchOf' /\ Asleep' /\ DownMayBoot'
  BY <1>0 DEF PlannedMayCount, StretchOf, Asleep, DownMayBoot
<1>3. ASSUME NEW t \in Tree, NEW parts \in SUBSET Part, Exits(t, parts)
      PROVE  MachineTypes' /\ GhostTypes' /\ PickedMayCount'
  BY <1>3 DEF Exits, MachineTypes, GhostTypes, PickedMayCount
<1>4. ASSUME NEW t \in Tree, NEW p \in Part, Forks(t, p)
      PROVE  MachineTypes' /\ GhostTypes' /\ PickedMayCount'
  BY <1>4 DEF Forks, MachineTypes, GhostTypes, PickedMayCount
<1>5. ASSUME NEW t \in Tree, PidsUsedAgain(t)
      PROVE  MachineTypes' /\ GhostTypes' /\ PickedMayCount'
  <2>1. life[t] + 1 \in 0..MaxLife
    BY <1>5, FreezeSettings DEF PidsUsedAgain, MachineTypes
  <2>2. MachineTypes'
    BY <1>5, <2>1 DEF PidsUsedAgain, MachineTypes
  <2>3. GhostTypes'
    BY <1>5 DEF PidsUsedAgain, GhostTypes
  <2>4. PickedMayCount'
    BY <1>5 DEF PidsUsedAgain, PickedMayCount, MachineTypes
  <2> QED
    BY <2>2, <2>3, <2>4
<1> QED
  BY <1>1, <1>2, <1>3, <1>4, <1>5 DEF Machine

LEMMA FlushTypes ==
  ASSUME LedgerTypes, NEW active, active \subseteq LedgerEntry, NEW counts \in Counts,
         Flush(active, counts)
  PROVE  LedgerTypes'
BY DEF Flush, LedgerTypes

LEMMA WithoutShape ==
  ASSUME NEW led, NEW id
  PROVE  Without(led, id) \subseteq led
BY DEF Without

\* The beat chooses a tree, and every end of its reading and its check.
LEMMA FreezeShape ==
  ASSUME Shape, NEW t \in Tree,
         \/ BeatPicks(t) \/ FreezeBegins(t) \/ StopFirstBatch(t) \/ RecordSecondBatch(t)
         \/ StopSecondBatch(t) \/ FreezeStands(t)
         \/ \E guarded \in BOOLEAN : FreezeRefused(t, guarded) \/ FreezeUndone(t, guarded)
  PROVE  Shape'
<1> USE TreeNames DEF Shape, TypeOK
<1>1. ASSUME BeatPicks(t) PROVE Shape'
  <2>1. UNCHANGED <<osVars, diskVars, server, boots, js, govVars, ghostVars>>
    BY <1>1 DEF BeatPicks
  <2>2. MachineTypes' /\ LedgerTypes' /\ ServerTypes' /\ GovernorTypes' /\ GhostTypes'
    BY <2>1 DEF MachineTypes, LedgerTypes, ServerTypes, GovernorTypes, GhostTypes
  <2>3. FreezerTypes'
    BY <1>1 DEF BeatPicks, FreezerTypes, Alive
  <2>4. PickedMayCount' /\ PlannedMayCount' /\ Asleep' /\ DownMayBoot'
    BY <1>1, <2>1 DEF BeatPicks, Candidate, PickedMayCount, PlannedMayCount, Asleep,
                      DownMayBoot, FreezerTypes
  <2>5. StretchOf'
    BY <1>1 DEF BeatPicks, StretchOf, Idle
  <2> QED
    BY <2>2, <2>3, <2>4, <2>5
<1>2. ASSUME FreezeBegins(t) PROVE Shape'
  <2>1. UNCHANGED <<osVars, server, boots, govVars, ghostVars, fz, memCount>>
    BY <1>2, FlushShape DEF FreezeBegins
  <2>2. MachineTypes' /\ GovernorTypes' /\ GhostTypes'
    BY <2>1 DEF MachineTypes, GovernorTypes, GhostTypes
  <2>3. FreezerTypes' /\ ServerTypes'
    BY <1>2 DEF FreezeBegins, FreezerTypes, ServerTypes, Step, Ops
  <2>4. LedgerTypes'
    <3>1. snap'[t] \cap FirstBatch \in SUBSET Part
      BY <2>3 DEF FreezerTypes
    <3>2. Entry(TreeId("freezer", t), life[t], snap'[t] \cap FirstBatch) \in LedgerEntry
      BY <3>1, EntryShape DEF ServerTypes, MachineTypes, Lever
    <3> QED
      BY <1>2, <3>2, FlushTypes DEF FreezeBegins, LedgerTypes
  <2>5. PickedMayCount' /\ PlannedMayCount' /\ Asleep' /\ DownMayBoot'
    BY <2>1 DEF PickedMayCount, PlannedMayCount, Asleep, DownMayBoot
  <2>6. StretchOf'
    BY <1>2 DEF FreezeBegins, StretchOf, Step
  <2> QED
    BY <2>2, <2>3, <2>4, <2>5, <2>6
<1>3. ASSUME StopFirstBatch(t) PROVE Shape'
  <2>1. UNCHANGED <<os, life, diskVars, server, boots, freezeVars, govVars, ghostVars>>
    BY <1>3 DEF StopFirstBatch
  <2>2. MachineTypes' /\ LedgerTypes' /\ GovernorTypes' /\ GhostTypes' /\ FreezerTypes'
    BY <1>3, <2>1, StopShape DEF StopFirstBatch, MachineTypes, LedgerTypes, GovernorTypes,
                                 GhostTypes, FreezerTypes, Lever
  <2>3. ServerTypes' /\ StretchOf'
    BY <1>3 DEF StopFirstBatch, ServerTypes, StretchOf, Step, Ops
  <2>4. PickedMayCount' /\ PlannedMayCount' /\ Asleep' /\ DownMayBoot'
    BY <2>1 DEF PickedMayCount, PlannedMayCount, Asleep, DownMayBoot
  <2> QED
    BY <2>2, <2>3, <2>4
<1>4. ASSUME RecordSecondBatch(t) PROVE Shape'
  <2>1. UNCHANGED <<osVars, server, boots, freezeVars, govVars, ghostVars, memCount>>
    BY <1>4, FlushShape DEF RecordSecondBatch
  <2>2. MachineTypes' /\ GovernorTypes' /\ GhostTypes' /\ FreezerTypes'
    BY <2>1 DEF MachineTypes, GovernorTypes, GhostTypes, FreezerTypes
  <2>3. ServerTypes' /\ StretchOf'
    BY <1>4 DEF RecordSecondBatch, ServerTypes, StretchOf, Step, Ops
  <2>4. LedgerTypes'
    <3>1. snap[t] \ FirstBatch \in SUBSET Part
      BY DEF FreezerTypes
    <3>2. Entry(TreeId("freezer", t), life[t], snap[t] \ FirstBatch) \in LedgerEntry
      BY <3>1, EntryShape DEF ServerTypes, MachineTypes, Lever
    <3> QED
      BY <1>4, <3>2, FlushTypes DEF RecordSecondBatch, LedgerTypes
  <2>5. PickedMayCount' /\ PlannedMayCount' /\ Asleep' /\ DownMayBoot'
    BY <2>1 DEF PickedMayCount, PlannedMayCount, Asleep, DownMayBoot
  <2> QED
    BY <2>2, <2>3, <2>4, <2>5
<1>5. ASSUME StopSecondBatch(t) PROVE Shape'
  <2>1. UNCHANGED <<os, life, diskVars, server, boots, govVars, ghostVars>>
    BY <1>5 DEF StopSecondBatch
  <2>2. MachineTypes' /\ LedgerTypes' /\ GovernorTypes' /\ GhostTypes'
    BY <1>5, <2>1, StopShape DEF StopSecondBatch, MachineTypes, LedgerTypes, GovernorTypes,
                                 GhostTypes, Lever
  <2>3. FreezerTypes' /\ ServerTypes' /\ StretchOf'
    BY <1>5 DEF StopSecondBatch, FreezerTypes, ServerTypes, StretchOf, Idle, Ops
  <2>4. fz[t] = "reading" /\ Running
    BY <1>5 DEF StopSecondBatch, StretchOf, Step
  <2>5. PickedMayCount' /\ PlannedMayCount' /\ Asleep' /\ DownMayBoot'
    BY <1>5, <2>1, <2>4 DEF StopSecondBatch, PickedMayCount, PlannedMayCount, Asleep,
                            DownMayBoot, Running, FreezerTypes
  <2> QED
    BY <2>2, <2>3, <2>5
<1>6. ASSUME FreezeStands(t) PROVE Shape'
  <2>1. UNCHANGED <<osVars, server, boots, js, govVars, cut, unseen>>
    BY <1>6 DEF FreezeStands
  <2>2. MachineTypes' /\ ServerTypes' /\ GovernorTypes' /\ GhostTypes' /\ FreezerTypes'
    BY <1>6, <2>1 DEF FreezeStands, MachineTypes, ServerTypes, GovernorTypes, GhostTypes,
                      FreezerTypes
  <2>3. memCount[t][life[t]] + 1 \in 0..Limit
    <3>1. memCount[t][life[t]] \in 0..Limit /\ memCount[t][life[t]] < Limit
      BY <1>6 DEF FreezeStands, PickedMayCount, MachineTypes, LedgerTypes, Counts
    <3> QED
      BY <3>1, FreezeSettings
  <2>4. [memCount EXCEPT ![t][life[t]] = @ + 1] \in Counts
    BY <2>3 DEF LedgerTypes, MachineTypes, Counts
  <2>5. LedgerTypes'
    BY <1>6, <2>4, FlushTypes DEF FreezeStands, LedgerTypes
  <2>6. memCount' = [memCount EXCEPT ![t][life[t]] = @ + 1]
    BY <1>6, FlushShape DEF FreezeStands
  <2>7. \A u \in Tree : u # t => fz'[u] = fz[u] /\ memCount'[u] = memCount[u]
    BY <1>6, <2>6 DEF FreezeStands, FreezerTypes, LedgerTypes, Counts
  <2>8. fz'[t] = "frozen"
    BY <1>6 DEF FreezeStands, FreezerTypes
  <2>9. PickedMayCount'
    BY <2>1, <2>7, <2>8 DEF PickedMayCount
  <2>10. PlannedMayCount' /\ Asleep' /\ DownMayBoot' /\ StretchOf'
    BY <1>6, <2>1, <2>7, <2>8 DEF FreezeStands, PlannedMayCount, Asleep, DownMayBoot,
                                  StretchOf, Free, Running, Idle
  <2> QED
    BY <2>2, <2>5, <2>9, <2>10
<1>7. ASSUME NEW guarded \in BOOLEAN, FreezeRefused(t, guarded) \/ FreezeUndone(t, guarded)
      PROVE  Shape'
  <2>1. UNCHANGED <<osVars, diskVars, server, boots, govVars, ghostVars>>
    BY <1>7 DEF FreezeRefused, FreezeUndone
  <2>2. MachineTypes' /\ LedgerTypes' /\ GovernorTypes' /\ GhostTypes'
    BY <2>1 DEF MachineTypes, LedgerTypes, GovernorTypes, GhostTypes
  <2>3. FreezerTypes' /\ ServerTypes'
    <3>1. (disabled \/ guarded) \in BOOLEAN
      OBVIOUS
    <3>2. disabled' \in BOOLEAN
      BY <1>7, <3>1 DEF FreezeRefused, FreezeUndone
    <3>3. tired' \subseteq Tree
      BY <1>7 DEF FreezeRefused, FreezeUndone, FreezerTypes
    <3>4. fz' \in [Tree -> {"no", "reading", "checking", "frozen", "thawing"}]
      BY <1>7 DEF FreezeRefused, FreezeUndone, FreezerTypes
    <3>5. snap' \in [Tree -> SUBSET Part] /\ beatOn' \in Tree \cup {NoTree}
      BY <1>7 DEF FreezeRefused, FreezeUndone, FreezerTypes
    <3>6. Step("cont2", t, TRUE) \in [op : Ops, tree : Tree \cup {NoTree}, mute : BOOLEAN]
      BY DEF Step, Ops
    <3>7. ServerTypes'
      BY <1>7, <3>6 DEF FreezeRefused, FreezeUndone, ServerTypes
    <3> QED
      BY <3>2, <3>3, <3>4, <3>5, <3>7 DEF FreezerTypes
  <2>4. PickedMayCount' /\ PlannedMayCount' /\ Asleep' /\ DownMayBoot'
    BY <1>7, <2>1 DEF FreezeRefused, FreezeUndone, PickedMayCount, PlannedMayCount, Asleep,
                      DownMayBoot, Free, Running, FreezerTypes
  <2>5. StretchOf'
    BY <1>7 DEF FreezeRefused, FreezeUndone, StretchOf, Step, Free, Idle
  <2> QED
    BY <2>2, <2>3, <2>4, <2>5
<1> QED
  BY <1>1, <1>2, <1>3, <1>4, <1>5, <1>6, <1>7

\* The ways a freeze ends.
LEMMA ThawShape ==
  ASSUME Shape,
         \/ EpisodeEnds
         \/ \E t \in Tree : Releases(t) \/ Thawing(t)
         \/ \E t \in Tree, useless \in BOOLEAN : BeatThaws(t, useless)
  PROVE  Shape'
<1> USE TreeNames DEF Shape, TypeOK
<1>1. UNCHANGED <<os, life, server, boots, govVars, ghostVars, memCount>>
  BY FlushShape DEF EpisodeEnds, Releases, Thawing, ThawReads, ThawSecondBatch,
                    ThawFirstBatch, ThawEnds, BeatThaws
<1>2. GovernorTypes' /\ GhostTypes' /\ PlannedMayCount' /\ DownMayBoot'
  BY <1>1 DEF GovernorTypes, GhostTypes, PlannedMayCount, DownMayBoot
<1>3. CASE EpisodeEnds
  BY <1>1, <1>2, <1>3 DEF EpisodeEnds, MachineTypes, LedgerTypes, ServerTypes, FreezerTypes,
                          PickedMayCount, StretchOf, Asleep
<1>4. ASSUME NEW t \in Tree, NEW useless \in BOOLEAN, Releases(t) \/ BeatThaws(t, useless)
      PROVE  Shape'
  <2>1. MachineTypes' /\ LedgerTypes' /\ ServerTypes' /\ FreezerTypes'
    BY <1>4 DEF Releases, BeatThaws, MachineTypes, LedgerTypes, ServerTypes, FreezerTypes
  <2>2. PickedMayCount' /\ StretchOf' /\ Asleep'
    BY <1>1, <1>4 DEF Releases, BeatThaws, PickedMayCount, StretchOf, Asleep, FreezerTypes,
                      Free, Running, Idle
  <2> QED
    BY <1>2, <2>1, <2>2
<1>5. ASSUME NEW t \in Tree, NEW mute \in BOOLEAN, ThawReads(t, mute) PROVE Shape'
  BY <1>2, <1>5 DEF ThawReads, MachineTypes, LedgerTypes, ServerTypes, FreezerTypes,
                    PickedMayCount, StretchOf, Asleep, Step, Ops
<1>6. ASSUME NEW t \in Tree, ThawSecondBatch(t) \/ ThawFirstBatch(t) PROVE Shape'
  <2>1. UNCHANGED <<os, life, diskVars, server, boots, freezeVars>>
    BY <1>6 DEF ThawSecondBatch, ThawFirstBatch
  <2>2. MachineTypes'
    BY <1>6, <2>1, ContShape DEF ThawSecondBatch, ThawFirstBatch, MachineTypes
  <2>3. LedgerTypes' /\ FreezerTypes' /\ PickedMayCount' /\ Asleep'
    BY <1>1, <2>1 DEF LedgerTypes, FreezerTypes, PickedMayCount, Asleep
  <2>4. ServerTypes' /\ StretchOf'
    BY <1>6 DEF ThawSecondBatch, ThawFirstBatch, ServerTypes, StretchOf, Step, Ops
  <2> QED
    BY <1>2, <2>2, <2>3, <2>4
<1>7. ASSUME NEW t \in Tree, ThawEnds(t) PROVE Shape'
  <2>1. MachineTypes' /\ ServerTypes' /\ FreezerTypes'
    BY <1>7 DEF ThawEnds, MachineTypes, ServerTypes, FreezerTypes, Idle, Ops
  <2>2. LedgerTypes'
    BY <1>7, FlushTypes, WithoutShape DEF ThawEnds, LedgerTypes
  <2>3. PickedMayCount' /\ StretchOf' /\ Asleep'
    BY <1>1, <1>7 DEF ThawEnds, PickedMayCount, StretchOf, Asleep, FreezerTypes, Running, Idle
  <2> QED
    BY <1>2, <2>1, <2>2, <2>3
<1> QED
  BY <1>3, <1>4, <1>5, <1>6, <1>7 DEF Thawing

\* The governor.
LEMMA GovernorShape ==
  ASSUME Shape, Governor
  PROVE  Shape'
<1> USE TreeNames DEF Shape, TypeOK
<1>1. PICK t \in Tree : GovPlans(t) \/ GovThaws(t) \/ Governing(t)
  BY DEF Governor
<1>2. PICK seen \in Readings(t) :
        \/ GovPlans(t) \/ GovThaws(t) \/ GovRecordThrows(t) \/ GovBegins(t) \/ GovStopsGroup(t)
        \/ GovRecords(t, seen) \/ GovStopsPids(t, seen) \/ GovContinues(t, seen)
  <2>1. Readings(t) # {}
    <3>1. "root" \in Alive(t) => Alive(t) \in Readings(t)
      BY DEF Readings
    <3>2. "root" \notin Alive(t) => {} \in Readings(t)
      BY DEF Readings
    <3> QED
      BY <3>1, <3>2
  <2> QED
    BY <1>1, <2>1 DEF Governing
<1>3. UNCHANGED <<os, life, server, boots, freezeVars, times, memCount>>
  BY <1>2, FlushShape DEF GovPlans, GovThaws, GovRecordThrows, GovBegins, GovRecords,
                          GovStopsGroup, GovStopsPids, GovContinues
<1>4. FreezerTypes' /\ PickedMayCount' /\ DownMayBoot'
  BY <1>3 DEF FreezerTypes, PickedMayCount, DownMayBoot
<1>5. GhostTypes'
  <2>1. cut' \in {cut, cut \cup {t}} /\ unseen' \in {unseen, unseen \cup {t}, unseen \ {t}}
    BY <1>2 DEF GovPlans, GovThaws, GovRecordThrows, GovBegins, GovRecords,
                GovStopsGroup, GovStopsPids, GovContinues
  <2> QED
    BY <1>3, <2>1 DEF GhostTypes
<1>6. CASE GovPlans(t) \/ GovThaws(t) \/ GovRecordThrows(t)
  <2>1. UNCHANGED <<by, diskVars, js, gcount>>
    BY <1>6 DEF GovPlans, GovThaws, GovRecordThrows
  <2>2. MachineTypes' /\ LedgerTypes' /\ ServerTypes'
    BY <1>3, <2>1 DEF MachineTypes, LedgerTypes, ServerTypes
  <2>3. js.tree # t \/ gstop' = gstop
    BY <1>6 DEF GovPlans, GovThaws, GovRecordThrows, Free, Idle
  <2>4. StretchOf'
    BY <1>3, <1>6, <2>1, <2>3 DEF GovPlans, GovThaws, GovRecordThrows, StretchOf, GovernorTypes
  <2>5. GovernorTypes'
    BY <1>6 DEF GovPlans, GovThaws, GovRecordThrows, GovernorTypes
  <2>6. PlannedMayCount' /\ Asleep'
    BY <1>3, <1>6, <2>1 DEF GovPlans, GovThaws, GovRecordThrows, PlannedMayCount, Asleep,
                            GovernorTypes, Free, Running
  <2> QED
    BY <1>4, <1>5, <2>2, <2>4, <2>5, <2>6
<1>7. CASE GovBegins(t) \/ GovRecords(t, seen)
  <2>1. UNCHANGED <<by, govVars>>
    BY <1>7 DEF GovBegins, GovRecords
  <2>2. MachineTypes' /\ GovernorTypes' /\ PlannedMayCount' /\ Asleep'
    BY <1>3, <2>1 DEF MachineTypes, GovernorTypes, PlannedMayCount, Asleep
  <2>3. ServerTypes' /\ StretchOf'
    <3>1. js' \in {Step("gadd", t, FALSE), Step("gstop", t, FALSE)} /\ gstop[t] = "recording"
      BY <1>7 DEF GovBegins, GovRecords, StretchOf, Step
    <3>2. ServerTypes'
      <4>1. \A op \in Ops : Step(op, t, FALSE) \in [op : Ops, tree : Tree \cup {NoTree}, mute : BOOLEAN]
        BY DEF Step
      <4>2. {"gadd", "gstop"} \subseteq Ops
        BY DEF Ops
      <4>3. js' \in [op : Ops, tree : Tree \cup {NoTree}, mute : BOOLEAN]
        BY <3>1, <4>1, <4>2
      <4> QED
        BY <1>3, <4>3 DEF ServerTypes
    <3>3. \A u \in Tree : js'.tree = u => u = t /\ js'.op \in {"gadd", "gstop"}
      BY <3>1 DEF Step
    <3> QED
      BY <2>1, <3>1, <3>2, <3>3 DEF StretchOf
  <2>4. LedgerTypes'
    <3>1. ASSUME NEW parts \in SUBSET Part,
                 Flush(Without(mem, TreeId("governor", t))
                         \cup {Entry(TreeId("governor", t), life[t], parts)}, memCount)
          PROVE  LedgerTypes'
      <4>1. Entry(TreeId("governor", t), life[t], parts) \in LedgerEntry
        BY EntryShape DEF ServerTypes, MachineTypes, Lever
      <4>2. Without(mem, TreeId("governor", t)) \cup {Entry(TreeId("governor", t), life[t], parts)}
              \subseteq LedgerEntry
        BY <4>1, WithoutShape DEF LedgerTypes
      <4>3. memCount \in Counts
        BY DEF LedgerTypes
      <4> QED
        BY <3>1, <4>2, <4>3, FlushTypes
    <3>2. seen \in SUBSET Part /\ {} \in SUBSET Part
      BY ReadingShape
    <3> QED
      BY <1>7, <3>1, <3>2 DEF GovBegins, GovRecords
  <2> QED
    BY <1>4, <1>5, <2>2, <2>3, <2>4
<1>8. CASE GovStopsGroup(t) \/ GovStopsPids(t, seen)
  <2>1. UNCHANGED diskVars
    BY <1>8 DEF GovStopsGroup, GovStopsPids
  <2>2. by' \in [Tree -> [Part -> SUBSET Lever]]
    <3>1. CASE GovStopsGroup(t)
      BY <3>1, StopShape DEF GovStopsGroup, MachineTypes, Lever
    <3>2. CASE GovStopsPids(t, seen)
      <4>1. \A p \in Part : by[t][p] \cup {"governor"} \in SUBSET Lever
        BY DEF MachineTypes, Lever
      <4> QED
        BY <3>2, <4>1 DEF GovStopsPids, MachineTypes
    <3> QED
      BY <1>8, <3>1, <3>2
  <2>3. MachineTypes' /\ LedgerTypes'
    BY <1>3, <2>1, <2>2 DEF MachineTypes, LedgerTypes
  <2>4. ServerTypes' /\ StretchOf'
    <3>1. js' = Idle
      BY <1>8 DEF GovStopsGroup, GovStopsPids, Free
    <3> QED
      BY <1>3, <3>1 DEF ServerTypes, StretchOf, Idle, Ops
  <2>5. GovStopsPids(t, seen) => gcount[t] + 1 \in 0..Limit
    <3>1. GovStopsPids(t, seen) => gcount[t] \in 0..Limit /\ gcount[t] < Limit
      BY DEF GovStopsPids, PlannedMayCount, GovernorTypes
    <3> QED
      BY <3>1, FreezeSettings
  <2>6. GovernorTypes'
    BY <1>8, <2>5 DEF GovStopsGroup, GovStopsPids, GovernorTypes
  <2>7. CASE GovStopsGroup(t)
    <3>1. gstop[t] # "no" => PlannedMayCount'
      BY <2>7 DEF GovStopsGroup, PlannedMayCount, GovernorTypes
    <3>2. Running
      BY <2>7 DEF GovStopsGroup
    <3>3. gstop[t] # "no"
      BY <2>7 DEF GovStopsGroup, StretchOf, Step
    <3> QED
      BY <1>3, <1>4, <1>5, <2>3, <2>4, <2>6, <2>7, <3>1, <3>2, <3>3
         DEF GovStopsGroup, Asleep, Running
  <2>8. CASE GovStopsPids(t, seen)
    <3>1. PlannedMayCount'
      BY <2>8 DEF GovStopsPids, PlannedMayCount, GovernorTypes
    <3> QED
      BY <1>3, <1>4, <1>5, <2>3, <2>4, <2>6, <2>8, <3>1
         DEF GovStopsPids, Asleep, Free, Running
  <2> QED
    BY <1>8, <2>7, <2>8
<1>9. CASE GovContinues(t, seen)
  <2>1. LedgerTypes'
    BY <1>9, FlushTypes, WithoutShape DEF GovContinues, LedgerTypes
  <2>2. MachineTypes'
    BY <1>3, <1>9, ContShape DEF GovContinues, MachineTypes
  <2>3. ServerTypes' /\ StretchOf' /\ GovernorTypes'
    BY <1>3, <1>9 DEF GovContinues, ServerTypes, StretchOf, GovernorTypes
  <2>4. PlannedMayCount' /\ Asleep'
    BY <1>3, <1>9 DEF GovContinues, PlannedMayCount, Asleep, Free, Running
  <2> QED
    BY <1>4, <1>5, <2>1, <2>2, <2>3, <2>4
<1> QED
  BY <1>2, <1>6, <1>7, <1>8, <1>9

\* The life of the server.
LEMMA ServerShape ==
  ASSUME Shape, Shutdown \/ Dies \/ Booting
  PROVE  Shape'
<1> USE TreeNames DEF Shape, TypeOK
<1>1. CASE Shutdown
  <2>1. UNCHANGED <<osVars, diskVars, boots, js, freezeVars, gstop, gcount, times,
                  unseen>>
    BY <1>1 DEF Shutdown
  <2>2. MachineTypes' /\ LedgerTypes' /\ FreezerTypes' /\ StretchOf' /\ PickedMayCount'
           /\ PlannedMayCount'
    BY <2>1 DEF MachineTypes, LedgerTypes, FreezerTypes, StretchOf, PickedMayCount,
                PlannedMayCount
  <2>3. ServerTypes' /\ GhostTypes' /\ Asleep' /\ DownMayBoot'
    BY <1>1, <2>1 DEF Shutdown, ServerTypes, GhostTypes, Asleep, DownMayBoot
  <2>4. GovernorTypes'
    <3>1. \A u \in Tree : (gcont[u] \/ u \in glist) \in BOOLEAN
      OBVIOUS
    <3>2. gcont' \in [Tree -> BOOLEAN]
      BY <1>1, <3>1 DEF Shutdown
    <3> QED
      BY <1>1, <2>1, <3>2 DEF Shutdown, GovernorTypes
  <2> QED
    BY <2>2, <2>3, <2>4
<1>2. CASE Dies
  <2>1. MachineTypes' /\ LedgerTypes' /\ GhostTypes'
    BY <1>2 DEF Dies, MachineTypes, LedgerTypes, GhostTypes
  <2>2. ServerTypes'
    BY <1>2 DEF Dies, ServerTypes, Idle, Ops
  <2>4. FreezerTypes'
    BY <1>2 DEF Dies, FreezerTypes
  <2>5. GovernorTypes'
    <3>1. 0 \in 0..Limit
      BY FreezeSettings
    <3> QED
      BY <1>2, <3>1 DEF Dies, GovernorTypes
  <2>3. PickedMayCount' /\ PlannedMayCount' /\ StretchOf' /\ Asleep' /\ DownMayBoot'
    BY <1>2 DEF Dies, PickedMayCount, PlannedMayCount, StretchOf, Asleep, DownMayBoot, Idle
  <2> QED
    BY <2>1, <2>2, <2>3, <2>4, <2>5
<1>3. CASE Boots
  <2>1. MachineTypes' /\ FreezerTypes' /\ GovernorTypes' /\ GhostTypes' /\ PlannedMayCount'
    BY <1>3 DEF Boots, MachineTypes, FreezerTypes, GovernorTypes, GhostTypes, PlannedMayCount
  <2>2. Asleep' /\ PickedMayCount' /\ StretchOf' /\ DownMayBoot'
    BY <1>3 DEF Boots, Asleep, PickedMayCount, StretchOf, DownMayBoot
  <2>5. LedgerTypes'
    <3>1. NoTimes \in Counts
      BY FreezeSettings DEF NoTimes, Counts
    <3> QED
      BY <1>3, <3>1 DEF Boots, LedgerRead, LedgerTypes
  <2>3. boots + 1 \in 0..MaxBoots
    BY <1>3, FreezeSettings DEF Boots, DownMayBoot, ServerTypes
  <2>4. ServerTypes'
    BY <1>3, <2>3 DEF Boots, ServerTypes
  <2> QED
    BY <2>1, <2>2, <2>4, <2>5
<1>4. ASSUME NEW mute \in BOOLEAN, BootThaw(mute) PROVE Shape'
  <2>1. by' \in [Tree -> [Part -> SUBSET Lever]]
    BY <1>4 DEF BootThaw, MachineTypes
  <2>2. MachineTypes' /\ LedgerTypes' /\ FreezerTypes' /\ GovernorTypes' /\ GhostTypes'
    BY <1>4, <2>1 DEF BootThaw, MachineTypes, LedgerTypes, FreezerTypes, GovernorTypes,
                      GhostTypes
  <2>3. ServerTypes' /\ StretchOf' /\ PickedMayCount' /\ PlannedMayCount' /\ Asleep'
           /\ DownMayBoot'
    BY <1>4 DEF BootThaw, ServerTypes, StretchOf, PickedMayCount, PlannedMayCount, Asleep,
                DownMayBoot, Step, Ops
  <2> QED
    BY <2>2, <2>3
<1>5. CASE BootClears
  <2>1. UNCHANGED <<osVars, boots, freezeVars, govVars, ghostVars, memCount>>
    BY <1>5, FlushShape DEF BootClears
  <2>2. MachineTypes' /\ FreezerTypes' /\ GovernorTypes' /\ GhostTypes' /\ PickedMayCount'
           /\ PlannedMayCount'
    BY <2>1 DEF MachineTypes, FreezerTypes, GovernorTypes, GhostTypes, PickedMayCount,
                PlannedMayCount
  <2>3. LedgerTypes'
    BY <1>5, FlushTypes DEF BootClears, LedgerTypes
  <2>4. ServerTypes' /\ StretchOf' /\ Asleep' /\ DownMayBoot'
    BY <1>5, <2>1 DEF BootClears, ServerTypes, StretchOf, Asleep, DownMayBoot, Idle, Ops
  <2> QED
    BY <2>2, <2>3, <2>4
<1> QED
  BY <1>1, <1>2, <1>3, <1>4, <1>5 DEF Booting

LEMMA ShapeNext == Shape /\ [Next]_vars => Shape'
<1>1. ASSUME Shape, Next PROVE Shape'
  <2>1. CASE Freezer
    BY <1>1, <2>1, FreezeShape, ThawShape DEF Freezer, Freezing
  <2> QED
    BY <1>1, <2>1, MachineShape, GovernorShape, ServerShape DEF Next
<1>2. ASSUME Shape, UNCHANGED vars PROVE Shape'
  BY <1>2 DEF vars, Shape, TypeOK, MachineTypes, LedgerTypes, ServerTypes, FreezerTypes,
              GovernorTypes, GhostTypes, PickedMayCount, PlannedMayCount, StretchOf,
              Asleep, DownMayBoot
<1> QED
  BY <1>1, <1>2

(* The shapes of every variable, for any commands, limits and bounds, with or   *)
(* without failing writes; the counts of no ledger ever pass the limit.         *)
THEOREM FreezeShapesAreKept == Spec => []TypeOK
<1>1. Shape => TypeOK
  BY DEF Shape
<1> QED
  BY ShapeInit, ShapeNext, <1>1, PTL DEF Spec

-----------------------------------------------------------------------------
(* What is stopped is on disk *)

\* Every write reached the disk: no death of the server loses one.
DiskIsMemory == disk = mem /\ diskCount = memCount

OnlyTheLivingAreStopped ==
  \A t \in Tree : \A p \in Part : by[t][p] # {} => os[t][p] = "run"

\* The batch about to be stopped is on disk.
BatchIsRecorded ==
  \A t \in Tree :
    /\ js = Step("stop1", t, FALSE) =>
         Entry(TreeId("freezer", t), life[t], snap[t] \cap FirstBatch) \in disk
    /\ js = Step("stop2", t, FALSE) =>
         Entry(TreeId("freezer", t), life[t], snap[t] \ FirstBatch) \in disk

\* What an entry covers: its parts, and kin through the leader of its group.
Covers(e, t, p) ==
  /\ e.tree = t /\ e.life = life[t]
  /\ p \in e.parts \/ (p = "kin" /\ "root" \in e.parts /\ os[t]["root"] = "run")

\* The record of a tree is dropped only when what it covers runs again.
ThawedByBatches ==
  \A e \in mem : IdOf(e) = TreeId("freezer", js.tree) =>
    /\ js.op \in {"cont1", "release"} =>
         \A p \in Part \ FirstBatch : Covers(e, js.tree, p) => by[js.tree][p] = {}
    /\ js.op = "release" =>
         \A p \in Part : Covers(e, js.tree, p) => by[js.tree][p] = {}
ThawedAtBoot ==
  server = "continued" =>
    \A e \in mem : \A t \in Tree : \A p \in Part : Covers(e, t, p) => by[t][p] = {}

\* The governor's record holds every process its stop will find, but for children
\* forked since and what the reading missed; and a SIGCONT of its own that overtakes
\* the stop is known.
GovernorHas(t) ==
  \E e \in disk : /\ e.lever = "governor" /\ e.tree = t /\ e.life = life[t]
                  /\ "root" \in e.parts
                  /\ os[t]["rest"] = "run" => "rest" \in e.parts \/ t \in unseen
StopIsRecorded ==
  \A t \in Tree :
    /\ js = Step("gstop", t, FALSE) => GovernorHas(t)
    /\ gstop[t] = "hitting" /\ t \notin cut => GovernorHas(t)
DownIsIdle == server = "down" => js = Idle
OneSignalAtATime == \A t \in Tree : gcont[t] /\ gstop[t] # "no" => t \in cut

\* The governor holds nothing of a tree that a record of it would have to name.
Untouched(t) ==
  os[t]["root"] = "run" =>
    \A p \in Part \ {"stray"} : "governor" \in by[t][p] => p = "rest" /\ t \in unseen
\* It holds nothing of a tree when it begins its record, nor of one it has left.
NothingToContinue ==
  \A t \in Tree \ cut :
    /\ gstop[t] = "recording" /\ js # Step("gstop", t, FALSE) => Untouched(t)
    /\ gstop[t] = "no" /\ t \notin glist /\ ~gcont[t] /\ server \notin {"down", "boot"}
         => Untouched(t)
    /\ gstop[t] # "no" => t \in glist

Records ==
  /\ DiskIsMemory /\ DownIsIdle /\ OnlyTheLivingAreStopped /\ BatchIsRecorded
  /\ ThawedByBatches /\ ThawedAtBoot /\ StopIsRecorded /\ OneSignalAtATime
  /\ NothingToContinue
  /\ FreezerStopsAreOnDisk /\ GovernorStopsAreOnDisk

LEMMA RecordsInit == ~DiskFails /\ Init => Records
<1> SUFFICES ASSUME ~DiskFails, Init PROVE Records
  OBVIOUS
<1>1. /\ DiskIsMemory /\ DownIsIdle /\ OnlyTheLivingAreStopped /\ ThawedByBatches
      /\ ThawedAtBoot
  BY DEF Init, DiskIsMemory, DownIsIdle, OnlyTheLivingAreStopped, ThawedByBatches, ThawedAtBoot
<1>2. BatchIsRecorded /\ StopIsRecorded /\ OneSignalAtATime
  BY DEF Init, BatchIsRecorded, StopIsRecorded, OneSignalAtATime, Idle, Step
<1>3. FreezerStopsAreOnDisk /\ GovernorStopsAreOnDisk /\ NothingToContinue
  BY DEF Init, FreezerStopsAreOnDisk, GovernorStopsAreOnDisk, NothingToContinue, Untouched
<1> QED
  BY <1>1, <1>2, <1>3 DEF Records

\* A step that touches neither processes nor ledger.
LEMMA QuietRecords ==
  ASSUME ~DiskFails, Shape, Records,
         \/ \E t \in Tree : BeatPicks(t) \/ Releases(t) \/ GovPlans(t) \/ GovRecordThrows(t)
                              \/ GovThaws(t)
         \/ \E t \in Tree, b \in BOOLEAN : FreezeRefused(t, b) \/ FreezeUndone(t, b)
                              \/ BeatThaws(t, b) \/ ThawReads(t, b)
         \/ EpisodeEnds \/ Shutdown \/ Dies \/ Boots
  PROVE  Records'
<1> USE DEF Records
<1>1. UNCHANGED osVars /\ UNCHANGED disk /\ UNCHANGED diskCount
  BY DEF BeatPicks, Releases, GovPlans, GovRecordThrows, GovThaws, FreezeRefused,
         FreezeUndone, BeatThaws, ThawReads, EpisodeEnds, Shutdown, Dies, Boots
<1>2. mem' = mem /\ memCount' = memCount /\ unseen' = unseen
  BY DEF LedgerRead, BeatPicks, Releases, GovPlans, GovRecordThrows, GovThaws, FreezeRefused,
         FreezeUndone, BeatThaws, ThawReads, EpisodeEnds, Shutdown, Dies, Boots, DiskIsMemory
<1>3. /\ js' = Idle \/ (\E t \in Tree, b \in BOOLEAN : js' = Step("cont2", t, b)) \/ js' = js
      /\ js' = js => js = Idle
  BY DEF DownIsIdle, BeatPicks, Releases, GovPlans, GovRecordThrows, GovThaws, FreezeRefused,
         Free,
         FreezeUndone, BeatThaws, ThawReads, EpisodeEnds, Shutdown, Dies, Boots
<1>4. server' # "continued"
  BY DEF BeatPicks, Releases, GovPlans, GovRecordThrows, GovThaws, FreezeRefused, Free, Running,
         FreezeUndone, BeatThaws, ThawReads, EpisodeEnds, Shutdown, Dies, Boots
<1>5. \A t \in Tree : gstop'[t] = "hitting" /\ t \notin cut' => gstop[t] = "hitting" /\ t \notin cut
  BY DEF BeatPicks, Releases, GovPlans, GovRecordThrows, GovThaws, FreezeRefused, Shape, TypeOK,
         FreezeUndone, BeatThaws, ThawReads, EpisodeEnds, Shutdown, Dies, Boots, GovernorTypes
<1>6. cut \subseteq cut'
  BY DEF BeatPicks, Releases, GovPlans, GovRecordThrows, GovThaws, FreezeRefused,
         FreezeUndone, BeatThaws, ThawReads, EpisodeEnds, Shutdown, Dies, Boots
<1>7. OneSignalAtATime'
  BY DEF BeatPicks, Releases, GovPlans, GovRecordThrows, GovThaws, FreezeRefused, Shape, TypeOK,
         FreezeUndone, BeatThaws, ThawReads, EpisodeEnds, Shutdown, Dies, Boots, GovernorTypes,
         OneSignalAtATime
<1>8. DiskIsMemory' /\ OnlyTheLivingAreStopped'
  BY <1>1, <1>2 DEF DiskIsMemory, OnlyTheLivingAreStopped
<1>13. DownIsIdle'
  BY DEF BeatPicks, Releases, GovPlans, GovRecordThrows, GovThaws, FreezeRefused, Free, Running,
         FreezeUndone, BeatThaws, ThawReads, EpisodeEnds, Shutdown, Dies, Boots, DownIsIdle
<1>9. BatchIsRecorded'
  <2>1. CASE js' = js
    BY <1>3, <2>1 DEF BatchIsRecorded, Step, Idle
  <2> QED
    BY <1>3, <2>1 DEF BatchIsRecorded, Step, Idle
<1>10. ThawedByBatches' /\ ThawedAtBoot'
  <2>1. ThawedAtBoot'
    BY <1>4 DEF ThawedAtBoot
  <2>2. js'.op \notin {"cont1", "release"}
    BY <1>3 DEF Step, Idle
  <2> QED
    BY <2>1, <2>2 DEF ThawedByBatches
<1>11. StopIsRecorded'
  <2>1. \A t \in Tree : GovernorHas(t) => GovernorHas(t)'
    BY <1>1, <1>2 DEF GovernorHas
  <2> QED
    BY <1>3, <1>5, <2>1 DEF StopIsRecorded, Step, Idle
<1>12. FreezerStopsAreOnDisk' /\ GovernorStopsAreOnDisk'
  BY <1>1, <1>2, <1>6 DEF FreezerStopsAreOnDisk, GovernorStopsAreOnDisk, OnDisk
<1>14. NothingToContinue'
  <2> SUFFICES ASSUME NEW u \in Tree, u \notin cut'
               PROVE  /\ gstop'[u] = "recording" => Untouched(u)'
                      /\ gstop'[u] = "no" /\ u \notin glist' /\ ~gcont'[u]
                           /\ server' \notin {"down", "boot"} => Untouched(u)'
                      /\ gstop'[u] # "no" => u \in glist'
    BY DEF NothingToContinue
  <2>1. u \notin cut /\ (Untouched(u) => Untouched(u)')
    BY <1>1, <1>2, <1>6 DEF Untouched
  <2>2. CASE UNCHANGED govVars /\ UNCHANGED server /\ js = Idle
    BY <2>1, <2>2 DEF NothingToContinue, Step, Idle
  <2>3. ASSUME NEW t \in Tree, GovPlans(t) \/ GovRecordThrows(t) \/ GovThaws(t)
        PROVE  /\ gstop'[u] = "recording" => Untouched(u)
               /\ gstop'[u] = "no" /\ u \notin glist' /\ ~gcont'[u]
                    /\ server' \notin {"down", "boot"} => Untouched(u)
               /\ gstop'[u] # "no" => u \in glist'
    <3>1. js = Idle /\ Running /\ UNCHANGED server
      BY <2>3 DEF GovPlans, GovRecordThrows, GovThaws, Free, Running
    <3>2. CASE u = t
      BY <2>1, <2>3, <3>1, <3>2 DEF GovPlans, GovRecordThrows, GovThaws, NothingToContinue,
         Running, Step, Idle, Shape, TypeOK, GovernorTypes
    <3>3. CASE u # t
      <4>1. gstop'[u] = gstop[u] /\ (u \in glist' <=> u \in glist) /\ gcont'[u] = gcont[u]
        BY <2>3, <3>3 DEF GovPlans, GovRecordThrows, GovThaws, Shape, TypeOK, GovernorTypes
      <4> QED
        BY <2>1, <3>1, <4>1 DEF NothingToContinue, Running, Step, Idle
    <3> QED
      BY <3>2, <3>3
  <2>4. CASE Shutdown
    BY <2>1, <2>4 DEF Shutdown, NothingToContinue, Step, Idle
  <2>5. CASE Dies \/ Boots
    BY <2>5 DEF Dies, Boots, Shape, Asleep
  <2> QED
    BY <2>1, <2>2, <2>3, <2>4, <2>5
       DEF BeatPicks, Releases, FreezeRefused, FreezeUndone, BeatThaws, ThawReads, EpisodeEnds,
           Free
<1> QED
  BY <1>14, <1>7, <1>8, <1>9, <1>10, <1>11, <1>12, <1>13

\* Processes come, fork and go.
LEMMA MachineRecords ==
  ASSUME ~DiskFails, Shape, Records, Machine
  PROVE  Records'
<1> USE DEF Records
<1>1. UNCHANGED <<diskVars, server, boots, js, freezeVars, govVars>>
  BY DEF Machine, Exits, Forks, PidsUsedAgain
<1>2. DiskIsMemory' /\ DownIsIdle'
  BY <1>1 DEF DiskIsMemory, DownIsIdle
<1>3. PICK t \in Tree : (\E parts \in SUBSET Part : Exits(t, parts))
                        \/ (\E p \in Part : Forks(t, p)) \/ PidsUsedAgain(t)
  BY DEF Machine
\* A process of another tree is as it was; one of this tree that is stopped now was
\* stopped before, and its leader too if it runs.
<1>4. /\ \A u \in Tree : u # t => os'[u] = os[u] /\ by'[u] = by[u] /\ life'[u] = life[u]
                                /\ (u \in unseen' <=> u \in unseen)
                                /\ (u \in cut' <=> u \in cut)
      /\ \A p \in Part : by'[t][p] = by[t][p] \/ by'[t][p] = {}
  BY <1>3 DEF Exits, Forks, PidsUsedAgain, Shape, TypeOK, MachineTypes
<1>5. OnlyTheLivingAreStopped'
  <2>1. \A p \in Part : by'[t][p] # {} => os'[t][p] = "run"
    BY <1>3 DEF Exits, Forks, PidsUsedAgain, Shape, TypeOK, MachineTypes, Alive,
                OnlyTheLivingAreStopped
  <2> QED
    BY <1>4, <2>1 DEF OnlyTheLivingAreStopped
\* The leader of the group did not come back, and the pids are the same, unless
\* nothing of the tree is stopped.
<1>6. \/ /\ \A p \in {"root", "rest"} : os'[t][p] = "run" => os[t][p] = "run"
         /\ life'[t] = life[t] /\ UNCHANGED <<cut, unseen>>
      \/ /\ \A p \in Part : by[t][p] = {} /\ by'[t][p] = {}
         /\ js.tree # t /\ gstop[t] = "no"
  <2>1. CASE PidsUsedAgain(t)
    BY <2>1 DEF PidsUsedAgain, OnlyTheLivingAreStopped, Alive
  <2>2. ASSUME NEW parts \in SUBSET Part, Exits(t, parts)
        PROVE  /\ \A p \in {"root", "rest"} : os'[t][p] = "run" => os[t][p] = "run"
               /\ life'[t] = life[t] /\ UNCHANGED <<cut, unseen>>
    BY <2>2 DEF Exits, Shape, TypeOK, MachineTypes, Part
  <2>3. ASSUME NEW q \in Part, Forks(t, q)
        PROVE  /\ \A p \in {"root", "rest"} : os'[t][p] = "run" => os[t][p] = "run"
               /\ life'[t] = life[t] /\ UNCHANGED <<cut, unseen>>
    BY <2>3, FreezeSettings DEF Forks, Shape, TypeOK, MachineTypes, Part
  <2> QED
    BY <1>3, <2>1, <2>2, <2>3
<1>7. \A e \in mem : \A u \in Tree : \A p \in Part :
        Covers(e, u, p)' /\ by'[u][p] # {} => Covers(e, u, p) /\ by[u][p] # {}
  BY <1>4, <1>6 DEF Covers
<1>8. BatchIsRecorded'
  <2>1. \A u \in Tree : js.tree = u => life'[u] = life[u]
    BY <1>4, <1>6
  <2> QED
    BY <1>1, <2>1 DEF BatchIsRecorded, Step, Entry, TreeId
<1>9. ThawedByBatches' /\ ThawedAtBoot'
  <2>1. ThawedAtBoot'
    BY <1>1, <1>7 DEF ThawedAtBoot
  <2>2. \A e \in mem : \A u : IdOf(e) = TreeId("freezer", u) => u = e.tree
    BY DEF IdOf, TreeId
  <2>3. \A e \in mem : e.tree \in Tree
    BY DEF Shape, TypeOK, LedgerTypes, LedgerEntry
  <2>4. (\A e \in mem : IdOf(e)' = IdOf(e)) /\ TreeId("freezer", js.tree)' = TreeId("freezer", js.tree)
    BY <1>1 DEF IdOf, TreeId
  <2> QED
    BY <1>1, <1>7, <2>1, <2>2, <2>3, <2>4 DEF ThawedByBatches
<1>10. StopIsRecorded' /\ OneSignalAtATime'
  <2>1. ASSUME NEW u \in Tree, js.tree = u \/ gstop[u] # "no", GovernorHas(u)
        PROVE  GovernorHas(u)'
    BY <1>1, <1>4, <1>6, <2>1 DEF GovernorHas
  <2>2. \A u \in Tree : u \in cut /\ gstop[u] # "no" => u \in cut'
    BY <1>3 DEF Exits, Forks, PidsUsedAgain
  <2>3. cut' \subseteq cut
    BY <1>3 DEF Exits, Forks, PidsUsedAgain
  <2>4. OneSignalAtATime'
    BY <1>1, <2>2 DEF OneSignalAtATime
  <2>5. \A u \in Tree : u \notin cut' /\ gstop[u] # "no" => u \notin cut
    BY <2>2
  <2> QED
    BY <1>1, <2>1, <2>4, <2>5 DEF StopIsRecorded, Step
<1>11. FreezerStopsAreOnDisk'
  <2> SUFFICES ASSUME NEW u \in Tree, NEW p \in Part, "freezer" \in by'[u][p],
                      ~(p = "kin" /\ os'[u]["root"] # "run")
               PROVE  OnDisk("freezer", u, p)'
    BY DEF FreezerStopsAreOnDisk
  <2>1. by'[u][p] = by[u][p] /\ life'[u] = life[u]
    BY <1>4, <1>6
  <2>2. os'[u]["root"] = "run" => os[u]["root"] = "run"
    BY <1>4, <1>6, <2>1
  <2>3. OnDisk("freezer", u, p) \/ (p = "kin" /\ os[u]["root"] # "run")
    BY <2>1 DEF FreezerStopsAreOnDisk
  <2>4. OnDisk("freezer", u, p)
    BY <2>2, <2>3
  <2> QED
    BY <1>1, <2>1, <2>4 DEF OnDisk
<1>12. GovernorStopsAreOnDisk'
  <2> SUFFICES ASSUME NEW u \in Tree \ cut', NEW p \in Part \ {"stray"}, "governor" \in by'[u][p],
                      os'[u]["root"] = "run"
               PROVE  OnDisk("governor", u, p)' \/ (p = "rest" /\ u \in unseen')
    BY DEF GovernorStopsAreOnDisk
  <2>1. by'[u][p] = by[u][p] /\ life'[u] = life[u] /\ os[u]["root"] = "run"
        /\ u \notin cut /\ (u \in unseen => u \in unseen')
    BY <1>4, <1>6
  <2>2. OnDisk("governor", u, p) \/ (p = "rest" /\ u \in unseen)
    BY <2>1 DEF GovernorStopsAreOnDisk
  <2> QED
    BY <1>1, <2>1, <2>2 DEF OnDisk
<1>13. NothingToContinue'
  <2>1. ASSUME NEW u \in Tree, u \notin cut => Untouched(u)
        PROVE  u \notin cut' => Untouched(u)'
    <3> SUFFICES ASSUME u \notin cut', os'[u]["root"] = "run", NEW p \in Part \ {"stray"},
                        "governor" \in by'[u][p]
                 PROVE  p = "rest" /\ u \in unseen'
      BY DEF Untouched
    <3>1. by'[u][p] = by[u][p] /\ os[u]["root"] = "run"
          /\ u \notin cut /\ (u \in unseen => u \in unseen')
      BY <1>4, <1>6
    <3> QED
      BY <2>1, <3>1 DEF Untouched
  <2>2. \A u \in Tree : gstop[u] # "no" /\ u \notin cut' => u \notin cut
    BY <1>4, <1>6
  <2>3. UNCHANGED <<server, js, glist, gstop, gcont>>
    BY <1>1
  <2> SUFFICES ASSUME NEW u \in Tree, u \notin cut'
               PROVE  /\ gstop[u] = "recording" /\ js # Step("gstop", u, FALSE) => Untouched(u)'
                      /\ gstop[u] = "no" /\ u \notin glist /\ ~gcont[u]
                           /\ server \notin {"down", "boot"} => Untouched(u)'
                      /\ gstop[u] # "no" => u \in glist
    BY <2>3 DEF NothingToContinue, Step
  <2> QED
    BY <2>1, <2>2 DEF NothingToContinue
<1> QED
  BY <1>2, <1>5, <1>8, <1>9, <1>10, <1>11, <1>12, <1>13

\* The freezer records a batch, stops it, records the next one, stops that.
LEMMA FreezeRecords ==
  ASSUME ~DiskFails, Shape, Records, NEW t \in Tree,
         FreezeBegins(t) \/ RecordSecondBatch(t) \/ FreezeStands(t)
           \/ StopFirstBatch(t) \/ StopSecondBatch(t)
  PROVE  Records'
<1> USE DEF Records
<1>1. UNCHANGED <<os, life, server, boots, govVars, cut, unseen>> /\ Running
  BY DEF FreezeBegins, RecordSecondBatch, FreezeStands, StopFirstBatch, StopSecondBatch, Free
<1>2. DiskIsMemory'
  BY FlushShape DEF FreezeBegins, RecordSecondBatch, FreezeStands, StopFirstBatch,
                    StopSecondBatch, DiskIsMemory
<1>3. disk \subseteq disk'
  <2>1. disk' = disk \/ (\E new : disk' = mem \cup {new}) \/ disk' = mem
    <3>1. CASE FreezeBegins(t)
      BY <3>1, FlushShape DEF FreezeBegins
    <3>2. CASE RecordSecondBatch(t)
      BY <3>2, FlushShape DEF RecordSecondBatch
    <3>3. CASE FreezeStands(t)
      BY <3>3, FlushShape DEF FreezeStands
    <3> QED
      BY <3>1, <3>2, <3>3 DEF StopFirstBatch, StopSecondBatch
  <2> QED
    BY <2>1 DEF DiskIsMemory
<1>4. \A u \in Tree : GovernorHas(u) => GovernorHas(u)'
  BY <1>1, <1>3 DEF GovernorHas
<1>5. js'.op \in {"stop1", "record2", "stop2", "idle"}
  BY DEF FreezeBegins, RecordSecondBatch, FreezeStands, StopFirstBatch, StopSecondBatch,
         Step, Idle, Free
<1>6. /\ DownIsIdle' /\ ThawedByBatches' /\ ThawedAtBoot' /\ StopIsRecorded'
      /\ OneSignalAtATime'
  BY <1>1, <1>4, <1>5 DEF DownIsIdle, ThawedByBatches, ThawedAtBoot, StopIsRecorded,
                          OneSignalAtATime, Running, Step
<1>12. ASSUME \A u \in Tree : \A p \in Part : "governor" \in by'[u][p] => "governor" \in by[u][p]
       PROVE  NothingToContinue'
  <2>1. \A u \in Tree : Untouched(u) => Untouched(u)'
    BY <1>1, <1>12 DEF Untouched
  <2>2. \A u \in Tree : js # Step("gstop", u, FALSE)
    BY DEF FreezeBegins, RecordSecondBatch, FreezeStands, StopFirstBatch, StopSecondBatch,
           Step, Idle, Free
  <2> QED
    BY <1>1, <2>1, <2>2 DEF NothingToContinue
<1>7. BatchIsRecorded'
  <2>1. CASE FreezeBegins(t)
    <3>1. snap' = [snap EXCEPT ![t] = @ \cap Alive(t)]
      BY <2>1 DEF FreezeBegins
    <3>2. disk' = mem \cup {Entry(TreeId("freezer", t), life[t], snap'[t] \cap FirstBatch)}
      BY <2>1, FlushShape DEF FreezeBegins
    <3>3. js' = Step("stop1", t, FALSE)
      BY <2>1 DEF FreezeBegins
    <3> QED
      BY <1>1, <3>2, <3>3 DEF BatchIsRecorded, Step, Entry, TreeId
  <2>2. CASE RecordSecondBatch(t)
    <3>1. disk' = mem \cup {Entry(TreeId("freezer", t), life[t], snap[t] \ FirstBatch)}
      BY <2>2, FlushShape DEF RecordSecondBatch
    <3>2. js' = Step("stop2", t, FALSE) /\ snap' = snap
      BY <2>2 DEF RecordSecondBatch
    <3> QED
      BY <1>1, <3>1, <3>2 DEF BatchIsRecorded, Step, Entry, TreeId
  <2>3. CASE FreezeStands(t) \/ StopFirstBatch(t) \/ StopSecondBatch(t)
    <3>1. js'.op \in {"idle", "record2"}
      BY <2>3 DEF FreezeStands, StopFirstBatch, StopSecondBatch, Step, Idle, Free
    <3> QED
      BY <3>1 DEF BatchIsRecorded, Step
  <2> QED
    BY <2>1, <2>2, <2>3
<1>8. CASE FreezeBegins(t) \/ RecordSecondBatch(t) \/ FreezeStands(t)
  <2>1. UNCHANGED by
    BY <1>8 DEF FreezeBegins, RecordSecondBatch, FreezeStands
  <2>2. OnlyTheLivingAreStopped' /\ FreezerStopsAreOnDisk' /\ GovernorStopsAreOnDisk'
    BY <1>1, <1>3, <2>1 DEF OnlyTheLivingAreStopped, FreezerStopsAreOnDisk,
                            GovernorStopsAreOnDisk, OnDisk
  <2>3. NothingToContinue'
    BY <1>12, <2>1
  <2> QED
    BY <1>2, <1>6, <1>7, <2>2, <2>3
<1>9. ASSUME NEW parts \in SUBSET Part, Stop("freezer", t, parts),
             Entry(TreeId("freezer", t), life[t], parts) \in disk, UNCHANGED diskVars
      PROVE  Records'
  <2>1. /\ by' \in [Tree -> [Part -> SUBSET Lever]]
        /\ \A u \in Tree : \A p \in Part :
             by'[u][p] = IF u = t /\ p \in Reaches(t, parts) THEN by[u][p] \cup {"freezer"}
                         ELSE by[u][p]
    <3>1. "freezer" \in Lever /\ by \in [Tree -> [Part -> SUBSET Lever]]
      BY DEF Lever, Shape, TypeOK, MachineTypes
    <3> QED
      BY <1>9, <3>1 DEF Stop
  <2>2. OnlyTheLivingAreStopped'
    BY <1>1, <2>1 DEF OnlyTheLivingAreStopped, Reaches, Alive
  <2>6. \A u \in Tree : \A p \in Part : "governor" \in by'[u][p] => "governor" \in by[u][p]
    <3> TAKE u \in Tree
    <3> TAKE p \in Part
    <3>1. by'[u][p] = by[u][p] \cup {"freezer"} \/ by'[u][p] = by[u][p]
      BY <2>1
    <3> QED
      BY <3>1
  <2>3. GovernorStopsAreOnDisk' /\ NothingToContinue'
    BY <1>1, <1>9, <1>12, <2>6 DEF GovernorStopsAreOnDisk, OnDisk
  <2>4. \A p \in Reaches(t, parts) : OnDisk("freezer", t, p) \/ (p = "kin" /\ os[t]["root"] # "run")
    BY <1>9 DEF Reaches, OnDisk, Entry, TreeId
  <2>5. FreezerStopsAreOnDisk'
    <3> SUFFICES ASSUME NEW u \in Tree, NEW p \in Part, "freezer" \in by'[u][p]
                 PROVE  OnDisk("freezer", u, p) \/ (p = "kin" /\ os[u]["root"] # "run")
      BY <1>1, <1>9 DEF FreezerStopsAreOnDisk, OnDisk
    <3>1. CASE u = t /\ p \in Reaches(t, parts)
      BY <2>4, <3>1
    <3>2. CASE ~(u = t /\ p \in Reaches(t, parts))
      <4>1. by'[u][p] = by[u][p]
        BY <2>1, <3>2
      <4> QED
        BY <4>1 DEF FreezerStopsAreOnDisk
    <3> QED
      BY <3>1, <3>2
  <2> QED
    BY <1>2, <1>6, <1>7, <2>2, <2>3, <2>5
<1>10. CASE StopFirstBatch(t)
  <2>1. snap[t] \cap FirstBatch \in SUBSET Part
    BY DEF Shape, TypeOK, FreezerTypes
  <2> QED
    BY <1>9, <1>10, <2>1 DEF StopFirstBatch, BatchIsRecorded
<1>11. CASE StopSecondBatch(t)
  <2>1. snap[t] \ FirstBatch \in SUBSET Part
    BY DEF Shape, TypeOK, FreezerTypes
  <2> QED
    BY <1>9, <1>11, <2>1 DEF StopSecondBatch, BatchIsRecorded
<1> QED
  BY <1>8, <1>10, <1>11

\* The freezer continues the batches in reverse, and only then drops the record.
LEMMA ThawRecords ==
  ASSUME ~DiskFails, Shape, Records, NEW t \in Tree,
         ThawSecondBatch(t) \/ ThawFirstBatch(t) \/ ThawEnds(t)
  PROVE  Records'
<1> USE DEF Records
<1>1. /\ UNCHANGED <<os, life, server, boots, govVars, cut, unseen>> /\ Running
      /\ js.tree = t /\ js'.op \in {"cont1", "release", "idle"}
  BY DEF ThawSecondBatch, ThawFirstBatch, ThawEnds, Step, Idle
<1>2. DiskIsMemory'
  BY FlushShape DEF ThawSecondBatch, ThawFirstBatch, ThawEnds, DiskIsMemory
<1>3. DownIsIdle' /\ ThawedAtBoot' /\ OneSignalAtATime' /\ BatchIsRecorded'
  BY <1>1 DEF DownIsIdle, ThawedAtBoot, OneSignalAtATime, BatchIsRecorded, Running, Step
<1>4. \A e \in disk : e.lever = "governor" => e \in disk'
  <2>1. disk' = disk \/ disk' = Without(mem, TreeId("freezer", t))
    <3>1. CASE ThawEnds(t)
      BY <3>1, FlushShape DEF ThawEnds
    <3> QED
      BY <3>1 DEF ThawSecondBatch, ThawFirstBatch
  <2> QED
    BY <2>1 DEF DiskIsMemory, Without, IdOf, TreeId
<1>5. StopIsRecorded'
  <2>1. \A u \in Tree : GovernorHas(u) => GovernorHas(u)'
    BY <1>1, <1>4 DEF GovernorHas
  <2> QED
    BY <1>1, <2>1 DEF StopIsRecorded, Step
<1>6. /\ by' \in [Tree -> [Part -> SUBSET Lever]]
      /\ \A u \in Tree : \A p \in Part : by'[u][p] = by[u][p] \/ by'[u][p] = {}
  BY ContShape DEF ThawSecondBatch, ThawFirstBatch, ThawEnds, Shape, TypeOK, MachineTypes
<1>7. OnlyTheLivingAreStopped'
  BY <1>1, <1>6 DEF OnlyTheLivingAreStopped
<1>8. GovernorStopsAreOnDisk' /\ NothingToContinue'
  <2>1. GovernorStopsAreOnDisk'
    BY <1>1, <1>4, <1>6 DEF GovernorStopsAreOnDisk, OnDisk
  <2>2. \A u \in Tree : Untouched(u) => Untouched(u)'
    BY <1>1, <1>6 DEF Untouched
  <2>3. \A u \in Tree : js # Step("gstop", u, FALSE)
    BY DEF ThawSecondBatch, ThawFirstBatch, ThawEnds, Step
  <2> QED
    BY <1>1, <2>1, <2>2, <2>3 DEF NothingToContinue
\* An entry of the tree that covers a stopped process matches it.
<1>9. ASSUME NEW e \in FreezerEntry(t), NEW p \in Part, Covers(e, t, p), by[t][p] # {}
      PROVE  p \in Alive(t) /\ e.parts \cap Alive(t) \subseteq Matching(e, js.mute)
  BY <1>9 DEF Covers, Matching, OnlyTheLivingAreStopped, Alive, FreezerEntry
<1>10. CASE ThawSecondBatch(t)
  <2>1. UNCHANGED diskVars /\ js' = Step("cont1", t, js.mute)
    BY <1>10 DEF ThawSecondBatch
  <2>2. \A p \in Reaches(t, UNION {Matching(e, js.mute) \ FirstBatch : e \in FreezerEntry(t)}) :
          p \in Part => by'[t][p] = {}
    BY <1>10, ContShape DEF ThawSecondBatch, Shape, TypeOK, MachineTypes
  <2>3. ASSUME NEW e \in FreezerEntry(t), NEW p \in Part \ FirstBatch, Covers(e, t, p)
        PROVE  by'[t][p] = {}
    <3>1. CASE by[t][p] = {}
      BY <1>6, <3>1
    <3>2. CASE by[t][p] # {}
      <4>1. p \in e.parts /\ p \in Alive(t) /\ p \in Matching(e, js.mute)
        BY <1>9, <2>3, <3>2 DEF Covers, FirstBatch
      <4> QED
        BY <2>2, <4>1 DEF Reaches
    <3> QED
      BY <3>1, <3>2
  <2>4. ThawedByBatches'
    BY <1>1, <2>1, <2>3 DEF ThawedByBatches, FreezerEntry, IdOf, TreeId, Covers, Step
  <2>5. FreezerStopsAreOnDisk'
    BY <1>1, <1>6, <2>1 DEF FreezerStopsAreOnDisk, OnDisk
  <2> QED
    BY <1>2, <1>3, <1>5, <1>7, <1>8, <2>4, <2>5
<1>11. CASE ThawFirstBatch(t)
  <2>1. UNCHANGED diskVars /\ js' = Step("release", t, js.mute) /\ js.op = "cont1"
    BY <1>11 DEF ThawFirstBatch
  <2>2. \A p \in Reaches(t, UNION {Matching(e, js.mute) \cap FirstBatch : e \in FreezerEntry(t)}) :
          p \in Part => by'[t][p] = {}
    BY <1>11, ContShape DEF ThawFirstBatch, Shape, TypeOK, MachineTypes
  <2>3. ASSUME NEW e \in FreezerEntry(t), NEW p \in Part, Covers(e, t, p)
        PROVE  by'[t][p] = {}
    <3>1. CASE by[t][p] = {}
      BY <1>6, <3>1
    <3>2. CASE by[t][p] # {} /\ p \notin FirstBatch
      BY <1>1, <2>1, <2>3, <3>2 DEF ThawedByBatches, FreezerEntry
    <3>3. CASE by[t][p] # {} /\ p \in e.parts /\ p \in FirstBatch
      <4>1. p \in Alive(t) /\ p \in Matching(e, js.mute) \cap FirstBatch
        BY <1>9, <2>3, <3>3
      <4> QED
        BY <2>2, <4>1 DEF Reaches
    <3>4. CASE by[t][p] # {} /\ p = "kin" /\ "root" \in e.parts /\ os[t]["root"] = "run"
      <4>1. p \in Alive(t) /\ "root" \in Alive(t)
        BY <1>9, <2>3, <3>4 DEF Alive, Part
      <4>2. "root" \in Matching(e, js.mute) \cap FirstBatch
        BY <1>9, <2>3, <3>4, <4>1 DEF FirstBatch
      <4> QED
        BY <2>2, <3>4, <4>1, <4>2 DEF Reaches
    <3> QED
      BY <2>3, <3>1, <3>2, <3>3, <3>4 DEF Covers, FirstBatch
  <2>4. ThawedByBatches'
    BY <1>1, <2>1, <2>3 DEF ThawedByBatches, FreezerEntry, IdOf, TreeId, Covers, Step
  <2>5. FreezerStopsAreOnDisk'
    BY <1>1, <1>6, <2>1 DEF FreezerStopsAreOnDisk, OnDisk
  <2> QED
    BY <1>2, <1>3, <1>5, <1>7, <1>8, <2>4, <2>5
<1>12. CASE ThawEnds(t)
  <2>1. UNCHANGED by /\ js.op = "release" /\ disk' = Without(mem, TreeId("freezer", t))
    BY <1>12, FlushShape DEF ThawEnds
  <2>2. ThawedByBatches'
    BY <1>12 DEF ThawEnds, ThawedByBatches, Idle
  <2>3. FreezerStopsAreOnDisk'
    <3> SUFFICES ASSUME NEW u \in Tree, NEW p \in Part, "freezer" \in by[u][p],
                        ~(p = "kin" /\ os[u]["root"] # "run")
                 PROVE  OnDisk("freezer", u, p)'
      BY <1>1, <2>1 DEF FreezerStopsAreOnDisk
    <3>1. PICK e \in disk : e.lever = "freezer" /\ Covers(e, u, p)
      BY DEF FreezerStopsAreOnDisk, OnDisk, Covers
    <3>2. IdOf(e) # TreeId("freezer", t)
      <4> SUFFICES ASSUME IdOf(e) = TreeId("freezer", t) PROVE FALSE
        OBVIOUS
      <4>1. u = t
        BY <3>1 DEF IdOf, TreeId, Covers
      <4>2. by[t][p] = {}
        BY <1>1, <2>1, <3>1, <4>1 DEF ThawedByBatches, DiskIsMemory
      <4> QED
        BY <4>1, <4>2
    <3>3. e \in disk'
      BY <2>1, <3>2 DEF Without, DiskIsMemory
    <3> QED
      BY <1>1, <3>1, <3>3 DEF OnDisk, Covers
  <2> QED
    BY <1>2, <1>3, <1>5, <1>7, <1>8, <2>2, <2>3
<1> QED
  BY <1>10, <1>11, <1>12

\* The governor opens its record of a tree, fills it, stops the group and then each of the
\* processes, and continues them.
LEMMA GovernorRecords ==
  ASSUME ~DiskFails, Shape, Records, NEW t \in Tree, NEW seen \in Readings(t),
         \/ GovBegins(t) \/ GovRecords(t, seen) \/ GovStopsGroup(t)
         \/ GovStopsPids(t, seen) \/ GovContinues(t, seen)
  PROVE  Records'
<1> USE DEF Records
<1>1. /\ UNCHANGED <<os, life, server, boots, freezeVars, cut>> /\ Running
      /\ \A u \in Tree \ {t} : u \in unseen' <=> u \in unseen
  BY DEF GovBegins, GovRecords, GovStopsGroup, GovStopsPids, GovContinues, Free
<1>2. DiskIsMemory'
  <2>1. CASE GovBegins(t)
    BY <2>1, FlushShape DEF GovBegins, DiskIsMemory
  <2>2. CASE GovRecords(t, seen)
    BY <2>2, FlushShape DEF GovRecords, DiskIsMemory
  <2>3. CASE GovContinues(t, seen)
    BY <2>3, FlushShape DEF GovContinues, DiskIsMemory
  <2> QED
    BY <2>1, <2>2, <2>3 DEF GovStopsGroup, GovStopsPids, DiskIsMemory
<1>3. /\ js' \in {Step("gadd", t, FALSE), Step("gstop", t, FALSE), Idle}
      /\ \A u \in Tree \ {t} : js # Step("gstop", u, FALSE)
  BY DEF GovBegins, GovRecords, GovStopsGroup, GovStopsPids, GovContinues, Free, Step, Idle
<1>4. DownIsIdle' /\ ThawedAtBoot' /\ BatchIsRecorded' /\ ThawedByBatches'
  <2>1. js'.op \in {"gadd", "gstop", "idle"}
    BY <1>3 DEF Step, Idle
  <2> QED
    BY <1>1, <2>1 DEF DownIsIdle, ThawedAtBoot, BatchIsRecorded, ThawedByBatches, Running, Step
\* Only the governor's own entry of this tree may leave the disk.
<1>5. \A e \in disk : e.lever # "governor" \/ e.tree # t => e \in disk'
  <2>1. \/ disk' = disk \/ disk' = Without(mem, TreeId("governor", t))
        \/ \E new : disk' = Without(mem, TreeId("governor", t)) \cup {new}
    <3>1. CASE GovBegins(t)
      BY <3>1, FlushShape DEF GovBegins
    <3>2. CASE GovRecords(t, seen)
      BY <3>2, FlushShape DEF GovRecords
    <3>3. CASE GovContinues(t, seen)
      BY <3>3, FlushShape DEF GovContinues
    <3> QED
      BY <3>1, <3>2, <3>3 DEF GovStopsGroup, GovStopsPids
  <2> QED
    BY <2>1 DEF DiskIsMemory, Without, IdOf, TreeId
<1>6. \A u \in Tree \ {t} : GovernorHas(u) => GovernorHas(u)'
  BY <1>1, <1>5 DEF GovernorHas
<1>7. ASSUME \A u \in Tree : \A p \in Part : "freezer" \in by'[u][p] => "freezer" \in by[u][p]
      PROVE  FreezerStopsAreOnDisk'
  <2> SUFFICES ASSUME NEW u \in Tree, NEW p \in Part, "freezer" \in by[u][p],
                      ~(p = "kin" /\ os[u]["root"] # "run")
               PROVE  OnDisk("freezer", u, p)'
    BY <1>1, <1>7 DEF FreezerStopsAreOnDisk
  <2>1. PICK e \in disk : e.lever = "freezer" /\ Covers(e, u, p)
    BY DEF FreezerStopsAreOnDisk, OnDisk, Covers
  <2>2. e \in disk'
    BY <1>5, <2>1
  <2> QED
    BY <1>1, <2>1, <2>2 DEF OnDisk, Covers
\* The same for the governor's entries of the other trees.
<1>8. ASSUME NEW u \in Tree \ {t}, NEW p \in Part, OnDisk("governor", u, p)
      PROVE  OnDisk("governor", u, p)'
  <2>1. PICK e \in disk : e.lever = "governor" /\ Covers(e, u, p)
    BY <1>8 DEF OnDisk, Covers
  <2>2. e \in disk'
    BY <1>5, <2>1 DEF Covers
  <2> QED
    BY <1>1, <2>1, <2>2 DEF OnDisk, Covers
\* Of the other trees nothing changes: what is said of this one is enough.
<1>9. ASSUME \A u \in Tree \ {t} : by'[u] = by[u],
             t \notin cut => /\ gstop'[t] = "recording" /\ js' # Step("gstop", t, FALSE)
                                  => Untouched(t)'
                             /\ gstop'[t] = "no" /\ t \notin glist /\ ~gcont'[t] => Untouched(t)'
                             /\ gstop'[t] # "no" => t \in glist
      PROVE  NothingToContinue'
  <2>1. \A u \in Tree \ {t} : Untouched(u) => Untouched(u)'
    BY <1>1, <1>9 DEF Untouched
  <2>2. /\ glist' = glist
        /\ \A u \in Tree \ {t} : gstop'[u] = gstop[u] /\ gcont'[u] = gcont[u]
    BY DEF GovBegins, GovRecords, GovStopsGroup, GovStopsPids, GovContinues, Shape, TypeOK,
           GovernorTypes
  <2> SUFFICES ASSUME NEW u \in Tree, u \notin cut
               PROVE  /\ gstop'[u] = "recording" /\ js' # Step("gstop", u, FALSE) => Untouched(u)'
                      /\ gstop'[u] = "no" /\ u \notin glist /\ ~gcont'[u]
                           /\ server \notin {"down", "boot"} => Untouched(u)'
                      /\ gstop'[u] # "no" => u \in glist
    BY <1>1, <2>2 DEF NothingToContinue, Step
  <2>3. CASE u = t
    BY <1>9, <2>3
  <2>4. CASE u # t
    BY <1>3, <2>1, <2>2, <2>4 DEF NothingToContinue
  <2> QED
    BY <2>3, <2>4
\* A stop of the governor hits what its record names.
<1>10. ASSUME NEW hit \in SUBSET Alive(t), UNCHANGED diskVars, UNCHANGED unseen,
              \/ UNCHANGED by
              \/ by' = [by EXCEPT ![t] =
                         [p \in Part |-> IF p \in hit THEN @[p] \cup {"governor"} ELSE @[p]]],
              t \notin cut /\ os[t]["root"] = "run" =>
                \A p \in hit \ {"stray"} : OnDisk("governor", t, p) \/ (p = "rest" /\ t \in unseen)
       PROVE  /\ OnlyTheLivingAreStopped' /\ FreezerStopsAreOnDisk' /\ GovernorStopsAreOnDisk'
              /\ \A u \in Tree \ {t} : by'[u] = by[u]
  <2>1. \A u \in Tree : \A p \in Part :
          \/ by'[u][p] = by[u][p]
          \/ u = t /\ p \in hit /\ by'[u][p] = by[u][p] \cup {"governor"}
    BY <1>10 DEF Shape, TypeOK, MachineTypes
  <2>2. OnlyTheLivingAreStopped'
    BY <1>1, <2>1 DEF OnlyTheLivingAreStopped, Alive
  <2>3. \A u \in Tree : \A p \in Part : "freezer" \in by'[u][p] => "freezer" \in by[u][p]
    <3> TAKE u \in Tree
    <3> TAKE p \in Part
    <3>1. by'[u][p] = by[u][p] \cup {"governor"} \/ by'[u][p] = by[u][p]
      BY <2>1
    <3> QED
      BY <3>1
  <2>4. GovernorStopsAreOnDisk'
    <3> SUFFICES ASSUME NEW u \in Tree \ cut, NEW p \in Part \ {"stray"},
                        "governor" \in by'[u][p], os[u]["root"] = "run"
                 PROVE  OnDisk("governor", u, p) \/ (p = "rest" /\ u \in unseen)
      BY <1>1, <1>10 DEF GovernorStopsAreOnDisk, OnDisk
    <3>1. by'[u][p] = by[u][p] \/ (u = t /\ p \in hit)
      BY <2>1
    <3>2. CASE by'[u][p] = by[u][p]
      BY <3>2 DEF GovernorStopsAreOnDisk
    <3>3. CASE u = t /\ p \in hit
      BY <1>10, <3>3
    <3> QED
      BY <3>1, <3>2, <3>3
  <2>5. \A u \in Tree \ {t} : by'[u] = by[u]
    BY <1>10 DEF Shape, TypeOK, MachineTypes
  <2> QED
    BY <1>7, <2>2, <2>3, <2>4, <2>5
<1>11. CASE GovBegins(t)
  <2>1. /\ UNCHANGED <<by, unseen>> /\ UNCHANGED govVars /\ gstop[t] = "recording"
        /\ js = Idle /\ js' = Step("gadd", t, FALSE)
    BY <1>11 DEF GovBegins, Free
  <2>2. OnlyTheLivingAreStopped' /\ OneSignalAtATime' /\ FreezerStopsAreOnDisk'
    BY <1>1, <1>7, <2>1 DEF OnlyTheLivingAreStopped, OneSignalAtATime
  <2>3. t \notin cut => Untouched(t) /\ t \in glist
    BY <2>1 DEF NothingToContinue, Step, Idle
  <2>4. NothingToContinue'
    <3>1. Untouched(t) => Untouched(t)'
      BY <1>1, <2>1 DEF Untouched
    <3> QED
      BY <1>9, <2>1, <2>3, <3>1
  <2>5. StopIsRecorded'
    BY <1>1, <1>6, <2>1 DEF StopIsRecorded, Step
  <2>6. GovernorStopsAreOnDisk'
    <3> SUFFICES ASSUME NEW u \in Tree \ cut, NEW p \in Part \ {"stray"},
                        "governor" \in by[u][p], os[u]["root"] = "run"
                 PROVE  OnDisk("governor", u, p)' \/ (p = "rest" /\ u \in unseen)
      BY <1>1, <2>1 DEF GovernorStopsAreOnDisk
    <3>1. CASE u = t
      BY <2>3, <3>1 DEF Untouched
    <3>2. CASE u # t
      BY <1>8, <3>2 DEF GovernorStopsAreOnDisk
    <3> QED
      BY <3>1, <3>2
  <2> QED
    BY <1>2, <1>4, <2>2, <2>4, <2>5, <2>6
<1>12. CASE GovRecords(t, seen)
  <2>1. /\ UNCHANGED by /\ UNCHANGED govVars /\ "root" \in seen
        /\ js = Step("gadd", t, FALSE) /\ js' = Step("gstop", t, FALSE)
        /\ Entry(TreeId("governor", t), life[t], seen) \in disk'
        /\ os[t]["rest"] = "run" => "rest" \in seen \/ t \in unseen'
    BY <1>12, FlushShape DEF GovRecords, Alive, Part
  <2>2. gstop[t] = "recording"
    BY <2>1 DEF Shape, StretchOf, Step
  <2>3. OnlyTheLivingAreStopped' /\ OneSignalAtATime' /\ FreezerStopsAreOnDisk'
    BY <1>1, <1>7, <2>1 DEF OnlyTheLivingAreStopped, OneSignalAtATime
  <2>4. GovernorHas(t)'
    BY <1>1, <2>1 DEF GovernorHas, Entry, TreeId
  <2>5. StopIsRecorded'
    BY <1>1, <1>3, <1>6, <2>1, <2>4 DEF StopIsRecorded, Step, Idle
  <2>6. t \notin cut => Untouched(t) /\ t \in glist
    BY <2>1, <2>2 DEF NothingToContinue, Step
  <2>7. NothingToContinue'
    BY <1>9, <2>1, <2>2, <2>6
  <2>8. GovernorStopsAreOnDisk'
    <3> SUFFICES ASSUME NEW u \in Tree \ cut, NEW p \in Part \ {"stray"},
                        "governor" \in by[u][p], os[u]["root"] = "run"
                 PROVE  OnDisk("governor", u, p)' \/ (p = "rest" /\ u \in unseen')
      BY <1>1, <2>1 DEF GovernorStopsAreOnDisk
    <3>1. CASE u = t
      <4>1. p = "rest" /\ os[t]["rest"] = "run"
        BY <2>6, <3>1 DEF Untouched, OnlyTheLivingAreStopped
      <4> QED
        BY <1>1, <2>1, <3>1, <4>1 DEF OnDisk, Entry, TreeId
    <3>2. CASE u # t
      BY <1>1, <1>8, <3>2 DEF GovernorStopsAreOnDisk
    <3> QED
      BY <3>1, <3>2
  <2> QED
    BY <1>2, <1>4, <2>3, <2>5, <2>7, <2>8
<1>13. CASE GovStopsGroup(t)
  <2>1. UNCHANGED diskVars /\ js = Step("gstop", t, FALSE) /\ js' = Idle
        /\ gstop' = [gstop EXCEPT ![t] = "hitting"] /\ UNCHANGED <<gcont, unseen>>
    BY <1>13 DEF GovStopsGroup
  <2>2. GovernorHas(t) /\ gstop[t] = "recording"
    BY <2>1 DEF StopIsRecorded, Shape, StretchOf, Step
  <2>3. \A u \in Tree : GovernorHas(u) => GovernorHas(u)'
    BY <1>1, <2>1 DEF GovernorHas
  <2>4. StopIsRecorded'
    BY <1>1, <2>1, <2>2, <2>3 DEF StopIsRecorded, Step, Idle, Shape, TypeOK, GovernorTypes
  <2>5. OneSignalAtATime'
    BY <1>1, <2>1, <2>2 DEF OneSignalAtATime, Shape, TypeOK, GovernorTypes
  <2>6. os[t]["root"] = "run" => \A p \in Reaches(t, {"root"}) : OnDisk("governor", t, p)
    BY <2>2 DEF GovernorHas, OnDisk, Reaches
  <2>7. Reaches(t, {"root"}) \in SUBSET Alive(t)
    BY DEF Reaches
  <2>8. /\ OnlyTheLivingAreStopped' /\ FreezerStopsAreOnDisk' /\ GovernorStopsAreOnDisk'
        /\ \A u \in Tree \ {t} : by'[u] = by[u]
    BY <1>10, <1>13, <2>1, <2>6, <2>7 DEF GovStopsGroup, Stop
  <2>9. NothingToContinue'
    <3>1. t \notin cut => t \in glist
      BY <2>2 DEF NothingToContinue
    <3>2. gstop'[t] = "hitting"
      BY <2>1 DEF Shape, TypeOK, GovernorTypes
    <3> QED
      BY <1>9, <2>8, <3>1, <3>2
  <2> QED
    BY <1>2, <1>4, <2>4, <2>5, <2>8, <2>9
<1>14. CASE GovStopsPids(t, seen)
  <2>1. UNCHANGED diskVars /\ js' = Idle /\ gstop[t] = "hitting"
        /\ gstop' = [gstop EXCEPT ![t] = "no"] /\ UNCHANGED <<gcont, unseen>>
    BY <1>14 DEF GovStopsPids, Free
  <2>2. \A u \in Tree : GovernorHas(u) => GovernorHas(u)'
    BY <1>1, <2>1 DEF GovernorHas
  <2>3. StopIsRecorded' /\ OneSignalAtATime'
    BY <1>1, <2>1, <2>2 DEF StopIsRecorded, OneSignalAtATime, Step, Idle, Shape, TypeOK,
                            GovernorTypes
  <2>4. seen \in SUBSET Alive(t)
    BY ReadingShape
  <2>5. t \notin cut /\ os[t]["root"] = "run" =>
          \A p \in seen \ {"stray"} : OnDisk("governor", t, p) \/ (p = "rest" /\ t \in unseen)
    <3> SUFFICES ASSUME t \notin cut, os[t]["root"] = "run", NEW p \in seen \ {"stray"}
                 PROVE  OnDisk("governor", t, p) \/ (p = "rest" /\ t \in unseen)
      OBVIOUS
    <3>1. GovernorHas(t)
      BY <2>1 DEF StopIsRecorded
    <3>2. p \in {"root", "rest", "kin"} /\ os[t][p] = "run"
      BY <2>4, FreezeSettings DEF Alive, Part
    <3> QED
      BY <3>1, <3>2 DEF GovernorHas, OnDisk
  <2>6. /\ OnlyTheLivingAreStopped' /\ FreezerStopsAreOnDisk' /\ GovernorStopsAreOnDisk'
        /\ \A u \in Tree \ {t} : by'[u] = by[u]
    BY <1>10, <1>14, <2>1, <2>4, <2>5 DEF GovStopsPids
  <2>7. NothingToContinue'
    <3>1. t \notin cut => t \in glist
      BY <2>1 DEF NothingToContinue
    <3>2. gstop'[t] = "no"
      BY <2>1 DEF Shape, TypeOK, GovernorTypes
    <3> QED
      BY <1>9, <2>6, <3>1, <3>2
  <2> QED
    BY <1>2, <1>4, <2>3, <2>6, <2>7
<1>15. CASE GovContinues(t, seen)
  <2>1. js' = Idle /\ gcont[t] /\ UNCHANGED gstop /\ gcont' = [gcont EXCEPT ![t] = FALSE]
        /\ (os[t]["rest"] = "run" => "rest" \in seen \/ t \in unseen')
    BY <1>15 DEF GovContinues, Free, Alive, Part
  <2>2. StopIsRecorded' /\ OneSignalAtATime'
    BY <1>1, <1>6, <2>1 DEF StopIsRecorded, OneSignalAtATime, Step, Idle, Shape, TypeOK,
                            GovernorTypes
  <2>3. \A u \in Tree : \A p \in Part :
          by'[u][p] = IF u = t /\ p \in Reaches(t, seen \cup {"root", "kin"}) THEN {} ELSE by[u][p]
    BY <1>15, ContShape DEF GovContinues, Shape, TypeOK, MachineTypes
  <2>4. OnlyTheLivingAreStopped' /\ FreezerStopsAreOnDisk'
    BY <1>1, <1>7, <2>3 DEF OnlyTheLivingAreStopped
  <2>5. Untouched(t)'
    <3> SUFFICES ASSUME NEW p \in Part \ {"stray"}, "governor" \in by'[t][p]
                 PROVE  p = "rest" /\ t \in unseen'
      BY DEF Untouched
    <3>1. by[t][p] # {} /\ p \notin Reaches(t, seen \cup {"root", "kin"})
      BY <2>3
    <3>2. p \in Alive(t)
      BY <3>1 DEF OnlyTheLivingAreStopped, Alive
    <3>3. p \in {"root", "rest", "kin"}
      BY FreezeSettings DEF Part
    <3>4. p = "rest" /\ p \notin seen
      BY <3>1, <3>2, <3>3 DEF Reaches
    <3> QED
      BY <2>1, <3>2, <3>4 DEF Alive
  <2>6. GovernorStopsAreOnDisk'
    <3> SUFFICES ASSUME NEW u \in Tree \ cut, NEW p \in Part \ {"stray"},
                        "governor" \in by'[u][p], os'[u]["root"] = "run"
                 PROVE  OnDisk("governor", u, p)' \/ (p = "rest" /\ u \in unseen')
      BY <1>1 DEF GovernorStopsAreOnDisk
    <3>1. CASE u = t
      BY <2>5, <3>1 DEF Untouched
    <3>2. CASE u # t
      BY <1>1, <1>8, <2>3, <3>2 DEF GovernorStopsAreOnDisk
    <3> QED
      BY <3>1, <3>2
  <2>7. NothingToContinue'
    <3>1. t \notin cut => gstop'[t] = "no"
      BY <2>1 DEF OneSignalAtATime
    <3>2. \A u \in Tree \ {t} : by'[u] = by[u]
      BY <1>15 DEF GovContinues, Cont, Shape, TypeOK, MachineTypes
    <3> QED
      BY <1>9, <2>5, <3>1, <3>2
  <2> QED
    BY <1>2, <1>4, <2>2, <2>4, <2>6, <2>7
<1> QED
  BY <1>11, <1>12, <1>13, <1>14, <1>15

\* The boot continues everything the ledger covers, and then empties it.
LEMMA BootRecords ==
  ASSUME ~DiskFails, Shape, Records, (\E mute \in BOOLEAN : BootThaw(mute)) \/ BootClears
  PROVE  Records'
<1> USE DEF Records
<1>1. /\ UNCHANGED <<os, life, boots, freezeVars, govVars, ghostVars>>
      /\ server \in {"boot", "continued"} /\ js'.op \in {"clear", "idle"} /\ server' # "down"
  BY DEF BootThaw, BootClears, Step, Idle
<1>2. DiskIsMemory'
  BY FlushShape DEF BootThaw, BootClears, DiskIsMemory
<1>3. DownIsIdle' /\ BatchIsRecorded' /\ ThawedByBatches' /\ StopIsRecorded' /\ OneSignalAtATime'
  <2>1. \A t \in Tree : gstop[t] = "no"
    BY <1>1 DEF Shape, Asleep
  <2> QED
    BY <1>1, <2>1 DEF DownIsIdle, BatchIsRecorded, ThawedByBatches, StopIsRecorded,
                      OneSignalAtATime, Step
<1>4. ASSUME NEW mute \in BOOLEAN, BootThaw(mute) PROVE Records'
  <2>1. UNCHANGED diskVars
    BY <1>4 DEF BootThaw
  <2>2. \A t \in Tree : \A p \in Part :
          by'[t][p] = IF \E e \in mem : e.tree = t /\ p \in Reaches(t, Matching(e, mute))
                      THEN {} ELSE by[t][p]
    BY <1>4 DEF BootThaw
  <2>3. OnlyTheLivingAreStopped' /\ FreezerStopsAreOnDisk' /\ GovernorStopsAreOnDisk'
    <3>1. \A t \in Tree : \A p \in Part : by'[t][p] = {} \/ by'[t][p] = by[t][p]
      BY <2>2
    <3> QED
      BY <1>1, <2>1, <3>1 DEF OnlyTheLivingAreStopped, FreezerStopsAreOnDisk,
                              GovernorStopsAreOnDisk, OnDisk
  <2>4. ThawedAtBoot'
    <3> SUFFICES ASSUME NEW e \in mem, NEW t \in Tree, NEW p \in Part, Covers(e, t, p)
                 PROVE  by'[t][p] = {}
      BY <1>1, <2>1 DEF ThawedAtBoot, Covers
    <3>1. CASE by[t][p] = {}
      BY <2>2, <3>1
    <3>2. CASE by[t][p] # {}
      <4>1. p \in Alive(t)
        BY <3>2 DEF OnlyTheLivingAreStopped, Alive
      <4>2. e.tree = t /\ e.parts \cap Alive(t) \subseteq Matching(e, mute)
        BY DEF Covers, Matching
      <4>3. os[t]["root"] = "run" => "root" \in Alive(t)
        BY DEF Alive, Part
      <4>4. p \in Reaches(t, Matching(e, mute))
        BY <4>1, <4>2, <4>3 DEF Reaches, Covers
      <4> QED
        BY <2>2, <4>2, <4>4
    <3> QED
      BY <3>1, <3>2
  <2>5. NothingToContinue'
    <3>1. server = "boot" /\ UNCHANGED <<gstop, glist, gcont, cut, unseen>>
      BY <1>4 DEF BootThaw
    <3>2. \A t \in Tree : gstop[t] = "no"
      BY <3>1 DEF Shape, Asleep
    <3>3. ASSUME NEW t \in Tree \ cut PROVE Untouched(t)'
      <4> SUFFICES ASSUME os[t]["root"] = "run", NEW p \in Part \ {"stray"},
                          "governor" \in by'[t][p]
                   PROVE  p = "rest" /\ t \in unseen
        BY <1>1 DEF Untouched
      <4>1. by'[t][p] = by[t][p]
        BY <2>2
      <4>2. ~OnDisk("governor", t, p)
        <5> SUFFICES ASSUME NEW e \in disk, Covers(e, t, p) PROVE FALSE
          BY DEF OnDisk, Covers
        <5>1. e \in mem' /\ Covers(e, t, p)' /\ server' = "continued"
          BY <1>1, <1>4, <2>1 DEF DiskIsMemory, Covers, BootThaw
        <5> QED
          BY <2>4, <5>1 DEF ThawedAtBoot
      <4> QED
        BY <4>1, <4>2 DEF GovernorStopsAreOnDisk
    <3> QED
      BY <3>1, <3>2, <3>3 DEF NothingToContinue
  <2> QED
    BY <1>2, <1>3, <2>3, <2>4, <2>5
<1>5. CASE BootClears
  <2>1. UNCHANGED by /\ server = "continued" /\ server' = "up"
    BY <1>5 DEF BootClears
  <2>2. disk' = disk \/ disk' = {}
    BY <1>5, FlushShape DEF BootClears
  <2>3. ThawedAtBoot' /\ OnlyTheLivingAreStopped'
    BY <1>1, <2>1 DEF ThawedAtBoot, OnlyTheLivingAreStopped
  <2>4. \A lever \in Lever, t \in Tree : \A p \in Part : OnDisk(lever, t, p) => by[t][p] = {}
    BY <2>1 DEF ThawedAtBoot, OnDisk, Covers, DiskIsMemory
  <2>5. FreezerStopsAreOnDisk' /\ GovernorStopsAreOnDisk'
    <3>1. CASE disk' = disk
      BY <1>1, <2>1, <3>1 DEF FreezerStopsAreOnDisk, GovernorStopsAreOnDisk, OnDisk
    <3>2. \A t \in Tree : \A p \in Part :
            "freezer" \in by[t][p] => p = "kin" /\ os[t]["root"] # "run"
      BY <2>4 DEF FreezerStopsAreOnDisk, Lever
    <3>3. \A t \in Tree \ cut : \A p \in Part \ {"stray"} :
            "governor" \in by[t][p] =>
              os[t]["root"] # "run" \/ (p = "rest" /\ t \in unseen)
      BY <2>4 DEF GovernorStopsAreOnDisk, Lever
    <3> QED
      BY <1>1, <2>1, <3>2, <3>3 DEF FreezerStopsAreOnDisk, GovernorStopsAreOnDisk
  <2>6. NothingToContinue'
    <3>1. \A t \in Tree : Untouched(t) => Untouched(t)'
      BY <1>1, <2>1 DEF Untouched
    <3>2. \A t \in Tree : gstop[t] = "no"
      BY <2>1 DEF Shape, Asleep
    <3> QED
      BY <1>1, <2>1, <3>1, <3>2 DEF NothingToContinue
  <2> QED
    BY <1>2, <1>3, <2>3, <2>5, <2>6
<1> QED
  BY <1>4, <1>5

LEMMA RecordsNext == ~DiskFails /\ Shape /\ Records /\ [Next]_vars => Records'
<1>1. ASSUME ~DiskFails, Shape, Records, Next PROVE Records'
  <2>1. CASE Machine
    BY <1>1, <2>1, MachineRecords
  <2>2. CASE Freezer
    BY <1>1, <2>2, QuietRecords, FreezeRecords, ThawRecords DEF Freezer, Freezing, Thawing
  <2>3. CASE Governor
    <3>1. PICK t \in Tree : GovPlans(t) \/ GovThaws(t) \/ Governing(t)
      BY <2>3 DEF Governor
    <3>2. CASE GovPlans(t) \/ GovThaws(t) \/ GovRecordThrows(t)
      BY <1>1, <3>2, QuietRecords
    <3>3. PICK seen \in Readings(t) : TRUE
      BY DEF Readings, Alive
    <3>4. CASE GovBegins(t) \/ GovStopsGroup(t)
      BY <1>1, <3>3, <3>4, GovernorRecords
    <3>5. ASSUME NEW now \in Readings(t),
                 GovRecords(t, now) \/ GovStopsPids(t, now) \/ GovContinues(t, now)
          PROVE  Records'
      BY <1>1, <3>5, GovernorRecords
    <3> QED
      BY <3>1, <3>2, <3>4, <3>5 DEF Governing
  <2>4. CASE Shutdown \/ Dies \/ Booting
    BY <1>1, <2>4, QuietRecords, BootRecords DEF Booting
  <2> QED
    BY <1>1, <2>1, <2>2, <2>3, <2>4 DEF Next
<1>2. ASSUME Records, UNCHANGED vars PROVE Records'
  <2> USE <1>2 DEF vars, Records
  <2>1. /\ DiskIsMemory' /\ DownIsIdle' /\ OnlyTheLivingAreStopped' /\ OneSignalAtATime'
        /\ FreezerStopsAreOnDisk' /\ GovernorStopsAreOnDisk'
    BY DEF DiskIsMemory, DownIsIdle, OnlyTheLivingAreStopped, OneSignalAtATime, OnDisk,
           FreezerStopsAreOnDisk, GovernorStopsAreOnDisk
  <2>2. BatchIsRecorded' /\ StopIsRecorded' /\ NothingToContinue'
    BY DEF BatchIsRecorded, StopIsRecorded, GovernorHas, Entry, TreeId, NothingToContinue,
           Untouched, Step
  <2>3. \A e \in mem : \A t, p : Covers(e, t, p)' = Covers(e, t, p)
    BY DEF Covers
  <2>4. ThawedByBatches' /\ ThawedAtBoot'
    BY <2>3 DEF ThawedByBatches, ThawedAtBoot, IdOf, TreeId
  <2> QED
    BY <2>1, <2>2, <2>4
<1> QED
  BY <1>1, <1>2

(* As long as the disk takes every write, no process is ever stopped by the      *)
(* freezer without a record on disk that lets the next server continue it, at    *)
(* whatever step of a freeze, of a thaw or of the boot the server dies; and none *)
(* by the governor, whatever the freezer does to the same tree and the same file, *)
(* but for those that a shutdown overtook.                                       *)
THEOREM StopsAreRecorded == Spec => []StopsAreOnDisk
<1>1. CASE DiskFails
  <2>1. StopsAreOnDisk
    BY <1>1 DEF StopsAreOnDisk, FreezerStopsAreOnDisk, GovernorStopsAreOnDisk
  <2> QED
    BY <2>1, PTL
<1>2. CASE ~DiskFails
  <2>1. Shape /\ Records => StopsAreOnDisk
    BY DEF Records, StopsAreOnDisk
  <2>2. Init => Shape /\ Records
    BY <1>2, ShapeInit, RecordsInit
  <2>3. Shape /\ Records /\ [Next]_vars => (Shape /\ Records)'
    BY <1>2, ShapeNext, RecordsNext
  <2> QED
    BY <2>1, <2>2, <2>3, PTL DEF Spec
<1> QED
  BY <1>1, <1>2

-----------------------------------------------------------------------------
(* The count of freezes outlives the server *)

\* Every freeze that stood is in the count of the command's identity.
FreezesAreCounted ==
  DiskIsMemory /\ \A t \in Tree : times[t] <= memCount[t][life[t]]

LEMMA CountsInit == Init => FreezesAreCounted
BY FreezeSettings DEF Init, FreezesAreCounted, DiskIsMemory, NoTimes

LEMMA CountsNext ==
  ~DiskFails /\ Shape /\ FreezesAreCounted /\ [Next]_vars => FreezesAreCounted'
<1> SUFFICES ASSUME ~DiskFails, Shape, FreezesAreCounted, [Next]_vars
             PROVE  FreezesAreCounted'
  OBVIOUS
<1>1. CASE Machine
  <2>1. UNCHANGED diskVars
    BY <1>1 DEF Machine, Exits, Forks, PidsUsedAgain
  <2>2. ASSUME NEW t \in Tree, PidsUsedAgain(t)
        PROVE  \A u \in Tree : times'[u] <= memCount'[u][life'[u]]
    <3>1. \A l \in 0..MaxLife : 0 <= memCount[t][l]
      BY FreezeSettings DEF Shape, TypeOK, LedgerTypes, Counts
    <3>2. life[t] + 1 \in 0..MaxLife
      BY <2>2, FreezeSettings DEF PidsUsedAgain, Shape, TypeOK, MachineTypes
    <3>3. times' = [times EXCEPT ![t] = 0] /\ life' = [life EXCEPT ![t] = @ + 1]
      BY <2>2 DEF PidsUsedAgain
    <3> QED
      BY <2>1, <3>1, <3>2, <3>3 DEF FreezesAreCounted, Shape, TypeOK, GhostTypes, MachineTypes
  <2> QED
    BY <1>1, <2>1, <2>2 DEF Machine, Exits, Forks, FreezesAreCounted, DiskIsMemory
<1>2. ASSUME NEW t \in Tree, FreezeStands(t) PROVE FreezesAreCounted'
  <2>1. /\ memCount' = [memCount EXCEPT ![t][life[t]] = @ + 1]
        /\ times' = [times EXCEPT ![t] = @ + 1] /\ UNCHANGED life /\ DiskIsMemory'
    BY <1>2, FlushShape DEF FreezeStands, DiskIsMemory
  <2>2. times[t] \in Nat /\ memCount[t][life[t]] \in 0..Limit
    BY DEF Shape, TypeOK, GhostTypes, LedgerTypes, MachineTypes, Counts
  <2>3. times[t] + 1 <= memCount[t][life[t]] + 1
    BY <2>2, FreezeSettings DEF FreezesAreCounted
  <2>4. times'[t] = times[t] + 1 /\ memCount'[t][life'[t]] = memCount[t][life[t]] + 1
    BY <2>1 DEF Shape, TypeOK, GhostTypes, LedgerTypes, MachineTypes, Counts
  <2>5. \A u \in Tree \ {t} : times'[u] = times[u] /\ memCount'[u] = memCount[u]
    BY <2>1 DEF Shape, TypeOK, GhostTypes, LedgerTypes, Counts
  <2> QED
    BY <2>1, <2>3, <2>4, <2>5 DEF FreezesAreCounted
<1>3. CASE /\ ~Machine /\ ~\E t \in Tree : FreezeStands(t)
  <2>1. UNCHANGED <<times, life, memCount>> /\ DiskIsMemory'
    BY <1>3, FlushShape
       DEF Next, vars, Freezer, Governor, Booting, Freezing, Thawing, Governing, BeatPicks,
           FreezeRefused, FreezeUndone, FreezeBegins, StopFirstBatch, RecordSecondBatch,
           StopSecondBatch, Releases, ThawReads, ThawSecondBatch, ThawFirstBatch, ThawEnds,
           BeatThaws, EpisodeEnds, GovPlans, GovThaws, GovRecordThrows, GovBegins, GovRecords,
           GovStopsGroup, GovStopsPids, GovContinues, Shutdown, Dies, Boots, LedgerRead,
           BootThaw,
           BootClears, FreezesAreCounted, DiskIsMemory
  <2> QED
    BY <2>1 DEF FreezesAreCounted
<1> QED
  BY <1>1, <1>2, <1>3

(* A command is frozen Limit times at most in its life, however often the server *)
(* dies and boots again: the counts outlive it.                                  *)
THEOREM FreezesAreLimited == Spec => []AtMostTwoFreezes
<1>1. CASE DiskFails
  <2>1. AtMostTwoFreezes
    BY <1>1 DEF AtMostTwoFreezes
  <2> QED
    BY <2>1, PTL
<1>2. CASE ~DiskFails
  <2>1. Shape /\ FreezesAreCounted => AtMostTwoFreezes
    <3> SUFFICES ASSUME Shape, FreezesAreCounted, NEW t \in Tree PROVE times[t] <= Limit
      BY DEF AtMostTwoFreezes
    <3>1. times[t] \in Nat /\ memCount[t][life[t]] \in 0..Limit
      BY DEF Shape, TypeOK, GhostTypes, LedgerTypes, MachineTypes, Counts
    <3>2. times[t] <= memCount[t][life[t]]
      BY DEF FreezesAreCounted
    <3> QED
      BY <3>1, <3>2, FreezeSettings
  <2>2. Init => Shape /\ FreezesAreCounted
    BY ShapeInit, CountsInit
  <2>3. Shape /\ FreezesAreCounted /\ [Next]_vars => (Shape /\ FreezesAreCounted)'
    BY <1>2, ShapeNext, CountsNext
  <2> QED
    BY <2>1, <2>2, <2>3, PTL DEF Spec
<1> QED
  BY <1>1, <1>2
=============================================================================
