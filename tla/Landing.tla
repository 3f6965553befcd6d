------------------------------- MODULE Landing -------------------------------
(***************************************************************************)
(* Landing the work of finished cards on main: the queue of lands          *)
(* (server/services/landing-queue.ts), the land of one card (landTask in   *)
(* server/routes/tasks.ts over tryMerge of task-automerge.ts), the columns *)
(* a land and the deliveries write on the card (server/services/tasks.ts), *)
(* and the audit that deduces the verdict a land did not see.              *)
(*                                                                         *)
(* One board, one checkout: its lands run one at a time.  The work of a    *)
(* card is counted in commits: its branch carries the first tip[c] of      *)
(* them, main the first onMain[c], a delivery names the delivered[c]-th.   *)
(*                                                                         *)
(* A step ends where the code awaits git: agents, persons, the audit and a *)
(* restart come in between.                                                *)
(***************************************************************************)
EXTENDS Naturals, SequencesExt

CONSTANTS
  Card,         \* the cards of the board
  NoCard,       \* no card
  Ready,        \* cards delivered before the queue is watched, with no agent to start
  HistoryCap,   \* closed tickets the queue keeps
  MaxWork,      \* bound: commits of a card
  MaxPress,     \* bound: what persons decide, in all
  MaxReads,     \* bound: deliveries of a card being read when the repair pass reads one
  MaxFaults     \* bound: restarts, errors, merges gone elsewhere, in all

ASSUME CardNames == NoCard \notin Card
ASSUME LandBounds == /\ HistoryCap \in Nat \ {0} /\ MaxWork \in Nat
                     /\ Ready \subseteq Card /\ (Ready # {} => MaxWork > 0)
                     /\ MaxPress \in Nat /\ MaxReads \in Nat /\ MaxFaults \in Nat

Verdict == {"none", "unlanded", "landed", "unverifiable", "superseded"}
Open == {"queued", "running"}
At == {"idle", "merging", "proving", "closing", "probing", "reaping", "stamping", "asking"}
Result == {"none", "merged", "unproved", "nothing", "conflict", "skipped", "noBranch"}

VARIABLES
  \* The row of each card
  status,     \* in_progress, review, done
  doneActor,  \* who closed it: none, human, system
  delivered,  \* delivery_commit; 0 for none
  verdict,    \* landing_state
  witnessed,  \* landing_witnessed
  \* Git, and the agents at work
  tip,        \* commits on the branch of a card
  branch,     \* its branch and worktree exist
  dirty,      \* its worktree holds uncommitted work
  onMain,     \* its commits that main holds
  turn,       \* its agent is at work
  capture,    \* the deliveries read from git and not yet recorded
  \* The queue of lands, in memory
  lane,       \* cards in line, the first one running
  phase,      \* the ticket of each card: none, queued, running, settled, failed
  past,       \* closed tickets, oldest first
  land,       \* the land that runs
  push,       \* publish asked with the land: no, waiting, pushing
  audit,      \* the card the periodic pass is asking git about
  \* Counters, and bookkeeping that is not in the code
  presses, faults,
  spoke       \* the delivery the verdict of a card speaks of; 0 when it speaks of none
              \* in particular (a merge of the card, an error, a decision)

rowVars   == <<status, doneActor, delivered, verdict, witnessed>>
gitVars   == <<tip, branch, dirty, onMain>>
agentVars == <<turn, capture>>
queueVars == <<lane, phase, past, land, push>>
countVars == <<presses, faults>>
vars == <<rowVars, gitVars, agentVars, queueVars, audit, countVars, spoke>>

NoLand == [at |-> "idle", seen |-> 0, res |-> "none", got |-> 0, proof |-> FALSE, reap |-> FALSE]
NoAudit == [card |-> NoCard, commit |-> 0, answer |-> "none", of |-> 0]

Init ==
  /\ status = [c \in Card |-> IF c \in Ready THEN "review" ELSE "in_progress"]
  /\ doneActor = [c \in Card |-> "none"]
  /\ delivered = [c \in Card |-> IF c \in Ready THEN 1 ELSE 0]
  /\ verdict = [c \in Card |-> "none"]
  /\ witnessed = [c \in Card |-> FALSE]
  /\ tip = [c \in Card |-> IF c \in Ready THEN 1 ELSE 0] /\ branch = [c \in Card |-> TRUE]
  /\ dirty = [c \in Card |-> FALSE] /\ onMain = [c \in Card |-> 0]
  /\ turn = [c \in Card |-> c \notin Ready] /\ capture = [c \in Card |-> {}]
  /\ lane = <<>> /\ phase = [c \in Card |-> "none"] /\ past = <<>> /\ land = NoLand
  /\ push = [c \in Card |-> "no"] /\ audit = NoAudit
  /\ presses = 0 /\ faults = 0 /\ spoke = [c \in Card |-> 0]

-----------------------------------------------------------------------------
(* Helpers *)

Running(c) == lane # <<>> /\ Head(lane) = c /\ land.at # "idle"

\* The deliveries git can name: the last own commit that main has not, or none.
Pointer(c) == IF branch[c] /\ tip[c] > onMain[c] THEN tip[c] ELSE 0

\* recordDelivery: the verdict and its witness fall with the delivery they were on.
Recorded(c, k) ==
  /\ delivered' = [delivered EXCEPT ![c] = k]
  /\ verdict' = [verdict EXCEPT ![c] = "none"]
  /\ witnessed' = [witnessed EXCEPT ![c] = FALSE]
  /\ spoke' = [spoke EXCEPT ![c] = 0]

\* recordLandingState: a witness is raised here and never lowered.
Stamped(c, v, seen, witness) ==
  /\ verdict' = [verdict EXCEPT ![c] = v]
  /\ witnessed' = [witnessed EXCEPT ![c] = @ \/ witness]
  /\ spoke' = [spoke EXCEPT ![c] = seen]
  /\ UNCHANGED delivered

\* A card moves to a column; who closes it signs, and leaving Done clears the name.
Moved(c, s, by) ==
  /\ status' = [status EXCEPT ![c] = s]
  /\ doneActor' = [doneActor EXCEPT ![c] = IF s = "done" THEN by ELSE "none"]

\* A card that leaves review or Done for its agent drops the delivery it was accepted
\* for, and the verdict on it.
BackToAgent(c) ==
  /\ Moved(c, "in_progress", "none")
  /\ IF status[c] # "in_progress"
       THEN /\ delivered' = [delivered EXCEPT ![c] = 0] /\ verdict' = [verdict EXCEPT ![c] = "none"]
            /\ witnessed' = [witnessed EXCEPT ![c] = FALSE] /\ spoke' = [spoke EXCEPT ![c] = 0]
       ELSE UNCHANGED <<delivered, verdict, witnessed, spoke>>

\* A mistake kept for checking: a second land of a card that is in line is queued.
EnqueuedAgain(c) ==
  /\ Stamped(c, "unlanded", 0, FALSE)
  /\ phase' = [phase EXCEPT ![c] = IF phase[c] = "running" THEN "running" ELSE "queued"]
  /\ lane' = Append(lane, c)
  /\ UNCHANGED <<past, land>>

\* enqueueLand: the card says it is not on main before it is in line; one land of a
\* card at a time.
Enqueued(c) ==
  /\ Stamped(c, "unlanded", 0, FALSE)
  /\ IF phase[c] \in Open
       THEN UNCHANGED <<lane, phase>>
       ELSE phase' = [phase EXCEPT ![c] = "queued"] /\ lane' = Append(lane, c)
  /\ UNCHANGED <<past, land>>

\* What the repository answers of a card and a delivery, and the delivery it answers of.
\* Main has the commit, or it has not; then the content of the branch, or of the commit
\* alone, is compared with main and may prove nothing; and where nothing is proved, any
\* merge that carries the name of the card stands for it.
Answers(c, k) ==
  LET unproved == IF onMain[c] > 0 THEN <<"landed", 0>> ELSE <<"unverifiable", k>>
  IN IF k = 0 THEN {unproved}
     ELSE IF k <= onMain[c] THEN {<<"landed", k>>}
     ELSE {<<"unlanded", k>>, unproved}

-----------------------------------------------------------------------------
(* The agent of a card *)

MayWrite(c) == turn[c] /\ branch[c]

\* The dispatcher resumes it where it was: in its worktree or, without one, in the
\* project, where it delivers nothing.
Resumes(c) ==
  /\ status[c] = "in_progress" /\ ~turn[c] /\ c \notin Ready
  /\ turn' = [turn EXCEPT ![c] = TRUE]
  /\ UNCHANGED <<rowVars, gitVars, capture, queueVars, audit, countVars, spoke>>

\* Or it launches it again in a new worktree, from main (where whatever was lost with the
\* old one is done again, under the same numbers).
Launches(c) ==
  /\ status[c] = "in_progress" /\ ~turn[c] /\ c \notin Ready /\ ~branch[c]
  /\ turn' = [turn EXCEPT ![c] = TRUE]
  /\ branch' = [branch EXCEPT ![c] = TRUE] /\ tip' = [tip EXCEPT ![c] = onMain[c]]
  /\ UNCHANGED <<rowVars, dirty, onMain, capture, queueVars, audit, countVars, spoke>>

Edits(c) ==
  /\ MayWrite(c) /\ ~dirty[c] /\ dirty' = [dirty EXCEPT ![c] = TRUE]
  /\ UNCHANGED <<rowVars, tip, branch, onMain, agentVars, queueVars, audit, countVars, spoke>>

Commits(c) ==
  /\ MayWrite(c) /\ tip[c] < MaxWork
  /\ tip' = [tip EXCEPT ![c] = @ + 1] /\ dirty' = [dirty EXCEPT ![c] = FALSE]
  /\ UNCHANGED <<rowVars, branch, onMain, agentVars, queueVars, audit, countVars, spoke>>

\* update_task(review): the card is in review before its delivery is recorded, as git
\* named it if it answered.
EntersReview(c) ==
  /\ turn[c] /\ status[c] = "in_progress"
  /\ Moved(c, "review", "none")
  /\ \E read \in {{}, {Pointer(c)}} :
       /\ read # {} => branch[c]
       /\ capture' = [capture EXCEPT ![c] = @ \cup read]
  /\ UNCHANGED <<delivered, verdict, witnessed, gitVars, turn, queueVars, audit, countVars, spoke>>

\* The pass that repairs cards without a recorded delivery asks git as well.
Backfills(c) ==
  /\ status[c] \in {"review", "done"} /\ delivered[c] = 0 /\ Pointer(c) > 0
  /\ Cardinality(capture[c]) < MaxReads
  /\ capture' = [capture EXCEPT ![c] = @ \cup {Pointer(c)}]
  /\ UNCHANGED <<rowVars, gitVars, turn, queueVars, audit, countVars, spoke>>

\* What git named is recorded, over whatever the card has come to since.
Captures(c) ==
  /\ \E k \in capture[c] :
       Recorded(c, k) /\ capture' = [capture EXCEPT ![c] = @ \ {k}]
  /\ UNCHANGED <<status, doneActor, gitVars, turn, queueVars, audit, countVars>>

\* (A turn that ends before review is taken up again: the dispatcher resumes it.)
TurnEnds(c) ==
  /\ turn[c] /\ status[c] # "in_progress" /\ turn' = [turn EXCEPT ![c] = FALSE]
  /\ UNCHANGED <<rowVars, gitVars, capture, queueVars, audit, countVars, spoke>>

-----------------------------------------------------------------------------
(* Persons *)

Pressed == presses < MaxPress /\ presses' = presses + 1 /\ UNCHANGED faults

\* "Landa su main", from any column: the card does not move, the land is queued.
PressLand(c) ==
  /\ Pressed /\ Enqueued(c)
  /\ UNCHANGED <<status, doneActor, gitVars, agentVars, push, audit>>

\* "Landa e pubblica": the land, and a push once its ticket settles.
PressPublish(c) ==
  /\ Pressed /\ status[c] = "review" /\ push[c] = "no" /\ Enqueued(c)
  /\ push' = [push EXCEPT ![c] = "waiting"]
  /\ UNCHANGED <<status, doneActor, gitVars, agentVars, audit>>

\* Approving accepts the card and lands nothing; "superseded" says it never will.
Approve(c) ==
  /\ Pressed /\ status[c] = "review" /\ Moved(c, "done", "human")
  /\ \/ UNCHANGED <<delivered, verdict, witnessed, spoke>>
     \/ Stamped(c, "superseded", 0, FALSE)
  /\ UNCHANGED <<gitVars, agentVars, queueVars, audit>>

\* Dragged into Done on a board that lands what arrives there with a branch (which may
\* have been recorded with no commit).
DragDone(c) ==
  /\ Pressed /\ status[c] # "done" /\ Moved(c, "done", "human")
  /\ \/ Enqueued(c)
     \/ /\ delivered[c] = 0
        /\ UNCHANGED <<delivered, verdict, witnessed, lane, phase, past, land, spoke>>
  /\ UNCHANGED <<gitVars, agentVars, push, audit>>

\* Rejected, or reopened: back to the agent.
SendBack(c) ==
  /\ Pressed /\ status[c] \in {"review", "done"} /\ BackToAgent(c)
  /\ UNCHANGED <<gitVars, agentVars, queueVars, audit>>

-----------------------------------------------------------------------------
(* The land at the head of the lane *)

Landing(c, at) == Running(c) /\ land.at = at
\* (What later steps do not read is forgotten.)
Goes(at, res) == land' = [land EXCEPT !.at = at, !.res = res, !.seen = 0, !.reap = FALSE]

\* A mistake kept for checking: a publish follows every land that settled.
ClosesPushing(c, ph) ==
  /\ lane' = Tail(lane) /\ land' = NoLand
  /\ phase' = [phase EXCEPT ![c] = ph] /\ UNCHANGED past
  /\ push' = [push EXCEPT ![c] = IF @ = "waiting" /\ ph = "settled" THEN "pushing" ELSE "no"]

\* A mistake kept for checking: closed tickets are never let go.
ClosesUnpruned(c, ph) ==
  /\ lane' = Tail(lane) /\ land' = NoLand
  /\ phase' = [phase EXCEPT ![c] = ph] /\ past' = Append(past, c)
  /\ push' = [push EXCEPT ![c] = IF @ # "waiting" THEN @
       ELSE IF ph = "settled" /\ verdict'[c] = "landed" THEN "pushing" ELSE "no"]

\* The ticket closes, the window of closed tickets moves, the next land may run; who
\* waited to publish pushes if the card now reads landed.
Closes(c, ph) ==
  LET full == Len(past) = HistoryCap
      gone == IF full THEN {d \in Card : d = Head(past) /\ d # c /\ phase[d] \notin Open} ELSE {}
  IN /\ lane' = Tail(lane) /\ land' = NoLand
     /\ past' = IF full THEN Tail(Append(past, c)) ELSE Append(past, c)
     /\ phase' = [d \in Card |-> IF d = c THEN ph ELSE IF d \in gone THEN "none" ELSE phase[d]]
     /\ push' = [push EXCEPT ![c] = IF @ # "waiting" THEN @
          ELSE IF ph = "settled" /\ verdict'[c] = "landed" THEN "pushing" ELSE "no"]

\* The turn of the first card in line: what was delivered is read once, here.
Begins(c) ==
  /\ lane # <<>> /\ Head(lane) = c /\ land.at = "idle"
  /\ phase' = [phase EXCEPT ![c] = "running"]
  /\ land' = [NoLand EXCEPT !.at = "merging", !.seen = delivered[c]]
  /\ UNCHANGED <<rowVars, gitVars, agentVars, lane, past, push, audit, countVars, spoke>>

\* tryMerge brings the tip of the branch to main, or to wherever the checkout had
\* been switched.
MergeLands(c) ==
  /\ Landing(c, "merging") /\ branch[c] /\ tip[c] > onMain[c]
  /\ \/ onMain' = [onMain EXCEPT ![c] = tip[c]] /\ UNCHANGED faults
     \/ faults < MaxFaults /\ faults' = faults + 1 /\ UNCHANGED onMain
  /\ land' = [land EXCEPT !.at = "proving", !.res = "merged", !.got = tip[c], !.seen = 0]
  /\ UNCHANGED <<rowVars, tip, branch, dirty, agentVars, lane, phase, past, push, audit, presses, spoke>>

\* Nothing that main has not: the branch by ancestry, or the delivery without it.
MergeFindsNothing(c) ==
  /\ Landing(c, "merging")
  /\ IF branch[c] THEN tip[c] <= onMain[c] ELSE land.seen > 0 /\ land.seen <= onMain[c]
  /\ Goes("probing", "nothing")
  /\ UNCHANGED <<rowVars, gitVars, agentVars, lane, phase, past, push, audit, countVars, spoke>>

\* A conflict sends the card back to its agent, from whatever column.
MergeConflicts(c) ==
  /\ Landing(c, "merging") /\ branch[c] /\ tip[c] > onMain[c]
  /\ BackToAgent(c) /\ Goes("stamping", "conflict")
  /\ UNCHANGED <<gitVars, agentVars, lane, phase, past, push, audit, countVars>>

\* A land that could not be tried takes a card out of Done: to review, or to its agent.
MergeSkips(c) ==
  /\ Landing(c, "merging")
  /\ \/ branch[c] /\ tip[c] > onMain[c]
     \/ ~branch[c] /\ land.seen > onMain[c]
  /\ \/ status[c] \in {"review", "done"} /\ BackToAgent(c)
     \/ /\ IF status[c] = "done" THEN Moved(c, "review", "none") ELSE UNCHANGED <<status, doneActor>>
        /\ UNCHANGED <<delivered, verdict, witnessed, spoke>>
  /\ Goes("stamping", "skipped")
  /\ UNCHANGED <<gitVars, agentVars, lane, phase, past, push, audit, countVars>>

\* No branch, and nothing was ever delivered as code: the card stays where it is.
MergeHasNoBranch(c) ==
  /\ Landing(c, "merging") /\ ~branch[c] /\ land.seen = 0
  /\ \E r \in {"noBranch", "skipped"} : Goes("stamping", r)
  /\ UNCHANGED <<rowVars, gitVars, agentVars, lane, phase, past, push, audit, countVars, spoke>>

\* A mistake kept for checking: a merge that exited zero is believed.
ProofBelieved(c) ==
  /\ Landing(c, "proving")
  /\ land' = [land EXCEPT !.at = "closing", !.proof = TRUE]
  /\ UNCHANGED <<rowVars, gitVars, agentVars, lane, phase, past, push, audit, countVars, spoke>>

\* landProof asks main for the merge commit; main may not be readable.
ProofReads(c) ==
  /\ Landing(c, "proving")
  /\ \/ /\ land' = IF land.got <= onMain[c]
                     THEN [land EXCEPT !.at = "closing", !.proof = TRUE]
                     ELSE [land EXCEPT !.at = "stamping", !.res = "unproved"]
        /\ UNCHANGED faults
     \/ /\ faults < MaxFaults /\ faults' = faults + 1
        /\ land' = [land EXCEPT !.at = "closing"]
  /\ UNCHANGED <<rowVars, gitVars, agentVars, lane, phase, past, push, audit, presses, spoke>>

\* After the preview is torn down: settleLanded closes the card, unless steps of it are
\* still open, and the agent still at work on it is stopped.
LandCloses(c) ==
  /\ Landing(c, "closing") /\ Goes("probing", "merged")
  /\ \/ status[c] # "done" /\ Moved(c, "done", "system")
     \/ UNCHANGED <<status, doneActor>>
  /\ turn' = [turn EXCEPT ![c] = FALSE]
  /\ UNCHANGED <<delivered, verdict, witnessed, gitVars, capture, lane, phase, past, push, audit,
                 countVars, spoke>>

\* reapAfterLand looks: uncommitted work, or commits main has not, keep the worktree, and
\* so does an answer that does not come.
Probes(c) ==
  /\ Landing(c, "probing")
  /\ \E clear \in BOOLEAN :
       /\ clear => ~dirty[c] /\ branch[c] /\ tip[c] <= onMain[c]
       /\ land' = [land EXCEPT !.at = "reaping", !.reap = clear]
  /\ UNCHANGED <<rowVars, gitVars, agentVars, lane, phase, past, push, audit, countVars, spoke>>

\* The worktree goes, by force, and its branch with it.
Reaps(c) ==
  /\ Landing(c, "reaping") /\ Goes("stamping", land.res)
  /\ IF land.reap
       THEN branch' = [branch EXCEPT ![c] = FALSE] /\ dirty' = [dirty EXCEPT ![c] = FALSE]
       ELSE UNCHANGED <<branch, dirty>>
  /\ UNCHANGED <<rowVars, tip, onMain, agentVars, lane, phase, past, push, audit, countVars, spoke>>

\* What the land saw is written on the card, as a witness, and the ticket settles.
Stamps(c) ==
  /\ Landing(c, "stamping") /\ land.res \notin {"nothing", "noBranch"}
  /\ Stamped(c, IF land.res # "merged" THEN "unlanded"
                ELSE IF land.proof THEN "landed" ELSE "unverifiable", land.got, TRUE)
  /\ Closes(c, "settled")
  /\ UNCHANGED <<status, doneActor, gitVars, agentVars, audit, countVars>>

\* What it did not see, the repository is asked: of the delivery the card has now.
StampAsks(c) ==
  /\ Landing(c, "stamping") /\ land.res \in {"nothing", "noBranch"}
  /\ land' = [land EXCEPT !.at = "asking", !.seen = delivered[c]]
  /\ UNCHANGED <<rowVars, gitVars, agentVars, lane, phase, past, push, audit, countVars, spoke>>

StampAnswers(c) ==
  /\ Landing(c, "asking")
  /\ IF land.seen = 0 /\ verdict[c] # "unlanded"
       THEN UNCHANGED <<delivered, verdict, witnessed, spoke>>
       ELSE \E v \in Answers(c, land.seen) : Stamped(c, v[1], v[2], FALSE)
  /\ Closes(c, "settled")
  /\ UNCHANGED <<status, doneActor, gitVars, agentVars, audit, countVars>>

\* A mistake kept for checking: an error leaves the ticket open.
ThrowsUnclosed(c) ==
  /\ Running(c) /\ land.at # "merging" /\ faults < MaxFaults /\ faults' = faults + 1
  /\ IF status[c] = "done" THEN BackToAgent(c)
     ELSE Stamped(c, "unlanded", 0, TRUE) /\ UNCHANGED <<status, doneActor>>
  /\ lane' = Tail(lane) /\ land' = NoLand
  /\ UNCHANGED <<gitVars, agentVars, phase, past, push, audit, presses>>

\* Any error of a land: "not on main" on the card, which leaves Done (and that mark with
\* it), and a failed ticket.
Throws(c) ==
  /\ Running(c) /\ land.at # "merging" /\ faults < MaxFaults /\ faults' = faults + 1
  /\ IF status[c] = "done" THEN BackToAgent(c)
     ELSE Stamped(c, "unlanded", 0, TRUE) /\ UNCHANGED <<status, doneActor>>
  /\ Closes(c, "failed")
  /\ UNCHANGED <<gitVars, agentVars, audit, presses>>

\* The push of a publish ends, with or without success.
PushEnds(c) ==
  /\ push[c] = "pushing" /\ push' = [push EXCEPT ![c] = "no"]
  /\ UNCHANGED <<rowVars, gitVars, agentVars, lane, phase, past, land, audit, countVars, spoke>>

-----------------------------------------------------------------------------
(* The periodic audit, and a restart *)

\* A mistake kept for checking: the audit skips whatever a land has witnessed.
CandidateUnwitnessed(c) ==
  /\ status[c] \in {"review", "done"} /\ (delivered[c] > 0 \/ verdict[c] = "unlanded")
  /\ verdict[c] # "superseded" /\ ~witnessed[c]

\* Who the pass asks about: delivered cards, less the decided and the witnessed landings.
Candidate(c) ==
  /\ status[c] \in {"review", "done"} /\ (delivered[c] > 0 \/ verdict[c] = "unlanded")
  /\ verdict[c] # "superseded" /\ ~(witnessed[c] /\ verdict[c] = "landed")

AuditLists(c) ==
  /\ audit = NoAudit /\ Candidate(c)
  /\ audit' = [NoAudit EXCEPT !.card = c, !.commit = delivered[c]]
  /\ UNCHANGED <<rowVars, gitVars, agentVars, queueVars, countVars, spoke>>

AuditAnswers(c) ==
  /\ audit.card = c /\ audit.answer = "none"
  /\ \E v \in Answers(c, audit.commit) : 
       audit' = [audit EXCEPT !.answer = v[1], !.of = v[2]]
  /\ UNCHANGED <<rowVars, gitVars, agentVars, queueVars, countVars, spoke>>

\* The deduction is written over whatever the card says by now.
AuditRecords(c) ==
  /\ audit.card = c /\ audit.answer # "none" /\ audit' = NoAudit
  /\ Stamped(c, audit.answer, audit.of, FALSE)
  /\ UNCHANGED <<status, doneActor, gitVars, agentVars, queueVars, countVars>>

\* The queue lives in memory: a restart forgets the lands in line and the one that ran,
\* the tickets, the publishes, the deliveries being read and the audit.
Restart ==
  /\ faults < MaxFaults /\ faults' = faults + 1
  /\ lane' = <<>> /\ phase' = [c \in Card |-> "none"] /\ past' = <<>> /\ land' = NoLand
  /\ push' = [c \in Card |-> "no"] /\ audit' = NoAudit
  /\ capture' = [c \in Card |-> {}]
  /\ UNCHANGED <<rowVars, gitVars, turn, presses, spoke>>

-----------------------------------------------------------------------------
LandStep(c) ==
  \/ Begins(c)
  \/ MergeLands(c) \/ MergeFindsNothing(c) \/ MergeConflicts(c) \/ MergeSkips(c) \/ MergeHasNoBranch(c)
  \/ ProofReads(c) \/ LandCloses(c) \/ Probes(c) \/ Reaps(c)
  \/ Stamps(c) \/ StampAsks(c) \/ StampAnswers(c)

Agent(c) ==
  \/ Resumes(c) \/ Launches(c) \/ Edits(c) \/ Commits(c) \/ EntersReview(c)
  \/ Captures(c) \/ TurnEnds(c)
Person(c) == PressLand(c) \/ PressPublish(c) \/ Approve(c) \/ DragDone(c) \/ SendBack(c)
Audit(c) == Backfills(c) \/ AuditLists(c) \/ AuditAnswers(c) \/ AuditRecords(c)

Next ==
  \/ \E c \in Card : LandStep(c) \/ Throws(c) \/ PushEnds(c) \/ Agent(c) \/ Person(c) \/ Audit(c)
  \/ Restart

\* The queue runs what is in it, and the pass comes back to every card that needs asking:
\* its beat is half an hour and it goes through all of them.
Fairness ==
  /\ WF_vars(\E c \in Card : LandStep(c))
  /\ \A c \in Card : SF_vars(AuditLists(c)) /\ WF_vars(AuditAnswers(c)) /\ WF_vars(AuditRecords(c))

Spec == Init /\ [][Next]_vars /\ Fairness

-----------------------------------------------------------------------------
(* Properties *)

ColumnTypes ==
  /\ status \in [Card -> {"in_progress", "review", "done"}]
  /\ doneActor \in [Card -> {"none", "human", "system"}]
VerdictTypes ==
  /\ delivered \in [Card -> 0..MaxWork] /\ verdict \in [Card -> Verdict]
  /\ witnessed \in [Card -> BOOLEAN] /\ spoke \in [Card -> 0..MaxWork]
GitTypes ==
  /\ tip \in [Card -> 0..MaxWork] /\ onMain \in [Card -> 0..MaxWork]
  /\ branch \in [Card -> BOOLEAN] /\ dirty \in [Card -> BOOLEAN]
AgentTypes ==
  /\ turn \in [Card -> BOOLEAN] /\ capture \in [Card -> SUBSET (0..MaxWork)]
QueueTypes ==
  /\ lane \in Seq(Card) /\ phase \in [Card -> Open \cup {"none", "settled", "failed"}]
  /\ past \in Seq(Card) /\ Len(past) <= HistoryCap
  /\ push \in [Card -> {"no", "waiting", "pushing"}]
LandTypes ==
  land \in [at : At, seen : 0..MaxWork, res : Result, got : 0..MaxWork,
            proof : BOOLEAN, reap : BOOLEAN]
AuditTypes ==
  /\ audit \in [card : Card \cup {NoCard}, commit : 0..MaxWork, answer : Verdict,
                of : 0..MaxWork]
  /\ presses \in 0..MaxPress /\ faults \in 0..MaxFaults

(* The state has the shape the code gives it; the queue keeps at most HistoryCap closed
   tickets (the pruning window of landing-queue.ts). *)
TypeOK ==
  /\ ColumnTypes /\ VerdictTypes /\ GitTypes /\ AgentTypes
  /\ QueueTypes /\ LandTypes /\ AuditTypes

(* The open tickets are the lands in line, each card once, and the one that runs is the
   first: what status() and whenSettled() say of a card is what the lane will do with it,
   through errors, repeated requests and restarts (the queue keeps both by hand). *)
TicketsAreTheLane ==
  /\ IsInjective(lane)
  /\ \A c \in Card : phase[c] \in Open <=> c \in ToSet(lane)
  /\ \A c \in Card : phase[c] = "running" <=> Running(c)
  /\ land.at # "idle" => lane # <<>>

(* A card reads "landed" only if main has the delivery the verdict speaks of or, where it
   speaks of a merge of the card, main has one: whatever the agent, the audit and a restart
   did while the land or the audit was asking git.  (That merge may be of the delivery
   before: UnlandedIsNotOverturned.) *)
VerdictIsTrue ==
  \A c \in Card : verdict[c] = "landed" => onMain[c] > 0 /\ spoke[c] <= onMain[c]

(* A publish pushes only when main has work of its card: a settled ticket is not a landed
   card (the check of the publish route on landingState). *)
PublishedIsOnMain == \A c \in Card : push[c] = "pushing" => onMain[c] > 0

(* The reap of a land "can't destroy what the sweep would have protected"
   (server/routes/tasks.ts:767, of reapAfterLand): a worktree and its branch go only when
   main has all their commits and nothing in them is uncommitted. *)
NothingIsDestroyed ==
  [][\A c \in Card : branch[c] /\ ~branch'[c] => tip[c] <= onMain[c] /\ ~dirty[c]]_vars

(* "An unlanded proved from the commit is not overturned (after the land the card may have
   produced more, and that is still outside)" (server/services/landing-audit.ts:123-124):
   the audit of a delivery main has not never answers landed while its branch is there. *)
UnlandedIsNotOverturned ==
  [][\A c \in Card : AuditAnswers(c) /\ branch[c] /\ audit.commit > onMain[c]
        => audit'.answer # "landed"]_vars

(* Every land that was queued ends, or a restart forgets it. *)
EveryLandEnds == \A c \in Card : phase[c] = "queued" ~> phase[c] \notin Open

SealedLanded(c) == witnessed[c] /\ verdict[c] = "landed"
Debt(c) == status[c] = "done" /\ delivered[c] > onMain[c]

DebtSaid(c) ==
  \/ verdict[c] \in {"unlanded", "superseded"}
  \/ verdict[c] = "unverifiable" /\ spoke[c] = delivered[c]
  \/ verdict[c] = "landed" /\ spoke[c] = 0

(* A card in Done whose delivery main has not comes to say so (or that nothing is proved of
   that very delivery), however it got there and whatever was lost on the way, unless a land
   has sealed it as landed, which the audit never asks about, or a merge of the delivery
   before has answered for it (UnlandedIsNotOverturned). *)
DebtIsSaid ==
  \A c \in Card : Debt(c) ~> ~Debt(c) \/ DebtSaid(c) \/ SealedLanded(c)

(* A delivery is never sealed as landed by the land of the one before it: "re-audit from
   scratch rather than leave a stale landed on top of fresh, unlanded commits"
   (recordDelivery, server/services/tasks.ts:6660-6661). *)
LandedIsTheDelivery == \A c \in Card : SealedLanded(c) => delivered[c] <= onMain[c]
=============================================================================
