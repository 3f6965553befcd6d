------------------------------ MODULE EndNotice ------------------------------
(***************************************************************************)
(* What a chat is promised of the commands it starts (header of            *)
(* server/lib/process-exit-wake.ts, "When a run_command process ends, the  *)
(* topic that launched it is told ... Once"): the end of a command is owed *)
(* from its start, it is said at most once and to a chat that does not     *)
(* know it, and the debt goes for a reason only, and for good.  The        *)
(* promise says nothing of rows, chains, posts, copies or restarts:        *)
(* CommandWake implements it through all of them.                          *)
(***************************************************************************)
CONSTANT Command   \* the commands of the chat

VARIABLES
  end,      \* of each command: unborn, owed, settled
  told,     \* the ends the chat has a message of
  known,    \* the ends a turn read, and the commands somebody stopped
  watched,  \* the commands the turn at work waits for
  shut      \* the chat takes no messages of this kind any more

vars == <<end, told, known, watched, shut>>

Init ==
  /\ end = [c \in Command |-> "unborn"]
  /\ told = {} /\ known = {} /\ watched = {} /\ shut = FALSE

\* The turns and the archiving of the chat are not the promise's: they go their own way.
World == watched' \in SUBSET Command /\ shut' \in {shut, TRUE}

Start(c) ==
  /\ end[c] = "unborn" /\ end' = [end EXCEPT ![c] = "owed"]
  /\ UNCHANGED <<told, known>> /\ World

\* A turn reads the end, or somebody stops the command: nothing is owed of it, unless the
\* message of its end is already out.
Learn(c) ==
  /\ end[c] # "unborn" /\ known' = known \cup {c}
  /\ end' \in {end, [end EXCEPT ![c] = "settled"]}
  /\ end'[c] = "owed" => c \in told
  /\ UNCHANGED told /\ World

\* The chat is told.
Tell(c) ==
  /\ end[c] = "owed" /\ c \notin known \cup told /\ told' = told \cup {c}
  /\ UNCHANGED <<end, known>> /\ World

\* The debt goes: the chat was told, the turn at work waits for this very end, or nobody is
\* to be told any more.
Settle(c) ==
  /\ end[c] = "owed" /\ (c \in told \cup watched \/ shut)
  /\ end' = [end EXCEPT ![c] = "settled"]
  /\ UNCHANGED <<told, known>> /\ World

Elsewhere == UNCHANGED <<end, told, known>> /\ World

Next == Elsewhere \/ \E c \in Command : Start(c) \/ Learn(c) \/ Tell(c) \/ Settle(c)

Spec == Init /\ [][Next]_vars
=============================================================================
