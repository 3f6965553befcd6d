----------------------------- MODULE QuestionLife -----------------------------
(***************************************************************************)
(* The one life of a question an agent asks its person (headers of         *)
(* server/lib/ask-user-bridge.ts, "No clock ends a question", and of       *)
(* server/lib/question-outlives-asker.ts): it is shown once, answered once *)
(* while it is on screen, and its answer comes either back as the result   *)
(* of its own call or as one message, or is lost with the turn it was for. *)
(* What is over stays over.  The one thing that ends this life from        *)
(* outside is the adoption of a turn by a new server, which shows again a  *)
(* panel whose answer its asker has not passed on yet                      *)
(* (providers/claude-code.ts 3546-3548); a question that is over is taken  *)
(* up again only after that happened to another, and of a reopened one     *)
(* nothing more is promised.  The life says nothing of legs, buffers,      *)
(* asks, marks or restarts: AskBridge goes through all of them.            *)
(***************************************************************************)
CONSTANT Question

VARIABLE fate   \* of each question

Over == {"message", "result", "closed"}

\* Where a question may go from where it is.
After(f) ==
  CASE f = "unasked"  -> {"open"}
    [] f = "open"     -> {"answered", "message", "closed"}
    [] f = "answered" -> Over \cup {"reopened"}
    [] f \in Over     -> {"reopened"}
    [] OTHER          -> {}   \* reopened

Init == fate = [q \in Question |-> "unasked"]

\* One step of the program may move several questions: an answer sends another one off,
\* a turn that is stopped closes what is on its row.
Next ==
  /\ fate' \in [Question -> {"unasked", "open", "answered", "reopened"} \cup Over]
  /\ \A q \in Question :
       /\ fate'[q] \in {fate[q]} \cup After(fate[q])
       /\ fate[q] \in Over /\ fate'[q] = "reopened" => \E p \in Question : fate[p] = "reopened"

Spec == Init /\ [][Next]_fate
=============================================================================
