----------------------------- MODULE AgentAnswers -----------------------------
(***************************************************************************)
(* What the server may count on when it sends the Rust agent a command:    *)
(* the events that come back for it are progress, then one verdict, and    *)
(* nothing after that.  An answer follows at least one piece of text, a    *)
(* failed resume is followed by the error only, and the rest of the events *)
(* may be lost at any time.                                                *)
(***************************************************************************)
CONSTANT Jobs

VARIABLE answer     \* how far the server has heard of each job

States == {"none", "running", "speaking", "failing", "answered", "over"}
Working == {"running", "speaking", "failing"}

Init == answer = [j \in Jobs |-> "none"]

Becomes(j, from, to) ==
  answer[j] \in from /\ answer' = [answer EXCEPT ![j] = to]

Begin(j) == Becomes(j, {"none"}, "running")
Speak(j) == Becomes(j, {"running"}, "speaking")
ResumeFailed(j) == Becomes(j, {"running", "speaking"}, "failing")
Answered(j) == Becomes(j, {"speaking"}, "answered")

\* The error, or the loss of whatever was still to come.
Over(j) == Becomes(j, Working, "over")

\* The end of a connection is the end of every job it carried.
AllOver == \E lost \in SUBSET {j \in Jobs : answer[j] \in Working} :
             answer' = [j \in Jobs |-> IF j \in lost THEN "over" ELSE answer[j]]

Next ==
  \/ \E j \in Jobs : Begin(j) \/ Speak(j) \/ ResumeFailed(j) \/ Answered(j) \/ Over(j)
  \/ AllOver

Spec == Init /\ [][Next]_answer

===============================================================================
