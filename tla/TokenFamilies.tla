---------------------------- MODULE TokenFamilies ----------------------------
(***************************************************************************)
(* What the token tables promise.  Spending one use of an enrollment token *)
(* starts at most one family of refresh tokens; a family is live while one *)
(* of its tokens can be exchanged; rotation goes unnoticed; and a family   *)
(* that is dead stays dead.                                                *)
(***************************************************************************)
EXTENDS Naturals

CONSTANTS Tickets, MaxUses

VARIABLES
  left,   \* uses left of each enrollment token, 0 before it is created
  made,   \* the enrollment tokens created so far
  live    \* the live families: <<ticket, uses left when it was started>>

vars == <<left, made, live>>

Init == left = [e \in Tickets |-> 0] /\ made = {} /\ live = {}

Create(e) ==
  /\ e \notin made
  /\ made' = made \cup {e}
  /\ \E n \in 1 .. MaxUses : left' = [left EXCEPT ![e] = n]
  /\ UNCHANGED live

\* A use is spent, and the family it pays for may or may not come to life.
Spend(e) ==
  /\ left[e] > 0
  /\ left' = [left EXCEPT ![e] = @ - 1]
  /\ live' \in {live, live \cup {<<e, left[e] - 1>>}}
  /\ UNCHANGED made

Kill(f) == f \in live /\ live' = live \ {f} /\ UNCHANGED <<left, made>>

Next ==
  \/ \E e \in Tickets : Create(e) \/ Spend(e)
  \/ \E f \in live : Kill(f)

Spec == Init /\ [][Next]_vars

=============================================================================
