----------------------------- MODULE FolderStack -----------------------------
(***************************************************************************)
(* What the recent folders promise: a stack of at most Limit different     *)
(* folders, the one used last on top.                                      *)
(***************************************************************************)
EXTENDS Naturals, Sequences

CONSTANTS Folders, Limit

VARIABLE stack

Depth == Len(stack)

Init == stack = <<>>

\* Where f is, or the place below all folders if it is not in the stack.
IsAt(f, place) ==
  IF place <= Depth THEN stack[place] = f
                    ELSE \A i \in 1 .. Depth : stack[i] # f

DepthAfter(place) == IF place <= Depth \/ Depth = Limit THEN Depth ELSE Depth + 1

\* f leaves its place for the top, and those above that place move down; in a
\* full stack a new folder takes the place of the last one.
Touch(f) ==
  \E place \in 1 .. Depth + 1 :
    /\ IsAt(f, place)
    /\ stack' = [i \in 1 .. DepthAfter(place) |->
         IF i = 1 THEN f ELSE IF i <= place THEN stack[i - 1] ELSE stack[i]]

Next == \E f \in Folders : Touch(f)

Spec == Init /\ [][Next]_stack

=============================================================================
