--------------------------- MODULE MCPassportTokens ---------------------------
(* Instances of PassportTokens for TLC.                                    *)
EXTENDS PassportTokens, TLC

\* Calls and agents are interchangeable; token rows are chosen in one order.
Symmetry == Permutations(Calls) \cup Permutations(Agents)

=============================================================================
