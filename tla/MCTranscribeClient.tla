-------------------------- MODULE MCTranscribeClient --------------------------
(* Instances of TranscribeClient for TLC.                                  *)
EXTENDS TranscribeClient, TLC

\* One folder with recordings, one without.
TwoFolders == [f \in Folders |-> IF f = "calls" THEN Files ELSE {}]

\* Slots and files are interchangeable; the run checks invariants only.
Interchangeable == Permutations(Slots) \cup Permutations(Files)

=============================================================================
