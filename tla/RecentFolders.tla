---------------------------- MODULE RecentFolders ----------------------------
(***************************************************************************)
(* The recent folders of the transcribe widget, for one agent and widget:  *)
(* rows stamped with the time of their last use, cut to the newest Limit.  *)
(*                                                                         *)
(* To tell apart uses in one millisecond, a stamp is the clock plus the    *)
(* number of uses the process has counted, of any agent: it runs ahead of  *)
(* the clock until the process restarts.                                   *)
(***************************************************************************)
EXTENDS Naturals, FiniteSets, Functions

CONSTANTS
  Folders,
  Limit,         \* RECENT_FOLDERS_LIMIT
  MaxUses,       \* bound: uses counted by one process
  MaxClock,      \* bound: milliseconds
  MaxRestarts    \* bound: restarts of the server

ASSUME FoldersAssumption ==
  /\ IsFiniteSet(Folders)
  /\ Limit \in Nat \ {0}
  /\ MaxUses \in Nat /\ MaxClock \in Nat \ {0} /\ MaxRestarts \in Nat

VARIABLES
  lastUsedAt,  \* last_used_at of each row, 0 where there is none
  sequence,    \* recentFolderTouchSequence
  clock,
  restarts

folderVars == <<lastUsedAt, sequence, clock, restarts>>

FoldersTypeOK ==
  /\ lastUsedAt \in [Folders -> 0 .. MaxClock + MaxUses]
  /\ sequence \in 0 .. MaxUses
  /\ clock \in 1 .. MaxClock
  /\ restarts \in 0 .. MaxRestarts

FoldersInit ==
  /\ lastUsedAt = [f \in Folders |-> 0]
  /\ sequence = 0 /\ clock = 1 /\ restarts = 0

\* nextRecentFolderTimestamp.
TimestampOfClock == clock                                           \* mutant
Timestamp == clock + sequence

Counts == sequence < MaxUses /\ sequence' = sequence + 1

Present(stamps) == {f \in Folders : stamps[f] # 0}

\* What DELETE ... NOT IN (... ORDER BY last_used_at DESC LIMIT ?) may keep: rows
\* with one stamp come in any order.
KeptOneMore(stamps) ==                                              \* mutant
  {K \in SUBSET Present(stamps) :
     /\ Cardinality(Present(stamps)) <= Limit + 1 => K = Present(stamps)
     /\ Cardinality(Present(stamps)) > Limit + 1 => Cardinality(K) = Limit + 1
     /\ \A f \in K, g \in Present(stamps) \ K : stamps[f] >= stamps[g]}
Kept(stamps) ==
  {K \in SUBSET Present(stamps) :
     /\ Cardinality(Present(stamps)) <= Limit => K = Present(stamps)
     /\ Cardinality(Present(stamps)) > Limit => Cardinality(K) = Limit
     /\ \A f \in K, g \in Present(stamps) \ K : stamps[f] >= stamps[g]}

\* touchRecentFolder, by fs-list or transcribe-stream: one transaction.
Touch(f) ==
  /\ Counts
  /\ \E K \in Kept([lastUsedAt EXCEPT ![f] = Timestamp]) :
       lastUsedAt' = [g \in Folders |->
         IF g \notin K THEN 0 ELSE IF g = f THEN Timestamp ELSE lastUsedAt[g]]
  /\ UNCHANGED <<clock, restarts>>

\* A use by another agent, or one that is rolled back: only the count stays.
TouchElsewhere == Counts /\ UNCHANGED <<lastUsedAt, clock, restarts>>

Tick ==
  /\ clock < MaxClock /\ clock' = clock + 1
  /\ UNCHANGED <<lastUsedAt, sequence, restarts>>

\* The rows survive, the count starts over.
Restart ==
  /\ restarts < MaxRestarts /\ restarts' = restarts + 1
  /\ sequence' = 0
  /\ UNCHANGED <<lastUsedAt, clock>>

FoldersNext == (\E f \in Folders : Touch(f)) \/ TouchElsewhere \/ Tick \/ Restart

FoldersSpec == FoldersInit /\ [][FoldersNext]_folderVars

-----------------------------------------------------------------------------
(* Properties.                                                             *)

\* What ORDER BY last_used_at DESC may give: rows with one stamp in any order.
Listings(stamps) ==
  LET n == Cardinality(Present(stamps))
  IN  {list \in Bijection(1 .. n, Present(stamps)) :
         \A i, j \in 1 .. n : i < j => stamps[list[i]] >= stamps[list[j]]}

\* listRecentFolders.
Listed == CHOOSE list \in Listings(lastUsedAt) : TRUE

\* The list never outgrows its limit, restarts or not.
ListIsBounded == Cardinality(Present(lastUsedAt)) <= Limit

\* The test "keeps recent folders as a 5-item stack", for every sequence of uses:
\* until the process restarts the rows are a stack of folders, although a clock
\* that may stand still between uses tells them apart.
Stack == INSTANCE FolderStack WITH stack <- Listed

StackUntilRestart ==
  Stack!Init /\ [][restarts' = 0 => Stack!Next]_Listed

=============================================================================
