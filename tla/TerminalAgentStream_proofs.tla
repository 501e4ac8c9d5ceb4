---------------------- MODULE TerminalAgentStream_proofs ----------------------
(* Theorems about TerminalAgentStream, for every value of its constants.   *)
EXTENDS TerminalAgentStream, TLAPS

\* A request that has not run yet has closed nothing.
FreshIsOpen == \A m \in Streams \ started : end[m] = "none"

\* A ref captured by a request is listed, as the row was when it read it.
CapturedIsListed ==
  faults = 0 => \A m \in Streams : captured[m] \in dialogs \cup {None}

\* The inductive invariant of the streams, and with it that of the refs.
StreamInv ==
  TypeOK /\ FreshIsOpen /\ OpenIsServed /\ EndedIsSilent /\ ToldOnce
RefInv == TypeOK /\ CapturedIsListed /\ RefIsListed

-----------------------------------------------------------------------------
LEMMA MarkedType ==
  ASSUME TypeOK,
         NEW status \in {"idle", "running", "resuming", "done", "error"},
         NEW error \in {"none", "timeout", "offline", "resume_failed", "agent"}
  PROVE  Marked(status, error) \in Row /\ Marked(status, error).ref = row.ref
BY DEF TypeOK, Row, Marked

LEMMA DoneType ==
  ASSUME TypeOK, NEW m \in Streams, NEW reported \in MaybeRef
  PROVE  /\ DoneRef(m, reported) \in MaybeRef
         /\ DoneRow(DoneRef(m, reported)) \in Row
         /\ Listed(DoneRef(m, reported)) \in SUBSET Refs
<1>1. DoneRef(m, reported) \in MaybeRef  BY DEF TypeOK, DoneRef
<1> QED  BY <1>1 DEF TypeOK, DoneRow, Row, Listed, MaybeRef

\* What closing a stream does to its end, and sending on it to its count.
LEMMA CloseType ==
  ASSUME TypeOK, NEW m \in Streams, NEW how \in Ends
  PROVE  /\ EndedBy(m, how) \in [Streams -> Ends]
         /\ Told(m) \in [Streams -> Nat]
         /\ \A t \in SUBSET started : TimersAfterClose(m, t) \in SUBSET started
BY DEF TypeOK, EndedBy, Told, TimersAfterClose

LEMMA TypeInit == Init => TypeOK
BY StreamAssumption
DEF Init, TypeOK, Row, ClearRow, MaybeRef, Ends, Jobs

LEMMA TypeStep == TypeOK /\ [Next]_vars => TypeOK'
<1> SUFFICES ASSUME TypeOK, [Next]_vars PROVE TypeOK'
  OBVIOUS
<1> USE StreamAssumption DEF Fault
<1>1. ASSUME NEW m \in Streams, Start(m) PROVE TypeOK'
  <2>1. row' \in Row /\ row.ref \in MaybeRef
    BY <1>1, MarkedType DEF Start, TypeOK, Row
  <2> QED  BY <1>1, <2>1 DEF Start, TypeOK, TimersReset, Jobs
<1>2. ASSUME NEW m \in Streams, StartRejected(m) PROVE TypeOK'
  <2>1. row' \in Row /\ row.ref \in MaybeRef
    BY <1>2, MarkedType DEF StartRejected, TypeOK, Row
  <2>2. end' \in [Streams -> Ends] /\ told' \in [Streams -> Nat]
    BY <1>2, CloseType DEF StartRejected, Ends
  <2>3. armed' \in SUBSET started'
    BY <1>2 DEF StartRejected, TypeOK, TimersAfterClose, TimersReset
  <2> QED  BY <1>2, <2>1, <2>2, <2>3 DEF StartRejected, TypeOK
<1>3. CASE Clear
  BY <1>3 DEF Clear, TypeOK, ClearRow, Row, MaybeRef
<1>4. ASSUME NEW ref \in Refs, Select(ref) PROVE TypeOK'
  BY <1>4 DEF Select, TypeOK, Row, MaybeRef
<1>5. ASSUME NEW m \in Streams, Abort(m) PROVE TypeOK'
  <2>1. end' \in [Streams -> Ends]  BY <1>5, CloseType DEF Abort, Ends
  <2> QED  BY <1>5, <2>1 DEF Abort, TypeOK, Off, TimersAfterClose
<1>6. ASSUME NEW m \in Streams, IdleTimeout(m) PROVE TypeOK'
  <2>1. end' \in [Streams -> Ends] /\ told' \in [Streams -> Nat]
    BY <1>6, CloseType DEF IdleTimeout, Ends
  <2> QED  BY <1>6, <2>1, MarkedType DEF IdleTimeout, TypeOK
<1>7. ASSUME NEW m \in Streams, Progress(m) PROVE TypeOK'
  BY <1>7, MarkedType DEF Progress, Hears, TypeOK, TimersReset
<1>8. ASSUME NEW m \in Streams, NEW reported \in MaybeRef, Done(m, reported)
      PROVE  TypeOK'
  <2>1. row' \in Row /\ dialogs' \in SUBSET Refs
    BY <1>8, DoneType DEF Done
  <2>2. end' \in [Streams -> Ends] /\ told' \in [Streams -> Nat]
    BY <1>8, CloseType DEF Done, Ends
  <2> QED
    BY <1>8, <2>1, <2>2
    DEF Done, Hears, TypeOK, Off, TimersAfterClose, TimersReset, Jobs
<1>9. ASSUME NEW m \in Streams, ResumeFailed(m) PROVE TypeOK'
  BY <1>9 DEF ResumeFailed, Hears, TypeOK, TimersReset, Row, MaybeRef, Jobs
<1>10. ASSUME NEW m \in Streams, AgentError(m) PROVE TypeOK'
  <2>1. end' \in [Streams -> Ends] /\ told' \in [Streams -> Nat]
    BY <1>10, CloseType DEF AgentError, Ends
  <2> QED
    BY <1>10, <2>1, MarkedType
    DEF AgentError, Hears, TypeOK, Off, TimersAfterClose, TimersReset, Jobs
<1>11. ASSUME NEW m \in Streams, HandlerThrows(m) PROVE TypeOK'
  <2>1. row' \in Row
    BY <1>11 DEF HandlerThrows, TypeOK, DoneRow, Row, MaybeRef
  <2>2. job' \in [Streams -> Jobs]
    BY <1>11 DEF HandlerThrows, TypeOK, Jobs
  <2> QED
    BY <1>11, <2>1, <2>2 DEF HandlerThrows, Hears, TypeOK, TimersReset
<1>12. ASSUME NEW m \in Streams, JobLost(m) PROVE TypeOK'
  BY <1>12 DEF JobLost, TypeOK, Jobs
<1>13. CASE ServerCrash
  BY <1>13 DEF ServerCrash, TypeOK, Ends
<1>14. CASE UNCHANGED vars
  BY <1>14 DEF vars, TypeOK
<1>15. ASSUME NEW m \in Streams, StartFails(m) PROVE TypeOK'
  <2>1. row' \in Row /\ row.ref \in MaybeRef
    BY <1>15, MarkedType DEF StartFails, TypeOK, Row
  <2>2. end' \in [Streams -> Ends]
    BY <1>15, CloseType DEF StartFails, Ends
  <2> QED  BY <1>15, <2>1, <2>2 DEF StartFails, TypeOK, TimersReset
<1> QED
  BY <1>1, <1>2, <1>3, <1>4, <1>5, <1>6, <1>7, <1>8, <1>9, <1>10, <1>11,
     <1>12, <1>13, <1>14, <1>15
  DEF Next

\* The state of every stream stays well typed.
THEOREM TypeCorrect == Spec => []TypeOK
BY TypeInit, TypeStep, PTL DEF Spec

-----------------------------------------------------------------------------
LEMMA StreamInit == Init => StreamInv
<1> SUFFICES ASSUME Init PROVE StreamInv  OBVIOUS
<1>1. FreshIsOpen /\ OpenIsServed /\ EndedIsSilent /\ ToldOnce
  BY DEF Init, FreshIsOpen, OpenIsServed, Open, EndedIsSilent, ToldOnce, Closed
<1> QED  BY <1>1, TypeInit DEF StreamInv

\* One stream after a step, seen from itself: enough for the whole invariant.
StreamOK(m) ==
  /\ m \notin started => end[m] = "none"
  /\ m \in started /\ end[m] = "none" => m \in subscribed /\ m \in armed
  /\ m \in subscribed => end[m] \in {"none", "timeout"}
  /\ m \in armed => end[m] \in {"none", "timeout", "failed"}
  /\ end[m] \notin {"left", "failed"} =>
       told[m] = IF end[m] = "none" THEN 0 ELSE 1

LEMMA StreamByStream ==
  ASSUME TypeOK
  PROVE  StreamInv <=> \A m \in Streams : StreamOK(m)
<1>1. ASSUME StreamInv, NEW m \in Streams PROVE StreamOK(m)
  BY <1>1
  DEF TypeOK, StreamInv, FreshIsOpen, OpenIsServed, Open, Closed,
      EndedIsSilent, ToldOnce, StreamOK
<1>2. ASSUME \A m \in Streams : StreamOK(m) PROVE StreamInv
  BY <1>2
  DEF TypeOK, StreamInv, FreshIsOpen, OpenIsServed, Open, Closed,
      EndedIsSilent, ToldOnce, StreamOK
<1> QED  BY <1>1, <1>2

\* A step that leaves what StreamOK reads of the other streams alone.
LEMMA OneStream ==
  ASSUME TypeOK, TypeOK', StreamInv, NEW m \in Streams, StreamOK(m)',
         \A n \in Streams \ {m} :
           /\ n \in started' <=> n \in started
           /\ n \in subscribed' <=> n \in subscribed
           /\ n \in armed' <=> n \in armed
           /\ end'[n] = end[n] /\ told'[n] = told[n]
  PROVE  StreamInv'
<1>1. \A n \in Streams : StreamOK(n)  BY StreamByStream
<1>2. ASSUME NEW n \in Streams PROVE StreamOK(n)'
  <2>1. CASE n = m  BY <2>1
  <2>2. CASE n # m  BY <1>1, <2>2 DEF StreamOK
  <2> QED  BY <2>1, <2>2
<1>3. TypeOK' => (StreamInv' <=> \A n \in Streams : StreamOK(n)')
  BY DEF TypeOK, StreamInv, FreshIsOpen, OpenIsServed, Open, Closed,
         EndedIsSilent, ToldOnce, StreamOK
<1> QED  BY <1>2, <1>3

LEMMA StreamStep == StreamInv /\ [Next]_vars => StreamInv'
<1> SUFFICES ASSUME StreamInv, [Next]_vars PROVE StreamInv'
  OBVIOUS
<1>0. TypeOK /\ TypeOK' /\ \A m \in Streams : StreamOK(m)
  BY TypeStep, StreamByStream DEF StreamInv
<1> USE <1>0 DEF TypeOK, StreamOK, Closed, Ends
<1>1. ASSUME NEW m \in Streams, Start(m) PROVE StreamInv'
  BY <1>1, OneStream DEF Start, TimersReset
<1>2. ASSUME NEW m \in Streams, StartRejected(m) PROVE StreamInv'
  <2>1. end[m] = "none" /\ told[m] = 0 /\ m \notin subscribed
    BY <1>2 DEF StartRejected
  <2> QED
    BY <1>2, <2>1, OneStream
    DEF StartRejected, Told, EndedBy, TimersAfterClose, TimersReset
<1>3. ASSUME UNCHANGED <<started, end, subscribed, armed, told>>
      PROVE  StreamInv'
  BY <1>3
  DEF StreamInv, FreshIsOpen, OpenIsServed, Open, EndedIsSilent, ToldOnce
<1>4. ASSUME NEW m \in Streams, Abort(m) PROVE StreamInv'
  BY <1>4, OneStream DEF Abort, Off, EndedBy, TimersAfterClose
<1>5. ASSUME NEW m \in Streams, IdleTimeout(m) PROVE StreamInv'
  BY <1>5, OneStream DEF IdleTimeout, Told, EndedBy
<1>6. ASSUME NEW m \in subscribed, armed' = TimersReset(m),
             UNCHANGED <<started, end, subscribed, told>>
      PROVE  StreamInv'
  BY <1>6, OneStream DEF TimersReset
<1>7. ASSUME NEW m \in subscribed,
             told' = Told(m), subscribed' = Off(m), end' = EndedBy(m, "told"),
             armed' = TimersAfterClose(m, TimersReset(m)),
             UNCHANGED started
      PROVE  StreamInv'
  BY <1>7, OneStream
  DEF Told, Off, EndedBy, TimersAfterClose, TimersReset
<1>8. CASE ServerCrash
  BY <1>8
  DEF ServerCrash, StreamInv, FreshIsOpen, OpenIsServed, Open, EndedIsSilent,
      ToldOnce
<1>9. ASSUME NEW m \in Streams,
             Progress(m) \/ ResumeFailed(m) \/ HandlerThrows(m)
      PROVE  StreamInv'
  BY <1>6, <1>9 DEF Progress, ResumeFailed, HandlerThrows, Hears
<1>10. ASSUME NEW m \in Streams, AgentError(m) PROVE StreamInv'
  BY <1>7, <1>10 DEF AgentError, Hears
<1>11. ASSUME NEW m \in Streams, NEW reported \in MaybeRef, Done(m, reported)
       PROVE  StreamInv'
  BY <1>7, <1>11 DEF Done, Hears
<1>12. ASSUME NEW m \in Streams, JobLost(m) PROVE StreamInv'
  BY <1>3, <1>12 DEF JobLost
<1>13. ASSUME Clear \/ (\E ref \in Refs : Select(ref)) \/ UNCHANGED vars
       PROVE  StreamInv'
  BY <1>3, <1>13 DEF Clear, Select, vars
<1>14. ASSUME NEW m \in Streams, StartFails(m) PROVE StreamInv'
  BY <1>14, OneStream DEF StartFails, EndedBy, TimersReset
<1> QED
  BY <1>1, <1>2, <1>4, <1>5, <1>8, <1>9, <1>10, <1>11, <1>12, <1>13, <1>14
  DEF Next

\* An open stream hears its message and has its timer pending, whatever other
\* streams of the agent, failing writes and crashes do.
THEOREM OpenServed == Spec => []OpenIsServed
<1>1. StreamInv => OpenIsServed  BY DEF StreamInv
<1> QED  BY <1>1, StreamInit, StreamStep, PTL DEF Spec

\* A stream that its idle timer did not close never writes again.
THEOREM EndedSilent == Spec => []EndedIsSilent
<1>1. StreamInv => EndedIsSilent  BY DEF StreamInv
<1> QED  BY <1>1, StreamInit, StreamStep, PTL DEF Spec

\* A client that got its stream and stays is told its end exactly once.
THEOREM ToldExactlyOnce == Spec => []ToldOnce
<1>1. StreamInv => ToldOnce  BY DEF StreamInv
<1> QED  BY <1>1, StreamInit, StreamStep, PTL DEF Spec

-----------------------------------------------------------------------------
LEMMA RefInit == Init => RefInv
<1> SUFFICES ASSUME Init PROVE RefInv  OBVIOUS
<1>1. CapturedIsListed /\ RefIsListed
  BY DEF Init, ClearRow, CapturedIsListed, RefIsListed
<1> QED  BY <1>1, TypeInit DEF RefInv

LEMMA RefStep == RefInv /\ [Next]_vars => RefInv'
<1> SUFFICES ASSUME RefInv, [Next]_vars PROVE RefInv'
  OBVIOUS
<1>0. TypeOK /\ TypeOK'  BY TypeStep DEF RefInv
<1> USE <1>0 DEF RefInv, CapturedIsListed, RefIsListed
\* A fault lifts the claim.
<1>1. ASSUME Fault PROVE RefInv'
  BY <1>1, StreamAssumption DEF Fault, TypeOK
\* A request reads the row it will fall back to.
<1>2. ASSUME NEW m \in Streams, captured' = [captured EXCEPT ![m] = row.ref],
             row'.ref = row.ref, UNCHANGED <<dialogs, faults>>
      PROVE  RefInv'
  BY <1>2 DEF TypeOK
<1>3. ASSUME row'.ref \in {row.ref, None} \cup dialogs,
             UNCHANGED <<dialogs, captured, faults>>
      PROVE  RefInv'
  BY <1>3
<1>4. ASSUME NEW m \in Streams, Start(m) \/ StartRejected(m) PROVE RefInv'
  BY <1>2, <1>4, MarkedType DEF Start, StartRejected
<1>5. ASSUME NEW m \in Streams,
             \/ Abort(m) \/ IdleTimeout(m) \/ Progress(m) \/ AgentError(m)
             \/ ResumeFailed(m) \/ JobLost(m)
      PROVE  RefInv'
  BY <1>3, <1>5, MarkedType
  DEF Abort, IdleTimeout, Progress, AgentError, ResumeFailed, JobLost
\* The answer lists the ref it writes.
<1>6. ASSUME NEW m \in Streams, NEW reported \in MaybeRef, Done(m, reported)
      PROVE  RefInv'
  BY <1>6 DEF Done, DoneRow, Listed
<1>7. CASE Clear \/ \E ref \in Refs : Select(ref)
  BY <1>3, <1>7 DEF Clear, ClearRow, Select
<1>8. ASSUME NEW m \in Streams, HandlerThrows(m) \/ StartFails(m)
      PROVE  RefInv'
  BY <1>1, <1>8 DEF HandlerThrows, StartFails
<1>9. CASE ServerCrash
  BY <1>1, <1>9 DEF ServerCrash
<1>10. CASE UNCHANGED vars
  BY <1>3, <1>10 DEF vars
<1> QED  BY <1>4, <1>5, <1>6, <1>7, <1>8, <1>9, <1>10 DEF Next

\* Without a failed write, the ref the next message resumes can be selected.
THEOREM RefListed == Spec => []RefIsListed
<1>1. RefInv => RefIsListed  BY DEF RefInv
<1> QED  BY <1>1, RefInit, RefStep, PTL DEF Spec

=============================================================================
