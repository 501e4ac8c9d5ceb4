---------------------- MODULE TranscribeServer_proofs ----------------------
(***************************************************************************)
(* Proofs about the server of the transcribe widget: its jobs, for any     *)
(* number of jobs and faults, and its recent folders, for every limit.     *)
(*                                                                         *)
(* The theorems about jobs rest on the order of the wire: a verdict is the *)
(* last event a job ever sends, so whatever is handled after a verdict is  *)
(* nothing.                                                                *)
(***************************************************************************)
EXTENDS TranscribeJobs, RecentFolders, SequenceTheorems, FiniteSetTheorems, TLAPS

Verdicts == {"done", "error"}

\* The last thing the agent sends is a verdict, and when it says "done" the
\* transcript is on its disk.
VerdictIsLast(j) ==
  \A i \in 1 .. Len(wire[j]) : wire[j][i].type \in Verdicts =>
    /\ i = Len(wire[j]) /\ sent[j] = Len(Script)
    /\ wire[j][i].type = "done" => j \in saved

\* Before a job exists and after its verdict nothing of it is under way.
Quiet(j) ==
  row[j].status \in {"none", "completed", "failed"} =>
    wire[j] = <<>> /\ sent[j] = Len(Script)

Told(j) ==
  /\ told[j] = "done" =>
       /\ row[j] = [status |-> "completed", progress |-> 100]
       /\ "transcription_completed" \in outbox[j]
  /\ told[j] = "error" => row[j].status = "failed"

Saved(j) ==
  row[j].status = "completed" \/ "transcription_completed" \in outbox[j]
    => j \in saved

JobInv(j) == VerdictIsLast(j) /\ Quiet(j) /\ Told(j) /\ Saved(j)
Inv == TypeOK /\ \A j \in Jobs : JobInv(j)

\* What a job's part of the invariant is about.
Same(j) ==
  /\ row'[j] = row[j] /\ outbox'[j] = outbox[j] /\ told'[j] = told[j]
  /\ sent'[j] = sent[j] /\ wire'[j] = wire[j] /\ (j \in saved => j \in saved')

LEMMA SameKeeps ==
  ASSUME NEW j \in Jobs, JobInv(j), Same(j)
  PROVE  JobInv(j)'
BY DEF JobInv, VerdictIsLast, Quiet, Told, Saved, Same

-----------------------------------------------------------------------------
(* The script and the wire.                                                *)

LEMMA ScriptFacts ==
  /\ Len(Script) = 6 /\ \A i \in 1 .. 6 : Script[i] \in Event
  /\ \A i \in 1 .. 5 : Script[i].type \notin Verdicts
  /\ Script[6].type = "done"
BY DEF Script, Progress, Other, Event, Verdicts

\* The head of a wire is its only event when it is a verdict.
LEMMA TakesFacts ==
  ASSUME TypeOK, NEW j \in Jobs, NEW type, Takes(j, type), VerdictIsLast(j)
  PROVE  /\ wire' \in [Jobs -> Seq(Event)]
         /\ \A k \in Jobs \ {j} : wire'[k] = wire[k]
         /\ Len(wire'[j]) = Len(wire[j]) - 1
         /\ \A i \in 1 .. Len(wire'[j]) : wire'[j][i] = wire[j][i + 1]
         /\ type \in Verdicts => /\ wire'[j] = <<>> /\ sent[j] = Len(Script)
                                 /\ type = "done" => j \in saved
<1>1. wire[j] \in Seq(Event) /\ wire[j] # <<>> /\ Head(wire[j]).type = type
      /\ wire' = [wire EXCEPT ![j] = Tail(@)]
  BY DEF TypeOK, Takes
<1>2. /\ Tail(wire[j]) \in Seq(Event) /\ Len(Tail(wire[j])) = Len(wire[j]) - 1
      /\ \A i \in 1 .. Len(wire[j]) - 1 : Tail(wire[j])[i] = wire[j][i + 1]
      /\ Head(wire[j]) = wire[j][1] /\ Len(wire[j]) \in Nat \ {0}
  BY <1>1, HeadTailProperties, EmptySeq
<1>3. wire' \in [Jobs -> Seq(Event)] /\ wire'[j] = Tail(wire[j])
      /\ \A k \in Jobs \ {j} : wire'[k] = wire[k]
  BY <1>1, <1>2 DEF TypeOK
<1>4. ASSUME type \in Verdicts
      PROVE  /\ wire'[j] = <<>> /\ sent[j] = Len(Script)
             /\ type = "done" => j \in saved
  <2>1. 1 \in 1 .. Len(wire[j]) /\ wire[j][1].type = type
    BY <1>1, <1>2
  <2>2. Len(wire[j]) = 1 /\ sent[j] = Len(Script) /\ (type = "done" => j \in saved)
    BY <1>4, <2>1 DEF VerdictIsLast
  <2>3. Tail(wire[j]) = <<>>
    <3>1. Len(Tail(wire[j])) = 0 /\ Tail(wire[j]) \in Seq(Event)
      BY <1>2, <2>2
    <3> QED  BY <3>1, EmptySeq
  <2> QED  BY <1>3, <2>2, <2>3
<1> QED  BY <1>2, <1>3, <1>4

\* A wire that lost its first event keeps what holds of the rest.
LEMMA TakesKeeps ==
  ASSUME TypeOK, NEW j \in Jobs, NEW type, Takes(j, type), VerdictIsLast(j),
         sent'[j] = sent[j], j \in saved => j \in saved'
  PROVE  VerdictIsLast(j)'
<1>1. /\ Len(wire'[j]) = Len(wire[j]) - 1
      /\ \A i \in 1 .. Len(wire'[j]) : wire'[j][i] = wire[j][i + 1]
  BY TakesFacts
<1>2. Len(wire[j]) \in Nat
  BY DEF TypeOK
<1> SUFFICES ASSUME NEW i \in 1 .. Len(wire'[j]), wire'[j][i].type \in Verdicts
             PROVE  /\ i = Len(wire'[j]) /\ sent'[j] = Len(Script)
                    /\ wire'[j][i].type = "done" => j \in saved'
  BY DEF VerdictIsLast
<1>3. i + 1 \in 1 .. Len(wire[j]) /\ wire'[j][i] = wire[j][i + 1]
  BY <1>1, <1>2
<1> QED  BY <1>1, <1>2, <1>3 DEF VerdictIsLast

-----------------------------------------------------------------------------
(* What a wire may become, apart from losing its head.                     *)

\* Nothing of the job is under way: its wire is empty in the next state.
LEMMA EmptyWire ==
  ASSUME NEW j \in Jobs, wire'[j] = <<>>
  PROVE  VerdictIsLast(j)'
BY DEF VerdictIsLast

\* The agent appends an event, and a verdict only as its last one.
LEMMA AppendKeeps ==
  ASSUME TypeOK, NEW j \in Jobs, VerdictIsLast(j), NEW e \in Event,
         sent[j] # Len(Script), wire' = [wire EXCEPT ![j] = Append(@, e)],
         j \in saved => j \in saved',
         e.type \in Verdicts => sent'[j] = Len(Script),
         e.type = "done" => j \in saved'
  PROVE  VerdictIsLast(j)' /\ wire' \in [Jobs -> Seq(Event)]
<1>1. wire \in [Jobs -> Seq(Event)] /\ wire[j] \in Seq(Event) /\ Len(wire[j]) \in Nat
  BY DEF TypeOK
<1>2. /\ Append(wire[j], e) \in Seq(Event) /\ Len(Append(wire[j], e)) = Len(wire[j]) + 1
      /\ \A i \in 1 .. Len(wire[j]) : Append(wire[j], e)[i] = wire[j][i]
      /\ Append(wire[j], e)[Len(wire[j]) + 1] = e
  BY <1>1, AppendProperties
<1>3. wire'[j] = Append(wire[j], e) /\ wire' \in [Jobs -> Seq(Event)]
  BY <1>1, <1>2
<1>4. \A i \in 1 .. Len(wire[j]) : wire[j][i].type \notin Verdicts
  BY DEF VerdictIsLast
<1>5. ASSUME NEW i \in 1 .. Len(wire'[j]), wire'[j][i].type \in Verdicts
      PROVE  /\ i = Len(wire'[j]) /\ sent'[j] = Len(Script)
             /\ wire'[j][i].type = "done" => j \in saved'
  <2>1. Len(wire'[j]) = Len(wire[j]) + 1
    BY <1>2, <1>3
  <2>2. i = Len(wire[j]) + 1
    <3>1. CASE i \in 1 .. Len(wire[j])
      BY <1>2, <1>3, <1>4, <1>5, <3>1
    <3> QED  BY <1>1, <2>1, <3>1
  <2>3. wire'[j][i] = e
    BY <1>2, <1>3, <2>2
  <2> QED  BY <1>5, <2>1, <2>2, <2>3
<1> QED  BY <1>3, <1>5 DEF VerdictIsLast

\* A broken call cuts a wire.
LEMMA CutKeeps ==
  ASSUME TypeOK, NEW j \in Jobs, VerdictIsLast(j), NEW n \in 0 .. Len(wire[j]),
         wire' = [wire EXCEPT ![j] = SubSeq(@, 1, n)], sent'[j] = Len(Script),
         j \in saved => j \in saved'
  PROVE  /\ VerdictIsLast(j)' /\ wire' \in [Jobs -> Seq(Event)]
         /\ wire[j] = <<>> => wire'[j] = <<>>
<1>1. wire \in [Jobs -> Seq(Event)] /\ wire[j] \in Seq(Event) /\ Len(wire[j]) \in Nat
  BY DEF TypeOK
<1>2. \A i \in 1 .. n : wire[j][i] \in Event
  BY <1>1, ElementOfSeq
<1>3. /\ SubSeq(wire[j], 1, n) \in Seq(Event) /\ Len(SubSeq(wire[j], 1, n)) = n
      /\ \A i \in 1 .. n : SubSeq(wire[j], 1, n)[i] = wire[j][i]
  <2> DEFINE w == wire[j]
  <2>1. n \in Nat /\ n \in Int /\ 1 \in Int /\ \A i \in 1 .. n : w[i] \in Event
    BY <1>1, <1>2
  <2> HIDE DEF w
  <2>2. /\ SubSeq(w, 1, n) \in Seq(Event)
        /\ Len(SubSeq(w, 1, n)) = IF 1 <= n THEN n - 1 + 1 ELSE 0
        /\ \A i \in 1 .. n - 1 + 1 : SubSeq(w, 1, n)[i] = w[1 + i - 1]
    BY ONLY <2>1, SubSeqProperties
  <2>3. /\ SubSeq(w, 1, n) \in Seq(Event) /\ Len(SubSeq(w, 1, n)) = n
        /\ \A i \in 1 .. n : SubSeq(w, 1, n)[i] = w[i]
    BY <2>1, <2>2
  <2> QED  BY <2>3 DEF w
<1>4. wire'[j] = SubSeq(wire[j], 1, n) /\ wire' \in [Jobs -> Seq(Event)]
  BY <1>1, <1>3
<1>5. \A i \in 1 .. n : wire'[j][i].type \in Verdicts =>
        i = n /\ (wire'[j][i].type = "done" => j \in saved')
  BY <1>1, <1>3, <1>4 DEF VerdictIsLast
<1>6. wire[j] = <<>> => wire'[j] = <<>>
  <2> SUFFICES ASSUME wire[j] = <<>> PROVE wire'[j] = <<>>
    OBVIOUS
  <2>1. Len(wire'[j]) = 0 /\ wire'[j] \in Seq(Event)
    BY <1>3, <1>4, EmptySeq
  <2> QED  BY <2>1, EmptySeq
<1> QED  BY <1>3, <1>4, <1>5, <1>6 DEF VerdictIsLast

-----------------------------------------------------------------------------
(* The steps.                                                              *)

\* The rest of the types, for a step that is well behaved on row and wire.
Rest ==
  /\ outbox' \in [Jobs -> SUBSET OutboxEvents]
  /\ stream' \in [Jobs -> {"none", "open", "closed", "left"}]
  /\ subscribed' \in SUBSET Jobs
  /\ told' \in [Jobs -> {"none", "done", "error"}]
  /\ sent' \in [Jobs -> 0 .. Len(Script)]
  /\ saved' \in SUBSET Jobs
  /\ faults' \in 0 .. MaxFaults

LEMMA FaultType ==
  ASSUME TypeOK, Fault
  PROVE  faults' \in 0 .. MaxFaults
BY JobsAssumption DEF TypeOK, Fault

LEMMA OneJob ==
  ASSUME Inv, NEW j \in Jobs, JobInv(j)', \A k \in Jobs \ {j} : Same(k),
         row' \in [Jobs -> Row], wire' \in [Jobs -> Seq(Event)], Rest
  PROVE  Inv'
<1>1. TypeOK'
  BY DEF TypeOK, Rest
<1>2. \A k \in Jobs \ {j} : JobInv(k)'
  BY SameKeeps DEF Inv
<1> QED  BY <1>1, <1>2 DEF Inv

LEMMA RequestSteps ==
  ASSUME Inv, NEW j \in Jobs, Start(j) \/ StartRefused(j) \/ StartFails(j)
  PROVE  Inv'
<1>0. TypeOK /\ JobInv(j)
  BY DEF Inv
<1>1. row[j] = NoRow /\ wire[j] = <<>> /\ sent[j] = Len(Script)
      /\ told[j] \notin {"done", "error"}
  BY <1>0 DEF Start, StartRefused, StartFails, New, JobInv, Quiet, Told, NoRow
<1>2. /\ row' \in [Jobs -> Row] /\ row'[j].status \in {"queued", "failed"}
      /\ \A k \in Jobs \ {j} : row'[k] = row[k]
      /\ StartRefused(j) => row'[j].status = "failed"
      /\ ~StartRefused(j) => row'[j].status = "queued"
  <2>1. row \in [Jobs -> Row] /\ row[j] \in Row
    BY <1>0 DEF TypeOK
  <2>2. PICK status \in {"queued", "failed"} :
          /\ row' = [row EXCEPT ![j].status = status]
          /\ status = "failed" <=> StartRefused(j)
    <3>1. CASE StartRefused(j)
      BY <3>1 DEF StartRefused
    <3>2. CASE ~StartRefused(j)
      BY <3>2 DEF Start, StartFails
    <3> QED  BY <3>1, <3>2
  <2> QED  BY <2>1, <2>2 DEF Row
<1>3. UNCHANGED <<wire, saved>>
  <2>1. CASE Start(j)  BY <2>1 DEF Start
  <2>2. CASE StartRefused(j)  BY <2>2 DEF StartRefused
  <2>3. CASE StartFails(j)  BY <2>3 DEF StartFails
  <2> QED  BY <2>1, <2>2, <2>3
<1>4. Rest
  <2>1. CASE Start(j)
    BY <1>0, <2>1, ScriptFacts DEF TypeOK, Rest, Start, Logged, OutboxEvents
  <2>2. CASE StartRefused(j)
    BY <1>0, <2>2 DEF TypeOK, Rest, StartRefused, Logged, OutboxEvents
  <2>3. CASE StartFails(j)
    BY <1>0, <2>3, FaultType DEF TypeOK, Rest, StartFails
  <2> QED  BY <2>1, <2>2, <2>3
<1>5. /\ "transcription_completed" \in outbox'[j] => "transcription_completed" \in outbox[j]
      /\ \A k \in Jobs \ {j} : outbox'[k] = outbox[k]
  BY <1>0 DEF TypeOK, Start, StartRefused, StartFails, Logged
<1>6. /\ told'[j] = IF StartRefused(j) THEN "error" ELSE told[j]
      /\ \A k \in Jobs \ {j} : told'[k] = told[k] /\ sent'[k] = sent[k]
      /\ StartRefused(j) => sent'[j] = sent[j]
  BY <1>0 DEF TypeOK, Start, StartRefused, StartFails
<1>7. VerdictIsLast(j)'
  BY <1>1, <1>3, EmptyWire
<1>8. Quiet(j)' /\ Told(j)'
  BY <1>1, <1>2, <1>3, <1>6 DEF Quiet, Told
<1>9. Saved(j)'
  BY <1>0, <1>2, <1>3, <1>5 DEF Saved, JobInv
<1>10. \A k \in Jobs \ {j} : Same(k)
  BY <1>2, <1>3, <1>5, <1>6 DEF Same
<1>11. wire' \in [Jobs -> Seq(Event)]
  BY <1>0, <1>3 DEF TypeOK
<1> QED  BY <1>2, <1>4, <1>7, <1>8, <1>9, <1>10, <1>11, OneJob DEF JobInv

LEMMA AbortStep ==
  ASSUME Inv, NEW j \in Jobs, Abort(j)
  PROVE  Inv'
<1>1. \A k \in Jobs : Same(k)
  BY DEF Abort, Same
<1>2. TypeOK'
  BY DEF Inv, TypeOK, Abort
<1> QED  BY <1>1, <1>2, SameKeeps DEF Inv

\* The agent has not sent its verdict: the job is neither fresh nor over.
LEMMA AgentSteps ==
  ASSUME Inv, NEW j \in Jobs, AgentSends(j) \/ AgentFails(j)
  PROVE  Inv'
<1>0. TypeOK /\ JobInv(j) /\ VerdictIsLast(j)
  BY DEF Inv, JobInv
<1>1. sent[j] \in 0 .. 5 /\ sent[j] # Len(Script)
  BY <1>0, ScriptFacts DEF TypeOK, AgentSends, AgentFails, SavesAfter
<1>2. PICK e \in Event :
        /\ wire' = [wire EXCEPT ![j] = Append(@, e)]
        /\ e.type \in Verdicts => sent'[j] = Len(Script)
        /\ e.type = "done" => j \in saved'
  <2>1. CASE AgentSends(j)
    <3>1. /\ sent[j] + 1 \in 1 .. 6 /\ Script[sent[j] + 1] \in Event
          /\ wire' = [wire EXCEPT ![j] = Append(@, Script[sent[j] + 1])]
          /\ sent'[j] = sent[j] + 1
      BY <1>0, <1>1, <2>1, ScriptFacts DEF AgentSends, TypeOK
    <3>2. Script[sent[j] + 1].type \in Verdicts => sent[j] = 5
      BY <1>1, ScriptFacts
    <3>3. sent[j] = 5 => j \in saved'
      BY <2>1 DEF AgentSends, SavesAfter
    <3>4. Script[sent[j] + 1].type \in Verdicts => sent'[j] = Len(Script)
      BY <3>1, <3>2, ScriptFacts
    <3>5. Script[sent[j] + 1].type = "done" => j \in saved'
      BY <3>2, <3>3 DEF Verdicts
    <3> QED  BY <3>1, <3>4, <3>5
  <2>2. CASE AgentFails(j)
    <3>1. Other("error") \in Event /\ Other("error").type = "error"
      BY DEF Other, Event
    <3>2. /\ wire' = [wire EXCEPT ![j] = Append(@, Other("error"))]
          /\ sent'[j] = Len(Script)
      BY <1>0, <2>2 DEF AgentFails, TypeOK
    <3> QED  BY <3>1, <3>2
  <2> QED  BY <2>1, <2>2
<1>3. /\ UNCHANGED <<row, outbox, stream, subscribed, told, faults>>
      /\ saved \subseteq saved' /\ saved' \in SUBSET Jobs
      /\ sent' \in [Jobs -> 0 .. Len(Script)]
      /\ \A k \in Jobs \ {j} : sent'[k] = sent[k]
  <2>1. CASE AgentSends(j)
    BY <1>0, <1>1, <2>1, ScriptFacts DEF AgentSends, TypeOK
  <2>2. CASE AgentFails(j)
    BY <1>0, <1>1, <2>2, ScriptFacts DEF AgentFails, TypeOK
  <2> QED  BY <2>1, <2>2
<1>4. VerdictIsLast(j)' /\ wire' \in [Jobs -> Seq(Event)]
  BY <1>0, <1>1, <1>2, <1>3, AppendKeeps
<1>5. \A k \in Jobs \ {j} : wire'[k] = wire[k]
  BY <1>0, <1>2 DEF TypeOK
<1>6. Quiet(j)' /\ Told(j)' /\ Saved(j)'
  BY <1>0, <1>1, <1>3 DEF JobInv, Quiet, Told, Saved
<1>7. \A k \in Jobs \ {j} : Same(k)
  BY <1>3, <1>5 DEF Same
<1>8. Rest /\ row' \in [Jobs -> Row]
  BY <1>0, <1>3 DEF TypeOK, Rest
<1> QED  BY <1>4, <1>6, <1>7, <1>8, OneJob DEF JobInv

LEMMA CallLostStep ==
  ASSUME Inv, NEW j \in Jobs, CallLost(j)
  PROVE  Inv'
<1>0. TypeOK /\ JobInv(j) /\ VerdictIsLast(j)
  BY DEF Inv, JobInv
<1>1. PICK n \in 0 .. Len(wire[j]) : wire' = [wire EXCEPT ![j] = SubSeq(@, 1, n)]
  BY DEF CallLost
<1>2. /\ UNCHANGED <<row, outbox, stream, subscribed, told>>
      /\ saved \subseteq saved' /\ saved' \in SUBSET Jobs
      /\ sent'[j] = Len(Script) /\ sent' \in [Jobs -> 0 .. Len(Script)]
      /\ \A k \in Jobs \ {j} : sent'[k] = sent[k]
  BY <1>0, ScriptFacts DEF CallLost, TypeOK
<1>3. /\ VerdictIsLast(j)' /\ wire' \in [Jobs -> Seq(Event)]
      /\ wire[j] = <<>> => wire'[j] = <<>>
  BY <1>0, <1>1, <1>2, CutKeeps
<1>4. \A k \in Jobs \ {j} : wire'[k] = wire[k]
  BY <1>0, <1>1 DEF TypeOK
<1>5. Quiet(j)' /\ Told(j)' /\ Saved(j)'
  BY <1>0, <1>2, <1>3 DEF JobInv, Quiet, Told, Saved
<1>6. \A k \in Jobs \ {j} : Same(k)
  BY <1>2, <1>4 DEF Same
<1>7. Rest /\ row' \in [Jobs -> Row]
  BY <1>0, <1>2, FaultType DEF TypeOK, Rest, CallLost
<1> QED  BY <1>3, <1>5, <1>6, <1>7, OneJob DEF JobInv

\* The server handles the head of a wire.  A verdict empties it, and only then
\* the row becomes final.
LEMMA HandlerSteps ==
  ASSUME Inv, NEW j \in Jobs, Handle(j) \/ HandlerThrows(j)
  PROVE  Inv'
<1>0. TypeOK /\ JobInv(j) /\ VerdictIsLast(j)
  BY DEF Inv, JobInv
<1>1. PICK type \in {"progress", "token", "done", "error"} :
        /\ Takes(j, type)
        /\ j \notin subscribed => row' = row /\ outbox' = outbox /\ told' = told
        /\ type = "progress" =>
             /\ row' \in {row, Processing(j, Head(wire[j]).percent)}
             /\ outbox' = outbox /\ told' = told
        /\ type = "token" => row' = row /\ outbox' = outbox /\ told' = told
        /\ type = "done" =>
             \/ row' \in {row, Completed(j)} /\ outbox' = outbox /\ told' = told
             \/ /\ row' = Completed(j) /\ outbox' = Logged(j, "transcription_completed")
                /\ told' \in {told, [told EXCEPT ![j] = "done"]}
        /\ type = "error" =>
             /\ row' \in {row, Failed(j)}
             /\ outbox' \in {outbox, Logged(j, "job_failed")}
             /\ told' \in {told, [told EXCEPT ![j] = "error"]}
             /\ told' # told => row' = Failed(j)
  <2>1. CASE OnProgress(j)
    BY <2>1 DEF OnProgress, Hears
  <2>2. CASE OnToken(j)
    BY <2>2 DEF OnToken, Hears
  <2>3. CASE OnDone(j)
    BY <2>3 DEF OnDone, Hears, Ends
  <2>4. CASE OnError(j)
    BY <2>4 DEF OnError, Hears, Ends
  <2>5. CASE Unheard(j)
    BY <2>5 DEF Unheard
  <2>6. CASE HandlerThrows(j)
    BY <2>6 DEF HandlerThrows, Hears
  <2> QED  BY <2>1, <2>2, <2>3, <2>4, <2>5, <2>6 DEF Handle
<1>2. UNCHANGED <<sent, saved>>
  BY DEF Handle, OnProgress, OnToken, OnDone, OnError, Unheard, HandlerThrows
<1>3. /\ wire' \in [Jobs -> Seq(Event)]
      /\ \A k \in Jobs \ {j} : wire'[k] = wire[k]
      /\ type \in Verdicts => /\ wire'[j] = <<>> /\ sent[j] = Len(Script)
                              /\ type = "done" => j \in saved
  BY <1>0, <1>1, TakesFacts
<1>4. VerdictIsLast(j)'
  BY <1>0, <1>1, <1>2, TakesKeeps
<1>5. row[j].status \notin {"none", "completed", "failed"}
  BY <1>0, <1>1 DEF JobInv, Quiet, Takes
<1>6. Head(wire[j]).percent \in 0 .. 100
  <2>1. Head(wire[j]) \in Event
    BY <1>0, <1>1, HeadTailProperties DEF TypeOK, Takes
  <2> QED  BY <2>1 DEF Event
<1>7. /\ row \in [Jobs -> Row] /\ row[j] \in Row
      /\ outbox \in [Jobs -> SUBSET OutboxEvents]
      /\ told \in [Jobs -> {"none", "done", "error"}]
      /\ told[j] = "none"
  BY <1>0, <1>5 DEF TypeOK, JobInv, Told
<1>8. /\ row' \in [Jobs -> Row]
      /\ \A k \in Jobs \ {j} : row'[k] = row[k]
      /\ \/ row'[j] = row[j]
         \/ type = "progress" /\ row'[j].status = "processing"
         \/ type = "done" /\ row'[j] = [status |-> "completed", progress |-> 100]
         \/ type = "error" /\ row'[j].status = "failed"
  BY <1>1, <1>6, <1>7 DEF Processing, Completed, Failed, Row
<1>9. /\ outbox' \in [Jobs -> SUBSET OutboxEvents]
      /\ \A k \in Jobs \ {j} : outbox'[k] = outbox[k]
      /\ "transcription_completed" \in outbox'[j] =>
           "transcription_completed" \in outbox[j] \/ type = "done"
  BY <1>1, <1>7 DEF Logged, OutboxEvents
<1>10. /\ told' \in [Jobs -> {"none", "done", "error"}]
       /\ \A k \in Jobs \ {j} : told'[k] = told[k]
       /\ told'[j] = "done" =>
            /\ row'[j] = [status |-> "completed", progress |-> 100]
            /\ "transcription_completed" \in outbox'[j]
       /\ told'[j] = "error" => row'[j].status = "failed"
  BY <1>1, <1>7 DEF Completed, Failed, Logged, Row
<1>11. Quiet(j)' /\ Told(j)' /\ Saved(j)'
  BY <1>0, <1>2, <1>3, <1>5, <1>8, <1>9, <1>10
  DEF JobInv, Quiet, Told, Saved, Verdicts
<1>12. \A k \in Jobs \ {j} : Same(k)
  BY <1>2, <1>3, <1>8, <1>9, <1>10 DEF Same
<1>13. Rest
  <2>1. /\ stream' \in [Jobs -> {"none", "open", "closed", "left"}]
        /\ subscribed' \in SUBSET Jobs
    BY <1>0
    DEF TypeOK, Handle, OnProgress, OnToken, OnDone, OnError, Unheard, HandlerThrows, Ends
  <2>2. faults' \in 0 .. MaxFaults
    BY <1>0, FaultType
    DEF TypeOK, Handle, OnProgress, OnToken, OnDone, OnError, Unheard, HandlerThrows
  <2> QED  BY <1>0, <1>2, <1>9, <1>10, <2>1, <2>2 DEF TypeOK, Rest
<1> QED  BY <1>3, <1>4, <1>8, <1>11, <1>12, <1>13, OneJob DEF JobInv

LEMMA CrashStep ==
  ASSUME Inv, ServerCrash
  PROVE  Inv'
<1>1. /\ UNCHANGED <<row, outbox, told, saved>>
      /\ \A j \in Jobs : wire'[j] = <<>> /\ sent'[j] = Len(Script)
  BY DEF ServerCrash
<1>2. TypeOK'
  <2>1. faults' \in 0 .. MaxFaults
    BY FaultType DEF Inv, ServerCrash
  <2>2. wire' \in [Jobs -> Seq(Event)] /\ sent' \in [Jobs -> 0 .. Len(Script)]
    BY ScriptFacts, EmptySeq DEF ServerCrash
  <2>3. stream' \in [Jobs -> {"none", "open", "closed", "left"}] /\ subscribed' = {}
    BY DEF Inv, TypeOK, ServerCrash
  <2> QED  BY <1>1, <2>1, <2>2, <2>3 DEF Inv, TypeOK
<1>3. \A j \in Jobs : JobInv(j)'
  BY <1>1, EmptyWire DEF Inv, JobInv, Quiet, Told, Saved
<1> QED  BY <1>2, <1>3 DEF Inv

-----------------------------------------------------------------------------
(* The theorems.                                                           *)

LEMMA InvInit == Init => Inv
<1> SUFFICES ASSUME Init PROVE Inv
  OBVIOUS
<1>1. TypeOK
  BY ScriptFacts, EmptySeq, JobsAssumption
  DEF Init, TypeOK, NoRow, Row
<1>2. ASSUME NEW j \in Jobs PROVE JobInv(j)
  <2>1. row[j].status = "none" /\ wire[j] = <<>> /\ sent[j] = Len(Script)
        /\ told[j] = "none" /\ outbox[j] = {}
    BY DEF Init, NoRow
  <2> QED  BY <2>1, EmptySeq DEF JobInv, VerdictIsLast, Quiet, Told, Saved
<1> QED  BY <1>1, <1>2 DEF Inv

LEMMA InvStep == Inv /\ [Next]_vars => Inv'
<1> SUFFICES ASSUME Inv, [Next]_vars PROVE Inv'
  OBVIOUS
<1>1. CASE UNCHANGED vars
  <2>1. TypeOK' /\ \A j \in Jobs : Same(j)
    BY <1>1 DEF Inv, TypeOK, Same, vars
  <2> QED  BY <2>1, SameKeeps DEF Inv
<1> QED
  BY <1>1, RequestSteps, AbortStep, AgentSteps, CallLostStep, HandlerSteps, CrashStep
  DEF Next

\* Rows, outbox, streams and wires stay in their types.
THEOREM TypeCorrect == Spec => []TypeOK
<1>1. Inv => TypeOK  BY DEF Inv
<1> QED  BY <1>1, InvInit, InvStep, PTL DEF Spec

\* However many jobs run and writes fail, what a client was told is stored.
THEOREM ToldStored == Spec => []ToldIsStored
<1>1. Inv => ToldIsStored  BY DEF Inv, JobInv, Told, ToldIsStored
<1> QED  BY <1>1, InvInit, InvStep, PTL DEF Spec

\* A job is never listed or announced as completed without its transcript.
THEOREM CompletedSaved == Spec => []CompletedIsSaved
<1>1. Inv => CompletedIsSaved  BY DEF Inv, JobInv, Saved, CompletedIsSaved
<1> QED  BY <1>1, InvInit, InvStep, PTL DEF Spec

\* No update takes a verdict back: the wire of a job that has one is empty.
THEOREM VerdictFinal == Spec => VerdictIsFinal
<1> DEFINE Final ==
      \A j \in Jobs :
        row[j].status \in {"completed", "failed"} => row'[j] = row[j]
<1>1. ASSUME Inv, [Next]_vars, NEW k \in Jobs, row[k].status \in {"completed", "failed"}
      PROVE  row'[k] = row[k]
  <2>1. row \in [Jobs -> Row] /\ wire[k] = <<>> /\ row[k] # NoRow
    BY <1>1 DEF Inv, JobInv, TypeOK, Quiet, NoRow
  <2>2. ASSUME NEW j \in Jobs, Start(j) \/ StartRefused(j) \/ StartFails(j)
        PROVE  row'[k] = row[k]
    <3>1. j # k
      BY <2>1, <2>2 DEF Start, StartRefused, StartFails, New
    <3> QED  BY <2>1, <2>2, <3>1 DEF Start, StartRefused, StartFails
  <2>3. ASSUME NEW j \in Jobs, Handle(j) \/ HandlerThrows(j)
        PROVE  row'[k] = row[k]
    <3>1. wire[j] # <<>>
      BY <2>3
      DEF Handle, HandlerThrows, OnProgress, OnToken, OnDone, OnError, Unheard, Hears, Takes
    <3>2. \/ row' = row \/ row' = Processing(j, Head(wire[j]).percent)
          \/ row' = Completed(j) \/ row' = Failed(j)
      BY <2>3 DEF Handle, HandlerThrows, OnProgress, OnToken, OnDone, OnError, Unheard
    <3>3. j # k
      BY <2>1, <3>1
    <3>4. CASE row' = row
      BY <3>4
    <3>5. CASE row' = Processing(j, Head(wire[j]).percent)
      BY <2>1, <3>3, <3>5 DEF Processing
    <3>6. CASE row' = Completed(j)
      BY <2>1, <3>3, <3>6 DEF Completed
    <3>7. CASE row' = Failed(j)
      BY <2>1, <3>3, <3>7 DEF Failed
    <3> QED  BY <3>2, <3>4, <3>5, <3>6, <3>7
  <2>4. CASE row' = row
    BY <2>4
  <2> QED
    BY <1>1, <2>2, <2>3, <2>4
    DEF Next, vars, Abort, AgentSends, AgentFails, CallLost, ServerCrash
<1>2. Inv /\ [Next]_vars => [Final]_vars
  BY <1>1
<1> QED  BY <1>2, InvInit, InvStep, PTL DEF Spec, VerdictIsFinal

-----------------------------------------------------------------------------
(* The recent folders.                                                     *)

\* Until a restart, every stamp lies behind the next one; it is the restart
\* that breaks this, by setting the count back.
Behind == restarts = 0 => \A f \in Folders : lastUsedAt[f] < Timestamp

FoldersInv == FoldersTypeOK /\ Behind /\ ListIsBounded

\* A folder is on top when its stamp is the newest.
OnTop(f, stamps) ==
  stamps[f] # 0 /\ \A g \in Folders \ {f} : stamps[g] < stamps[f]

LEMMA PresentIsFinite ==
  ASSUME NEW stamps
  PROVE  IsFiniteSet(Present(stamps))
<1>1. Present(stamps) \in SUBSET Folders  BY DEF Present
<1>2. IsFiniteSet(Folders)  BY FoldersAssumption
<1> QED  BY <1>1, <1>2, FS_Subset

\* The cut keeps no more than the limit, and keeps the newest stamp.
LEMMA CutIsBounded ==
  ASSUME NEW stamps, NEW K \in Kept(stamps)
  PROVE  Cardinality(K) <= Limit
<1>1. Cardinality(Present(stamps)) \in Nat
  BY PresentIsFinite, FS_CardinalityType
<1> QED  BY <1>1, FoldersAssumption DEF Kept

LEMMA NewestIsKept ==
  ASSUME NEW stamps \in [Folders -> Nat], NEW K \in Kept(stamps),
         NEW f \in Folders, OnTop(f, stamps)
  PROVE  f \in K
<1>1. f \in Present(stamps)  BY DEF OnTop, Present
<1>2. SUFFICES ASSUME f \notin K PROVE FALSE  OBVIOUS
<1>3. K = {}
  <2>1. \A g \in K : g \in Folders /\ stamps[g] >= stamps[f] /\ g # f
    BY <1>1, <1>2 DEF Kept, Present
  <2> QED  BY <2>1 DEF OnTop
<1>4. Cardinality({}) = 0  BY FS_EmptySet
<1>5. K # {}
  <2>1. CASE Cardinality(Present(stamps)) <= Limit
    BY <1>1, <2>1 DEF Kept
  <2>2. CASE Cardinality(Present(stamps)) > Limit
    BY <1>4, <2>2, FoldersAssumption DEF Kept
  <2>3. Cardinality(Present(stamps)) \in Nat
    BY PresentIsFinite, FS_CardinalityType
  <2> QED  BY <2>1, <2>2, <2>3, FoldersAssumption
<1> QED  BY <1>3, <1>5

LEMMA FoldersInvInit == FoldersInit => FoldersInv
<1> SUFFICES ASSUME FoldersInit PROVE FoldersInv  OBVIOUS
<1>1. FoldersTypeOK /\ Behind
  BY FoldersAssumption DEF FoldersInit, FoldersTypeOK, Behind, Timestamp
<1>2. ListIsBounded
  <2>1. Present(lastUsedAt) = {}  BY DEF FoldersInit, Present
  <2> QED  BY <2>1, FS_EmptySet, FoldersAssumption DEF ListIsBounded
<1> QED  BY <1>1, <1>2 DEF FoldersInv

\* What a use leaves: rows that were there, and the new stamp.
LEMMA TouchStamps ==
  ASSUME FoldersTypeOK, NEW f \in Folders, Touch(f)
  PROVE  /\ lastUsedAt' \in [Folders -> 0 .. MaxClock + MaxUses]
         /\ \A g \in Folders \ {f} : lastUsedAt'[g] <= lastUsedAt[g]
         /\ lastUsedAt'[f] <= Timestamp
<1>1. Timestamp \in 0 .. MaxClock + MaxUses
  BY FoldersAssumption DEF FoldersTypeOK, Timestamp
<1> QED  BY <1>1, FoldersAssumption DEF FoldersTypeOK, Touch

LEMMA TouchIsBounded ==
  ASSUME FoldersTypeOK, NEW f \in Folders, Touch(f)
  PROVE  ListIsBounded'
<1> DEFINE stamps == [lastUsedAt EXCEPT ![f] = Timestamp]
<1>1. PICK K \in Kept(stamps) :
        lastUsedAt' = [g \in Folders |->
          IF g \notin K THEN 0 ELSE IF g = f THEN Timestamp ELSE lastUsedAt[g]]
  BY DEF Touch
<1>2. Present(lastUsedAt') \subseteq K  BY <1>1 DEF Present
<1>3. IsFiniteSet(K)
  BY PresentIsFinite, FS_Subset DEF Kept
<1>4. Cardinality(Present(lastUsedAt')) <= Cardinality(K)
  BY <1>2, <1>3, FS_Subset
<1>5. Cardinality(K) <= Limit  BY CutIsBounded
<1>6. /\ Cardinality(K) \in Nat
      /\ Cardinality(Present(lastUsedAt')) \in Nat
  BY <1>3, PresentIsFinite, FS_CardinalityType
<1> QED  BY <1>4, <1>5, <1>6, FoldersAssumption DEF ListIsBounded

LEMMA FoldersInvStep == FoldersInv /\ [FoldersNext]_folderVars => FoldersInv'
<1> SUFFICES ASSUME FoldersInv, [FoldersNext]_folderVars PROVE FoldersInv'
  OBVIOUS
<1> USE FoldersAssumption DEF FoldersInv
<1>1. ASSUME NEW f \in Folders, Touch(f) PROVE FoldersInv'
  <2>1. FoldersTypeOK'
    <3>1. lastUsedAt' \in [Folders -> 0 .. MaxClock + MaxUses]
      BY <1>1, TouchStamps
    <3>2. sequence' \in 0 .. MaxUses  BY <1>1 DEF Touch, Counts, FoldersTypeOK
    <3> QED  BY <1>1, <3>1, <3>2 DEF Touch, FoldersTypeOK
  <2>2. Behind'
    <3>1. Timestamp' = Timestamp + 1 /\ Timestamp \in Nat
      BY <1>1 DEF Touch, Counts, Timestamp, FoldersTypeOK
    <3> QED
      BY <1>1, <3>1, TouchStamps DEF Behind, Touch, FoldersTypeOK
  <2> QED  BY <1>1, <2>1, <2>2, TouchIsBounded
<1>2. CASE TouchElsewhere
  BY <1>2 DEF TouchElsewhere, Counts, FoldersTypeOK, Behind, Timestamp, ListIsBounded
<1>3. CASE Tick
  BY <1>3 DEF Tick, FoldersTypeOK, Behind, Timestamp, ListIsBounded
<1>4. CASE Restart
  BY <1>4 DEF Restart, FoldersTypeOK, Behind, ListIsBounded
<1>5. CASE UNCHANGED folderVars
  BY <1>5 DEF folderVars, FoldersTypeOK, Behind, Timestamp, ListIsBounded
<1> QED  BY <1>1, <1>2, <1>3, <1>4, <1>5 DEF FoldersNext

\* The list never outgrows its limit.
THEOREM ListBounded == FoldersSpec => []ListIsBounded
<1>1. FoldersInv => ListIsBounded  BY DEF FoldersInv
<1> QED  BY <1>1, FoldersInvInit, FoldersInvStep, PTL DEF FoldersSpec

-----------------------------------------------------------------------------
(* The recent folders as a FolderStack.  That the rows can be listed at all *)
(* is part of the invariant: each use yields the next list from the last.   *)

\* What it takes to be the list of the rows, when no two stamps are equal.
Lists(list, n, stamps) ==
  /\ list \in [1 .. n -> Present(stamps)]
  /\ \A f \in Present(stamps) : \E i \in 1 .. n : list[i] = f
  /\ \A i, j \in 1 .. n : i < j => stamps[list[i]] > stamps[list[j]]

\* A list has one place for each row.
LEMMA ListsAll ==
  ASSUME NEW stamps \in [Folders -> Nat], NEW n \in Nat, NEW list, Lists(list, n, stamps)
  PROVE  /\ n = Cardinality(Present(stamps))
         /\ list \in Listings(stamps)
<1>1. list \in [1 .. n -> Present(stamps)] /\ Present(stamps) \subseteq Folders
  BY DEF Lists, Present
<1>2. ASSUME NEW i \in 1 .. n, NEW j \in 1 .. n, list[i] = list[j]
      PROVE  i = j
  <2>1. stamps[list[i]] \in Nat
    BY <1>1
  <2> QED  BY <1>2, <2>1 DEF Lists
<1>3. list \in Bijection(1 .. n, Present(stamps))
  BY <1>1, <1>2 DEF Bijection, Injection, IsInjective, Surjection, Lists
<1>4. n = Cardinality(Present(stamps))
  <2>1. IsFiniteSet(1 .. n) /\ Cardinality(1 .. n) = n
    BY FS_Interval
  <2> QED  BY <1>3, <2>1, FS_Bijection DEF ExistsBijection
<1>5. \A i, j \in 1 .. n : i < j => stamps[list[i]] >= stamps[list[j]]
  <2>1. \A i \in 1 .. n : stamps[list[i]] \in Nat
    BY <1>1
  <2> QED  BY <2>1 DEF Lists
<1> QED  BY <1>3, <1>4, <1>5 DEF Listings

\* In a list, the place of a folder is told by the number of newer ones.
LEMMA PlaceIsRank ==
  ASSUME NEW stamps \in [Folders -> Nat], NEW n \in Nat, NEW list, Lists(list, n, stamps),
         NEW i \in 1 .. n
  PROVE  i = Cardinality({f \in Present(stamps) : stamps[f] > stamps[list[i]]}) + 1
<1> DEFINE newer == {f \in Present(stamps) : stamps[f] > stamps[list[i]]}
           top == [k \in 1 .. i - 1 |-> list[k]]
<1>1. \A k \in 1 .. n : list[k] \in Present(stamps) /\ stamps[list[k]] \in Nat
  BY DEF Lists, Present
<1>2. ASSUME NEW k \in 1 .. n PROVE list[k] \in newer <=> k < i
  <2>1. k < i => list[k] \in newer
    BY <1>1 DEF Lists
  <2>2. k > i => ~(list[k] \in newer)
    BY <1>1 DEF Lists
  <2>3. k = i => ~(list[k] \in newer)
    BY <1>1
  <2> QED  BY <2>1, <2>2, <2>3
<1>3. top \in [1 .. i - 1 -> newer]
  BY <1>2
<1>4. ASSUME NEW f \in newer PROVE \E k \in 1 .. i - 1 : top[k] = f
  <2>1. PICK k \in 1 .. n : list[k] = f
    BY DEF Lists
  <2> QED  BY <1>2, <2>1
<1>5. ASSUME NEW k \in 1 .. i - 1, NEW m \in 1 .. i - 1, top[k] = top[m] PROVE k = m
  <2>1. list[k] = list[m] /\ stamps[list[k]] \in Nat
    BY <1>1, <1>5
  <2> QED  BY <2>1 DEF Lists
<1>6. top \in Bijection(1 .. i - 1, newer)
  <2> HIDE DEF top, newer
  <2>1. DOMAIN top = 1 .. i - 1
    BY <1>3
  <2> QED  BY <1>3, <1>4, <1>5, <2>1 DEF Bijection, Injection, IsInjective, Surjection
<1>7. IsFiniteSet(1 .. i - 1) /\ Cardinality(1 .. i - 1) = i - 1
  BY FS_Interval
<1>8. Cardinality(newer) = i - 1
  BY <1>6, <1>7, FS_Bijection DEF ExistsBijection
<1> QED  BY <1>8

\* So there is only one.
LEMMA OneList ==
  ASSUME NEW stamps \in [Folders -> Nat], NEW n \in Nat,
         NEW one, Lists(one, n, stamps), NEW two, Lists(two, n, stamps)
  PROVE  one = two
<1>1. ASSUME NEW i \in 1 .. n PROVE one[i] = two[i]
  <2>1. PICK j \in 1 .. n : two[j] = one[i]
    BY DEF Lists
  <2>2. i = Cardinality({f \in Present(stamps) : stamps[f] > stamps[one[i]]}) + 1
    BY PlaceIsRank
  <2>3. j = Cardinality({f \in Present(stamps) : stamps[f] > stamps[two[j]]}) + 1
    BY PlaceIsRank
  <2>4. i = j
    BY <2>1, <2>2, <2>3
  <2> QED  BY <2>1, <2>4
<1> QED  BY <1>1 DEF Lists

\* With such a list, listRecentFolders has no choice.
LEMMA ListedIsList ==
  ASSUME NEW stamps \in [Folders -> Nat], NEW n \in Nat,
         NEW list, Lists(list, n, stamps)
  PROVE  (CHOOSE chosen \in Listings(stamps) : TRUE) = list
<1> DEFINE it == CHOOSE chosen \in Listings(stamps) : TRUE
<1>1. n = Cardinality(Present(stamps)) /\ list \in Listings(stamps)
  BY ListsAll
<1>2. it \in Listings(stamps)
  BY <1>1 
<1>3. /\ it \in [1 .. n -> Present(stamps)] /\ IsInjective(it)
      /\ \A f \in Present(stamps) : \E i \in 1 .. n : it[i] = f
      /\ \A i, j \in 1 .. n : i < j => stamps[it[i]] >= stamps[it[j]]
  BY <1>1, <1>2 DEF Listings, Bijection, Injection, Surjection
<1>4. ASSUME NEW f \in Present(stamps), NEW g \in Present(stamps),
             stamps[f] = stamps[g]
      PROVE  f = g
  <2>1. PICK i \in 1 .. n : list[i] = f
    BY DEF Lists
  <2>2. PICK j \in 1 .. n : list[j] = g
    BY DEF Lists
  <2>3. stamps[f] \in Nat
    BY DEF Present
  <2> QED  BY <1>4, <2>1, <2>2, <2>3 DEF Lists
<1>5. ASSUME NEW i \in 1 .. n, NEW j \in 1 .. n, i < j
      PROVE  stamps[it[i]] > stamps[it[j]]
  <2>1. it[i] # it[j]
    BY <1>3, <1>5 DEF IsInjective
  <2>2. /\ it[i] \in Present(stamps) /\ it[j] \in Present(stamps)
        /\ stamps[it[i]] \in Nat /\ stamps[it[j]] \in Nat
    BY <1>3 DEF Present
  <2>3. stamps[it[i]] # stamps[it[j]]
    BY <1>4, <2>1, <2>2
  <2> QED  BY <1>3, <1>5, <2>2, <2>3
<1>6. Lists(it, n, stamps)
  BY <1>3, <1>5 DEF Lists
<1> QED  BY <1>6, OneList

\* A subset that is smaller by one lacks one element.
LEMMA OneLess ==
  ASSUME NEW S, IsFiniteSet(S), NEW K \in SUBSET S, NEW n \in Nat,
         Cardinality(S) = n + 1, Cardinality(K) = n
  PROVE  \E x \in S : K = S \ {x}
<1>1. PICK x \in S : x \notin K
  BY FS_Subset
<1>2. IsFiniteSet(S \ {x}) /\ Cardinality(S \ {x}) = n
  BY FS_RemoveElement
<1>3. K = S \ {x}
  BY <1>1, <1>2, FS_Subset
<1> QED  BY <1>3

\* The rows that a use of f leaves, if place is where f is in the list.
Stays(n, place, i) == ~(place = n + 1 /\ n = Limit /\ i = n)

LEMMA TouchKeeps ==
  ASSUME FoldersTypeOK, ListIsBounded, Behind, restarts = 0,
         NEW n \in Nat, NEW list, Lists(list, n, lastUsedAt),
         NEW f \in Folders, Touch(f), NEW place \in 1 .. n + 1,
         IF place <= n THEN list[place] = f ELSE \A i \in 1 .. n : list[i] # f
  PROVE  /\ n <= Limit /\ Timestamp \in Nat
         /\ f \in Present(lastUsedAt') /\ lastUsedAt'[f] = Timestamp
         /\ \A i \in 1 .. n : Stays(n, place, i) => list[i] \in Present(lastUsedAt')
         /\ \A g \in Present(lastUsedAt') \ {f} :
              /\ \E i \in 1 .. n : Stays(n, place, i) /\ list[i] = g
              /\ lastUsedAt'[g] = lastUsedAt[g] /\ lastUsedAt[g] < Timestamp
<1> DEFINE present == Present(lastUsedAt)
           stamps == [lastUsedAt EXCEPT ![f] = Timestamp]
<1>0. /\ lastUsedAt \in [Folders -> Nat] /\ Timestamp \in Nat \ {0} /\ Limit \in Nat \ {0}
      /\ \A g \in Folders : lastUsedAt[g] < Timestamp
  BY FoldersAssumption DEF FoldersTypeOK, Behind, Timestamp
<1>1. n = Cardinality(present) /\ n <= Limit /\ IsFiniteSet(present)
  BY <1>0, ListsAll, PresentIsFinite DEF ListIsBounded
<1>2. PICK K \in Kept(stamps) :
        lastUsedAt' = [g \in Folders |->
          IF g \notin K THEN 0 ELSE IF g = f THEN Timestamp ELSE lastUsedAt[g]]
  BY DEF Touch
<1>3. stamps \in [Folders -> Nat] /\ Present(stamps) = present \cup {f} /\ OnTop(f, stamps)
  BY <1>0 DEF Present, OnTop
<1> HIDE DEF stamps
<1>4. f \in K /\ K \subseteq present \cup {f}
  BY <1>2, <1>3, NewestIsKept DEF Kept
<1>5. /\ Present(lastUsedAt') = K
      /\ \A g \in K : lastUsedAt'[g] = IF g = f THEN Timestamp ELSE lastUsedAt[g]
  BY <1>0, <1>2, <1>4 DEF Present
<1>6. /\ list \in [1 .. n -> present] /\ \A g \in present : \E i \in 1 .. n : list[i] = g
      /\ \A i, j \in 1 .. n : i < j => lastUsedAt[list[i]] > lastUsedAt[list[j]]
  BY DEF Lists
<1>7. f \in present <=> place <= n
  BY <1>6
<1>8. Cardinality(present \cup {f}) = IF place <= n THEN n ELSE n + 1
  BY <1>1, <1>7, FS_AddElement
<1>9. IsFiniteSet(present \cup {f})
  BY <1>1, FS_AddElement
<1>10. \A g \in present \cup {f} :
         g \in K <=> (g = f \/ \E i \in 1 .. n : Stays(n, place, i) /\ list[i] = g)
  <2>1. CASE place <= n \/ n < Limit
    <3>1. Cardinality(Present(stamps)) <= Limit
      BY <1>0, <1>1, <1>3, <1>8, <2>1
    <3>2. K = present \cup {f}
      BY <1>2, <1>3, <3>1 DEF Kept
    <3>3. \A i \in 1 .. n : Stays(n, place, i)
      BY <2>1 DEF Stays
    <3> QED  BY <1>6, <3>2, <3>3
  <2>2. CASE place = n + 1 /\ n = Limit
    <3>1. Cardinality(present \cup {f}) = n + 1 /\ f \notin present
      BY <1>7, <1>8, <2>2
    <3>2. Cardinality(K) = n
      BY <1>0, <1>2, <1>3, <2>2, <3>1 DEF Kept
    <3>3. PICK x \in present \cup {f} : K = (present \cup {f}) \ {x}
      BY <1>4, <1>9, <3>1, <3>2, OneLess
    <3>6. x # f /\ x \in present
      BY <1>4, <3>3
    <3>7. n \in 1 .. n /\ list[n] \in present
      BY <1>0, <1>6, <2>2
    <3>8. x = list[n]
      <4>1. PICK k \in 1 .. n : list[k] = x
        BY <1>6, <3>6
      <4>2. SUFFICES ASSUME k < n PROVE FALSE
        BY <4>1
      <4>3. lastUsedAt[x] > lastUsedAt[list[n]]
        BY <1>6, <3>7, <4>1, <4>2
      <4>4. list[n] \in K /\ list[n] # f /\ lastUsedAt[x] \in Nat /\ lastUsedAt[list[n]] \in Nat
        BY <1>0, <3>1, <3>3, <3>6, <3>7, <4>3 DEF Present
      <4>5. stamps[list[n]] >= stamps[x]
        BY <1>2, <1>3, <3>3, <4>4 DEF Kept
      <4>6. stamps[list[n]] = lastUsedAt[list[n]] /\ stamps[x] = lastUsedAt[x]
        BY <1>0, <3>6, <3>7, <4>4 DEF stamps, Present
      <4> QED  BY <4>3, <4>4, <4>5, <4>6
    <3>9. \A i \in 1 .. n : list[i] = x <=> i = n
      <4>1. \A i \in 1 .. n : lastUsedAt[list[i]] \in Nat
        BY <1>0, <1>6 DEF Present
      <4> QED  BY <1>6, <3>7, <3>8, <4>1
    <3>10. \A i \in 1 .. n : Stays(n, place, i) <=> i # n
      BY <2>2 DEF Stays
    <3> QED  BY <1>6, <3>1, <3>3, <3>6, <3>9, <3>10
  <2> QED  BY <1>1, <2>1, <2>2, <1>0
<1>11. \A g \in present : g \in Folders /\ lastUsedAt[g] < Timestamp
  BY <1>0 DEF Present
<1> HIDE DEF present
<1> QED  BY <1>0, <1>1, <1>4, <1>5, <1>6, <1>10, <1>11

\* The list after a use is the former one with f moved, or put, to its front.
LEMMA TouchPushes ==
  ASSUME FoldersTypeOK, ListIsBounded, Behind, restarts = 0,
         NEW n \in Nat, NEW list, Lists(list, n, lastUsedAt),
         NEW f \in Folders, Touch(f), NEW place \in 1 .. n + 1,
         IF place <= n THEN list[place] = f ELSE \A i \in 1 .. n : list[i] # f,
         NEW m, m = IF place <= n \/ n = Limit THEN n ELSE n + 1
  PROVE  Lists([i \in 1 .. m |->
                  IF i = 1 THEN f ELSE IF i <= place THEN list[i - 1] ELSE list[i]],
               m, lastUsedAt')
<1> DEFINE after == [i \in 1 .. m |->
                       IF i = 1 THEN f ELSE IF i <= place THEN list[i - 1] ELSE list[i]]
<1>1. /\ n <= Limit /\ Timestamp \in Nat
      /\ f \in Present(lastUsedAt') /\ lastUsedAt'[f] = Timestamp
      /\ \A i \in 1 .. n : Stays(n, place, i) => list[i] \in Present(lastUsedAt')
      /\ \A g \in Present(lastUsedAt') \ {f} :
           /\ \E i \in 1 .. n : Stays(n, place, i) /\ list[i] = g
           /\ lastUsedAt'[g] = lastUsedAt[g] /\ lastUsedAt[g] < Timestamp
  BY TouchKeeps
<1>2. m \in Nat /\ 1 <= m /\ n <= m /\ Limit \in Nat \ {0}
  BY FoldersAssumption
<1>3. /\ \A i, j \in 1 .. n : i < j => lastUsedAt[list[i]] > lastUsedAt[list[j]]
      /\ \A i \in 1 .. n : list[i] \in Folders /\ lastUsedAt[list[i]] \in Nat
  BY FoldersAssumption DEF Lists, Present, FoldersTypeOK
\* Where a place of the new list comes from, if it is not the first.
<1> DEFINE from(i) == IF i <= place THEN i - 1 ELSE i
<1>4. ASSUME NEW i \in 1 .. m, i # 1
      PROVE  /\ from(i) \in 1 .. n /\ Stays(n, place, from(i))
             /\ after[i] = list[from(i)] /\ list[from(i)] # f
  <2>1. from(i) \in 1 .. n /\ Stays(n, place, from(i)) /\ from(i) # place
    BY <1>1, <1>2, <1>4 DEF Stays
  <2>2. after[i] = list[from(i)]
    BY <1>4
  <2>3. list[from(i)] # f
    BY <1>3, <2>1
  <2> QED  BY <2>1, <2>2, <2>3
<1>5. after[1] = f
  BY <1>2
<1>6. ASSUME NEW i \in 1 .. m PROVE after[i] \in Present(lastUsedAt')
  BY <1>1, <1>4, <1>5
<1>7. ASSUME NEW g \in Present(lastUsedAt') PROVE \E i \in 1 .. m : after[i] = g
  <2>1. CASE g = f
    BY <1>2, <1>5, <2>1
  <2>2. CASE g # f
    <3>1. PICK k \in 1 .. n : Stays(n, place, k) /\ list[k] = g
      BY <1>1, <2>2
    <3>2. k # place
      BY <2>2, <3>1
    <3>3. PICK i \in 1 .. m : i # 1 /\ from(i) = k
      <4>1. CASE k < place
        <5>1. k + 1 \in 1 .. m /\ k + 1 # 1 /\ from(k + 1) = k
          BY <1>1, <1>2, <3>1, <4>1 DEF Stays
        <5> QED  BY <5>1
      <4>2. CASE k > place
        <5>1. k \in 1 .. m /\ k # 1 /\ from(k) = k
          BY <1>2, <4>2
        <5> QED  BY <5>1
      <4> QED  BY <3>2, <4>1, <4>2
    <3> QED  BY <1>4, <3>1, <3>3
  <2> QED  BY <2>1, <2>2
<1>8. ASSUME NEW i \in 1 .. m, NEW j \in 1 .. m, i < j
      PROVE  lastUsedAt'[after[i]] > lastUsedAt'[after[j]]
  <2>0. j # 1
    BY <1>2, <1>8
  <2>1. /\ from(j) \in 1 .. n /\ after[j] = list[from(j)] /\ after[j] # f
        /\ after[j] \in Present(lastUsedAt')
    BY <1>4, <1>6, <2>0
  <2>2. lastUsedAt'[after[j]] = lastUsedAt[after[j]] /\ lastUsedAt[after[j]] < Timestamp
    BY <1>1, <2>1
  <2>3. CASE i = 1
    BY <1>1, <1>3, <1>5, <2>1, <2>2, <2>3
  <2>4. CASE i # 1
    <3>1. /\ from(i) \in 1 .. n /\ after[i] = list[from(i)] /\ after[i] # f
          /\ after[i] \in Present(lastUsedAt')
      BY <1>4, <1>6, <2>4
    <3>2. lastUsedAt'[after[i]] = lastUsedAt[after[i]]
      BY <1>1, <3>1
    <3>3. from(i) < from(j)
      BY <1>8
    <3>4. lastUsedAt[list[from(i)]] > lastUsedAt[list[from(j)]]
      BY <1>3, <2>1, <3>1, <3>3
    <3> QED  BY <2>1, <2>2, <3>1, <3>2, <3>4
  <2> QED  BY <2>3, <2>4
<1>9. after \in [1 .. m -> Present(lastUsedAt')]
  BY <1>6
<1> HIDE DEF after
<1>10. Lists(after, m, lastUsedAt')
  BY <1>7, <1>8, <1>9 DEF Lists
<1> QED  BY <1>10 DEF after

\* The rows are the same list.
StackInv ==
  restarts = 0 => \E n \in Nat : \E list : Lists(list, n, lastUsedAt)

\* Where a folder is, or would come in.
LEMMA PlaceOf ==
  ASSUME NEW n \in Nat, NEW list, NEW f
  PROVE  \E place \in 1 .. n + 1 :
           IF place <= n THEN list[place] = f ELSE \A i \in 1 .. n : list[i] # f
<1>1. CASE \A i \in 1 .. n : list[i] # f
  <2>1. n + 1 \in 1 .. n + 1 /\ ~(n + 1 <= n)
    OBVIOUS
  <2> QED  BY <1>1, <2>1
<1>2. CASE \E i \in 1 .. n : list[i] = f
  <2>1. PICK i \in 1 .. n : list[i] = f
    BY <1>2
  <2>2. i \in 1 .. n + 1 /\ i <= n
    OBVIOUS
  <2> QED  BY <2>1, <2>2
<1> QED  BY <1>1, <1>2

LEMMA TouchStacks ==
  ASSUME FoldersTypeOK, FoldersTypeOK', ListIsBounded, Behind, StackInv, restarts = 0,
         NEW f \in Folders, Touch(f)
  PROVE  StackInv' /\ Stack!Touch(f)
<1>1. PICK n \in Nat : \E list : Lists(list, n, lastUsedAt)
  BY DEF StackInv
<1>2. PICK list : Lists(list, n, lastUsedAt)
  BY <1>1
<1>3. lastUsedAt \in [Folders -> Nat] /\ lastUsedAt' \in [Folders -> Nat]
  BY FoldersAssumption DEF FoldersTypeOK
<1>4. Listed = list
  BY <1>2, <1>3, ListedIsList DEF Listed
<1>5. PICK place \in 1 .. n + 1 :
        IF place <= n THEN list[place] = f ELSE \A i \in 1 .. n : list[i] # f
  BY PlaceOf
<1> DEFINE m == IF place <= n \/ n = Limit THEN n ELSE n + 1
           after == [i \in 1 .. m |->
                       IF i = 1 THEN f ELSE IF i <= place THEN list[i - 1] ELSE list[i]]
<1>6. m \in Nat /\ Lists(after, m, lastUsedAt')
  BY <1>2, <1>5, TouchPushes
<1>7. Listed' = after
  <2> HIDE DEF m, after
  <2> QED  BY <1>3, <1>6, ListedIsList DEF Listed
<1>8. StackInv'
  BY <1>6 DEF StackInv
<1>9. list \in Seq(Folders) /\ Len(list) = n
  BY <1>2, <1>3 DEF Lists, Present
<1>10. Stack!Touch(f)
  <2>1. /\ place \in 1 .. Stack!Depth + 1 /\ Stack!IsAt(f, place)
        /\ Stack!DepthAfter(place) = m
    BY <1>4, <1>5, <1>9 DEF Stack!Depth, Stack!IsAt, Stack!DepthAfter
  <2> QED  BY <1>4, <1>7, <2>1 DEF Stack!Touch
<1> QED  BY <1>8, <1>10

LEMMA StackInit ==
  ASSUME FoldersInit, FoldersTypeOK
  PROVE  StackInv /\ Stack!Init
<1>1. lastUsedAt \in [Folders -> Nat] /\ Present(lastUsedAt) = {}
  BY FoldersAssumption DEF FoldersInit, Present
<1>2. Lists(<<>>, 0, lastUsedAt)
  <2>1. <<>> \in [1 .. 0 -> {}]
    OBVIOUS
  <2> QED  BY <1>1, <2>1 DEF Lists
<1>3. Listed = <<>>
  BY <1>1, <1>2, ListedIsList DEF Listed
<1> QED  BY <1>2, <1>3 DEF StackInv, Stack!Init

\* Until the process restarts, the rows of transcribe_recent_folders are a stack
\* of folders (touchRecentFolder, listRecentFolders), for any limit and clock.
THEOREM ImplementsStack == FoldersSpec => StackUntilRestart
<1>1. ASSUME FoldersInv, FoldersInv', StackInv, [FoldersNext]_folderVars
      PROVE  StackInv' /\ [restarts' = 0 => Stack!Next]_Listed
  <2>1. ASSUME NEW f \in Folders, Touch(f)
        PROVE  StackInv' /\ (restarts' = 0 => Stack!Next)
    <3>1. restarts' = restarts
      BY <2>1 DEF Touch
    <3>2. CASE restarts = 0
      <4>1. StackInv' /\ Stack!Touch(f)
        BY <1>1, <2>1, <3>2, TouchStacks DEF FoldersInv
      <4> QED  BY <4>1 DEF Stack!Next
    <3>3. CASE restarts # 0
      BY <3>1, <3>3 DEF StackInv
    <3> QED  BY <3>2, <3>3
  <2>2. CASE lastUsedAt' = lastUsedAt /\ restarts' = restarts
    <3>1. Listed' = Listed
      BY <2>2 DEF Listed
    <3> QED  BY <1>1, <2>2, <3>1 DEF StackInv
  <2>3. CASE Restart
    <3>1. restarts' # 0
      BY <1>1, <2>3, FoldersAssumption DEF FoldersInv, FoldersTypeOK, Restart
    <3> QED  BY <3>1 DEF StackInv
  <2> QED
    BY <1>1, <2>1, <2>2, <2>3 DEF FoldersNext, folderVars, TouchElsewhere, Tick
<1>2. FoldersInit => StackInv /\ Stack!Init
  BY FoldersInvInit, StackInit DEF FoldersInv
<1>3. FoldersInv /\ StackInv /\ [FoldersNext]_folderVars
      => StackInv' /\ [restarts' = 0 => Stack!Next]_Listed
  BY <1>1, FoldersInvStep
<1> QED
  BY <1>2, <1>3, FoldersInvInit, FoldersInvStep, PTL DEF FoldersSpec, StackUntilRestart

=============================================================================
