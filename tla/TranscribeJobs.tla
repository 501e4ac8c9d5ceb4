---------------------------- MODULE TranscribeJobs ----------------------------
(***************************************************************************)
(* The jobs of the transcribe widget: POST transcribe-stream stores a job, *)
(* dispatches it to the agent and turns the agent's events into job rows,  *)
(* outbox rows and server-sent events until the transcript, an error, or   *)
(* the client's departure.  There is no timer: a job whose events are lost *)
(* keeps its stream open.                                                  *)
(*                                                                         *)
(* The agent runs ahead of the server: what it has sent and the server has *)
(* not handled is on the wire, in order, and can be lost from some point   *)
(* on.                                                                     *)
(***************************************************************************)
EXTENDS Naturals, Sequences

CONSTANTS
  Jobs,
  MaxFaults   \* bound: failing writes, lost streams and server crashes

ASSUME JobsAssumption == MaxFaults \in Nat

VARIABLES
  row,         \* transcribe_jobs: status and progress
  outbox,      \* the event types in transcribe_outbox, for each job
  stream,      \* the server-sent events of the job's request
  subscribed,  \* jobs whose bus handler is registered
  told,        \* the verdict the client was sent
  sent,        \* how many events of its script the agent has sent; all, when it
               \* has nothing to do
  wire,        \* events on their way to the bus
  saved,       \* jobs whose transcript is on the agent's disk
  faults

vars == <<row, outbox, stream, subscribed, told, sent, wire, saved, faults>>

Event == [type : {"progress", "token", "done", "error"}, percent : 0 .. 100]
Progress(n) == [type |-> "progress", percent |-> n]
Other(type) == [type |-> type, percent |-> 0]

\* execute_transcribe_start; the transcript is written after the token.
ScriptEarly == <<Progress(8), Progress(35), Progress(78), Other("token"),
                 Other("done"), Progress(100)>>                     \* mutant
ScriptCut == <<Progress(8), Progress(35), Progress(78), Other("token"),
               Progress(100)>>                                      \* mutant
Script == <<Progress(8), Progress(35), Progress(78), Other("token"),
            Progress(100), Other("done")>>
SavesAtEnd == 6                                                     \* mutant
SavesAfter == 4

Row == [status : {"none", "queued", "processing", "completed", "failed"},
        progress : 0 .. 100]
NoRow == [status |-> "none", progress |-> 0]
OutboxEvents == {"job_created", "transcription_completed", "job_failed"}

TypeOK ==
  /\ row \in [Jobs -> Row]
  /\ outbox \in [Jobs -> SUBSET OutboxEvents]
  /\ stream \in [Jobs -> {"none", "open", "closed", "left"}]
  /\ subscribed \in SUBSET Jobs
  /\ told \in [Jobs -> {"none", "done", "error"}]
  /\ sent \in [Jobs -> 0 .. Len(Script)]
  /\ wire \in [Jobs -> Seq(Event)]
  /\ saved \in SUBSET Jobs
  /\ faults \in 0 .. MaxFaults

Init ==
  /\ row = [j \in Jobs |-> NoRow]
  /\ outbox = [j \in Jobs |-> {}]
  /\ stream = [j \in Jobs |-> "none"]
  /\ told = [j \in Jobs |-> "none"]
  /\ sent = [j \in Jobs |-> Len(Script)]
  /\ wire = [j \in Jobs |-> <<>>]
  /\ subscribed = {} /\ saved = {} /\ faults = 0

Fault == faults < MaxFaults /\ faults' = faults + 1

-----------------------------------------------------------------------------
(* Effects.                                                                *)

\* The UPDATE statements know nothing of the status they replace.
Processing(j, n) ==
  [row EXCEPT ![j] = [status |-> "processing", progress |-> n]]
CompletedNever(j) == row                                            \* mutant
Completed(j) == [row EXCEPT ![j] = [status |-> "completed", progress |-> 100]]
Failed(j) == [row EXCEPT ![j].status = "failed"]
Logged(j, type) == [outbox EXCEPT ![j] = @ \cup {type}]

\* send, off and close.
Ends(j, verdict) ==
  /\ told' = IF stream[j] = "open" THEN [told EXCEPT ![j] = verdict] ELSE told
  /\ stream' =
       IF stream[j] = "open" THEN [stream EXCEPT ![j] = "closed"] ELSE stream
  /\ subscribed' = subscribed \ {j}

-----------------------------------------------------------------------------
(* Requests.                                                               *)

New(j) == row[j] = NoRow

Start(j) ==
  /\ New(j)
  /\ row' = [row EXCEPT ![j].status = "queued"]
  /\ outbox' = Logged(j, "job_created")
  /\ stream' = [stream EXCEPT ![j] = "open"]
  /\ subscribed' = subscribed \cup {j}
  /\ sent' = [sent EXCEPT ![j] = 0]
  /\ UNCHANGED <<told, wire, saved, faults>>

\* The agent is gone when the command is dispatched.
StartRefused(j) ==
  /\ New(j)
  /\ row' = [row EXCEPT ![j].status = "failed"]
  /\ outbox' = Logged(j, "job_created")
  /\ stream' = [stream EXCEPT ![j] = "closed"]
  /\ told' = [told EXCEPT ![j] = "error"]
  /\ UNCHANGED <<subscribed, sent, wire, saved, faults>>

\* The outbox row cannot be written: the job stays queued, the client gets 500.
StartFails(j) ==
  /\ New(j)
  /\ Fault
  /\ row' = [row EXCEPT ![j].status = "queued"]
  /\ UNCHANGED <<outbox, stream, subscribed, told, sent, wire, saved>>

\* The client goes away; the agent is not told.
Abort(j) ==
  /\ j \in subscribed
  /\ subscribed' = subscribed \ {j}
  /\ stream' = [stream EXCEPT ![j] = "left"]
  /\ UNCHANGED <<row, outbox, told, sent, wire, saved, faults>>

-----------------------------------------------------------------------------
(* The agent.                                                              *)

AgentSends(j) ==
  /\ sent[j] < Len(Script)
  /\ sent' = [sent EXCEPT ![j] = @ + 1]
  /\ wire' = [wire EXCEPT ![j] = Append(@, Script[sent[j] + 1])]
  /\ saved' = IF sent[j] >= SavesAfter THEN saved \cup {j} ELSE saved
  /\ UNCHANGED <<row, outbox, stream, subscribed, told, faults>>

\* The transcript cannot be written.
AgentFails(j) ==
  /\ sent[j] = SavesAfter
  /\ sent' = [sent EXCEPT ![j] = Len(Script)]
  /\ wire' = [wire EXCEPT ![j] = Append(@, Other("error"))]
  /\ UNCHANGED <<row, outbox, stream, subscribed, told, saved, faults>>

\* The call breaks: the rest of the wire is lost, the next send fails.
CallLost(j) ==
  /\ Fault
  /\ \E n \in 0 .. Len(wire[j]) :
       wire' = [wire EXCEPT ![j] = SubSeq(@, 1, n)]
  /\ sent' = [sent EXCEPT ![j] = Len(Script)]
  /\ saved' \in {saved, IF sent[j] >= SavesAfter THEN saved \cup {j} ELSE saved}
  /\ UNCHANGED <<row, outbox, stream, subscribed, told>>

-----------------------------------------------------------------------------
(* The bus handler, handleAgentBusEvent.                                   *)

Takes(j, type) ==
  /\ wire[j] # <<>> /\ Head(wire[j]).type = type
  /\ wire' = [wire EXCEPT ![j] = Tail(@)]

Hears(j, type) == j \in subscribed /\ Takes(j, type)

OnProgress(j) ==
  /\ Hears(j, "progress")
  /\ row' = Processing(j, Head(wire[j]).percent)
  /\ UNCHANGED <<outbox, stream, subscribed, told, sent, saved, faults>>

OnToken(j) ==
  /\ Hears(j, "token")
  /\ UNCHANGED <<row, outbox, stream, subscribed, told, sent, saved, faults>>

OnDone(j) ==
  /\ Hears(j, "done")
  /\ row' = Completed(j)
  /\ outbox' = Logged(j, "transcription_completed")
  /\ Ends(j, "done")
  /\ UNCHANGED <<sent, saved, faults>>

OnError(j) ==
  /\ Hears(j, "error")
  /\ row' = Failed(j)
  /\ outbox' = Logged(j, "job_failed")
  /\ Ends(j, "error")
  /\ UNCHANGED <<sent, saved, faults>>

\* A write of the handler throws: what it wrote before stands, and the stream
\* stays open and subscribed.
HandlerThrows(j) ==
  /\ Fault
  /\ \/ Hears(j, "progress") /\ UNCHANGED row
     \/ Hears(j, "done") /\ row' \in {row, Completed(j)}
     \/ Hears(j, "error") /\ row' \in {row, Failed(j)}
  /\ UNCHANGED <<outbox, stream, subscribed, told, sent, saved>>

\* An event of a job that nobody subscribes to.
Unheard(j) ==
  /\ j \notin subscribed
  /\ \E type \in {"progress", "token", "done", "error"} : Takes(j, type)
  /\ UNCHANGED <<row, outbox, stream, subscribed, told, sent, saved, faults>>

Handle(j) ==
  OnProgress(j) \/ OnToken(j) \/ OnDone(j) \/ OnError(j) \/ Unheard(j)

\* The server dies, and with it its streams, handlers and calls.
ServerCrash ==
  /\ Fault
  /\ stream' = [j \in Jobs |-> IF stream[j] = "open" THEN "left" ELSE stream[j]]
  /\ subscribed' = {}
  /\ wire' = [j \in Jobs |-> <<>>]
  /\ sent' = [j \in Jobs |-> Len(Script)]
  /\ UNCHANGED <<row, outbox, told, saved>>

-----------------------------------------------------------------------------
Next ==
  \/ \E j \in Jobs :
       \/ Start(j) \/ StartRefused(j) \/ StartFails(j) \/ Abort(j)
       \/ AgentSends(j) \/ AgentFails(j) \/ CallLost(j)
       \/ Handle(j) \/ HandlerThrows(j)
  \/ ServerCrash

Spec == Init /\ [][Next]_vars

\* The agent works through its script and the server handles what arrives.
FairSpec ==
  /\ Spec
  /\ \A j \in Jobs : WF_vars(AgentSends(j)) /\ WF_vars(Handle(j))

-----------------------------------------------------------------------------
(* Properties.                                                             *)

\* What a client was told is what the job list and the outbox say, for good: also
\* with events still on the wire and writes that fail.
ToldIsStored ==
  \A j \in Jobs :
    /\ told[j] = "done" =>
         /\ row[j] = [status |-> "completed", progress |-> 100]
         /\ "transcription_completed" \in outbox[j]
    /\ told[j] = "error" => row[j].status = "failed"

\* A job that is listed as completed has its transcript on the agent's disk, and
\* the outbox announces no other.
CompletedIsSaved ==
  \A j \in Jobs :
    row[j].status = "completed" \/ "transcription_completed" \in outbox[j]
      => j \in saved

\* The verdict on a job is never taken back, although the updates are
\* unconditional and a handler that throws stays subscribed after its verdict.
VerdictIsFinal ==
  [][\A j \in Jobs :
       row[j].status \in {"completed", "failed"} => row'[j] = row[j]]_vars

\* As long as nothing fails, a client that stays is told a verdict.
WaitIsOver ==
  [](faults = 0) =>
    \A j \in Jobs : stream[j] = "open" ~> stream[j] \in {"closed", "left"}

=============================================================================
