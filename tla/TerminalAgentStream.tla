------------------------- MODULE TerminalAgentStream -------------------------
(***************************************************************************)
(* The message streams of the terminal-agent widget: POST message-stream   *)
(* dispatches a message to the agent and turns the events the agent sends  *)
(* back over the module bus into server-sent events, until the answer, an  *)
(* error, 20 s without an event, or the client's departure.  All streams   *)
(* of an agent and provider write the same dialog-state row.               *)
(*                                                                         *)
(* Node runs one callback at a time: a request up to its dispatch, a bus   *)
(* handler, a timer or an abort listener is one action.  The events of one *)
(* message arrive in the order in which the Rust agent sends them.         *)
(***************************************************************************)
EXTENDS Naturals

CONSTANTS
  Streams,     \* POST message-stream requests, each with its own dialogId
  Refs,        \* provider session refs
  MaxFaults,   \* bound: failing writes and server crashes in one behaviour
  None         \* '' where a provider session ref is expected

ASSUME StreamAssumption == MaxFaults \in Nat /\ None \notin Refs

VARIABLES
  row,         \* the llm_consumer_dialog_state row of the agent and provider
  dialogs,     \* the refs in llm_consumer_dialog_refs
  started,     \* requests whose handler has run
  end,         \* what closed each stream first: `closed` is end # "none"
  subscribed,  \* streams whose bus handler is registered
  armed,       \* streams whose idle timer is pending
  captured,    \* currentState.providerSessionRef of each stream
  told,        \* how many assistant_done or error events a client was sent
  job,         \* what the agent is doing about each message
  faults

vars == <<row, dialogs, started, end, subscribed, armed, captured, told, job,
          faults>>

MaybeRef == Refs \cup {None}
Row == [ref : MaybeRef,
        status : {"idle", "running", "resuming", "done", "error"},
        error : {"none", "timeout", "offline", "resume_failed", "agent"}]
ClearRow == [ref |-> None, status |-> "idle", error |-> "none"]

\* "failing" after resume_failed, "answered" once assistant_done is handled.
Jobs == {"none", "running", "failing", "answered", "over"}

\* "told" by an event or a refused dispatch, "left" by the client's departure
\* or the server's death, "failed" when the request threw before it had a
\* response.
Ends == {"none", "told", "timeout", "left", "failed"}

TypeOK ==
  /\ row \in Row
  /\ dialogs \in SUBSET Refs
  /\ started \in SUBSET Streams
  /\ end \in [Streams -> Ends]
  /\ subscribed \in SUBSET started
  /\ armed \in SUBSET started
  /\ captured \in [Streams -> MaybeRef]
  /\ told \in [Streams -> Nat]
  /\ job \in [Streams -> Jobs]
  /\ faults \in 0 .. MaxFaults

Init ==
  /\ row = ClearRow
  /\ dialogs = {}
  /\ started = {} /\ subscribed = {} /\ armed = {}
  /\ captured = [m \in Streams |-> None]
  /\ told = [m \in Streams |-> 0]
  /\ end = [m \in Streams |-> "none"]
  /\ job = [m \in Streams |-> "none"]
  /\ faults = 0

-----------------------------------------------------------------------------
(* Effects shared by the callbacks.                                        *)

\* markDialogStatus without a providerSessionRef keeps the one of the row.
Marked(status, error) == [row EXCEPT !.status = status, !.error = error]

Closed(m) == end[m] # "none"

\* send: nothing is enqueued on a closed stream.
ToldAnyway(m) == [told EXCEPT ![m] = @ + 1]                         \* mutant
Told(m) == IF Closed(m) THEN told ELSE [told EXCEPT ![m] = @ + 1]

\* close: returns early, and leaves the timer alone, on a closed stream.
TimersAfterClose(m, timers) == IF Closed(m) THEN timers ELSE timers \ {m}
EndedBy(m, how) == IF Closed(m) THEN end ELSE [end EXCEPT ![m] = how]

\* resetIdleTimer, run first for every event of the bus.
TimersNotReset(m) == armed                                          \* mutant
TimersReset(m) == armed \cup {m}

OffForgotten(m) == subscribed                                       \* mutant
Off(m) == subscribed \ {m}

Fault == faults < MaxFaults /\ faults' = faults + 1

-----------------------------------------------------------------------------
(* Requests.                                                               *)

\* POST message-stream for an agent that is online; the command is accepted.
Start(m) ==
  /\ m \notin started
  /\ started' = started \cup {m}
  /\ captured' = [captured EXCEPT ![m] = row.ref]
  /\ row' = Marked(IF row.ref = None THEN "running" ELSE "resuming", "none")
  /\ subscribed' = subscribed \cup {m}
  /\ armed' = TimersReset(m)
  /\ job' = [job EXCEPT ![m] = "running"]
  /\ UNCHANGED <<dialogs, end, told, faults>>

\* The agent is gone when the command is dispatched.
StartRejected(m) ==
  /\ m \notin started
  /\ started' = started \cup {m}
  /\ captured' = [captured EXCEPT ![m] = row.ref]
  /\ row' = Marked("error", "offline")
  /\ told' = Told(m)
  /\ end' = EndedBy(m, "told")
  /\ armed' = TimersAfterClose(m, TimersReset(m))
  /\ UNCHANGED <<dialogs, subscribed, job, faults>>

\* The write of the refusal throws: the request fails without a response, its
\* handler already removed, its row not corrected and its timer still pending.
StartFails(m) ==
  /\ m \notin started
  /\ Fault
  /\ started' = started \cup {m}
  /\ captured' = [captured EXCEPT ![m] = row.ref]
  /\ row' = Marked(IF row.ref = None THEN "running" ELSE "resuming", "none")
  /\ end' = EndedBy(m, "failed")
  /\ armed' = TimersReset(m)
  /\ UNCHANGED <<dialogs, subscribed, told, job>>

\* POST dialog/new, or a change of the active provider.
Clear ==
  /\ row' = ClearRow
  /\ UNCHANGED <<dialogs, started, end, subscribed, armed, captured, told, job,
                 faults>>

\* POST dialog/select: the widget offers the listed dialogs, and none is ever
\* taken off the list (the server itself takes any ref).
Select(ref) ==
  /\ ref \in dialogs
  /\ row' = [ref |-> ref, status |-> "resuming", error |-> "none"]
  /\ UNCHANGED <<dialogs, started, end, subscribed, armed, captured, told, job,
                 faults>>

\* The client goes away: the abort listener runs, the row is left as it is.
Abort(m) ==
  /\ m \in subscribed
  /\ subscribed' = Off(m)
  /\ end' = EndedBy(m, "left")
  /\ armed' = TimersAfterClose(m, armed)
  /\ UNCHANGED <<row, dialogs, started, captured, told, job, faults>>

\* 20 s without an event: the stream closes but stays subscribed.
IdleTimeout(m) ==
  /\ m \in armed
  /\ row' = Marked("error", "timeout")
  /\ told' = Told(m)
  /\ end' = EndedBy(m, "timeout")
  /\ armed' = armed \ {m}
  /\ UNCHANGED <<dialogs, started, subscribed, captured, job, faults>>

-----------------------------------------------------------------------------
(* Events of the agent: the bus handler of a subscribed stream.            *)

Hears(m) == m \in subscribed /\ job[m] \in {"running", "failing"}

\* status (some tool details are swallowed) and assistant_chunk.
Progress(m) ==
  /\ Hears(m) /\ job[m] = "running"
  /\ armed' = TimersReset(m)
  /\ row' \in {row, Marked("running", "none")}
  /\ UNCHANGED <<dialogs, started, end, subscribed, captured, told, job,
                 faults>>

\* The ref the agent reports, or the one the request started from.
DoneRef(m, reported) == IF reported = None THEN captured[m] ELSE reported
DoneRow(ref) == [ref |-> ref, status |-> "done", error |-> "none"]

\* upsertTerminalAgentDialogRef, for a ref that is not ''.
ListedNever(ref) == dialogs                                         \* mutant
Listed(ref) == dialogs \cup ({ref} \ {None})

Done(m, reported) ==
  LET ref == DoneRef(m, reported)
  IN  /\ Hears(m) /\ job[m] = "running"
      /\ row' = DoneRow(ref)
      /\ dialogs' = Listed(ref)
      /\ told' = Told(m)
      /\ subscribed' = Off(m)
      /\ end' = EndedBy(m, "told")
      /\ armed' = TimersAfterClose(m, TimersReset(m))
      /\ job' = [job EXCEPT ![m] = "answered"]
      /\ UNCHANGED <<started, captured, faults>>

\* Gemini could not resume: the ref is dropped, the stream goes on.
ResumeFailed(m) ==
  /\ Hears(m) /\ job[m] = "running" /\ captured[m] # None
  /\ row' = [ref |-> None, status |-> "error", error |-> "resume_failed"]
  /\ armed' = TimersReset(m)
  /\ job' = [job EXCEPT ![m] = "failing"]
  /\ UNCHANGED <<dialogs, started, end, subscribed, captured, told, faults>>

AgentError(m) ==
  /\ Hears(m)
  /\ row' = Marked("error", "agent")
  /\ told' = Told(m)
  /\ subscribed' = Off(m)
  /\ end' = EndedBy(m, "told")
  /\ armed' = TimersAfterClose(m, TimersReset(m))
  /\ job' = [job EXCEPT ![m] = "over"]
  /\ UNCHANGED <<dialogs, started, captured, faults>>

\* A write of the handler throws: the timer is reset, a first write stands, and
\* neither off nor close is reached.
HandlerThrows(m) ==
  /\ Hears(m)
  /\ Fault
  /\ armed' = TimersReset(m)
  /\ \/ job' \in {job, [job EXCEPT ![m] = "over"]} /\ UNCHANGED row
     \/ /\ job[m] = "running"
        /\ \E ref \in Refs : row' = DoneRow(ref)
        /\ job' = [job EXCEPT ![m] = "over"]
  /\ UNCHANGED <<dialogs, started, end, subscribed, captured, told>>

\* The rest of the events is lost, or finds no subscriber.
JobLost(m) ==
  /\ job[m] \in {"running", "failing"}
  /\ job' = [job EXCEPT ![m] = "over"]
  /\ UNCHANGED <<row, dialogs, started, end, subscribed, armed, captured, told,
                 faults>>

\* The server dies: streams, timers and subscriptions with it.
ServerCrash ==
  /\ Fault
  /\ end' = [m \in Streams |-> IF m \in started THEN "left" ELSE end[m]]
  /\ subscribed' = {} /\ armed' = {}
  /\ UNCHANGED <<row, dialogs, started, captured, told, job>>

-----------------------------------------------------------------------------
Next ==
  \/ \E m \in Streams :
       \/ Start(m) \/ StartRejected(m) \/ StartFails(m)
       \/ Abort(m) \/ IdleTimeout(m)
       \/ Progress(m) \/ ResumeFailed(m) \/ AgentError(m)
       \/ \E reported \in MaybeRef : Done(m, reported)
       \/ HandlerThrows(m) \/ JobLost(m)
  \/ Clear
  \/ \E ref \in Refs : Select(ref)
  \/ ServerCrash

Spec == Init /\ [][Next]_vars

\* A pending timer fires in the end (each message has finitely many events, so
\* it is not reset for ever); the agent and the clients owe nothing.
FairSpec == Spec /\ \A m \in Streams : WF_vars(IdleTimeout(m))

-----------------------------------------------------------------------------
(* Properties.                                                             *)

Open == {m \in started : ~Closed(m)}

\* An open stream hears every event of its message and has its idle timer
\* pending, also after a handler threw half way: it can neither miss the answer
\* nor hang.
OpenIsServed == Open \subseteq subscribed \cap armed

\* A stream that was not closed by its idle timer is silent for good: no event
\* and no timer of it writes the dialog row again.  (One closed by the timer
\* stays subscribed, and its late events arm the timer again; a request that
\* failed without a response hears nothing, and owes the row its timer.)
EndedIsSilent ==
  /\ \A m \in subscribed : end[m] \in {"none", "timeout"}
  /\ \A m \in armed : end[m] \in {"none", "timeout", "failed"}

\* A client is told the end of its stream exactly once, as assistant_done or
\* error, unless it has left or never got the stream.
ToldOnce ==
  \A m \in Streams :
    end[m] \notin {"left", "failed"} => told[m] = IF Closed(m) THEN 1 ELSE 0

\* The ref the next message would resume is one the user can also select, as
\* long as no write has failed.
RefIsListed == faults = 0 /\ row.ref # None => row.ref \in dialogs

\* As long as no client leaves and the server lives, a dialog that says
\* "running" stops saying so: also one that a late event of a timed out stream
\* has set back to running, and one whose refusal could not be written.
RunningSettles ==
  [](\A m \in Streams : end[m] # "left") =>
    (row.status = "running" ~> row.status # "running")

=============================================================================
