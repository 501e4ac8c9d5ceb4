---------------------------- MODULE AgentExecutor ----------------------------
(***************************************************************************)
(* The commands of the server inside the Rust agent.  Each one is a task   *)
(* of its own: it runs the transcription, or a provider CLI whose two      *)
(* output pipes are read by two more tasks into one bounded channel, and   *)
(* sends its events through the channel of the connection the command came *)
(* by.  When that connection ends, every later send of the task fails or   *)
(* goes nowhere: a task never moves to the next connection.                *)
(*                                                                         *)
(* A step is what a task does between two awaits; the events it is about   *)
(* to send, one await each, are its `todo`.  A pipe holds the one line the *)
(* provider is blocked on.                                                 *)
(***************************************************************************)
EXTENDS Naturals, Sequences

CONSTANTS
  Jobs,        \* job ids of the commands
  Commands,    \* the commands that may come, for each job id
  Lines,       \* what a provider may print
  TxCap,       \* capacity of the connection's channel (128)
  LineCap,     \* capacity of the line channel (256)
  MaxLines,    \* bound: lines a provider prints
  MaxCycles,   \* bound: connections of the agent
  Nothing

ASSUME ExecutorAssumption ==
  /\ TxCap \in Nat \ {0} /\ LineCap \in Nat \ {0}
  /\ MaxLines \in Nat /\ MaxCycles \in Nat \ {0}
  /\ Nothing \notin Lines

Sources == {"stdout", "stderr"}

VARIABLES
  cycle,     \* the connection that is up
  wire,      \* its channel and its stream: events on their way to the server
  heard,     \* what the server has made of each job's events
  cmd,       \* the command of each job
  at,        \* the connection each job came by, 0 before
  job,       \* where its task is, and the locals of the task
  child,     \* the provider process of each job
  pipe,      \* the line it is blocked on, for each source
  readers,   \* its read_lines tasks
  lines      \* line_tx .. line_rx of each job

Child == <<child, pipe, readers, lines>>
executorVars == <<cycle, wire, heard, cmd, at, job, Child>>

ExecutorInit ==
  /\ cycle = 1 /\ wire = <<>>
  /\ heard = [j \in Jobs |-> "running"]
  /\ cmd = [j \in Jobs |-> Nothing]
  /\ at = [j \in Jobs |-> 0]
  /\ job = [j \in Jobs |-> [pc |-> "start", todo |-> <<>>, spoke |-> FALSE]]
  /\ child = [j \in Jobs |-> [left |-> MaxLines, state |-> "none"]]
  /\ pipe = [j \in Jobs |-> [s \in Sources |-> Nothing]]
  /\ readers = [j \in Jobs |-> {}]
  /\ lines = [j \in Jobs |-> <<>>]

-----------------------------------------------------------------------------
(* send_widget_event: tx.send(..).await?                                   *)

At(j, pc) == at[j] # 0 /\ job[j].pc = pc /\ job[j].todo = <<>>

Goes(j, pc, todo) == job' = [job EXCEPT ![j].pc = pc, ![j].todo = todo]

\* What the spawned task does with an Err: send_widget_execution_error.
Fails(j) == Goes(j, "over", <<"error">>)

SendEvent(j) ==
  /\ job[j].todo # <<>> /\ at[j] = cycle
  /\ Len(wire) < TxCap
  /\ wire' = Append(wire, [job |-> j, kind |-> Head(job[j].todo)])
  /\ job' = [job EXCEPT ![j].todo = Tail(@)]
  /\ UNCHANGED <<cycle, heard, cmd, at, Child>>

\* The connection is gone: the event is queued for nobody until the receiver is
\* dropped; from then on send is an Err, and so is the one of the error for it.
SendAfterEnd(j) ==
  /\ job[j].todo # <<>> /\ at[j] # cycle
  /\ \/ job' = [job EXCEPT ![j].todo = Tail(@)]
     \/ Goes(j, "over", <<>>)
  /\ UNCHANGED <<cycle, wire, heard, cmd, at, Child>>

-----------------------------------------------------------------------------
(* handle_server_command, and the commands other than a message.           *)

Receive(j) ==
  /\ at[j] = 0
  /\ at' = [at EXCEPT ![j] = cycle]
  /\ \E c \in Commands[j] : cmd' = [cmd EXCEPT ![j] = c]
  /\ UNCHANGED <<cycle, wire, heard, job, Child>>

ResetOrCancel(j) ==
  /\ At(j, "start") /\ cmd[j].kind \in {"reset", "cancel"}
  /\ Goes(j, "over", <<IF cmd[j].kind = "reset" THEN "status" ELSE "error">>)
  /\ UNCHANGED <<cycle, wire, heard, cmd, at, Child>>

\* execute_transcribe_start: 8 %, and an Err without a first file; 35 %, 78 %
\* and the transcript; the file; 100 % and the end.
TranscribeStart(j) ==
  /\ At(j, "start") /\ cmd[j].kind = "transcribe"
  /\ IF cmd[j].files
       THEN Goes(j, "write", <<"status", "status", "status", "chunk">>)
       ELSE Goes(j, "over", <<"status", "error">>)
  /\ UNCHANGED <<cycle, wire, heard, cmd, at, Child>>

TranscribeWrite(j) ==
  /\ At(j, "write")
  /\ Goes(j, "over", <<"status", "done">>) \/ Fails(j)
  /\ UNCHANGED <<cycle, wire, heard, cmd, at, Child>>

-----------------------------------------------------------------------------
(* execute_terminal_agent_message.                                         *)

\* No message, or a provider the agent does not know.
RefuseMessage(j) ==
  /\ At(j, "start") /\ cmd[j].kind = "message" /\ ~cmd[j].valid
  /\ Goes(j, "over", <<"error">>)
  /\ UNCHANGED <<cycle, wire, heard, cmd, at, Child>>

StartMessage(j) ==
  /\ At(j, "start") /\ cmd[j].kind = "message" /\ cmd[j].valid
  /\ Goes(j, "spawn", IF cmd[j].resume THEN <<"status", "status">> ELSE <<"status">>)
  /\ UNCHANGED <<cycle, wire, heard, cmd, at, Child>>

\* A program that does not start is tried once more through a shell, when the
\* settings allow it.  Control characters in an argument fail both.
Spawns(j, direct, viaShell) == direct \/ (cmd[j].shellFallback /\ viaShell)

OneReader == {"stdout"}                                             \* mutant
StartedReaders == Sources

Spawn(j) ==
  /\ At(j, "spawn")
  /\ \E direct, viaShell \in BOOLEAN :
       IF Spawns(j, direct, viaShell)
         THEN /\ Goes(j, "reading", <<>>)
              /\ child' = [child EXCEPT ![j].state = "runs"]
              /\ readers' = [readers EXCEPT ![j] = StartedReaders]
         ELSE Fails(j) /\ UNCHANGED <<child, readers>>
  /\ UNCHANGED <<cycle, wire, heard, cmd, at, pipe, lines>>

\* A JSON line reports a status (tools, thinking) and an assistant text, or is a
\* tool call when it came from stderr without a text; any other line of stdout is
\* text, of stderr a tool call.
EventsOf(line) ==
  CASE line.form = "json" ->
         (IF line.status THEN <<"status">> ELSE <<>>) \o
         (IF line.text THEN <<"chunk">>
          ELSE IF line.source = "stderr" THEN <<"status">> ELSE <<>>)
    [] line.form = "plain" ->
         IF line.source = "stdout" THEN <<"chunk">> ELSE <<"status">>
    [] OTHER -> <<>>    \* a blank line

Speaks(line) == \/ line.form = "json" /\ line.text
                \/ line.form = "plain" /\ line.source = "stdout"

TakeLine(j) ==
  /\ At(j, "reading") /\ lines[j] # <<>>
  /\ LET line == Head(lines[j])
     IN  job' = [job EXCEPT ![j].todo = EventsOf(line),
                            ![j].spoke = @ \/ Speaks(line)]
  /\ lines' = [lines EXCEPT ![j] = Tail(@)]
  /\ UNCHANGED <<cycle, wire, heard, cmd, at, child, pipe, readers>>

\* Both readers have ended: child.wait, and the verdict by its exit code.
NoFillIn(j) == <<"done">>                                           \* mutant
FillIn(j) == IF job[j].spoke THEN <<"done">> ELSE <<"chunk", "done">>

Finish(j) ==
  /\ At(j, "reading") /\ lines[j] = <<>> /\ readers[j] = {}
  /\ child[j].state \in {"succeeded", "failed"}
  /\ \/ Fails(j)     \* wait itself fails
     \/ /\ child[j].state = "succeeded"
        /\ Goes(j, "over", FillIn(j))
     \/ /\ child[j].state = "failed"
        /\ Goes(j, "over",
             IF cmd[j].resume /\ cmd[j].provider = "gemini"
               THEN <<"resume_failed", "error">> ELSE <<"error">>)
  /\ UNCHANGED <<cycle, wire, heard, cmd, at, Child>>

-----------------------------------------------------------------------------
(* The provider and the read_lines tasks.  A task that is over drops its    *)
(* end of the line channel and lets the provider run on unheard.           *)

\* Writing to a pipe whose reader has ended is an error, not a wait.
Broken(j, s) == s \in StartedReaders \ readers[j]

PrintLine(j, line) ==
  /\ child[j].state = "runs" /\ child[j].left > 0
  /\ \A s \in Sources : pipe[j][s] = Nothing
  /\ child' = [child EXCEPT ![j].left = @ - 1]
  /\ pipe' = [pipe EXCEPT ![j][line.source] = IF Broken(j, line.source) THEN Nothing ELSE line]
  /\ UNCHANGED <<cycle, wire, heard, cmd, at, job, readers, lines>>

Exit(j) ==
  /\ child[j].state = "runs"
  /\ \A s \in Sources : pipe[j][s] = Nothing
  /\ \E how \in {"succeeded", "failed"} : child' = [child EXCEPT ![j].state = how]
  /\ UNCHANGED <<cycle, wire, heard, cmd, at, job, pipe, readers, lines>>

\* A full channel makes the reader wait: it is the task that has to go on.
Read(j, s) ==
  /\ s \in readers[j] /\ pipe[j][s] # Nothing
  /\ job[j].pc = "reading" /\ Len(lines[j]) < LineCap
  /\ lines' = [lines EXCEPT ![j] = Append(@, pipe[j][s])]
  /\ pipe' = [pipe EXCEPT ![j][s] = Nothing]
  /\ UNCHANGED <<cycle, wire, heard, cmd, at, job, child, readers>>

\* The reader breaks its loop and drops its pipe: writes to it fail from then on.
Breaks(j, s) ==
  /\ s \in readers[j]
  /\ readers' = [readers EXCEPT ![j] = @ \ {s}]
  /\ pipe' = [pipe EXCEPT ![j][s] = Nothing]
  /\ UNCHANGED <<cycle, wire, heard, cmd, at, job, child, lines>>

\* The output has ended, or a line finds the task gone and the channel closed.
EndOfOutput(j, s) == pipe[j][s] = Nothing /\ child[j].state # "runs"
ChannelClosed(j, s) == pipe[j][s] # Nothing /\ job[j].pc = "over"

ReaderEnds(j, s) == (EndOfOutput(j, s) \/ ChannelClosed(j, s)) /\ Breaks(j, s)

\* Bytes that are no UTF-8: next_line is an Err, which may happen to any line.
LineFails(j, s) == pipe[j][s] # Nothing /\ Breaks(j, s)

-----------------------------------------------------------------------------
(* The connection.                                                         *)

Verdicts == {"answered", "over", "garbled"}

Heard(state, kind) ==
  CASE state \in Verdicts \/ (state = "failing" /\ kind # "error") -> "garbled"
    [] kind = "chunk" -> "speaking"
    [] kind = "done" -> IF state = "speaking" THEN "answered" ELSE "garbled"
    [] kind = "error" -> "over"
    [] kind = "resume_failed" -> "failing"
    [] OTHER -> state

DeliverEvent ==
  /\ wire # <<>>
  /\ wire' = Tail(wire)
  /\ heard' = [heard EXCEPT ![Head(wire).job] = Heard(@, Head(wire).kind)]
  /\ UNCHANGED <<cycle, cmd, at, job, Child>>

\* inbound.message() ends: what is still in the channel is lost.
Reconnect ==
  /\ cycle < MaxCycles
  /\ cycle' = cycle + 1
  /\ wire' = <<>>
  /\ UNCHANGED <<heard, cmd, at, job, Child>>

-----------------------------------------------------------------------------
Task(j) ==
  \/ SendEvent(j) \/ SendAfterEnd(j)
  \/ ResetOrCancel(j) \/ TranscribeStart(j) \/ TranscribeWrite(j)
  \/ RefuseMessage(j) \/ StartMessage(j) \/ Spawn(j) \/ TakeLine(j) \/ Finish(j)

Reader(j, s) == Read(j, s) \/ ReaderEnds(j, s)

ExecutorNext ==
  \/ \E j \in Jobs :
       \/ Receive(j) \/ Task(j) \/ Exit(j)
       \/ \E line \in Lines : PrintLine(j, line)
       \/ \E s \in Sources : Reader(j, s) \/ LineFails(j, s)
  \/ DeliverEvent \/ Reconnect

ExecutorSpec == ExecutorInit /\ [][ExecutorNext]_executorVars

\* The tasks run, the stream carries what is queued, and a provider that is not
\* blocked on a pipe exits in the end (MaxLines keeps it from printing for ever).
\* Nothing is owed by LineFails: a reader before a full channel only waits.
ExecutorFairSpec ==
  /\ ExecutorSpec
  /\ WF_executorVars(DeliverEvent)
  /\ \A j \in Jobs :
       /\ WF_executorVars(Task(j)) /\ WF_executorVars(Exit(j))
       /\ \A s \in Sources : WF_executorVars(Reader(j, s))

-----------------------------------------------------------------------------
(* Properties.                                                             *)

\* The server's view: a job whose connection has ended is lost.
AnswerOf ==
  [j \in Jobs |-> CASE at[j] = 0 -> "none"
                    [] at[j] # 0 /\ heard[j] \in Verdicts -> heard[j]
                    [] OTHER -> IF at[j] = cycle THEN heard[j] ELSE "over"]

Answers == INSTANCE AgentAnswers WITH answer <- AnswerOf

\* Whatever a provider prints, on whichever pipe, and wherever a step of a task
\* fails or a connection ends, the server hears text before an answer, one
\* verdict, and nothing after it.
AnswerSpec == Answers!Spec

\* Every command but a reset comes to its verdict or loses its connection: no
\* channel or pipe that is full, and no provider that exits, leaves it waiting.
CommandsEnd ==
  \A j \in Jobs :
    at[j] = cycle /\ cmd[j].kind # "reset" ~> AnswerOf[j] \in {"answered", "over"}

=============================================================================
