# julia-shell: a formal model

julia-shell is a personal dashboard: an Astro/Node server with widgets, a
React client, and a Rust agent that runs on the user's own machine and does the
work a browser cannot (a terminal assistant, transcription of local files). Agents
sign in through the *passport* domain, keep one bidirectional gRPC call open to
the server, and receive the widgets' commands on it.

This directory holds TLA+ modules translated from the sources, TLC configurations
that check them on small instances, and TLAPS proofs of the results that
should hold for every instance. `PROJECT.json` maps every definition to the lines
it models, lists the runs with what each shows, a mutant of the code for every
property, the hazards the properties are aimed at, and the theorems.

    tlc -workers 2 -config PassportRuntime.cfg MCPassportRuntime
    tlapm PassportRuntime_proofs.tla        # and the other *_proofs modules

## 1. Inventory

Paths are below `src/apps/server/src` unless they start with `agent/`
(`src/apps/agent/src`).

| component | state it keeps | operations | what is hard | what makes it correct |
|---|---|---|---|---|
| Passport runtime, `domains/passport/server/runtime` | `connections` (Map agent -> connection), each stream's local `connection`, table `agent_sessions`, `lastUnauthorized` | 'data', 'end' and 'error' of a call, `dispatchWidgetCommand`, reads that reconcile stale entries | the 'data' handler suspends on the JWT secret; several calls of one agent; timeouts applied only by reads; failures between two writes | an answer "online" rests on a recent authorised envelope; ghosts leave; an expired token cannot come back |
| Passport tokens, `.../repository`, `service.ts`, `pages/api/passport/agent` | tables `enrollment_tokens`, `refresh_tokens`, `agents` | create/revoke a ticket, enroll, refresh, revoke | rotation under concurrent calls, lost answers, a failure after the old token was revoked | one live refresh token per family, an answered token is live |
| Agent commands, `agent/main.rs` | one task per command, two reader tasks and a provider process per message, the channels between them | a message, reset, transcribe start, cancel; lines, exit code | full pipes and channels, readers that give up, a connection that ends under a task | text before an answer, one verdict, every command ends |
| Agent cycle, `agent/main.rs`, `auth.rs`, `storage.rs` | `session.json`, tokens in memory | `run_cycle`: read, refresh or enroll, write, stream, sleep 5 s | crashes between rotation and write, torn writes, calls of a dead process | the agent gets back to streaming; the stored token is usable |
| Access JWT and cookies, `config/jwt.ts`, `middleware.ts`, request context | none (signed tokens) | issue, verify, resolve the context | expiry during a call | an expired token opens nothing |
| Module bus, `shared/lib/bus` | listeners per topic | subscribe, off, publish | a subscriber that throws, or unsubscribes during a publish | a subscriber hears what is published while it listens |
| Terminal agent, `widgets/terminal-agent/server` | dialog rows, dialog refs, one SSE stream per message with an idle timer | message, dialog/new, dialog/select, settings | several streams over one row, late events, aborts, timers | an open stream is served; a closed one is silent; told once |
| Transcription jobs, `widgets/transcribe/server` | jobs, transcripts, outbox | start, progress, completed, failed, cancel | the agent runs ahead; broken calls; failing writes | what was told is stored; verdicts are final |
| Recent folders, `widgets/transcribe/server/repository.folders.ts` | rows with a stamp | touch, list, trim | several uses in one millisecond, restart | a bounded stack with the last use on top |
| LLM model catalog, `domains/llm` | catalog rows with a TTL | list, refresh, with retries | overlapping refreshes, failures after the row was read | an answer is no older than the row its request read; every request is answered |
| Weather widget, `widgets/weather` | one cache row with a TTL | forecast, refresh | the same, without retries | the same; a stored forecast is better than an error |
| Widget registry, `core/registry` | one cached discovery promise | get, invalidate | nothing: discovery runs in one callback | ready widgets have valid manifests |
| Shell service, `core/services`, `core/db` | rows of `module_state`, `widget_layout`, layout settings, per agent | list (which enables and disables modules by readiness), save, toggle | listings write; two saves | a user's choice sticks; no module is lost from a layout |
| Secrets and start-up, `core/secrets`, `middleware.ts` | cache of values and misses, one shared login, two start promises | get, preload, validate, bind the port | lookups next to the loading, failures cached for good | a production server serves only with its secrets |
| Shell client and passport slice, `app/shell`, `domains/passport/client` | one zustand store per tab: status, flags, layout, draft, modules | poll, retry, connect, load, edit, drag, save, toggle | every answer may be late, lost or overtaken | the badge ends at the right status, flags and drafts do not stay behind |
| Terminal-agent widget, `widgets/terminal-agent/ui` | settings, dialog state, messages in localStorage, one stream | send, retry, new dialog, select, save settings, change provider | answers in any order, late answers of a stream, one key per dialog | what is shown is what the server resumes; what was written is kept |
| Transcribe widget, `widgets/transcribe/ui` | folder, selection, flags, the text and the typewriter's queue | load, toggle, transcribe, read, save, silent reload | one `loading` flag for all operations, a check that raises none | flags are lowered, the whole text is shown, the selection is listed |
| Wire protocol, libraries, scripts, channel stubs | none | - | - | - |

How they interact: an agent **calls** enroll/refresh over HTTP, then opens a
gRPC call that carries envelopes both ways. The runtime **publishes** widget
envelopes on the module bus under a topic per agent and message (or job); the
widgets' message streams **subscribe**, and **dispatch** commands through
`dispatchWidgetCommand`. HTTP status pages **read** the runtime, which is when stale
connections are reconciled. Node runs one callback at a time, and the SQLite driver
is synchronous: the interleavings are those of callbacks between awaits, of
several calls and tabs, of the agent with the server, and of failures.

## 2. The modules

| module | models | abstract specification | runs | proofs |
|---|---|---|---|---|
| `PassportRuntime` | streams, Map, session rows, reads, dispatch | `AgentPresence` | `runtime` | `PassportRuntime_proofs` |
| `PassportTokens` | token tables and their HTTP handlers | `TokenFamilies` | `tokens` | `PassportTokens_proofs` |
| `AgentSession`, extends `PassportTokens` | `run_cycle`, over the server's token tables | | `agent`, `agent_restart` | `Agent_proofs` |
| `AgentExecutor` | the tasks of the agent's commands, provider processes, channels | `AgentAnswers` | `executor` | `Agent_proofs` |
| `TerminalAgentStream` | message streams, dialog row and refs, the bus topic of a message | | `terminal` | `TerminalAgentStream_proofs` |
| `TerminalAgentClient` | the terminal-agent widget of one tab, over the server's rows | | `terminal_client` | `WidgetClients_proofs` |
| `TranscribeJobs` | jobs, outbox, streams, the agent's script of events | | `jobs` | `TranscribeServer_proofs` |
| `TranscribeClient` | the transcribe widget of one tab | | `transcribe_client` | `WidgetClients_proofs` |
| `RecentFolders` | recent folders | `FolderStack` | `folders` | `TranscribeServer_proofs` |
| `Secrets`, extended by `RemoteCaches` | secrets and start-up; the model catalog and the forecast behind them | | `caches` | `RemoteCaches_proofs` |
| `Shell` | one tab's store, the status and shell routes, the rows of core.db | | `shell` | `Shell_proofs` |

`MC*` modules give the constants that a `.cfg` cannot write down (functions, symmetry)
and hold no definition of the code; the other modules are checked directly. A
proof module extends the one or two modules it is about; where it extends two, their names do
not meet, and each theorem names the specification it is about.

### PassportRuntime

One action is one run of a callback up to its await. The 'data' handler is therefore
split: `Data` captures the stream's `connection` in `pending` and suspends in
`resolveAuthorizedEnvelope`; the `Resume*` actions are what happens when the secret
is there, in any order with the stream's other handlers and its 'end' and
'error'. `ResumeUnauthorized`, `ResumeFirst` and `ResumeKnown` are the three ways
through the handler; `ResumeNoSecret`, `ResumeUpsertFails` and
`ResumePublishFails` are its `catch` after each step that may throw. `StreamEnd`
and `StreamError` are the listeners, `StreamLost` the disappearance no listener
hears. `Poll`, `PollFails` and `Dispatch` are the reads. An
`AgentConnection` is an object with an identity (`Ref`), since the code compares
and keeps references: the same object can be held by `local`, by a suspended
handler and by the Map. `Collected` resets what nobody refers to, so
that identities can be used again and the state stays finite.

Time is a connection's age in ticks, capped just above `Timeout`; `heard` is a
history variable, the ticks since the server authorised an envelope of the
agent, and `answer` the agents a read of this step called online.

`AgentPresence` promises that an agent is online only after being heard within the
timeout, and goes offline by a disconnect, a timeout or a failure.

Abstracted: an envelope without a token is one that is rejected; hostname,
status texts and the registry's cache are left out; `lastUnauthorized` is a flag,
though the pages show it only when no agent id is asked for; a database failure
inside the 'end' and 'error' listeners is not an action of its own; `startOnce` is
`Bind` in `Secrets`; the second read of the connect page is left out. The middleware
starts the gRPC server beside the secrets preload (`middleware.ts:5-13`), so a first
envelope may well find the secret missing: that is a slow or failing Resume.

### PassportTokens and AgentSession

`PassportTokens` has the tables and one call slot per HTTP request: `Send`,
`Handle` (the whole handler: the database is synchronous, so a handler's
transactions up to its await are atomic), and `Deliver` or `Lose` of the answer. The
handlers that fail half way (`service.ts:39,56`: the JWT secret cannot be
resolved after a use was consumed or a token revoked) are outcomes of `Handle`.
`TokenFamilies` is the promise: a family, one per enrollment, has at most one live
token; a rotation replaces it, and nothing brings a family back.

`AgentSession` extends `PassportTokens` with the agent's `run_cycle`: it is one of the clients those
tables allow for (`SessionIsAClient`). `phase` is the place in
the code, `disk` what `session.json` says, `mem` the token in memory. A crash may
happen anywhere and leaves a call at the server, which is handled next to the
calls of the next process; a crash or failure in the write leaves the file old, new
or unreadable. Not in the model: the agent never calls the revoke endpoint; the
enrollment token is taken to be configured; a `session.json` of another agent id.
`Tokens` must hold more rows than `MaxUses`, or the model would run out of unused
rows and stop the server where the code does not.

### TerminalAgentStream

A stream is one POST of a message: `phase` and the handler's locals, the
subscription and the idle timer. The events of the agent for a message are FIFO
(one call carries them, the secret is cached by then). The idle timer closes a
stream without `off()`: its subscription remains, so `late` events are handled,
write the row and arm the timer again, so that an answer stored late becomes an error
20 s afterwards; this is modelled as it is in the code. A write that fails makes the handler throw out of
the bus. Several streams share one dialog row and its refs with dialog/new,
dialog/select and a change of provider.

A dispatch may be refused (`StartRejected`), and the write of that refusal may fail (`StartFails`): `start` throws
out of the stream's constructor, the request has no response, and the timer that was
armed already corrects the row 20 s later; such a request ends as "failed", which the
properties about what a client is told leave out. A first write that fails, before the
stream is made, changes nothing. `Select` takes the refs the widget offers, which are never
taken off the list; the server itself checks none. Left out: titles, the arguments
of the two command line tools, keys and models. The select page's
"resuming" status belongs to no stream.

### TranscribeJobs

A job's agent works through a script of events, decided at the start; the
events are FIFO and the agent may be ahead of the server by any number of them.
The handlers write the job, the transcript and the outbox in the code's order, and
any one write may fail. There is no timer in this code; a broken call leaves
the stream open. `TranscribeCancel` is never sent by the server, and
`runTranscribeStream`, the older local runner, is called by nothing: neither is
modelled.

### RecentFolders

The rows of recent folders, with `nextTimestamp` (`core/db/transcribe-helpers.ts`),
which adds a count to the clock to keep stamps distinct, and restarts the count
with the process. `FolderStack` is the abstract list: a use moves a folder to the
front, and in a full list a new one takes the place of the last.

After a restart the stored stamps may be ahead of the clock, by the milliseconds
the former process had counted: a folder just used then sinks below older ones or is cut by its own
trim. The properties about the top of the list are therefore those of the first
process (`StackUntilRestart`, where `Listed` is any order SQL may return), and only `ListIsBounded` spans restarts.

### AgentExecutor

A command is a task: `job[j].pc` says where it is, `job[j].todo` the events it is about to
send, one `await` each. `Send` puts one into the bounded channel of the connection the
command came by; after that connection has ended, `SendAfterEnd` loses it, or fails the
task (the receiver of the channel is dropped a little after the stream ends). `Reconnect` never
moves a task to the new connection, as in the code, where the task owns a clone of the
sender. `Spawn`, `TakeLine` and `Finish` are `execute_terminal_agent_message`; `Read`,
`ReaderEnds` (the output is over, or the task has dropped the channel) and `LineFails` (a line that is no
UTF-8) are `read_lines` for the two pipes; `PrintLine` and `Exit` are the provider, which the
operating system blocks on a pipe that is full and not on one whose reader has gone. What a
line says (JSON or not, an assistant text, a tool) decides the events it turns into. The other
commands are short tasks over the same channel.

`AgentAnswers` is what the server may count on: text before an answer, one verdict,
nothing after it; an answer may be lost with its connection. Left out: the
arguments of the provider, quoting, and the text itself.

### TerminalAgentClient

The widget of one tab over the server's settings, dialog rows and refs. `requests` are
fetches, each answered (`Serve`) and applied (`Arrive`) in its own time; `Send`, `Open`,
`AssistantChunk`, `Take*` and the ends are `sendMessage` and its stream, with the server's side
reduced to what the client can tell (`TerminalAgentStream` has the rest: there the rows are
written, here they are compared with what the tab shows).

The continuation of an await only queues its updates; `Render` is the React commit that applies
them, with the two effects of `useTerminalAgentStorage`, and what the effects set waits for the next
`Render`. The messages of a dialog are kept under its provider and ref, and a dialog that gets its
ref takes the draft's messages along. When the key changes, the first commit reads the new key's
entry; if it carries new messages (`[]` after a selection or a new dialog), it writes those over the
entry, and what it has read comes back with the second commit. Clicks are handled with a commit of
their own. A commit and its effects are one step: no other callback of the tab is let in between them.

`WrittenIsKept` is an action property about every dialog, on display or stored. It has to make
one exception besides a dialog that is emptied: between the two commits the stored messages
are in no entry but only in a queued update, and a second answer, a done event, a change of the
provider or a reload in that moment loses them (`Overtaken`). This is what the code does, and
the property says exactly when: nothing else, and no dialog but the one on display, loses
what its user wrote. The draft's entry is never removed, so a new dialog shows the
messages of the last draft again (`Visited` is a browser with such an entry).

`OpenDialogs` fetches the modal's list, which may be of another provider or of a while ago when
a ref is picked from it. `certain` is a history variable: `ShownIsResumed` is claimed for behaviours
in which operations did not overlap and none failed. Nothing keeps operations apart but `sending`, and when
two overlap the tab may show one dialog while the next message resumes another; the
history says exactly when. A click is taken to see the `sending` of the moment. Left out: model
lists, texts and status lines.

### TranscribeClient

The widget of one tab. An operation occupies a slot from its click to its last
continuation; `Starts`, `Moves` and `Ends` are its awaits. `loading` is one flag for all
operations, `transcribing`, `locked` and `visible` belong to the result view, and the typewriter
(`TypesNext`, `TypingCompletes`) types one batch at a time. The check before a transcription raises
no flag, so two streams can run at once: they type into one result, and the properties
are about what remains when both are over. `owed` is a history variable: the text the
operation that ended last has promised to show.

What files hold is left out, and with it a hazard of "Save": the text on the screen is written to
the transcript of the file that is selected *now*. Left out too: settings, speaker aliases, layout.

### Secrets and RemoteCaches

`Secrets` has no specification of its own: its steps are those of a server's start, and
`RemoteCaches` puts the requests behind them. A lookup goes to the cache, to the vault
behind one shared login, to the environment, and what comes out is cached, misses
included. `LoadNext` and `Settle` are `preloadServerSecretsOnce`; `Bind` is `startOnce` of the
Passport runtime, which the middleware runs beside it and whose rejection is kept;
`AgentAsks` are the lookups of agents that connect before the loading is over.

A request to a copy goes through `Ask`, `Deliver` and `Store`, with the failures of each step and,
for the catalog, `FailForNow` and `Wake`. It falls back on the row it read *before* it asked. Data are
versions: a provider moves on, a slow answer brings an older version than a fast one. The
model catalog and the forecast have the same shape and no common state, so that one of them is chosen in
`Init` and watched (`kind`): checking both in one state would only multiply it. An older
answer may replace a newer row, which the code accepts; `AnswerIsNoOlder` is about what a request is told:
never less than the row it had read, and no error if it had read one, unless the catalog cannot store what
it was given. `StartsWithSecrets` is about HTTP requests: the gRPC port may be bound, and agents served,
while the secrets are still loading.

### Shell

One browser tab and the routes it calls. A store action up to its fetch is one
action (`Poll`, `Connect`, `SaveLayout`, ...), a route is one (`Serve*`), and the
continuation after an answer up to the next fetch is one (`*Answered`, `Fail`). A
route is atomic although it has awaits: the secret is cached and the server modules
are loaded after their first use, so what it awaits resolves without
another request in between; the first requests of a process are left out, as is
the body of a request that is still arriving. `calls` holds the requests in flight,
each with the cookie it was sent with and, for a poll, the snapshot the slice took
before it; `Idle` is a free slot.

The store's `layout` is the order of the widgets (sizes are left out), `modules` the
ready and the enabled widgets of the last answer. `moduleState` tells a module the
listing has disabled ("auto") from one its user has ("user"), as the prefix of
`disabledReason` does. `pending` is `passportLoading` or `passportBusy`: the buttons
look at both. A drag is one action since any answer in between resets
`activeId`, which ends the drag without an effect. The three ways to save settings are one
action: they differ in guards the model does not need (`isSaving` guards one of
them) and in values it does not have.

A widget's own request (`/api/widget/*`) lists, and so writes, the modules before it gets to its widget:
`ServeWidget`, sent and handled at once with the tab's cookie.

The model also shows what is *not* promised. Every answer replaces the draft, so an edit in
progress can be lost to a reload, and a theme toggle in edit mode stores the unsaved draft. The
modules on the screen may be those of an older status (see section 3), and of two saves
the last one handled wins.

Left out: the list of agents and who of them `isCurrent` (any agent may be asked to
connect), a second tab, the settings overlay, a client timeout whose request is
still handled later. No widget of the repository has an `init()` that is ever not ready.

## 3. Runs, bounds and what they show

The exact definitions and sentences are in `PROJECT.json`; the bounds are:

- **runtime**: one agent and two calls with their own session ids. Two
  calls are what the races between a call and its successor need; a third adds
  another successor. One suspended handler each, two connection objects per call (Map
  and local, or captured, may differ), a timeout of one tick, and one throwing step or server
  crash. Two suspended handlers of one call, three calls and shared sessions are left to the
  theorems, which cover the safety properties of this run for every instance.
- **tokens**: two agents, one ticket with two uses, three tokens, two calls at once,
  two faults: two enrollments of one ticket, a rotation, and every pair of
  simultaneous calls, for the right and for the wrong agent.
- **agent, agent_restart**: one agent, five tokens, a ticket with up to three uses, two
  calls (one of them of a process that has crashed), one crash or failing step of the process and
  one lost call, failing handler or expiry. Three uses exceed the two failures, so
  that the hypothesis of `Recovers` can hold.
- **terminal**: three messages over one dialog row and two refs, one
  fault; the third message is the one whose ref depends on how the first two ended. The fault is a
  write of a bus handler or of a refusal, or a crash.
- **executor**: a message (three forms of it) and one command of any other kind, two printed
  lines of five forms, channels of one event and of one line. Capacities of one make
  full channels the normal case, the real ones are 128 and 256; two lines suffice for
  both pipes, or one pipe twice, to wait for one channel. One reconnect.
- **terminal_client**: two providers, two refs, two requests and one stream at a time, two
  messages and two operations of the user, in a new browser or in one where a dialog of one message has
  started (`Visited`). From that state two operations are what a selection needs, and what it takes for two
  answers, or an answer and a reload, to meet between two renders.
- **jobs**: two jobs, two faults (a write that fails in the handling of another failure
  needs two).
- **folders**: five folders for a list of three, six uses on a clock
  that may stand still, one restart.
- **shell**: the three widgets of the repository, two of which need an agent, one
  agent, two requests in flight at once, and three clicks, arrivals, departures, expiries or
  failures together. Polls are not bounded. Two requests are what it takes for one
  answer to overtake another; three events let, for instance, an agent go between a user's
  disable and a listing and come back after it.

- **transcribe_client**: one folder with two recordings and one without, three operations at once, five
  in all, streams of two tokens. Two streams and a third operation that ends between them are
  the smallest case in which a flag or a text of one could stay behind the other. Slots and files are
  interchangeable, and the run has no temporal property.
- **caches**: two startup secrets (the second required and only in the vault), two agents' lookups, two
  requests, two versions, the code's two retries. Two requests with two versions are the
  smallest case of an older answer that overtakes a newer one.

`CHECK_DEADLOCK FALSE` is set everywhere but in `shell` and `caches`, for one reason: calls, streams, jobs,
commands, operations and uses are finite sets in an instance, and the system rests when they are used up.
A process that waits for ever is found by the liveness properties instead.

Fairness, where a run is about liveness:
- runtime: an agent sends a heartbeat every 15 s as long as its call is up
  (`agent/main.rs`), an awaited secret resolves or throws, the clock advances, a browser keeps
  polling the status, and an agent leaves a call the server has ended. Nothing is
  assumed of ends, errors, losses, expiries or crashes.
- agent: the process goes on with its cycle, and the server handles each call. The HTTP client
  has no timeout, so an answer that never comes would hold the cycle for ever:
  this is a hazard the model does not cover. Nothing is assumed of crashes or of the administrator.
- terminal: a pending timer fires (each message has finitely many events, so it is not reset for ever). The agent and the clients owe nothing.
- jobs: the agent works through its script and the server handles what arrives.
- shell: `setInterval` fires, and each request that is not lost is handled and answered. A request
  is lost as often as the events allow; the user owes nothing.
- executor: tokio runs the tasks and readers, the stream carries what is queued while its
  connection is up, and a provider that is not blocked on a pipe exits in the end. A reader is owed
  its next line or its end, never a failing line: before a full channel it waits for the task. The code has
  no timeout for a provider, so one that runs for ever keeps its command open, and the property says
  nothing of it. A reset has no verdict.
- terminal_client: the idle timer of the server ends a stream that nothing else ends (see `terminal`), the request
  to open one is answered or fails, and the tab reads what arrives. An open stream is not owed a broken
  connection, and nothing is assumed of renders or of the other requests.
- caches: the vault's login and lookups, the port and the providers answer or fail (the SDK and
  `fetch` reject; the catalog's and the forecast's requests have timeouts of their own), and the server takes its steps.

### Where code and documents disagree

- `RestartReconnects` (run `agent_restart`): the agent plan says a restarted agent reconnects with its stored
  refresh token. A crash between the server's rotation and the agent's write
  leaves it with a revoked one; without uses left on its ticket it is locked out.

Met while modelling, visible in the models and not kept as runs of their own:

- The README says live presence is the active gRPC connection. The end of an agent's
  *earlier* call deletes the entry of its newer call, and the agent is offline until its next
  heartbeat (`SelfHealing` shows that it comes back).
- The tests expect a handled `assistant_done` to leave the dialog done. After the idle timer
  closed the stream, a late answer is stored, the timer is armed again, and 20 s later the row
  becomes an error (`RunningSettles` shows that it does not stay running).
- The README says the shell reloads its modules on every status transition. Polls overlap, and each
  compares its answer with the status from before its own fetch: a late, older answer changes the
  badge back without a reload (`StatusSettles` shows that the badge itself ends right).

## 4. Proofs

The proofs hold for every value of the constants that satisfies the named
assumptions: `RuntimeAssumption` (calls present one agent's token and carry at least one
session id; `Timeout` and `MaxFaults` are numbers; null is no object), `TokensAssumption`
(a ticket has at least one use; null, tickets, tokens and families are told apart), their
counterparts in the other modules, and for the caches that the required secrets are among
those loaded at the start and an error is no version.

- **PassportRuntime_proofs.** `TypeCorrect` comes first, since every other step needs to know
  that an object belongs to the stream that holds it. `AnswersAreRecent` is not
  inductive: `Poll` looks at the age of the listed connection, so what
  has to be carried is that *no object anyone refers to* claims to have been seen
  more recently than its agent was heard: a suspended handler can put any of
  them back into the Map (`NoFresherThanHeard` is its part for the Map). `TimedOutIsClosed` needs
  that the session of an object is one of its stream's. `ExpiredStaysOut` is an
  action property, by cases on Next. `ImplementsPresence` maps every
  action to a step of `AgentPresence` or a stutter; the recency invariant is what justifies its guards.
- **PassportTokens_proofs.** `OneLiveToken` needs that a live row's family was paid for
  by a use that is spent (`LiveIsPaid`): that is why the family of the next enrollment is a new
  one. `AnswerIsLive` needs that nobody else has the token of an answer under way, neither
  another answer nor a request (`AnswerIsPrivate`), and both that a request carries an agent and a secret
  (`SentIsMeant`). The proof goes by what a step does to the tables (one row issued, one revoked,
  one of each) and what it does to the calls. `ImplementsFamilies` then maps an enrollment
  to `Spend`, whether or not it issues a token, a revocation to `Kill`, which takes
  `OneLiveToken` (the row was the last of its family), and a rotation to a stutter.
- **TerminalAgentStream_proofs.** The invariant is proved stream by stream: an
  action of one stream leaves the locals of the others alone, and
  `OneStream` states the facts of a single stream. `RefListed`
  has its own invariant: the ref in the row, and the ref each running request
  captured, are listed as long as no write has failed.
- **Shell_proofs.** `FlagsOwed` is inductive once `calls` is known to be a function on the
  slots (`CallsShaped`): an action that frees a slot clears the flag of
  its kind, and one that sets a flag fills a slot. `NoDraft` is inductive as it stands.
  `UserChoice` needs the type of `moduleState` (`StatesShaped`): a listing only turns "auto" into
  "enabled", and "user" is left to an accepted toggle.

- **TranscribeServer_proofs.** *TranscribeJobs*: a verdict is the last event a job ever sends (`VerdictIsLast`), so when
  the handler has taken it the wire is empty, and a job that does not exist yet or has its verdict has nothing under way
  (`Quiet`). From these two, `ToldIsStored`, `CompletedIsSaved` and the action property `VerdictIsFinal` are
  inductive, for any number of jobs, faults and crashes. *RecentFolders*: `ListBounded` is the size of the table
  after a trim. `ImplementsStack` maps the rows to `FolderStack`. That finitely many rows can be
  sorted at all would take an induction over their number; instead the *existence of a list* is carried along the behaviour
  (`StackInv`: each use yields the next list from the last one), and the list is unique because the
  place of a row is the number of newer rows (`PlaceIsRank`). What makes a use go to the top is that until the first
  restart every stamp is below the next one (`Behind`).
- **Agent_proofs.** *AgentSession*: a step of the process is a step of a client of `PassportTokens`
  (`SessionIsAClient`), so its invariant holds for the composition. On top of it, `Places` says where tokens may be:
  the call the process awaits carries what it holds; a token in memory is live and has never been sent, so no
  call of a dead process can spend it; and the file says the same once it is written. This gives
  `StoredTokenLives`. `UsesSpentOnFaults` counts: the uses spent, plus the requests that may
  still spend one, plus one if the process is not on its way to a token (`Good`), never exceed the
  first enrollment and the mishaps so far (`Budget`). A call left by a crash is
  such a request, and its crash the mishap that pays for it. *AgentExecutor*: `AnswersImplemented` maps the
  events heard to `AgentAnswers`. Its invariant (`ExecutorInv`) says, job by job, that what was heard, what is on the wire of
  the present connection and what the task has still to send fit together: a verdict is the last of them, an answer has text
  before it somewhere along that line (`Spoken`), and a failed resume is followed by the error only.
- **WidgetClients_proofs.** *TranscribeClient*: `FlagsAreOwed` is inductive given the types of the slots: an operation that
  leaves a slot lowers the flags it held, or another slot still holds them. `ShownIsPromised` also
  needs nothing else, because every operation that ends either empties the queue with the text or withdraws the
  promise; `SelectionIsListed` because a reload filters the selection it captured by what it found.
  *TerminalAgentClient*: `WidgetTypesCorrect` says with the types that what is on display is stored under its key unless a render
  is due (`OnDisplay`), and that the events of a message end with its last one (`EventsFit`). From the first, `WrittenStays`
  follows, by what a step does to the screen: it renders (`Rendering`), queues updates (`Queues`), or loads the page anew. `ShownResumed` is about behaviours in which operations did not overlap and none failed (`certain`): as long as that is so,
  at most one operation is under way (`Alone`), what it has been told is about the dialog on display and still the row of the server
  (`OfDisplay`, `OfStream`), and between operations the two agree, unless the event that will
  make them agree is on its way (`Settled`).
- **RemoteCaches_proofs.** `StartsSafely` is about the step in which the middleware lets the first request pass, once the port is
  bound and the verdict is there, in either order. Lookups may turn a value into a miss: what has to be carried is that
  before the port is bound only the loading looks anything up, so that a verdict it reached meanwhile still holds
  (`Undisturbed`); what agents that connect earlier do to the cache is seen by the check itself. `NoOlderAnswer` rests on `Ordered`: the
  stored row and everything delivered is at most the provider's version, and what is delivered to
  a request is at least the row it held.

Each safety invariant, action property and refinement that a passing run checks is also a theorem. Only model-checked: all
liveness, since fairness and ENABLED are beyond the prover (`GoneIsDelisted`, `SelfHealing`, `StreamsAgain`, `Recovers`,
`RunningSettles`, `WaitIsOver`, `StatusSettles`, `CommandsEnd`, `SendingEnds`, `RequestsEnd`). Not proved either: the types of
`Shell`, whose layouts go through `SelectSeq`, which is defined by recursion over the sequence; the proofs about `Shell`
use the shape of its calls and module states only.

Assumptions on constants, beyond bounds being numbers and null being no member of a set: the agent of `AgentSession` and its
ticket are among those of the tables, and its call slots are finitely many; the widget has a provider, and null is
told apart from refs, keys and stored messages; the folders are finitely many and the limit is at least one.

## 5. Not modelled, and why

Stateless code (validation, policy, formatting, wire definitions, environment, channel
stubs), generated and build tooling, the local transcription runner and
`resolve-secret-entry.ts` (called by nothing), single unconditional writes (speaker
aliases, transcript edits, provider settings), and the widget registry, whose discovery runs in
one callback. Two hazards have no property: the agent's HTTP client has no timeout, so an answer that never comes
holds its cycle for ever; and "Save" in the transcribe widget goes by the selection of the moment.

## 6. Plan

Done, in this order, the most important behaviour first: PassportRuntime with
AgentPresence and proofs; PassportTokens with TokenFamilies; AgentSession composed with it;
TerminalAgentStream with proofs; TranscribeJobs; RecentFolders with FolderStack
and proofs; Shell with proofs; AgentExecutor with AgentAnswers; the two widgets' clients;
Secrets and RemoteCaches with proofs; the proofs of PassportTokens with the refinement of TokenFamilies, of
TranscribeClient and of TranscribeJobs, of AgentSession over PassportTokens, of AgentExecutor with the
refinement of AgentAnswers, of TerminalAgentClient, and the refinement of FolderStack.

What would come next:
1. `ModuleBus`: several subscribers of a topic, the wildcard, throwing and unsubscribing
   handlers, as an abstract delivery promise that TerminalAgentStream and TranscribeJobs can be read against.
2. The contents of files in TranscribeClient, for the target of "Save"; a second tab in Shell.
3. `SseParser` (a pure algorithm against a reference definition).
4. A composition of PassportRuntime with AgentSession: expiry of the access token
   during a call, against the plan's "refresh before expiry".
5. Proofs: that no widget is lost from a layout of `Shell`, with a drag stated without `SelectSeq`.
