------------------------- MODULE TerminalAgentClient -------------------------
(***************************************************************************)
(* The terminal-agent widget in one browser tab, against the dialog rows of *)
(* the server: settings, dialog state, "New dialog", "Dialogs", and one     *)
(* message stream at a time.  The messages of a dialog live in localStorage *)
(* only, under the provider and session ref on display, or under __current  *)
(* while the dialog has no ref.                                             *)
(*                                                                         *)
(* The continuation of an await is one action, and only queues its updates: *)
(* the tab renders them later (Render), others perhaps with them, and the   *)
(* effects of that commit queue updates of their own for the next render.   *)
(* What a click changes is rendered at once.  Answers of requests come in   *)
(* any order; nothing but `sending` keeps operations apart.                 *)
(***************************************************************************)
EXTENDS Naturals, Sequences

CONSTANTS
  Providers,   \* codex and gemini
  Refs,        \* provider session refs
  Fetches,     \* bound: requests under way at once
  MaxSends,    \* bound: messages sent, retries included
  MaxActs,     \* bound: operations of the user, messages included
  Nothing      \* no provider, ref '', an absent localStorage entry

MaybeRef == Refs \cup {Nothing}
Keys == Providers \X MaybeRef
Ids == 1 .. MaxSends

\* A bubble of the user, or an assistant's one: empty until its first text.
User(i) == <<i, "user">>
Empty(i) == <<i, "empty">>
Text(i) == <<i, "text">>
Bubbles == Ids \X {"user", "empty", "text"}

ASSUME WidgetAssumption ==
  /\ Providers # {}
  /\ Nothing \notin Providers \cup Refs
  /\ Nothing \notin Keys /\ \A bubbles \in SUBSET Bubbles : bubbles # Nothing
  /\ MaxSends \in Nat /\ MaxActs \in Nat

VARIABLES
  row,        \* server: provider_session_ref of each provider's dialog row
  listed,     \* server: llm_consumer_dialog_refs
  saved,      \* server: the active provider
  job,        \* server: the stream's subscription
  late,       \* server: subscriptions that outlived their stream (idle timeout)
  requests,   \* requests under way
  provider,   \* settings.activeProvider, Nothing before the settings are loaded
  known,      \* dialogState # null
  shown,      \* dialogState.providerSessionRef
  messages,   \* the bubbles on display
  touched,    \* setMessages was called since the last render
  storage,    \* localStorage
  key,        \* hydratedMessagesKeyRef (and previousMessagesKeyRef): what was
              \* rendered last
  dialogRefs, \* the refs of the dialogs' modal; none while it is closed
  stream,     \* sendMessage: where it is, its message and its assistant bubble
  events,     \* server-sent events on their way to it
  retry,      \* retryState.userMessageId
  sends, acts,
  certain     \* history: no two operations overlapped, and none was lost

server == <<row, listed, saved, job, late>>
queued == <<provider, known, shown, messages, touched>>
screen == <<queued, storage, key>>
widgetVars == <<server, requests, screen, dialogRefs, stream, events, retry, sends, acts,
                certain>>

Free == [at |-> "free"]
NoStream == [at |-> "idle"]
NoJob == [at |-> "none"]

\* A browser that is new to the widget, or one in which a dialog started that is
\* still, or no more, the provider's: the draft it was keeps a copy of its messages.
New ==
  /\ row = [p \in Providers |-> Nothing] /\ listed = [p \in Providers |-> {}]
  /\ storage = [k \in Keys |-> Nothing]
  /\ sends = 0
Visited(p, ref) ==
  /\ row \in {[q \in Providers |-> IF q = p THEN r ELSE Nothing] : r \in {ref, Nothing}}
  /\ listed = [q \in Providers |-> IF q = p THEN Refs ELSE {}]
  /\ storage = [k \in Keys |-> IF k \in {<<p, ref>>, <<p, Nothing>>} THEN {User(1), Text(1)}
                                                                    ELSE Nothing]
  /\ sends = 1

WidgetInit ==
  /\ saved = CHOOSE p \in Providers : TRUE
  /\ New \/ \E ref \in Refs : MaxSends > 0 /\ Visited(saved, ref)
  /\ job = NoJob /\ late = {}
  /\ requests = [s \in Fetches |-> Free]
  /\ provider = Nothing /\ known = FALSE /\ shown = Nothing
  /\ messages = {} /\ touched = FALSE /\ key = Nothing /\ dialogRefs = {}
  /\ stream = NoStream /\ events = <<>>
  /\ retry = Nothing
  /\ acts = 0
  /\ certain = TRUE

-----------------------------------------------------------------------------
(* useTerminalAgentStorage: a render, and the effects of its commit.        *)

\* A dialog that got its ref takes the draft's messages along, unless there are
\* stored ones; any other dialog gets what is stored for it.
TakesAlong(k, msgs) ==
  /\ storage[k] = Nothing /\ msgs # {}
  /\ key # Nothing /\ key[2] = Nothing /\ k[2] # Nothing
HydratedOver(k, msgs) == IF TakesAlong(k, msgs) THEN msgs ELSE {}      \* mutant
Hydrated(k, msgs) ==
  IF TakesAlong(k, msgs) THEN msgs
  ELSE IF storage[k] = Nothing THEN {} ELSE storage[k]

\* The commit has provider p, dialog state <<kn, ref>> and messages msgs, which are
\* persisted if they were set.  A new key is hydrated: localStorage is read first,
\* but what was read is set only with the next render, while the messages of this
\* one are written under the new key.
Renders(p, kn, ref, msgs, set) ==
  LET k == <<p, ref>>
  IN  /\ provider' = p /\ known' = kn /\ shown' = ref
      /\ key' = k
      /\ messages' = IF k = key THEN msgs ELSE Hydrated(k, msgs)
      /\ touched' = (k # key /\ ~TakesAlong(k, msgs))
      /\ storage' = IF set \/ (k # key /\ TakesAlong(k, msgs))
                      THEN [storage EXCEPT ![k] = msgs] ELSE storage

\* The effects run once the settings are there.
Due == provider # Nothing /\ (touched \/ key # <<provider, shown>>)

Render ==
  /\ Due
  /\ Renders(provider, known, shown, messages, touched)
  /\ UNCHANGED <<server, requests, dialogRefs, stream, events, retry, sends, acts, certain>>

\* The updates of a continuation wait for a render.
Shows(ref) ==
  /\ known' = TRUE /\ shown' = ref
  /\ UNCHANGED <<provider, storage, key>>
Sets(msgs) == messages' = msgs /\ touched' = TRUE
Displays(msgs) ==
  Sets(msgs) /\ UNCHANGED <<provider, known, shown, storage, key>>

-----------------------------------------------------------------------------
(* Requests.                                                               *)

Quiet ==
  /\ \A s \in Fetches : requests[s].at = "free"
  /\ stream.at = "idle" /\ job.at = "none" /\ late = {}
  /\ ~Due

FreeSlots == {s \in Fetches : requests[s].at = "free"}

Sent(kind, p, ref) ==
  [at |-> "sent", kind |-> kind, provider |-> p, ref |-> ref, items |-> {}]

\* fetch: the request takes a slot of its own.
Fetch(kind, p, ref) ==
  /\ FreeSlots # {}
  /\ requests' = [requests EXCEPT ![CHOOSE s \in FreeSlots : TRUE] = Sent(kind, p, ref)]

\* What the server reads of its rows.
DialogState(p) == row[p]
Dialogs(p) == listed[p]

\* The handlers of a click are those of the last render, with its provider.
Rendered == key # Nothing
ActiveProvider == key[1]

\* A request the user makes: its answer will be trusted if nothing else is going on.
Asks(kind, ref) ==
  /\ Rendered
  /\ acts < MaxActs /\ acts' = acts + 1
  /\ Fetch(kind, ActiveProvider, ref)
  /\ certain' = Quiet
  /\ UNCHANGED <<server, screen, dialogRefs, stream, events, sends>>

\* Mount: the only request before the settings are there.
LoadSettings ==
  /\ provider = Nothing /\ FreeSlots = Fetches
  /\ Fetch("settings", Nothing, Nothing)
  /\ UNCHANGED <<server, screen, dialogRefs, stream, events, retry, sends, acts, certain>>

\* createNewDialog forgets the retry before its fetch, selectDialog after it.
NewDialog == Asks("new", Nothing) /\ retry' = Nothing

\* openDialogs: the modal opens with the answer.
OpenDialogs ==
  /\ Rendered
  /\ acts < MaxActs /\ acts' = acts + 1
  /\ Fetch("dialogs", ActiveProvider, Nothing)
  /\ certain' = (certain /\ Quiet)
  /\ UNCHANGED <<server, screen, dialogRefs, stream, events, retry, sends>>

\* One of the modal's refs, which may be of another provider, and of a while ago.
SelectDialog == \E ref \in dialogRefs : Asks("select", ref) /\ UNCHANGED retry

SaveSettings == Asks("save", Nothing) /\ UNCHANGED retry

\* The form's changes, before any save, are rendered at once; the effect of the new
\* settings loads the dialog state.
ChangesSettings(p) ==
  /\ Rendered
  /\ acts < MaxActs /\ acts' = acts + 1
  /\ Renders(p, known, shown, messages, touched)
  /\ certain' = Quiet
  /\ UNCHANGED <<server, dialogRefs, stream, events, retry, sends>>

\* onProviderChange loads it as well.
ChangeProvider(p) ==
  /\ p # provider /\ ChangesSettings(p)
  /\ \E s, t \in FreeSlots :
       s # t /\ requests' = [requests EXCEPT ![s] = Sent("state", p, Nothing),
                                             ![t] = Sent("state", p, Nothing)]

EditSettings == ChangesSettings(provider) /\ Fetch("state", provider, Nothing)

\* The handlers of the server, and the rows they write.
RowsAfterSave(p) == IF p = saved THEN row ELSE [q \in Providers |-> Nothing]

Activates(p) == saved' = p
Clears(p) == row' = [row EXCEPT ![p] = Nothing]
Resumes(p, ref) == row' = [row EXCEPT ![p] = ref]
Remembers(p, ref) == listed' = [listed EXCEPT ![p] = @ \cup ({ref} \ {Nothing})]

Answered(s, p, ref) ==
  requests' = [requests EXCEPT ![s].at = "answered", ![s].provider = p, ![s].ref = ref]

ServeSettings(s) ==
  /\ requests[s].kind = "settings"
  /\ Answered(s, saved, Nothing) /\ UNCHANGED <<row, saved>>

ServeState(s, p) ==
  /\ requests[s].kind = "state"
  /\ Answered(s, p, DialogState(p)) /\ UNCHANGED <<row, saved>>

ServeNew(s, p) ==
  /\ requests[s].kind = "new"
  /\ Clears(p) /\ Answered(s, p, Nothing) /\ UNCHANGED saved

ServeSelect(s, p, ref) ==
  /\ requests[s].kind = "select"
  /\ Resumes(p, ref) /\ Answered(s, p, ref) /\ UNCHANGED saved

ServeDialogs(s, p) ==
  /\ requests[s].kind = "dialogs"
  /\ requests' = [requests EXCEPT ![s].at = "answered", ![s].items = Dialogs(p)]
  /\ UNCHANGED <<row, saved>>

ServeSave(s, p) ==
  /\ requests[s].kind = "save"
  /\ row' = RowsAfterSave(p) /\ Activates(p) /\ Answered(s, p, Nothing)

Serve(s) ==
  /\ requests[s].at = "sent"
  /\ LET p == requests[s].provider
     IN  \/ ServeSettings(s) \/ ServeState(s, p) \/ ServeNew(s, p) \/ ServeSave(s, p)
         \/ ServeSelect(s, p, requests[s].ref) \/ ServeDialogs(s, p)
  /\ UNCHANGED <<listed, job, late, screen, dialogRefs, stream, events, retry, sends, acts,
                 certain>>

\* The continuations: an answer is applied whatever was done since it was asked for.
\* setSettings, and its effect:
ArriveSettings(s, q) ==
  /\ q.kind \in {"settings", "save"}
  /\ provider' = q.provider
  /\ requests' = [requests EXCEPT ![s] = Sent("state", q.provider, Nothing)]
  /\ UNCHANGED <<known, shown, messages, touched, storage, key, dialogRefs, retry>>

ArriveState(s, q) ==
  /\ q.kind = "state"
  /\ Shows(q.ref) /\ UNCHANGED <<messages, touched>>
  /\ requests' = [requests EXCEPT ![s] = Free]
  /\ UNCHANGED <<dialogRefs, retry>>

ArriveDialog(s, q) ==
  /\ q.kind \in {"new", "select"}
  /\ Shows(q.ref) /\ Sets({})
  /\ requests' = [requests EXCEPT ![s] = Free]
  /\ IF q.kind = "select" THEN retry' = Nothing /\ dialogRefs' = {}
                           ELSE UNCHANGED <<dialogRefs, retry>>

ArriveDialogs(s, q) ==
  /\ q.kind = "dialogs"
  /\ dialogRefs' = q.items
  /\ requests' = [requests EXCEPT ![s] = Free]
  /\ UNCHANGED <<screen, retry>>

Arrive(s) ==
  /\ requests[s].at = "answered"
  /\ LET q == requests[s]
     IN  ArriveSettings(s, q) \/ ArriveState(s, q) \/ ArriveDialog(s, q) \/ ArriveDialogs(s, q)
  /\ UNCHANGED <<server, stream, events, sends, acts, certain>>

\* The request fails on its way there or back: nothing catches it but the mount.
RequestFails(s) ==
  /\ requests[s].at # "free"
  /\ requests' = [requests EXCEPT ![s] = Free]
  /\ certain' = FALSE
  /\ UNCHANGED <<server, screen, dialogRefs, stream, events, retry, sends, acts>>

-----------------------------------------------------------------------------
(* sendMessage.                                                            *)

\* user is the message's bubble: a new one, or the one a retry sends again.
Submit(user) ==
  /\ Rendered /\ stream.at = "idle"
  /\ sends < MaxSends /\ sends' = sends + 1
  /\ acts < MaxActs /\ acts' = acts + 1
  /\ stream' = [at |-> "opening", user |-> user, bubble |-> sends', provider |-> ActiveProvider,
                got |-> FALSE]
  /\ Renders(provider, known, shown, messages \cup {User(user), Empty(sends')}, TRUE)
  /\ retry' = Nothing
  /\ certain' = (certain /\ Quiet)
  /\ UNCHANGED <<server, requests, dialogRefs, events>>

Send == Submit(sends + 1)

\* The retry button is on the bubble, and appends no second one.
Retry == retry # Nothing /\ User(retry) \in messages /\ Submit(retry)

\* POST message-stream reaches the server, and the agent takes the message.
Open ==
  /\ stream.at = "opening" /\ job.at = "none"
  /\ stream' = [stream EXCEPT !.at = "open"]
  /\ job' = [at |-> "running", provider |-> stream.provider, captured |-> row[stream.provider]]
  /\ UNCHANGED <<row, listed, saved, late, requests, screen, dialogRefs, events, retry, sends, acts,
                 certain>>

\* removePendingAssistant, setRetryState, and the finally.
WithoutBubble == messages \ {Empty(stream.bubble), Text(stream.bubble)}
Finally == stream' = NoStream

GivesUp ==
  /\ Displays(WithoutBubble)
  /\ retry' = stream.user
  /\ Finally

\* 503, a failing request, or a connection that breaks: the events that were
\* still to come are lost, and the server lets go of the message.
StreamFails ==
  /\ stream.at # "idle"
  /\ GivesUp
  /\ events' = <<>> /\ job' = NoJob
  /\ certain' = FALSE
  /\ UNCHANGED <<row, listed, saved, late, requests, dialogRefs, sends, acts>>

\* handleParsedStreamEvent.  A chunk that only echoes the message leaves the
\* bubble empty, but counts.
TakeChunk ==
  /\ events # <<>> /\ Head(events).kind \in {"text", "echo"}
  /\ events' = Tail(events)
  /\ stream' = [stream EXCEPT !.got = TRUE]
  /\ Displays(IF Head(events).kind = "text" /\ Empty(stream.bubble) \in messages
                THEN (messages \ {Empty(stream.bubble)}) \cup {Text(stream.bubble)}
                ELSE messages)
  /\ UNCHANGED <<server, requests, dialogRefs, retry, sends, acts, certain>>

ShownKept(ref) == shown                                             \* mutant
ShownAfterDone(ref) == IF ref = Nothing THEN shown ELSE ref

\* setDialogState((prev) => prev ? ... : prev): a state never loaded stays null.
TakeDone ==
  /\ events # <<>> /\ Head(events).kind = "done"
  /\ events' = Tail(events)
  /\ IF known THEN Shows(ShownAfterDone(Head(events).ref)) /\ UNCHANGED <<messages, touched>>
              ELSE UNCHANGED screen
  /\ certain' = (certain /\ known)
  /\ UNCHANGED <<server, requests, dialogRefs, stream, retry, sends, acts>>

TakeError ==
  /\ events # <<>> /\ Head(events).kind = "error"
  /\ events' = <<>>
  /\ GivesUp
  /\ UNCHANGED <<server, requests, dialogRefs, sends, acts, certain>>

\* reader.read() is done: without any chunk the message can be sent again.
TakeEnd ==
  /\ events # <<>> /\ Head(events).kind = "end"
  /\ events' = <<>>
  /\ IF stream.got THEN Finally /\ UNCHANGED <<screen, retry>> ELSE GivesUp
  /\ UNCHANGED <<server, requests, dialogRefs, sends, acts, certain>>

-----------------------------------------------------------------------------
(* The server's end of the stream: see TerminalAgentStream.                *)

Event(kind, ref) == [kind |-> kind, ref |-> ref]

Emits(new) == events' = events \o new

\* assistant_chunk; one of them is enough to tell.
AssistantChunk ==
  /\ job.at = "running" /\ stream.at = "open" /\ events = <<>> /\ ~stream.got
  /\ \E kind \in {"text", "echo"} : Emits(<<Event(kind, Nothing)>>)
  /\ UNCHANGED <<server, requests, screen, dialogRefs, stream, retry, sends, acts,
                 certain>>

StoresAnswer(j, ref) ==
  Resumes(j.provider, ref) /\ Remembers(j.provider, ref)

AssistantDone(reported) ==
  /\ job.at = "running" /\ stream.at = "open"
  /\ LET ref == IF reported = Nothing THEN job.captured ELSE reported
     IN  StoresAnswer(job, ref) /\ Emits(<<Event("done", ref), Event("end", Nothing)>>)
  /\ job' = NoJob
  /\ UNCHANGED <<saved, late, requests, screen, dialogRefs, stream, retry, sends, acts,
                 certain>>

\* Gemini: the row's ref is dropped before the error; the client keeps its own.
ResumeFailed ==
  /\ job.at = "running" /\ job.captured # Nothing /\ stream.at = "open"
  /\ Resumes(job.provider, Nothing)
  /\ Emits(<<Event("error", Nothing)>>)
  /\ job' = NoJob
  /\ certain' = FALSE
  /\ UNCHANGED <<listed, saved, late, requests, screen, dialogRefs, stream, retry, sends, acts>>

AgentError ==
  /\ job.at = "running" /\ stream.at = "open"
  /\ Emits(<<Event("error", Nothing)>>)
  /\ job' = NoJob
  /\ UNCHANGED <<row, listed, saved, late, requests, screen, dialogRefs, stream, retry, sends, acts,
                 certain>>

IdleTimeoutOnce ==                                                  \* mutant
  /\ job.at = "running" /\ stream.at = "open" /\ events = <<>> /\ ~stream.got
  /\ Emits(<<Event("error", Nothing)>>)
  /\ late' = late \cup {job} /\ job' = NoJob
  /\ UNCHANGED <<row, listed, saved, requests, screen, dialogRefs, stream, retry, sends, acts,
                 certain>>

\* 20 s without an event: the client is told an error, the subscription stays.
IdleTimeout ==
  /\ job.at = "running" /\ stream.at = "open"
  /\ Emits(<<Event("error", Nothing)>>)
  /\ late' = late \cup {job} /\ job' = NoJob
  /\ UNCHANGED <<row, listed, saved, requests, screen, dialogRefs, stream, retry, sends, acts,
                 certain>>

LateDone(j, reported) ==
  /\ j \in late
  /\ StoresAnswer(j, IF reported = Nothing THEN j.captured ELSE reported)
  /\ late' = late \ {j}
  /\ certain' = FALSE
  /\ UNCHANGED <<saved, job, requests, screen, dialogRefs, stream, events, retry, sends,
                 acts>>

LateNothing(j) ==
  /\ j \in late
  /\ late' = late \ {j}
  /\ UNCHANGED <<row, listed, saved, job, requests, screen, dialogRefs, stream, events, retry, sends,
                 acts, certain>>

\* The page is loaded anew, its requests done; what was not rendered yet is gone.
Reload ==
  /\ Rendered /\ FreeSlots = Fetches
  /\ acts < MaxActs /\ acts' = acts + 1
  /\ provider' = Nothing /\ known' = FALSE /\ shown' = Nothing
  /\ messages' = {} /\ touched' = FALSE /\ key' = Nothing /\ dialogRefs' = {}
  /\ stream' = NoStream /\ events' = <<>> /\ job' = NoJob /\ retry' = Nothing
  /\ certain' = Quiet
  /\ UNCHANGED <<row, listed, saved, late, requests, storage, sends>>

-----------------------------------------------------------------------------
StreamEnds ==
  \/ AgentError \/ IdleTimeout \/ ResumeFailed
  \/ \E ref \in MaybeRef : AssistantDone(ref)
Take == TakeChunk \/ TakeDone \/ TakeError \/ TakeEnd

WidgetNext ==
  \/ LoadSettings \/ NewDialog \/ OpenDialogs \/ SelectDialog \/ SaveSettings \/ EditSettings
  \/ \E p \in Providers : ChangeProvider(p)
  \/ \E s \in Fetches : Serve(s) \/ Arrive(s) \/ RequestFails(s)
  \/ Render
  \/ Send \/ Retry \/ Open \/ StreamFails \/ Take
  \/ AssistantChunk \/ StreamEnds
  \/ \E j \in late : LateNothing(j) \/ \E ref \in MaybeRef : LateDone(j, ref)
  \/ Reload

WidgetSpec == WidgetInit /\ [][WidgetNext]_widgetVars

\* A request to open a stream is answered or fails, the server's idle timer ends
\* every stream that nothing else ends, and the tab reads what arrives.
OpeningFails == stream.at = "opening" /\ StreamFails
FairSpec ==
  /\ WidgetSpec
  /\ WF_widgetVars(Open \/ OpeningFails) /\ WF_widgetVars(IdleTimeout) /\ WF_widgetVars(Take)

-----------------------------------------------------------------------------
(* Properties.                                                             *)

\* When operations did not overlap and none failed, the dialog on display is the
\* one the server will resume with the next message, after any series of new,
\* selected, answered and reset dialogs and changes of the provider.
ShownIsResumed == Quiet /\ certain /\ provider # Nothing /\ known => shown = row[provider]

\* What a dialog has: the messages on display if it is there, and otherwise, also
\* while another one is about to be rendered, its entry in localStorage.
Current == <<provider, shown>>
MessagesOf(k) ==
  IF k = key /\ k = Current THEN messages
  ELSE IF storage[k] = Nothing THEN {} ELSE storage[k]
Written == {User(i) : i \in Ids}

\* A new dialog in a draft, or its own ref selected again.
Emptied == messages' = {} /\ key' = key /\ UNCHANGED Current

\* The dialog on display makes way before a render that is due: before its messages
\* are written, or while its entry still holds those of the dialog before.
Overtaken == Due /\ ~UNCHANGED Current

\* What the user wrote into a dialog stays there, although the first render of a
\* dialog overwrites its entry and only the second one writes it back, however
\* answers and late events are interleaved.  Only the dialog on display can lose
\* it: by being emptied, and by an answer, a done event, a change of the provider
\* or a reload between the two renders.
WrittenIsKept ==
  [][\A k \in Keys : \/ (MessagesOf(k) \cap Written) \subseteq MessagesOf(k)'
                     \/ k = key /\ (Emptied \/ Overtaken)]_widgetVars

\* A message that is being sent stops being sent: the composer, disabled
\* meanwhile, comes back.
SendingEnds == stream.at # "idle" ~> stream.at = "idle"

=============================================================================
