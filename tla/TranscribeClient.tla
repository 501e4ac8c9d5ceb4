--------------------------- MODULE TranscribeClient ---------------------------
(***************************************************************************)
(* The transcribe widget in one browser tab: the file browser, the result  *)
(* view with its typewriter, and the requests behind them.  A handler, or  *)
(* the continuation of an await, is one action.  `loading` is one boolean  *)
(* for all operations, the check before a transcription raises no flag,    *)
(* and a silent reload starts whenever the Passport status changes: so     *)
(* operations overlap, and their answers come in any order.                *)
(*                                                                         *)
(* A file is its path; which of them have a transcript beside them, and    *)
(* with it which file "Open txt" reads and "Save" writes, is left open.    *)
(***************************************************************************)
EXTENDS Naturals, Sequences

CONSTANTS
  Folders,
  Files,       \* supported audio files
  FilesOf,     \* the files a folder may hold
  Slots,       \* bound: operations under way at once
  MaxOps,      \* bound: operations of the user, and status events
  MaxTokens,   \* bound: token events of a transcription
  None         \* no folder; no text that must be on display

ASSUME ClientAssumption ==
  /\ FilesOf \in [Folders -> SUBSET Files]
  /\ None \notin Folders
  /\ MaxOps \in Nat /\ MaxTokens \in Nat

VARIABLES
  op,            \* the operations under way
  ready,         \* providerReady
  folder,        \* selectedFolderPath
  entries,       \* the audio files among the entries
  picked,        \* selectedAudioFiles
  loading, transcribing, locked,
  visible,       \* resultVisible
  text, queue,   \* resultText, and what the typewriter has not typed yet
  timer,         \* the typewriter's timer is armed
  ops,
  owed           \* history: the text the last operation that ended has promised

browser == <<ready, folder, entries, picked>>
flags == <<loading, transcribing, locked, visible>>
result == <<text, queue, timer, owed>>
vars == <<op, browser, flags, result, ops>>

\* What a slot's operation waits for: the provider check of the widget's start,
\* its settings, a folder (silently or not), the provider check before a
\* transcription, the transcription's stream, its reload, a transcript to read,
\* a transcript to write, and the reload after that.
Kinds == {"idle", "start", "settings", "load", "silent", "check", "stream",
          "reload", "read", "write", "resave"}
Op == [kind : Kinds, folder : Folders \cup {None}, keep : SUBSET Files,
       tokens : 0 .. MaxTokens]
Idle == [kind |-> "idle", folder |-> None, keep |-> {}, tokens |-> 0]

\* The text of a chunk is known by where it comes from: the file an operation has
\* read, or one of the tokens of its stream.
Chunk(s, n) == <<s, n>>
FileText(s) == <<Chunk(s, 0)>>
Transcript(s) == [n \in 1 .. MaxTokens |-> Chunk(s, n)]
Texts == Seq(Slots \X (0 .. MaxTokens))

TypeOK ==
  /\ op \in [Slots -> Op]
  /\ folder \in Folders \cup {None}
  /\ entries \in SUBSET Files
  /\ picked \in SUBSET Files
  /\ {ready, loading, transcribing, locked, visible, timer} \subseteq BOOLEAN
  /\ text \in Texts /\ queue \in Texts
  /\ owed \in Texts \cup {None}
  /\ ops \in 0 .. MaxOps

\* The effect on mount has started its check.
Init ==
  /\ \E first \in Slots :
       op = [s \in Slots |->
              IF s = first THEN [Idle EXCEPT !.kind = "start"] ELSE Idle]
  /\ ready = TRUE
  /\ folder = None /\ entries = {} /\ picked = {}
  /\ loading = FALSE /\ transcribing = FALSE /\ locked = FALSE /\ visible = FALSE
  /\ text = <<>> /\ queue = <<>> /\ timer = FALSE
  /\ ops = 0
  /\ owed = None

-----------------------------------------------------------------------------
(* Operations and their effects.                                           *)

\* A handler runs up to its first await.
Starts(s, kind, f, keep) ==
  /\ op[s] = Idle
  /\ ops < MaxOps /\ ops' = ops + 1
  /\ op' = [op EXCEPT ![s] =
              [kind |-> kind, folder |-> f, keep |-> keep, tokens |-> 0]]

\* The continuation of an await: on to the next one, or to the end.
Waits(s, kind) == op[s].kind = kind /\ UNCHANGED ops
Moves(s, kind, f) == op' = [op EXCEPT ![s].kind = kind, ![s].folder = f]
Ends(s) == op' = [op EXCEPT ![s] = Idle]

KeepsTyping == UNCHANGED <<queue, timer>>                           \* mutant
NotTyping == queue' = <<>> /\ timer' = FALSE

ClearBrowser == folder' = None /\ entries' = {} /\ picked' = {}

\* filterSelectedAudioFiles.
Unfiltered(keep, found) == keep                                     \* mutant
StillListed(keep, found) == keep \cap found

\* handleLoadPathSuccess.
Lists(f, found, keep) ==
  folder' = f /\ entries' = found /\ picked' = StillListed(keep, found)

\* What listPathEntries may find in a folder by the time it is read.
Listings(f) == SUBSET FilesOf[f]

\* The server answers with a listing, or with an error: no agent, no such path.
FolderAnswers(s) ==
  /\ \/ /\ op[s].folder # None
        /\ \E found \in Listings(op[s].folder) :
             Lists(op[s].folder, found, op[s].keep)
     \/ ClearBrowser
  /\ UNCHANGED ready

-----------------------------------------------------------------------------
(* The start of the widget (runInitialize).                                *)

StartReady(s) ==
  /\ Waits(s, "start")
  /\ ready' = TRUE
  /\ Moves(s, "settings", None)
  /\ UNCHANGED <<folder, entries, picked, flags, result>>

\* ensureProviderReady, for the start and for a transcription: not ready.
ProviderNotReady(s) ==
  /\ op[s].kind \in {"start", "check"} /\ UNCHANGED ops
  /\ ready' = FALSE
  /\ ClearBrowser
  /\ Ends(s)
  /\ UNCHANGED <<flags, result>>

\* The request for the provider's state, or for the settings, fails.
PrologueFails(s) ==
  /\ op[s].kind \in {"start", "settings", "check"} /\ UNCHANGED ops
  /\ Ends(s)
  /\ UNCHANGED <<browser, flags, result>>

\* Settings and aliases are in; the most recent folder is loaded.
SettingsAnswer(s) ==
  /\ Waits(s, "settings")
  /\ \E f \in Folders : Moves(s, "load", f)
  /\ loading' = TRUE
  /\ UNCHANGED <<browser, transcribing, locked, visible, result>>

-----------------------------------------------------------------------------
(* The browser.                                                            *)

InSetup == ~visible /\ ~loading

\* A path is submitted, a folder clicked, "Up" pressed.
Load(s, f) ==
  /\ InSetup
  /\ Starts(s, "load", f, {})
  /\ loading' = TRUE
  /\ UNCHANGED <<browser, transcribing, locked, visible, result>>

\* The Passport status became connected: the folder selected, or else the path typed.
Connected(s, f) ==
  /\ folder \in {None, f}
  /\ Starts(s, "silent", f, picked)
  /\ UNCHANGED <<browser, flags, result>>

LoadAnswer(s) ==
  /\ Waits(s, "load")
  /\ FolderAnswers(s)
  /\ loading' = FALSE
  /\ Ends(s)
  /\ UNCHANGED <<transcribing, locked, visible, result>>

SilentAnswer(s) ==
  /\ Waits(s, "silent")
  /\ FolderAnswers(s)
  /\ Ends(s)
  /\ UNCHANGED <<flags, result>>

Toggle(file) ==
  /\ InSetup /\ file \in entries
  /\ ops < MaxOps /\ ops' = ops + 1
  /\ picked' = IF file \in picked THEN picked \ {file} ELSE picked \cup {file}
  /\ UNCHANGED <<op, ready, folder, entries, flags, result>>

Clear ==
  /\ InSetup
  /\ ops < MaxOps /\ ops' = ops + 1
  /\ ClearBrowser
  /\ UNCHANGED <<op, ready, flags, result>>

-----------------------------------------------------------------------------
(* Transcribing.                                                           *)

\* Until the check answers, the button is still there.
Transcribe(s) ==
  /\ ready /\ InSetup /\ folder # None /\ picked # {}
  /\ Starts(s, "check", folder, picked)
  /\ UNCHANGED <<browser, flags, result>>

CheckAnswer(s) ==
  /\ Waits(s, "check")
  /\ ready' = TRUE
  /\ loading' = TRUE /\ transcribing' = TRUE /\ locked' = TRUE /\ visible' = TRUE
  /\ text' = <<>> /\ NotTyping /\ owed' = None
  /\ Moves(s, "stream", op[s].folder)
  /\ UNCHANGED <<folder, entries, picked>>

\* handleChunk: an event of the stream, or an end without "done".
Hears(s) == Waits(s, "stream")

Token(s) ==
  /\ Hears(s)
  /\ op[s].tokens < MaxTokens
  /\ op' = [op EXCEPT ![s].tokens = @ + 1]
  /\ queue' = Append(queue, Chunk(s, op[s].tokens + 1))
  /\ timer' = TRUE
  /\ UNCHANGED <<browser, flags, text, owed, ops>>

\* useTypewriterReveal's timer: types a batch and is armed again, or completes.
TypesNext ==
  /\ timer /\ queue # <<>>
  /\ text' = Append(text, Head(queue))
  /\ queue' = Tail(queue)
  /\ UNCHANGED <<op, browser, flags, timer, owed, ops>>

TypingCompletes ==
  /\ timer /\ queue = <<>>
  /\ timer' = FALSE
  /\ locked' = FALSE
  /\ UNCHANGED <<op, browser, loading, transcribing, visible, text, queue, owed, ops>>

Done(s) ==
  /\ Hears(s)
  /\ text' = Transcript(s) /\ NotTyping /\ owed' = Transcript(s)
  /\ transcribing' = FALSE /\ locked' = FALSE
  /\ Moves(s, "reload", op[s].folder)
  /\ UNCHANGED <<browser, loading, visible>>

\* The flags the catch and the finally of onTranscribe lower.
UnlocksNothing == loading' = FALSE /\ transcribing' = FALSE /\ UNCHANGED locked \* mutant
UnlocksAll == loading' = FALSE /\ transcribing' = FALSE /\ locked' = FALSE

\* Refused, an error event, or the end of the stream without a result.  The
\* typewriter goes on.
Fails(s) ==
  /\ Hears(s)
  /\ UnlocksAll
  /\ owed' = None
  /\ Ends(s)
  /\ UNCHANGED <<browser, visible, text, queue, timer>>

ReloadAnswer(s) ==
  /\ Waits(s, "reload")
  /\ FolderAnswers(s)
  /\ loading' = FALSE /\ transcribing' = FALSE
  /\ Ends(s)
  /\ UNCHANGED <<locked, visible, result>>

-----------------------------------------------------------------------------
(* The result.                                                             *)

InResult == visible /\ ~locked /\ ~transcribing

Back ==
  /\ InResult
  /\ ops < MaxOps /\ ops' = ops + 1
  /\ NotTyping
  /\ transcribing' = FALSE /\ locked' = FALSE /\ visible' = FALSE
  /\ UNCHANGED <<op, browser, loading, text, owed>>

\* findReadableAudioPath: one of these, if it has a transcript.
Candidates == IF picked # {} THEN picked ELSE entries

\* "Open txt"
Read(s) ==
  /\ ready /\ InSetup /\ Candidates # {}
  /\ Starts(s, "read", folder, picked)
  /\ loading' = TRUE /\ transcribing' = FALSE
  /\ UNCHANGED <<browser, locked, visible, result>>

ReadAnswer(s) ==
  /\ Waits(s, "read")
  /\ loading' = FALSE /\ locked' = FALSE /\ visible' = TRUE
  /\ text' = FileText(s) /\ NotTyping /\ owed' = FileText(s)
  /\ Ends(s)
  /\ UNCHANGED <<browser, transcribing>>

Save(s) ==
  /\ InResult /\ text # <<>>
  /\ Starts(s, "write", folder, picked)
  /\ loading' = TRUE
  /\ UNCHANGED <<browser, transcribing, locked, visible, result>>

\* Saved: the folder that was selected at the click is listed again.
WriteAnswer(s) ==
  /\ Waits(s, "write")
  /\ op[s].folder # None
  /\ Moves(s, "resave", op[s].folder)
  /\ UNCHANGED <<browser, flags, result>>

ResaveAnswer(s) ==
  /\ Waits(s, "resave")
  /\ FolderAnswers(s)
  /\ loading' = FALSE
  /\ Ends(s)
  /\ UNCHANGED <<transcribing, locked, visible, result>>

\* Neither read nor written; or written, with no folder to list.
FileRequestEnds(s) ==
  /\ op[s].kind \in {"read", "write"} /\ UNCHANGED ops
  /\ loading' = FALSE
  /\ Ends(s)
  /\ UNCHANGED <<browser, transcribing, locked, visible, result>>

-----------------------------------------------------------------------------

Answer(s) ==
  \/ StartReady(s) \/ ProviderNotReady(s) \/ PrologueFails(s) \/ SettingsAnswer(s)
  \/ LoadAnswer(s) \/ SilentAnswer(s)
  \/ CheckAnswer(s) \/ Token(s) \/ Done(s) \/ Fails(s) \/ ReloadAnswer(s)
  \/ ReadAnswer(s) \/ WriteAnswer(s) \/ ResaveAnswer(s) \/ FileRequestEnds(s)

Next ==
  \/ \E s \in Slots :
       \/ \E f \in Folders : Load(s, f) \/ Connected(s, f)
       \/ Transcribe(s) \/ Read(s) \/ Save(s)
       \/ Answer(s)
  \/ \E file \in Files : Toggle(file)
  \/ Clear \/ Back
  \/ TypesNext \/ TypingCompletes

Spec == Init /\ [][Next]_vars

-----------------------------------------------------------------------------
(* Correctness.                                                            *)

Streaming(s) == op[s].kind = "stream"
HoldsLoading(s) ==
  op[s].kind \in {"load", "stream", "reload", "read", "write", "resave"}

\* A control that is disabled waits for something: `loading` is up only while an
\* operation is under way that will lower it, the lock of the result and the
\* progress strip only while a transcription streams, whatever overlapped with
\* it and however it ended.
FlagsAreOwed ==
  /\ loading => \E s \in Slots : HoldsLoading(s)
  /\ transcribing \/ locked => \E s \in Slots : Streaming(s)

\* When no transcription streams, and the operation that ended last has brought
\* a whole text (the transcript of "done", or a file), that text is on display,
\* exactly, and the typewriter has nothing to add: not a token of its own stream,
\* nor of one that overlapped.
ShownIsPromised ==
  (\A s \in Slots : ~Streaming(s)) /\ owed # None =>
    text = owed /\ queue = <<>>

\* What is selected is on display in the folder that is open, although reloads
\* bring back an earlier selection and files come and go.
SelectionIsListed ==
  /\ picked \subseteq entries
  /\ IF folder = None THEN entries = {} ELSE entries \subseteq FilesOf[folder]

=============================================================================
