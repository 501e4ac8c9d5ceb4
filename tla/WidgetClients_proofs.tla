------------------------- MODULE WidgetClients_proofs -------------------------
(***************************************************************************)
(* Proofs about the two widgets in a browser tab, for every value of their *)
(* constants: the transcribe widget (TranscribeClient) first, then the     *)
(* terminal-agent widget (TerminalAgentClient).  The two share nothing;    *)
(* each theorem is about the specification of one of them.                 *)
(***************************************************************************)
EXTENDS TranscribeClient, TerminalAgentClient, SequenceTheorems, TLAPS

-----------------------------------------------------------------------------
(* The transcribe widget: its operations under way.                        *)

OpShape == op \in [Slots -> Op]

\* What may happen to the slots: one changes, in a typed way, or none does.
Changes(s, c) == c \in Op /\ op' = [op EXCEPT ![s] = c]

LEMMA IdleType == Idle \in Op
  BY ClientAssumption DEF Idle, Op, Kinds

LEMMA EndsType ==
  ASSUME OpShape, NEW s \in Slots, Ends(s)
  PROVE  Changes(s, Idle) /\ OpShape'
BY IdleType DEF OpShape, Ends, Changes

LEMMA MovesType ==
  ASSUME OpShape, NEW s \in Slots, NEW kind \in Kinds,
         NEW f \in Folders \cup {None}, Moves(s, kind, f)
  PROVE  /\ OpShape'
         /\ op'[s].kind = kind
         /\ \A r \in Slots \ {s} : op'[r] = op[r]
BY DEF OpShape, Moves, Op

LEMMA StartsType ==
  ASSUME OpShape, NEW s \in Slots, NEW kind \in Kinds,
         NEW f \in Folders \cup {None}, NEW keep \in SUBSET Files,
         Starts(s, kind, f, keep), ops \in 0 .. MaxOps
  PROVE  /\ OpShape'
         /\ op'[s].kind = kind
         /\ \A r \in Slots \ {s} : op'[r] = op[r]
         /\ ops' \in 0 .. MaxOps
BY ClientAssumption DEF OpShape, Starts, Op

LEMMA TokenType ==
  ASSUME OpShape, NEW s \in Slots, Token(s)
  PROVE  /\ OpShape'
         /\ Chunk(s, op[s].tokens + 1) \in Slots \X (0 .. MaxTokens)
         /\ op'[s].kind = "stream"
         /\ \A r \in Slots \ {s} : op'[r] = op[r]
<1>1. op[s] \in Op /\ op[s].tokens \in 0 .. MaxTokens /\ op[s].tokens < MaxTokens
  BY DEF OpShape, Op, Token
<1>2. op[s].tokens + 1 \in 0 .. MaxTokens
  BY <1>1, ClientAssumption
<1> QED  BY <1>1, <1>2 DEF OpShape, Op, Token, Hears, Waits, Chunk

LEMMA TextTypes ==
  ASSUME NEW s \in Slots
  PROVE  FileText(s) \in Texts /\ Transcript(s) \in Texts
<1>1. FileText(s) \in Texts
  BY ClientAssumption DEF FileText, Chunk, Texts
<1>2. Transcript(s) \in [1 .. MaxTokens -> Slots \X (0 .. MaxTokens)]
  BY ClientAssumption DEF Transcript, Chunk
<1> QED  BY <1>1, <1>2, ClientAssumption DEF Texts

-----------------------------------------------------------------------------
(* Types.                                                                  *)

BrowserType ==
  /\ folder \in Folders \cup {None}
  /\ entries \in SUBSET Files /\ picked \in SUBSET Files

FlagsType ==
  /\ ready \in BOOLEAN /\ timer \in BOOLEAN
  /\ loading \in BOOLEAN /\ transcribing \in BOOLEAN
  /\ locked \in BOOLEAN /\ visible \in BOOLEAN

ResultType ==
  /\ text \in Texts /\ queue \in Texts
  /\ owed \in Texts \cup {None}

AllTyped == /\ OpShape /\ ops \in 0 .. MaxOps
            /\ BrowserType /\ FlagsType /\ ResultType

LEMMA TypeParts == (TypeOK <=> AllTyped) /\ (TypeOK' <=> AllTyped')
BY DEF TypeOK, AllTyped, OpShape, BrowserType, FlagsType, ResultType

LEMMA EmptyText == <<>> \in Texts
BY DEF Texts

\* What an answer of the server leaves in the browser.
LEMMA AnswerType ==
  ASSUME OpShape, BrowserType, NEW s \in Slots, FolderAnswers(s)
  PROVE  /\ BrowserType' /\ UNCHANGED ready
         /\ picked' \subseteq entries'
         /\ folder' = None => entries' = {}
         /\ folder' # None => entries' \subseteq FilesOf[folder']
<1>1. op[s].folder \in Folders \cup {None} /\ op[s].keep \in SUBSET Files
  BY DEF OpShape, Op
<1>2. CASE ClearBrowser
  BY <1>2 DEF FolderAnswers, ClearBrowser, BrowserType
<1>3. CASE ~ClearBrowser
  <2>1. op[s].folder # None /\ UNCHANGED ready
    BY <1>3 DEF FolderAnswers
  <2>2. PICK found \in Listings(op[s].folder) :
               Lists(op[s].folder, found, op[s].keep)
    BY <1>3 DEF FolderAnswers
  <2>3. found \subseteq FilesOf[op[s].folder] /\ found \subseteq Files
    BY <1>1, <2>1, <2>2, ClientAssumption DEF Listings
  <2> QED
    BY <1>1, <2>1, <2>2, <2>3 DEF Lists, StillListed, BrowserType
<1> QED  BY <1>2, <1>3

LEMMA TypeInit == Init => TypeOK
<1> SUFFICES ASSUME Init PROVE TypeOK
  OBVIOUS
<1>1. OpShape
  <2>1. [Idle EXCEPT !.kind = "start"] \in Op
    BY IdleType DEF Op, Kinds
  <2> QED  BY <2>1, IdleType DEF Init, OpShape
<1>2. BrowserType /\ ResultType
  BY EmptyText DEF Init, BrowserType, ResultType
<1>3. FlagsType
  BY DEF Init, FlagsType
<1>4. ops \in 0 .. MaxOps
  BY ClientAssumption DEF Init
<1> QED  BY <1>1, <1>2, <1>3, <1>4, TypeParts DEF AllTyped

LEMMA TypeStep == TypeOK /\ [Next]_vars => TypeOK'
<1> SUFFICES ASSUME TypeOK, [Next]_vars PROVE TypeOK'
  OBVIOUS
<1> USE DEF Kinds, AllTyped
<1>0. OpShape /\ BrowserType /\ FlagsType /\ ResultType /\ ops \in 0 .. MaxOps
  BY TypeParts
<1> SUFFICES AllTyped'
  BY TypeParts
<1>1. ASSUME NEW s \in Slots, NEW f \in Folders, Load(s, f) \/ Connected(s, f)
      PROVE  AllTyped'
  <2>1. OpShape' /\ ops' \in 0 .. MaxOps
    BY <1>0, <1>1, StartsType DEF Load, Connected, BrowserType
  <2>2. BrowserType' /\ ResultType'
    BY <1>0, <1>1 DEF Load, Connected, browser, result, BrowserType, ResultType
  <2>3. FlagsType'
    BY <1>0, <1>1 DEF Load, Connected, browser, flags, result, FlagsType
  <2> QED  BY <2>1, <2>2, <2>3
<1>2. ASSUME NEW s \in Slots, Transcribe(s) \/ Read(s) \/ Save(s)
      PROVE  AllTyped'
  <2>1. OpShape' /\ ops' \in 0 .. MaxOps
    BY <1>0, <1>2, StartsType DEF Transcribe, Read, Save, BrowserType
  <2>2. BrowserType' /\ ResultType'
    BY <1>0, <1>2
    DEF Transcribe, Read, Save, browser, result, BrowserType, ResultType
  <2>3. FlagsType'
    BY <1>0, <1>2 DEF Transcribe, Read, Save, browser, flags, result, FlagsType
  <2> QED  BY <2>1, <2>2, <2>3
<1>3. ASSUME NEW s \in Slots,
             \/ ProviderNotReady(s) \/ PrologueFails(s) \/ FileRequestEnds(s)
             \/ LoadAnswer(s) \/ SilentAnswer(s) \/ ReloadAnswer(s) \/ ResaveAnswer(s)
      PROVE  AllTyped'
  <2> USE DEF ProviderNotReady, PrologueFails, FileRequestEnds, LoadAnswer,
              SilentAnswer, ReloadAnswer, ResaveAnswer
  <2>1. OpShape' /\ UNCHANGED ops
    BY <1>0, <1>3, EndsType DEF Waits
  <2>2. ResultType'
    BY <1>0, <1>3 DEF ResultType, result
  <2>3. CASE FolderAnswers(s)
    <3>1. BrowserType' /\ UNCHANGED ready
      BY <1>0, <2>3, AnswerType
    <3>2. FlagsType'
      BY <1>0, <1>3, <3>1 DEF FlagsType, flags, result, browser
    <3> QED  BY <1>0, <2>1, <2>2, <3>1, <3>2
  <2>4. CASE ProviderNotReady(s) \/ PrologueFails(s) \/ FileRequestEnds(s)
    <3>1. BrowserType'
      BY <1>0, <2>4 DEF ClearBrowser, BrowserType, browser
    <3>2. FlagsType'
      BY <1>0, <2>4 DEF FlagsType, flags, result, browser
    <3> QED  BY <1>0, <2>1, <2>2, <3>1, <3>2
  <2> QED  BY <1>3, <2>3, <2>4
<1>4. ASSUME NEW s \in Slots,
             \/ StartReady(s) \/ SettingsAnswer(s) \/ CheckAnswer(s)
             \/ Done(s) \/ WriteAnswer(s)
      PROVE  AllTyped'
  <2> USE DEF StartReady, SettingsAnswer, CheckAnswer, Done, WriteAnswer
  <2>1. op[s].folder \in Folders \cup {None}
    BY <1>0 DEF OpShape, Op
  <2>2. OpShape' /\ UNCHANGED ops
    BY <1>0, <1>4, <2>1, MovesType DEF Waits, Hears
  <2>3. BrowserType'
    BY <1>0, <1>4 DEF BrowserType, browser
  <2>4. FlagsType'
    BY <1>0, <1>4 DEF NotTyping, FlagsType, flags, browser, result
  <2>5. ResultType'
    BY <1>0, <1>4, EmptyText, TextTypes DEF NotTyping, ResultType, result
  <2>6. ops' \in 0 .. MaxOps
    BY <1>0, <2>2
  <2> HIDE DEF StartReady, SettingsAnswer, CheckAnswer, Done, WriteAnswer
  <2> QED  BY <2>2, <2>3, <2>4, <2>5, <2>6
<1>5. ASSUME NEW s \in Slots, Token(s)
      PROVE  AllTyped'
  <2>1. queue' \in Texts
    <3> DEFINE c == Chunk(s, op[s].tokens + 1)
    <3>1. c \in Slots \X (0 .. MaxTokens)
      BY <1>0, <1>5, TokenType
    <3>2. queue \in Texts /\ queue' = Append(queue, c)
      BY <1>0, <1>5 DEF Token, ResultType
    <3> HIDE DEF c
    <3> QED  BY <3>1, <3>2 DEF Texts
  <2>2. OpShape' /\ UNCHANGED ops
    BY <1>0, <1>5, TokenType DEF Token, Hears, Waits
  <2>3. BrowserType' /\ ResultType'
    BY <1>0, <1>5, <2>1 DEF Token, browser, BrowserType, ResultType
  <2>4. FlagsType'
    BY <1>0, <1>5 DEF Token, browser, flags, FlagsType
  <2> QED  BY <1>0, <2>2, <2>3, <2>4
<1>6. ASSUME NEW s \in Slots, Fails(s) \/ ReadAnswer(s)
      PROVE  AllTyped'
  <2>1. OpShape' /\ UNCHANGED ops
    BY <1>0, <1>6, EndsType DEF Fails, ReadAnswer, Hears, Waits
  <2>2. ResultType'
    BY <1>0, <1>6, EmptyText, TextTypes DEF Fails, ReadAnswer, NotTyping, ResultType
  <2>3. BrowserType'
    BY <1>0, <1>6 DEF Fails, ReadAnswer, BrowserType, browser
  <2>4. FlagsType'
    BY <1>0, <1>6 DEF Fails, ReadAnswer, UnlocksAll, NotTyping, FlagsType, browser
  <2> QED  BY <1>0, <2>1, <2>2, <2>3, <2>4
<1>7. ASSUME NEW file \in Files, Toggle(file)
      PROVE  AllTyped'
  <2>1. OpShape' /\ ops' \in 0 .. MaxOps
    BY <1>0, <1>7, ClientAssumption DEF Toggle, OpShape
  <2>2. BrowserType' /\ ResultType'
    BY <1>0, <1>7 DEF Toggle, BrowserType, ResultType, result
  <2>3. FlagsType'
    BY <1>0, <1>7 DEF Toggle, FlagsType, flags, result
  <2> QED  BY <2>1, <2>2, <2>3
<1>8. ASSUME Clear \/ Back
      PROVE  AllTyped'
  <2>1. OpShape' /\ ops' \in 0 .. MaxOps
    BY <1>0, <1>8, ClientAssumption DEF Clear, Back, OpShape
  <2>2. BrowserType' /\ ResultType'
    BY <1>0, <1>8, EmptyText
    DEF Clear, Back, ClearBrowser, NotTyping, BrowserType, ResultType, browser, result
  <2>3. FlagsType'
    BY <1>0, <1>8
    DEF Clear, Back, NotTyping, FlagsType, flags, result, browser
  <2> QED  BY <2>1, <2>2, <2>3
<1>9. ASSUME TypesNext \/ TypingCompletes
      PROVE  AllTyped'
  <2>1. ResultType'
    <3>1. CASE TypesNext
      BY <1>0, <3>1 DEF TypesNext, ResultType, Texts
    <3>2. CASE TypingCompletes
      BY <1>0, <3>2 DEF TypingCompletes, ResultType
    <3> QED  BY <1>9, <3>1, <3>2
  <2>2. (OpShape /\ ops \in 0 .. MaxOps)' /\ BrowserType'
    BY <1>0, <1>9
    DEF TypesNext, TypingCompletes, OpShape, BrowserType, browser
  <2>3. FlagsType'
    BY <1>0, <1>9 DEF TypesNext, TypingCompletes, FlagsType, flags, browser
  <2> QED  BY <2>1, <2>2, <2>3
<1>10. ASSUME UNCHANGED vars
       PROVE  AllTyped'
  <2>1. (OpShape /\ ops \in 0 .. MaxOps)' /\ BrowserType' /\ ResultType'
    BY <1>0, <1>10 DEF vars, OpShape, BrowserType, ResultType, browser, result
  <2>2. FlagsType'
    BY <1>0, <1>10 DEF vars, FlagsType, browser, flags, result
  <2> QED  BY <2>1, <2>2
<1> QED
  BY <1>1, <1>2, <1>3, <1>4, <1>5, <1>6, <1>7, <1>8, <1>9, <1>10 DEF Next, Answer

\* Every operation, flag and text stays in its type, whatever overlaps.
THEOREM TypeCorrect == Spec => []TypeOK
BY TypeInit, TypeStep, PTL DEF Spec

-----------------------------------------------------------------------------
(* The flags.                                                              *)

Held == \E s \in Slots : HoldsLoading(s)
Streamed == \E s \in Slots : Streaming(s)

\* Nothing is lost by a step that touches no slot of the kind, or raises one.
LEMMA StartsKeeps ==
  ASSUME OpShape, NEW s \in Slots, NEW kind \in Kinds,
         NEW f \in Folders \cup {None}, NEW keep \in SUBSET Files,
         Starts(s, kind, f, keep), ops \in 0 .. MaxOps
  PROVE  /\ Held => Held'
         /\ Streamed => Streamed'
         /\ kind \in {"load", "stream", "reload", "read", "write", "resave"} => Held'
<1>1. op[s].kind = "idle"
  BY DEF Starts, Idle
<1>2. op'[s].kind = kind /\ \A r \in Slots \ {s} : op'[r] = op[r]
  BY StartsType
<1> QED  BY <1>1, <1>2 DEF Held, Streamed, HoldsLoading, Streaming

LEMMA MovesKeeps ==
  ASSUME OpShape, NEW s \in Slots, NEW kind \in Kinds,
         NEW f \in Folders \cup {None}, Moves(s, kind, f)
  PROVE  /\ op[s].kind # "stream" => (Streamed => Streamed')
         /\ kind = "stream" => Streamed'
         /\ kind \in {"load", "stream", "reload", "read", "write", "resave"} => Held'
<1>1. op'[s].kind = kind /\ \A r \in Slots \ {s} : op'[r] = op[r]
  BY MovesType
<1> QED  BY <1>1 DEF Held, Streamed, HoldsLoading, Streaming

LEMMA MovesHeld ==
  ASSUME OpShape, NEW s \in Slots, NEW kind \in Kinds,
         NEW f \in Folders \cup {None}, Moves(s, kind, f),
         op[s].kind \in {"start", "settings", "check"}
  PROVE  Held => Held'
<1>1. op'[s].kind = kind /\ \A r \in Slots \ {s} : op'[r] = op[r]
  BY MovesType
<1> QED  BY <1>1 DEF Held, HoldsLoading

LEMMA EndsKeeps ==
  ASSUME OpShape, NEW s \in Slots, Ends(s)
  PROVE  /\ op[s].kind # "stream" => (Streamed => Streamed')
         /\ ~HoldsLoading(s) => (Held => Held')
<1>1. \A r \in Slots \ {s} : op'[r] = op[r]
  BY DEF OpShape, Ends
<1> QED  BY <1>1 DEF Held, Streamed, HoldsLoading, Streaming

LEMMA TokenKeeps ==
  ASSUME OpShape, NEW s \in Slots, Token(s)
  PROVE  Streamed' /\ Held'
<1>1. op'[s].kind = "stream"  BY TokenType
<1> QED  BY <1>1 DEF Held, Streamed, HoldsLoading, Streaming

LEMMA FlagsStep == TypeOK /\ FlagsAreOwed /\ [Next]_vars => FlagsAreOwed'
<1> SUFFICES ASSUME TypeOK, FlagsAreOwed, [Next]_vars PROVE FlagsAreOwed'
  OBVIOUS
<1>0. OpShape /\ BrowserType /\ ops \in 0 .. MaxOps
  BY TypeParts DEF AllTyped
<1>f. (loading => Held) /\ (transcribing => Streamed) /\ (locked => Streamed)
  BY DEF FlagsAreOwed, Held, Streamed
<1> USE DEF Kinds
<1> DEFINE Covered == /\ loading => Held
                      /\ transcribing => Streamed
                      /\ locked => Streamed
<1> SUFFICES Covered'
  BY DEF FlagsAreOwed, Held, Streamed
<1>1. ASSUME NEW s \in Slots, NEW f \in Folders, Load(s, f) \/ Connected(s, f)
      PROVE  Covered'
  <2>1. CASE Load(s, f)
    <3>1. Held' /\ (Streamed => Streamed')
      BY <1>0, <2>1, StartsKeeps DEF Load
    <3> QED  BY <1>f, <2>1, <3>1 DEF Load
  <2>2. CASE Connected(s, f)
    <3>1. (Held => Held') /\ (Streamed => Streamed')
      BY <1>0, <2>2, StartsKeeps DEF Connected, BrowserType
    <3> QED  BY <1>f, <2>2, <3>1 DEF Connected, flags
  <2> QED  BY <1>1, <2>1, <2>2
<1>2. ASSUME NEW s \in Slots, Transcribe(s) \/ Read(s) \/ Save(s)
      PROVE  Covered'
  <2>1. CASE Transcribe(s)
    <3>1. (Held => Held') /\ (Streamed => Streamed')
      BY <1>0, <2>1, StartsKeeps DEF Transcribe, BrowserType
    <3> QED  BY <1>f, <2>1, <3>1 DEF Transcribe, flags
  <2>2. CASE Read(s) \/ Save(s)
    <3>1. Held' /\ (Streamed => Streamed')
      BY <1>0, <2>2, StartsKeeps DEF Read, Save, BrowserType
    <3> QED  BY <1>f, <2>2, <3>1 DEF Read, Save
  <2> QED  BY <1>2, <2>1, <2>2
<1>3. ASSUME NEW s \in Slots,
             \/ ProviderNotReady(s) \/ PrologueFails(s) \/ SilentAnswer(s)
             \/ LoadAnswer(s) \/ ReloadAnswer(s) \/ ResaveAnswer(s)
             \/ FileRequestEnds(s) \/ ReadAnswer(s)
      PROVE  Covered'
  <2>1. Streamed => Streamed'
    BY <1>0, <1>3, EndsKeeps
    DEF ProviderNotReady, PrologueFails, SilentAnswer, LoadAnswer, ReloadAnswer,
        ResaveAnswer, FileRequestEnds, ReadAnswer, Waits
  <2>2. CASE ProviderNotReady(s) \/ PrologueFails(s) \/ SilentAnswer(s)
    <3>1. Held => Held'
      BY <1>0, <2>2, EndsKeeps
      DEF ProviderNotReady, PrologueFails, SilentAnswer, Waits, HoldsLoading
    <3> QED
      BY <1>f, <2>1, <2>2, <3>1 DEF ProviderNotReady, PrologueFails, SilentAnswer, flags
  <2>3. CASE \/ LoadAnswer(s) \/ ReloadAnswer(s) \/ ResaveAnswer(s)
             \/ FileRequestEnds(s) \/ ReadAnswer(s)
    BY <1>f, <2>1, <2>3
    DEF LoadAnswer, ReloadAnswer, ResaveAnswer, FileRequestEnds, ReadAnswer
  <2> QED  BY <1>3, <2>2, <2>3
<1>4. ASSUME NEW s \in Slots,
             \/ StartReady(s) \/ SettingsAnswer(s) \/ CheckAnswer(s)
             \/ Done(s) \/ WriteAnswer(s)
      PROVE  Covered'
  <2>1. op[s].folder \in Folders \cup {None}
    BY <1>0 DEF OpShape, Op
  <2>2. CASE StartReady(s)
    <3>1. (Held => Held') /\ (Streamed => Streamed')
      BY <1>0, <2>2, MovesHeld, MovesKeeps DEF StartReady, Waits
    <3> QED  BY <1>f, <2>2, <3>1 DEF StartReady, flags
  <2>3. CASE SettingsAnswer(s) \/ WriteAnswer(s)
    <3>1. Held' /\ (Streamed => Streamed')
      BY <1>0, <2>1, <2>3, MovesKeeps DEF SettingsAnswer, WriteAnswer, Waits
    <3> QED  BY <1>f, <2>3, <3>1 DEF SettingsAnswer, WriteAnswer, flags
  <2>4. CASE CheckAnswer(s)
    <3>1. Held' /\ Streamed'
      BY <1>0, <2>1, <2>4, MovesKeeps DEF CheckAnswer
    <3> QED  BY <3>1
  <2>5. CASE Done(s)
    <3>1. Held'
      BY <1>0, <2>1, <2>5, MovesKeeps DEF Done
    <3> QED  BY <2>5, <3>1 DEF Done
  <2> QED  BY <1>4, <2>2, <2>3, <2>4, <2>5
<1>5. ASSUME NEW s \in Slots, Token(s) \/ Fails(s)
      PROVE  Covered'
  <2>1. CASE Token(s)
    BY <1>0, <2>1, TokenKeeps
  <2>2. CASE Fails(s)
    BY <2>2 DEF Fails, UnlocksAll
  <2> QED  BY <1>5, <2>1, <2>2
<1>6. ASSUME \/ \E file \in Files : Toggle(file)
             \/ Clear \/ Back \/ TypesNext \/ TypingCompletes
             \/ UNCHANGED vars
      PROVE  Covered'
  <2>1. UNCHANGED op
    BY <1>6 DEF Toggle, Clear, Back, TypesNext, TypingCompletes, vars
  <2>2. (Held => Held') /\ (Streamed => Streamed')
    BY <2>1 DEF Held, Streamed, HoldsLoading, Streaming
  <2>3. /\ loading' = loading
        /\ transcribing' => transcribing
        /\ locked' => locked
    BY <1>6 DEF Toggle, Clear, Back, TypesNext, TypingCompletes, vars, flags
  <2> QED  BY <1>f, <2>2, <2>3
<1> QED
  BY <1>1, <1>2, <1>3, <1>4, <1>5, <1>6 DEF Next, Answer

\* However many operations overlap and however they end, a control of the widget
\* that is disabled waits for an operation that will enable it.
THEOREM FlagsOwed == Spec => []FlagsAreOwed
<1>1. Init => FlagsAreOwed  BY DEF Init, FlagsAreOwed
<1> QED  BY <1>1, TypeInit, TypeStep, FlagsStep, PTL DEF Spec

-----------------------------------------------------------------------------
(* The text on display.                                                    *)

\* While one transcription streams nothing is promised: a step that streams
\* on, or leaves the streams and the texts alone, breaks no promise.
LEMMA PromiseKept ==
  ASSUME ShownIsPromised, Streamed => Streamed', UNCHANGED <<text, queue, owed>>
  PROVE  ShownIsPromised'
BY DEF ShownIsPromised, Streamed, Streaming

LEMMA ShownStep == TypeOK /\ ShownIsPromised /\ [Next]_vars => ShownIsPromised'
<1> SUFFICES ASSUME TypeOK, ShownIsPromised, [Next]_vars PROVE ShownIsPromised'
  OBVIOUS
<1>0. OpShape /\ BrowserType /\ ops \in 0 .. MaxOps
  BY TypeParts DEF AllTyped
<1> USE DEF Kinds
<1>1. ASSUME NEW s \in Slots, NEW f \in Folders, Load(s, f) \/ Connected(s, f)
      PROVE  ShownIsPromised'
  <2>1. Streamed => Streamed'
    BY <1>0, <1>1, StartsKeeps DEF Load, Connected, BrowserType
  <2> QED  BY <1>1, <2>1, PromiseKept DEF Load, Connected, result
<1>2. ASSUME NEW s \in Slots, Transcribe(s) \/ Read(s) \/ Save(s)
      PROVE  ShownIsPromised'
  <2>1. Streamed => Streamed'
    BY <1>0, <1>2, StartsKeeps DEF Transcribe, Read, Save, BrowserType
  <2> QED  BY <1>2, <2>1, PromiseKept DEF Transcribe, Read, Save, result
<1>3. ASSUME NEW s \in Slots,
             \/ ProviderNotReady(s) \/ PrologueFails(s) \/ SilentAnswer(s)
             \/ LoadAnswer(s) \/ ReloadAnswer(s) \/ ResaveAnswer(s)
             \/ FileRequestEnds(s)
      PROVE  ShownIsPromised'
  <2> USE DEF ProviderNotReady, PrologueFails, SilentAnswer, LoadAnswer,
              ReloadAnswer, ResaveAnswer, FileRequestEnds
  <2>1. Streamed => Streamed'
    BY <1>0, <1>3, EndsKeeps DEF Waits
  <2> QED  BY <1>3, <2>1, PromiseKept DEF result
<1>4. ASSUME NEW s \in Slots,
             StartReady(s) \/ SettingsAnswer(s) \/ WriteAnswer(s)
      PROVE  ShownIsPromised'
  <2>1. op[s].folder \in Folders \cup {None}
    BY <1>0 DEF OpShape, Op
  <2>2. Streamed => Streamed'
    BY <1>0, <1>4, <2>1, MovesKeeps DEF StartReady, SettingsAnswer, WriteAnswer, Waits
  <2> QED
    BY <1>4, <2>2, PromiseKept DEF StartReady, SettingsAnswer, WriteAnswer, result
<1>5. ASSUME NEW s \in Slots,
             CheckAnswer(s) \/ Fails(s) \/ Done(s) \/ ReadAnswer(s)
      PROVE  ShownIsPromised'
  BY <1>5 DEF CheckAnswer, Fails, Done, ReadAnswer, NotTyping, ShownIsPromised
<1>6. ASSUME NEW s \in Slots, Token(s) PROVE ShownIsPromised'
  BY <1>0, <1>6, TokenKeeps DEF ShownIsPromised, Streamed
<1>7. ASSUME \/ \E file \in Files : Toggle(file)
             \/ Clear \/ TypingCompletes \/ UNCHANGED vars
      PROVE  ShownIsPromised'
  <2>1. UNCHANGED <<op, text, queue, owed>>
    BY <1>7 DEF Toggle, Clear, TypingCompletes, vars, result
  <2> QED  BY <2>1 DEF ShownIsPromised, Streaming
<1>8. CASE Back
  BY <1>8 DEF Back, NotTyping, ShownIsPromised, Streaming
<1>9. CASE TypesNext
  BY <1>9 DEF TypesNext, ShownIsPromised, Streaming
<1> QED
  BY <1>1, <1>2, <1>3, <1>4, <1>5, <1>6, <1>7, <1>8, <1>9 DEF Next, Answer

\* With any number of overlapping transcriptions and files, the display ends
\* with exactly the text of the operation that ended last.
THEOREM PromisesKept == Spec => []ShownIsPromised
<1>1. Init => ShownIsPromised  BY DEF Init, ShownIsPromised
<1> QED  BY <1>1, TypeInit, TypeStep, ShownStep, PTL DEF Spec

-----------------------------------------------------------------------------
(* The selection.                                                          *)

LEMMA SelectionStep == TypeOK /\ SelectionIsListed /\ [Next]_vars => SelectionIsListed'
<1> SUFFICES ASSUME TypeOK, SelectionIsListed, [Next]_vars PROVE SelectionIsListed'
  OBVIOUS
<1>0. OpShape /\ BrowserType
  BY TypeParts DEF AllTyped
<1>1. CASE UNCHANGED <<folder, entries, picked>>
  BY <1>1 DEF SelectionIsListed
<1>2. CASE ClearBrowser
  BY <1>2 DEF ClearBrowser, SelectionIsListed
<1>3. ASSUME NEW s \in Slots, FolderAnswers(s) PROVE SelectionIsListed'
  BY <1>0, <1>3, AnswerType DEF SelectionIsListed
<1>4. ASSUME NEW file \in Files, Toggle(file) PROVE SelectionIsListed'
  BY <1>4 DEF Toggle, SelectionIsListed
<1>5. ASSUME NEW s \in Slots,
             \/ \E f \in Folders : Load(s, f) \/ Connected(s, f)
             \/ Transcribe(s) \/ Read(s) \/ Save(s)
      PROVE  UNCHANGED <<folder, entries, picked>>
  BY <1>5 DEF Load, Connected, Transcribe, Read, Save, browser
<1>6. ASSUME NEW s \in Slots, Answer(s)
      PROVE  UNCHANGED <<folder, entries, picked>> \/ ClearBrowser \/ FolderAnswers(s)
  BY <1>6
  DEF Answer, StartReady, ProviderNotReady, PrologueFails, SettingsAnswer, LoadAnswer,
      SilentAnswer, CheckAnswer, Token, Done, Fails, ReloadAnswer, ReadAnswer,
      WriteAnswer, ResaveAnswer, FileRequestEnds, browser
<1>7. ASSUME Clear \/ Back \/ TypesNext \/ TypingCompletes \/ UNCHANGED vars
      PROVE  UNCHANGED <<folder, entries, picked>> \/ ClearBrowser
  BY <1>7 DEF Clear, Back, TypesNext, TypingCompletes, vars, browser
<1> QED
  BY <1>1, <1>2, <1>3, <1>4, <1>5, <1>6, <1>7 DEF Next

\* Whatever answers arrive in whatever order, the selection is on display and
\* what is on display belongs to the folder that is open.
THEOREM SelectionListed == Spec => []SelectionIsListed
<1>1. Init => SelectionIsListed  BY DEF Init, SelectionIsListed
<1> QED  BY <1>1, TypeInit, TypeStep, SelectionStep, PTL DEF Spec

-----------------------------------------------------------------------------
(* The terminal-agent widget: its types.                                   *)

\* A request under way; only the first one of a page has no provider.
Asked == [at : {"sent", "answered"}, provider : Providers \cup {Nothing},
          kind : {"settings", "state", "new", "select", "save", "dialogs"},
          ref : MaybeRef, items : SUBSET Refs]
RequestFits(q) ==
  \/ q = Free
  \/ /\ q \in Asked
     /\ q.provider = Nothing => q.kind = "settings" /\ q.at = "sent"
RequestTypes ==
  /\ requests \in [Fetches -> {Free} \cup Asked]
  /\ \A s \in Fetches : RequestFits(requests[s])

Jobs == [at : {"running"}, provider : Providers, captured : MaybeRef]
ServerTypes ==
  /\ row \in [Providers -> MaybeRef] /\ listed \in [Providers -> SUBSET Refs]
  /\ saved \in Providers
  /\ job \in Jobs \cup {NoJob} /\ late \in SUBSET Jobs

ModalTypes == dialogRefs \in SUBSET Refs

ScreenTypes ==
  /\ provider \in Providers \cup {Nothing} /\ known \in BOOLEAN
  /\ shown \in MaybeRef
  /\ messages \in SUBSET Bubbles /\ touched \in BOOLEAN
  /\ key \in Keys \cup {Nothing}
  /\ storage \in [Keys -> (SUBSET Bubbles) \cup {Nothing}]

\* What is on display, and not about to change, is stored; and nothing is rendered
\* before the settings are there.
OnDisplay ==
  /\ key # Nothing /\ ~touched => storage[key] = messages
  /\ provider = Nothing => key = Nothing

LEMMA HydratedType ==
  ASSUME ScreenTypes, NEW k \in Keys, NEW msgs \in SUBSET Bubbles
  PROVE  /\ Hydrated(k, msgs) \in SUBSET Bubbles
         /\ storage[k] # Nothing => Hydrated(k, msgs) = storage[k]
         /\ TakesAlong(k, msgs) => Hydrated(k, msgs) = msgs /\ storage[k] = Nothing
         /\ TakesAlong(k, msgs) \in BOOLEAN
BY DEF ScreenTypes, Hydrated, TakesAlong

\* The steps of the display: updates are queued, or rendered.
Queues ==
  /\ UNCHANGED <<storage, key>>
  /\ provider' = provider \/ provider' \in Providers
  /\ known' \in BOOLEAN /\ shown' \in MaybeRef
  /\ \/ UNCHANGED <<messages, touched>>
     \/ /\ touched' = TRUE /\ messages' \in SUBSET Bubbles
        /\ messages' = {} \/ messages \cap Written \subseteq messages'
Rendering ==
  \E k \in Keys, msgs \in SUBSET Bubbles :
    /\ provider # Nothing /\ messages \cap Written \subseteq msgs
    /\ k = Current' /\ key' = k
    /\ provider' \in Providers /\ known' \in BOOLEAN /\ shown' \in MaybeRef
    /\ messages' = IF k = key THEN msgs ELSE Hydrated(k, msgs)
    /\ touched' = (k # key /\ ~TakesAlong(k, msgs))
    /\ storage' \in {storage, [storage EXCEPT ![k] = msgs]}
    /\ ~touched' => storage'[k] = msgs

LEMMA RendersMeans ==
  ASSUME ScreenTypes, provider # Nothing, NEW p \in Providers, NEW msgs \in SUBSET Bubbles,
         \/ Renders(p, known, shown, msgs, TRUE)
         \/ /\ Renders(p, known, shown, msgs, touched)
            /\ key = <<p, shown>> /\ ~touched => storage[key] = msgs,
         messages \cap Written \subseteq msgs
  PROVE  Rendering
<1>1. PICK k : k = <<p, shown>>
  OBVIOUS
<1>2. PICK set \in BOOLEAN :
        /\ provider' = p /\ known' = known /\ shown' = shown /\ key' = k
        /\ messages' = IF k = key THEN msgs ELSE Hydrated(k, msgs)
        /\ touched' = (k # key /\ ~TakesAlong(k, msgs))
        /\ storage' = IF set \/ (k # key /\ TakesAlong(k, msgs))
                        THEN [storage EXCEPT ![k] = msgs] ELSE storage
        /\ key = k /\ ~set => storage[key] = msgs
  <2>1. CASE Renders(p, known, shown, msgs, TRUE)
    BY <1>1, <2>1 DEF Renders
  <2>2. CASE /\ Renders(p, known, shown, msgs, touched)
             /\ key = <<p, shown>> /\ ~touched => storage[key] = msgs
    BY <1>1, <2>2 DEF Renders, ScreenTypes
  <2> QED  BY <2>1, <2>2
<1>3. k \in Keys /\ k = Current'
  BY <1>1, <1>2 DEF Keys, ScreenTypes, Current
<1>4. TakesAlong(k, msgs) \in BOOLEAN
  BY <1>3, HydratedType
<1>5. storage' \in {storage, [storage EXCEPT ![k] = msgs]}
  BY <1>2
<1>6. storage \in [Keys -> (SUBSET Bubbles) \cup {Nothing}]
  BY DEF ScreenTypes
<1>7. ~touched' => storage'[k] = msgs
  BY <1>2, <1>3, <1>4, <1>6
<1> QED  BY <1>2, <1>3, <1>5, <1>7 DEF Rendering, ScreenTypes

LEMMA QueuesTypes ==
  ASSUME ScreenTypes, OnDisplay, Queues
  PROVE  ScreenTypes' /\ OnDisplay'
<1>1. ScreenTypes'
  BY DEF ScreenTypes, Queues
<1>2. OnDisplay'
  BY WidgetAssumption DEF ScreenTypes, OnDisplay, Queues
<1> QED  BY <1>1, <1>2

LEMMA RenderingTypes ==
  ASSUME ScreenTypes, Rendering
  PROVE  ScreenTypes' /\ OnDisplay'
<1>1. PICK k \in Keys, msgs \in SUBSET Bubbles :
        /\ k = Current' /\ key' = k
        /\ provider' \in Providers /\ known' \in BOOLEAN /\ shown' \in MaybeRef
        /\ messages' = IF k = key THEN msgs ELSE Hydrated(k, msgs)
        /\ touched' = (k # key /\ ~TakesAlong(k, msgs))
        /\ storage' \in {storage, [storage EXCEPT ![k] = msgs]}
        /\ ~touched' => storage'[k] = msgs
  BY DEF Rendering
<1>2. /\ Hydrated(k, msgs) \in SUBSET Bubbles
      /\ TakesAlong(k, msgs) => Hydrated(k, msgs) = msgs
      /\ TakesAlong(k, msgs) \in BOOLEAN
  BY HydratedType
<1>3. storage' \in [Keys -> (SUBSET Bubbles) \cup {Nothing}]
  BY <1>1 DEF ScreenTypes
<1>4. messages' \in SUBSET Bubbles /\ touched' \in BOOLEAN
  BY <1>1, <1>2
<1>5. ScreenTypes'
  BY <1>1, <1>3, <1>4 DEF ScreenTypes
<1>6. provider' # Nothing
  BY <1>1, WidgetAssumption
<1>7. ~touched' => storage'[k] = messages'
  BY <1>1, <1>2
<1> QED  BY <1>1, <1>5, <1>6, <1>7 DEF OnDisplay

\* And what it keeps of what the user wrote.
Keeps ==
  \A k \in Keys : \/ (MessagesOf(k) \cap Written) \subseteq MessagesOf(k)'
                  \/ k = key /\ (Emptied \/ Overtaken)

\* Both are about the dialog on display, and the one that is to be rendered.
LEMMA MessagesMean ==
  ASSUME NEW k \in Keys
  PROVE  /\ k = key /\ k = Current => MessagesOf(k) = messages
         /\ ~(k = key /\ k = Current) /\ storage[k] # Nothing => MessagesOf(k) = storage[k]
         /\ ~(k = key /\ k = Current) /\ storage[k] = Nothing => MessagesOf(k) = {}
         /\ k = key' /\ k = Current' => MessagesOf(k)' = messages'
         /\ ~(k = key' /\ k = Current') /\ storage'[k] # Nothing => MessagesOf(k)' = storage'[k]
         /\ ~(k = key' /\ k = Current') /\ storage'[k] = Nothing => MessagesOf(k)' = {}
BY DEF MessagesOf

LEMMA DueMeans ==
  /\ Due <=> provider # Nothing /\ (touched \/ key # Current)
  /\ Overtaken <=> Due /\ Current' # Current
  /\ Emptied <=> messages' = {} /\ key' = key /\ Current' = Current
<1>1. Due <=> provider # Nothing /\ (touched \/ key # Current)
  BY DEF Due, Current
<1>2. (Current' = Current) <=> UNCHANGED Current
  OBVIOUS
<1> QED  BY <1>1, <1>2 DEF Overtaken, Emptied

LEMMA StoredIsSet ==
  ASSUME ScreenTypes
  PROVE  messages # Nothing
BY WidgetAssumption DEF ScreenTypes

\* The entries stay, and with them what is held of all dialogs but the one on
\* display; of that one too, unless it makes way with an update not yet rendered.
LEMMA EntriesKeep ==
  ASSUME ScreenTypes, OnDisplay, NEW k \in Keys, storage'[k] = storage[k],
         k = Current' /\ k = key' => k = Current /\ k = key,
         key' = key \/ key' = Current' \/ Current' # Current
  PROVE  \/ MessagesOf(k)' = MessagesOf(k)
         \/ k = key /\ Overtaken
         \/ k = key /\ k = Current /\ k = key' /\ k = Current' /\ MessagesOf(k)' = messages'
<1>1. CASE ~(k = key /\ k = Current)
  BY <1>1, MessagesMean
<1>2. CASE k = key /\ k = Current /\ k = key' /\ k = Current'
  BY <1>2, MessagesMean
<1>3. CASE k = key /\ k = Current /\ ~(k = key' /\ k = Current')
  <2>1. provider # Nothing /\ key # Nothing
    BY <1>3, WidgetAssumption DEF OnDisplay
  <2>2. CASE ~touched
    <3>1. storage[k] = messages /\ storage[k] # Nothing
      BY <1>3, <2>1, <2>2, StoredIsSet DEF OnDisplay
    <3> QED  BY <1>3, <3>1, MessagesMean
  <2>3. CASE touched /\ Current' # Current
    BY <1>3, <2>1, <2>3, DueMeans
  <2>4. CASE touched /\ Current' = Current
    BY <1>3, <2>4
  <2> QED  BY <2>2, <2>3, <2>4
<1> QED  BY <1>1, <1>2, <1>3

LEMMA QueuesKeep ==
  ASSUME ScreenTypes, OnDisplay, Queues
  PROVE  Keeps
<1> SUFFICES ASSUME NEW k \in Keys
             PROVE  \/ (MessagesOf(k) \cap Written) \subseteq MessagesOf(k)'
                    \/ k = key /\ (Emptied \/ Overtaken)
  BY DEF Keeps
<1>1. /\ storage' = storage /\ key' = key
      /\ messages' = messages \/ messages' = {} \/ messages \cap Written \subseteq messages'
  BY DEF Queues
<1>2. CASE k = key /\ k # Current /\ k = Current'
  <2>1. provider # Nothing
    BY <1>2, WidgetAssumption DEF OnDisplay
  <2> QED  BY <1>2, <2>1, DueMeans
<1>3. CASE ~(k = key /\ k # Current /\ k = Current')
  <2>1. \/ MessagesOf(k)' = MessagesOf(k)
        \/ k = key /\ Overtaken
        \/ k = key /\ k = Current /\ k = key' /\ k = Current' /\ MessagesOf(k)' = messages'
    BY <1>1, <1>3, EntriesKeep
  <2>2. CASE k = key /\ k = Current /\ k = key' /\ k = Current' /\ MessagesOf(k)' = messages'
    <3>1. MessagesOf(k) = messages
      BY <2>2, MessagesMean
    <3>2. CASE messages' = {}
      BY <2>2, <3>2, DueMeans
    <3>3. CASE messages' = messages \/ messages \cap Written \subseteq messages'
      BY <2>2, <3>1, <3>3
    <3> QED  BY <1>1, <3>2, <3>3
  <2> QED  BY <2>1, <2>2
<1> QED  BY <1>2, <1>3

LEMMA RenderingKeeps ==
  ASSUME ScreenTypes, OnDisplay, Rendering
  PROVE  Keeps
<1>1. PICK new \in Keys, msgs \in SUBSET Bubbles :
        /\ provider # Nothing /\ messages \cap Written \subseteq msgs
        /\ new = Current' /\ key' = new
        /\ messages' = IF new = key THEN msgs ELSE Hydrated(new, msgs)
        /\ storage' \in {storage, [storage EXCEPT ![new] = msgs]}
  BY DEF Rendering
<1>2. /\ new = key => messages' = msgs
      /\ new # key => messages' = Hydrated(new, msgs)
      /\ \A other \in Keys \ {new} : storage'[other] = storage[other]
  BY <1>1 DEF ScreenTypes
<1>3. storage[new] # Nothing => Hydrated(new, msgs) = storage[new]
  BY HydratedType
<1>4. Current' = new /\ key' = new
  BY <1>1
<1> SUFFICES ASSUME NEW k \in Keys
             PROVE  \/ (MessagesOf(k) \cap Written) \subseteq MessagesOf(k)'
                    \/ k = key /\ (Emptied \/ Overtaken)
  BY DEF Keeps
<1>5. CASE k # new
  <2>1. storage'[k] = storage[k]
    BY <1>2, <1>5
  <2>2. MessagesOf(k)' = MessagesOf(k) \/ (k = key /\ Overtaken)
    BY <1>4, <1>5, <2>1, EntriesKeep
  <2> QED  BY <2>2
<1>6. CASE k = new /\ new # key
  <2>1. MessagesOf(k)' = messages'
    BY <1>4, <1>6, MessagesMean
  <2>2. MessagesOf(k) = storage[k] \/ MessagesOf(k) = {}
    BY <1>6, MessagesMean
  <2>3. storage[k] # Nothing \/ MessagesOf(k) = {}
    BY <1>6, MessagesMean
  <2> QED  BY <1>2, <1>3, <1>6, <2>1, <2>2, <2>3
<1>7. CASE k = new /\ new = key
  <2>1. MessagesOf(k)' = msgs
    BY <1>2, <1>4, <1>7, MessagesMean
  <2>2. CASE Current = k
    BY <1>1, <1>7, <2>1, <2>2, MessagesMean
  <2>3. CASE Current # k
    BY <1>1, <1>4, <1>7, <2>3, DueMeans
  <2> QED  BY <2>2, <2>3
<1> QED  BY <1>5, <1>6, <1>7

LEMMA ReloadKeeps ==
  ASSUME ScreenTypes, OnDisplay, Reload
  PROVE  Keeps
<1>1. /\ storage' = storage /\ provider' = Nothing /\ key' = Nothing /\ key # Nothing
  BY DEF Reload, Rendered
<1>2. provider # Nothing /\ Current' # Current
  BY <1>1 DEF OnDisplay, Current
<1> SUFFICES ASSUME NEW k \in Keys
             PROVE  MessagesOf(k)' = MessagesOf(k) \/ (k = key /\ Overtaken)
  BY DEF Keeps
<1>3. k # key'
  BY <1>1, WidgetAssumption
<1> QED  BY <1>1, <1>2, <1>3, EntriesKeep
-----------------------------------------------------------------------------
(* The message's stream and its events.                                    *)

Streams == [at : {"opening", "open"}, user : Ids, bubble : Ids,
            provider : Providers, got : BOOLEAN]
StreamTypes ==
  /\ stream \in Streams \cup {NoStream}
  /\ provider = Nothing => stream = NoStream
  /\ retry \in Ids \cup {Nothing} /\ sends \in 0 .. MaxSends
  /\ certain \in BOOLEAN

\* What comes on a stream: once the message has its end, nothing follows.
Told == [kind : {"text", "echo", "done", "error", "end"}, ref : MaybeRef]
EventsFit ==
  /\ events \in Seq(Told)
  /\ stream.at # "open" => events = <<>> /\ job = NoJob
  /\ \A i \in 1 .. Len(events) :
       /\ events[i].kind \in {"error", "end"} => i = Len(events)
       /\ job # NoJob => events[i].kind \in {"text", "echo"}

WidgetTypes == /\ RequestTypes /\ ServerTypes /\ ModalTypes /\ ScreenTypes /\ StreamTypes
               /\ OnDisplay /\ EventsFit

LEMMA HeadFits ==
  ASSUME EventsFit, events # <<>>
  PROVE  Head(events) \in Told /\ Len(events) \in Nat \ {0} /\ Head(events) = events[1]
BY DEF EventsFit

LEMMA GivesUpQueues ==
  ASSUME ScreenTypes, GivesUp
  PROVE  Queues
<1>1. WithoutBubble \in SUBSET Bubbles
  BY DEF WithoutBubble, ScreenTypes
<1>2. messages \cap Written \subseteq WithoutBubble
  BY DEF WithoutBubble, Written, User, Empty, Text
<1>3. /\ messages' = WithoutBubble /\ touched' = TRUE
      /\ UNCHANGED <<provider, known, shown, storage, key>>
  BY DEF GivesUp, Displays, Sets
<1> QED  BY <1>1, <1>2, <1>3 DEF Queues, ScreenTypes

\* The tab is rendered once there are settings.
LEMMA RenderedMeans ==
  ASSUME ScreenTypes, OnDisplay, Rendered
  PROVE  /\ key \in Keys /\ provider \in Providers
         /\ ActiveProvider \in Providers
BY DEF Rendered, ScreenTypes, OnDisplay, ActiveProvider, Keys

\* The display changes by queued updates, a render, or a reload of the page.
LEMMA DisplaySteps ==
  WidgetTypes /\ [WidgetNext]_widgetVars => UNCHANGED screen \/ Queues \/ Rendering \/ Reload
<1> SUFFICES ASSUME WidgetTypes, [WidgetNext]_widgetVars
             PROVE  UNCHANGED screen \/ Queues \/ Rendering \/ Reload
  OBVIOUS
<1>0. /\ ScreenTypes /\ StreamTypes /\ RequestTypes /\ EventsFit /\ OnDisplay
      /\ stream.at # "idle" <=> stream # NoStream
  BY DEF WidgetTypes, StreamTypes, Streams, NoStream
<1>1. ASSUME NEW p \in Providers, ChangesSettings(p) PROVE Rendering
  <2>1. Renders(p, known, shown, messages, touched) /\ Rendered
    BY <1>1 DEF ChangesSettings
  <2>2. provider # Nothing /\ key # Nothing
    BY <1>0, <2>1, WidgetAssumption, RenderedMeans DEF Rendered
  <2>3. ~touched => storage[key] = messages
    BY <1>0, <2>2 DEF OnDisplay
  <2>4. messages \in SUBSET Bubbles /\ messages \cap Written \subseteq messages
    BY <1>0 DEF ScreenTypes
  <2> QED  BY <1>0, <2>1, <2>2, <2>3, <2>4, RendersMeans
<1>2. ASSUME NEW s \in Fetches, Arrive(s) PROVE UNCHANGED screen \/ Queues
  <2> DEFINE q == requests[s]
  <2>1. /\ q \in Asked /\ q.provider # Nothing /\ q.at = "answered"
    BY <1>0, <1>2, WidgetAssumption DEF Arrive, RequestTypes, RequestFits, Asked, Free
  <2>2. q.provider \in Providers /\ q.ref \in MaybeRef
    BY <2>1 DEF Asked
  <2>3. CASE ArriveSettings(s, q)
    BY <1>0, <2>2, <2>3 DEF ArriveSettings, Queues, ScreenTypes
  <2>4. CASE ArriveState(s, q)
    BY <1>0, <2>2, <2>4 DEF ArriveState, Shows, Queues, ScreenTypes
  <2>5. CASE ArriveDialog(s, q)
    BY <1>0, <2>2, <2>5 DEF ArriveDialog, Shows, Sets, Queues, ScreenTypes
  <2>6. CASE ArriveDialogs(s, q)
    BY <2>6 DEF ArriveDialogs
  <2> QED  BY <1>2, <2>3, <2>4, <2>5, <2>6 DEF Arrive
<1>3. ASSUME NEW user \in Ids, Submit(user) PROVE Rendering
  <2> DEFINE msgs == messages \cup {User(user), Empty(sends')}
  <2>1. sends' \in Ids
    BY <1>0, <1>3, WidgetAssumption DEF Submit, StreamTypes, Ids
  <2>2. Renders(provider, known, shown, msgs, TRUE) /\ Rendered
    BY <1>3 DEF Submit
  <2>3. msgs \in SUBSET Bubbles
    BY <1>0, <2>1 DEF ScreenTypes, Bubbles, User, Empty
  <2>4. provider \in Providers /\ provider # Nothing
    BY <1>0, <2>2, WidgetAssumption, RenderedMeans
  <2> HIDE DEF msgs
  <2>5. messages \cap Written \subseteq msgs
    BY DEF msgs
  <2> QED  BY <1>0, <2>2, <2>3, <2>4, <2>5, RendersMeans
<1>4. CASE Send
  <2>1. sends + 1 \in Ids
    BY <1>0, <1>4, WidgetAssumption DEF Send, Submit, StreamTypes, Ids
  <2>2. Submit(sends + 1)
    BY <1>4 DEF Send
  <2> QED  BY <1>3, <2>1, <2>2
<1>5. CASE Retry
  BY <1>0, <1>3, <1>5 DEF Retry, StreamTypes
<1>6. CASE StreamFails
  BY <1>0, <1>6, GivesUpQueues DEF StreamFails
<1>7. CASE TakeChunk
  <2> DEFINE msgs == IF Head(events).kind = "text" /\ Empty(stream.bubble) \in messages
                       THEN (messages \ {Empty(stream.bubble)}) \cup {Text(stream.bubble)}
                       ELSE messages
  <2>1. Displays(msgs)
    BY <1>7 DEF TakeChunk
  <2>2. msgs \in SUBSET Bubbles
    <3>1. CASE Empty(stream.bubble) \in messages
      <4>1. Empty(stream.bubble) \in Bubbles
        BY <1>0, <3>1 DEF ScreenTypes
      <4> QED  BY <1>0, <4>1 DEF ScreenTypes, Bubbles, Empty, Text
    <3>2. CASE Empty(stream.bubble) \notin messages
      BY <1>0, <3>2 DEF ScreenTypes
    <3> QED  BY <3>1, <3>2
  <2>3. messages \cap Written \subseteq msgs
    BY DEF Written, User, Empty, Text
  <2> HIDE DEF msgs
  <2> QED  BY <1>0, <2>1, <2>2, <2>3 DEF Displays, Sets, Queues, ScreenTypes
<1>8. CASE TakeDone
  <2>1. CASE UNCHANGED screen
    BY <2>1
  <2>2. CASE ~UNCHANGED screen
    <3> DEFINE ref == ShownAfterDone(Head(events).ref)
    <3>1. Head(events).ref \in MaybeRef
      BY <1>0, <1>8, HeadFits DEF TakeDone, Told
    <3>2. ref \in MaybeRef
      BY <1>0, <3>1 DEF ScreenTypes, ShownAfterDone
    <3>3. Shows(ref) /\ UNCHANGED <<messages, touched>>
      BY <1>8, <2>2 DEF TakeDone
    <3> HIDE DEF ref
    <3> QED  BY <1>0, <3>2, <3>3 DEF Shows, Queues, ScreenTypes
  <2> QED  BY <2>1, <2>2
<1>9. ASSUME TakeError \/ TakeEnd PROVE UNCHANGED screen \/ Queues
  BY <1>0, <1>9, GivesUpQueues DEF TakeError, TakeEnd
<1>10. CASE Render
  <2>1. Renders(provider, known, shown, messages, touched) /\ provider # Nothing
    BY <1>10 DEF Render, Due
  <2>2. key = <<provider, shown>> /\ ~touched => storage[key] = messages
    BY <1>10 DEF Render, Due
  <2>3. messages \in SUBSET Bubbles /\ messages \cap Written \subseteq messages
    BY <1>0 DEF ScreenTypes
  <2>4. provider \in Providers
    BY <1>0, <2>1 DEF ScreenTypes
  <2> QED  BY <1>0, <2>1, <2>2, <2>3, <2>4, RendersMeans
<1>11. ASSUME NEW s \in Fetches, Serve(s) \/ RequestFails(s) PROVE UNCHANGED screen
  BY <1>11 DEF Serve, RequestFails
<1>12. ASSUME NEW j \in late, LateNothing(j) \/ \E ref \in MaybeRef : LateDone(j, ref)
       PROVE UNCHANGED screen
  BY <1>12 DEF LateNothing, LateDone
<1>13. ASSUME \/ LoadSettings \/ NewDialog \/ OpenDialogs \/ SelectDialog \/ SaveSettings
              \/ Open \/ AssistantChunk \/ StreamEnds
       PROVE UNCHANGED screen
  BY <1>13 DEF LoadSettings, NewDialog, OpenDialogs, SelectDialog, SaveSettings, Asks,
     Open, AssistantChunk, StreamEnds, AgentError, IdleTimeout, ResumeFailed, AssistantDone
<1>14. ASSUME NEW p \in Providers, ChangeProvider(p) PROVE Rendering
  BY <1>1, <1>14 DEF ChangeProvider
<1>15. CASE EditSettings
  <2>1. ChangesSettings(provider)
    BY <1>15 DEF EditSettings
  <2>2. provider \in Providers
    BY <1>0, <2>1, RenderedMeans DEF ChangesSettings
  <2> QED  BY <1>1, <2>1, <2>2
<1>16. CASE UNCHANGED widgetVars
  BY <1>16 DEF widgetVars
<1> QED
  BY <1>2, <1>4, <1>5, <1>6, <1>7, <1>8, <1>9, <1>10, <1>11, <1>12, <1>13, <1>14, <1>15, <1>16
  DEF WidgetNext, Take

LEMMA DisplayStep ==
  WidgetTypes /\ [WidgetNext]_widgetVars => ScreenTypes' /\ OnDisplay'
<1> SUFFICES ASSUME WidgetTypes, [WidgetNext]_widgetVars
             PROVE  ScreenTypes' /\ OnDisplay'
  OBVIOUS
<1>0. ScreenTypes /\ OnDisplay
  BY DEF WidgetTypes
<1>1. CASE UNCHANGED screen
  BY <1>0, <1>1 DEF screen, queued, ScreenTypes, OnDisplay
<1>2. CASE Reload
  BY <1>0, <1>2 DEF Reload, ScreenTypes, OnDisplay, MaybeRef
<1> QED  BY <1>0, <1>1, <1>2, DisplaySteps, QueuesTypes, RenderingTypes

LEMMA WrittenStep ==
  WidgetTypes /\ [WidgetNext]_widgetVars => Keeps \/ UNCHANGED widgetVars
<1> SUFFICES ASSUME WidgetTypes, [WidgetNext]_widgetVars PROVE Keeps
  OBVIOUS
<1>0. ScreenTypes /\ OnDisplay
  BY DEF WidgetTypes
<1>1. CASE UNCHANGED screen
  <2> SUFFICES ASSUME NEW k \in Keys PROVE MessagesOf(k)' = MessagesOf(k)
    BY DEF Keeps
  <2> QED  BY <1>1 DEF screen, queued, MessagesOf, Current
<1> QED
  BY <1>0, <1>1, DisplaySteps, QueuesKeep, RenderingKeeps, ReloadKeeps

-----------------------------------------------------------------------------
(* The requests.                                                           *)

LEMMA SentFits ==
  ASSUME NEW p \in Providers \cup {Nothing}, NEW ref \in MaybeRef,
         NEW kind \in {"settings", "state", "new", "select", "save", "dialogs"},
         p = Nothing => kind = "settings"
  PROVE  /\ Sent(kind, p, ref) \in Asked /\ RequestFits(Sent(kind, p, ref))
         /\ Sent(kind, p, ref) # Free
         /\ Sent(kind, p, ref).kind = kind /\ Sent(kind, p, ref).provider = p
         /\ Sent(kind, p, ref).at = "sent"
BY DEF Sent, Asked, RequestFits, Free

\* One slot changes to q.
Puts(s, q) == requests' = [requests EXCEPT ![s] = q]

LEMMA PutsType ==
  ASSUME RequestTypes, NEW s \in Fetches, NEW q, RequestFits(q), Puts(s, q)
  PROVE  /\ RequestTypes'
         /\ requests'[s] = q /\ \A t \in Fetches \ {s} : requests'[t] = requests[t]
BY DEF RequestTypes, RequestFits, Puts

LEMMA FetchPuts ==
  ASSUME RequestTypes, NEW kind, NEW p, NEW ref, Fetch(kind, p, ref)
  PROVE  \E s \in Fetches : requests[s] = Free /\ Puts(s, Sent(kind, p, ref))
<1> DEFINE s == CHOOSE s \in FreeSlots : TRUE
<1>1. s \in FreeSlots
  BY DEF Fetch
<1>2. Puts(s, Sent(kind, p, ref))
  BY DEF Fetch, Puts
<1> HIDE DEF s
<1>3. s \in Fetches /\ requests[s] = Free
  BY <1>1 DEF FreeSlots, RequestTypes, RequestFits, Asked
<1> QED  BY <1>2, <1>3

LEMMA AnsweredPuts ==
  ASSUME RequestTypes, NEW s \in Fetches, requests[s] # Free,
         NEW p \in Providers, NEW ref \in MaybeRef, Answered(s, p, ref)
  PROVE  \E q \in Asked :
           /\ q.at = "answered" /\ q.kind = requests[s].kind
           /\ q.provider = p /\ q.ref = ref
           /\ RequestFits(q) /\ q # Free /\ Puts(s, q)
<1> DEFINE q == [requests[s] EXCEPT !.at = "answered", !.provider = p, !.ref = ref]
<1>1. requests[s] \in Asked
  BY DEF RequestTypes, RequestFits
<1>2. /\ q \in Asked /\ q.at = "answered" /\ q.kind = requests[s].kind
      /\ q.provider = p /\ q.ref = ref
  BY <1>1 DEF Asked
<1>3. Puts(s, q)
  BY DEF Answered, Puts, RequestTypes
<1> HIDE DEF q
<1>4. RequestFits(q) /\ q # Free
  BY <1>2, WidgetAssumption DEF RequestFits, Free
<1> QED  BY <1>2, <1>3, <1>4

\* An operation of the user asks one request of a free slot, for the provider that
\* was rendered last.
AsksOne(kind) ==
  \E s \in Fetches, ref \in MaybeRef :
    requests[s] = Free /\ Puts(s, Sent(kind, ActiveProvider, ref))

LEMMA UserAsks ==
  ASSUME WidgetTypes, NewDialog \/ OpenDialogs \/ SelectDialog \/ SaveSettings
  PROVE  /\ Rendered /\ ActiveProvider \in Providers
         /\ \E kind \in {"new", "dialogs", "select", "save"} :
              AsksOne(kind) /\ (kind = "dialogs" => OpenDialogs)
         /\ certain' => Quiet /\ (OpenDialogs => certain)
<1>0. RequestTypes /\ ModalTypes /\ ScreenTypes /\ OnDisplay /\ Nothing \in MaybeRef
  BY DEF WidgetTypes, MaybeRef
<1>1. \E kind \in {"new", "dialogs", "select", "save"}, ref \in MaybeRef :
        /\ Fetch(kind, ActiveProvider, ref) /\ Rendered /\ (certain' => Quiet)
        /\ kind = "dialogs" => OpenDialogs
  <2>1. CASE NewDialog
    BY <1>0, <2>1 DEF NewDialog, Asks
  <2>2. CASE OpenDialogs
    BY <1>0, <2>2 DEF OpenDialogs
  <2>3. CASE SelectDialog
    BY <1>0, <2>3 DEF SelectDialog, Asks, ModalTypes, MaybeRef
  <2>4. CASE SaveSettings
    BY <1>0, <2>4 DEF SaveSettings, Asks
  <2> QED  BY <2>1, <2>2, <2>3, <2>4
<1>5. PICK kind \in {"new", "dialogs", "select", "save"}, ref \in MaybeRef :
        /\ Fetch(kind, ActiveProvider, ref) /\ Rendered /\ (certain' => Quiet)
        /\ kind = "dialogs" => OpenDialogs
  BY <1>1
<1>2. ActiveProvider \in Providers
  BY <1>0, <1>5, RenderedMeans
<1>3. AsksOne(kind)
  BY <1>0, <1>5, FetchPuts DEF AsksOne
<1>4. OpenDialogs => (certain' => certain)
  BY DEF OpenDialogs
<1> QED  BY <1>2, <1>3, <1>4, <1>5

\* The server answers a request, with what its row says then.
LEMMA Served ==
  ASSUME WidgetTypes, NEW s \in Fetches, Serve(s)
  PROVE  /\ requests[s] # Free
         /\ \E q \in Asked :
              /\ q.at = "answered" /\ q.kind = requests[s].kind
              /\ RequestFits(q) /\ q # Free /\ Puts(s, q)
              /\ q.kind \in {"state", "new", "select"} =>
                   q.provider = requests[s].provider /\ q.ref = row'[q.provider]
         /\ row' \in [Providers -> MaybeRef] /\ saved' \in Providers
         /\ requests[s].kind \in {"state", "dialogs"} => row' = row
<1>0. RequestTypes /\ ServerTypes /\ Nothing \in MaybeRef
  BY DEF WidgetTypes, MaybeRef
<1> DEFINE p == requests[s].provider
           Goal == \E q \in Asked :
              /\ q.at = "answered" /\ q.kind = requests[s].kind
              /\ RequestFits(q) /\ q # Free /\ Puts(s, q)
              /\ q.kind \in {"state", "new", "select"} =>
                   q.provider = requests[s].provider /\ q.ref = row'[q.provider]
<1>1. requests[s].at = "sent" /\ requests[s] # Free
  BY DEF Serve, Free
<1>2. /\ requests[s] \in Asked
      /\ p \in Providers \cup {Nothing} /\ (p = Nothing => requests[s].kind = "settings")
      /\ requests[s].ref \in MaybeRef
  BY <1>0, <1>1 DEF RequestTypes, RequestFits, Asked
<1>3. CASE ServeSettings(s)
  <2>1. Answered(s, saved, Nothing) /\ row' = row /\ saved' = saved /\ requests[s].kind = "settings"
    BY <1>3 DEF ServeSettings
  <2>2. Goal
    BY <1>0, <1>1, <2>1, AnsweredPuts DEF ServerTypes
  <2> QED  BY <1>0, <1>1, <2>1, <2>2 DEF ServerTypes
<1>4. CASE ServeState(s, p)
  <2>1. Answered(s, p, row[p]) /\ row' = row /\ saved' = saved /\ p \in Providers
    BY <1>2, <1>4 DEF ServeState, DialogState
  <2>2. row[p] \in MaybeRef
    BY <1>0, <2>1 DEF ServerTypes
  <2>3. Goal
    BY <1>0, <1>1, <2>1, <2>2, AnsweredPuts
  <2> QED  BY <1>0, <1>1, <2>1, <2>3 DEF ServerTypes
<1>5. CASE ServeNew(s, p)
  <2>1. /\ Answered(s, p, Nothing) /\ row' = [row EXCEPT ![p] = Nothing] /\ saved' = saved
        /\ p \in Providers
    BY <1>2, <1>5 DEF ServeNew, Clears
  <2>4. requests[s].kind = "new"
    BY <1>5 DEF ServeNew
  <2>2. row' \in [Providers -> MaybeRef] /\ row'[p] = Nothing
    BY <1>0, <2>1 DEF ServerTypes
  <2>3. Goal
    BY <1>0, <1>1, <2>1, <2>2, AnsweredPuts
  <2> QED  BY <1>0, <1>1, <2>1, <2>2, <2>3, <2>4 DEF ServerTypes
<1>6. CASE ServeSelect(s, p, requests[s].ref)
  <2> DEFINE ref == requests[s].ref
  <2>1. /\ Answered(s, p, ref) /\ row' = [row EXCEPT ![p] = ref] /\ saved' = saved
        /\ p \in Providers
    BY <1>2, <1>6 DEF ServeSelect, Resumes
  <2>4. requests[s].kind = "select"
    BY <1>6 DEF ServeSelect
  <2>2. row' \in [Providers -> MaybeRef] /\ row'[p] = ref
    BY <1>0, <1>2, <2>1 DEF ServerTypes
  <2>3. Goal
    BY <1>0, <1>1, <1>2, <2>1, <2>2, AnsweredPuts
  <2> QED  BY <1>0, <1>1, <2>1, <2>2, <2>3, <2>4 DEF ServerTypes
<1>7. CASE ServeSave(s, p)
  <2>1. /\ Answered(s, p, Nothing) /\ row' = RowsAfterSave(p) /\ saved' = p
        /\ p \in Providers /\ requests[s].kind = "save"
    BY <1>2, <1>7 DEF ServeSave, Activates
  <2>2. row' \in [Providers -> MaybeRef]
    BY <1>0, <2>1 DEF ServerTypes, RowsAfterSave
  <2>3. Goal
    BY <1>0, <1>1, <2>1, AnsweredPuts
  <2> QED  BY <1>1, <2>1, <2>2, <2>3
<1>8. CASE ServeDialogs(s, p)
  <2> DEFINE q == [requests[s] EXCEPT !.at = "answered", !.items = listed[p]]
  <2>1. /\ requests[s].kind = "dialogs" /\ UNCHANGED <<row, saved>> /\ p \in Providers
        /\ requests' = [requests EXCEPT ![s].at = "answered", ![s].items = listed[p]]
    BY <1>2, <1>8 DEF ServeDialogs, Dialogs
  <2>2. listed[p] \in SUBSET Refs
    BY <1>0, <2>1 DEF ServerTypes
  <2>3. /\ q \in Asked /\ q.at = "answered" /\ q.kind = requests[s].kind
        /\ q.provider = requests[s].provider
    BY <1>2, <2>2 DEF Asked
  <2>4. Puts(s, q)
    BY <1>0, <2>1 DEF Puts, RequestTypes
  <2> HIDE DEF q
  <2>5. RequestFits(q) /\ q # Free
    BY <2>1, <2>3, WidgetAssumption DEF RequestFits, Free
  <2>6. Goal
    BY <2>1, <2>3, <2>4, <2>5
  <2> QED  BY <1>0, <1>1, <2>1, <2>6 DEF ServerTypes
<1> QED  BY <1>3, <1>4, <1>5, <1>6, <1>7, <1>8 DEF Serve

\* An answer arrives: the settings ask for the dialog, the others show theirs, or
\* the refs of the modal.
LEMMA Arrived ==
  ASSUME WidgetTypes, NEW s \in Fetches, Arrive(s)
  PROVE  /\ requests[s] \in Asked /\ requests[s] # Free
         /\ requests[s].provider \in Providers /\ requests[s].at = "answered"
         /\ retry' = retry \/ retry' = Nothing
         /\ dialogRefs' \in {dialogRefs, {}, requests[s].items}
         /\ \/ /\ requests[s].kind \in {"settings", "save"}
               /\ provider' = requests[s].provider
               /\ Puts(s, Sent("state", provider', Nothing))
            \/ /\ requests[s].kind \in {"state", "new", "select"}
               /\ provider' = provider /\ known' = TRUE /\ shown' = requests[s].ref
               /\ Puts(s, Free)
            \/ /\ requests[s].kind = "dialogs"
               /\ UNCHANGED <<provider, known, shown>>
               /\ Puts(s, Free)
<1>0. RequestTypes
  BY DEF WidgetTypes
<1> DEFINE q == requests[s]
<1>1. q.at = "answered" /\ q # Free
  BY DEF Arrive, Free
<1>2. q \in Asked /\ q.provider \in Providers
  BY <1>0, <1>1 DEF RequestTypes, RequestFits, Asked
<1>3. CASE ArriveSettings(s, q)
  BY <1>1, <1>2, <1>3 DEF ArriveSettings, Puts
<1>4. CASE ArriveState(s, q)
  BY <1>1, <1>2, <1>4 DEF ArriveState, Shows, Puts
<1>5. CASE ArriveDialog(s, q)
  BY <1>1, <1>2, <1>5 DEF ArriveDialog, Shows, Puts
<1>6. CASE ArriveDialogs(s, q)
  BY <1>1, <1>2, <1>6 DEF ArriveDialogs, Puts, screen, queued
<1> QED  BY <1>3, <1>4, <1>5, <1>6 DEF Arrive

\* Both requests of a change of the provider.
LEMMA ProviderChanged ==
  ASSUME WidgetTypes, NEW p \in Providers, ChangeProvider(p)
  PROVE  \E s, t \in Fetches :
           /\ s # t /\ requests[s] = Free /\ requests[t] = Free
           /\ requests' = [requests EXCEPT ![s] = Sent("state", p, Nothing),
                                           ![t] = Sent("state", p, Nothing)]
           /\ requests'[s] = Sent("state", p, Nothing)
           /\ requests'[t] = Sent("state", p, Nothing)
           /\ \A r \in Fetches \ {s, t} : requests'[r] = requests[r]
<1>1. PICK s \in FreeSlots, t \in FreeSlots :
        /\ s # t
        /\ requests' = [requests EXCEPT ![s] = Sent("state", p, Nothing),
                                        ![t] = Sent("state", p, Nothing)]
  BY DEF ChangeProvider
<1>2. /\ s \in Fetches /\ t \in Fetches /\ requests[s] = Free /\ requests[t] = Free
      /\ requests \in [Fetches -> {Free} \cup Asked]
  BY DEF WidgetTypes, RequestTypes, RequestFits, FreeSlots, Asked
<1> QED  BY <1>1, <1>2

\* The steps that leave the requests alone.
LEMMA Unasked ==
  ASSUME \/ Render \/ Send \/ Retry \/ Open \/ StreamFails \/ Take \/ AssistantChunk
         \/ StreamEnds \/ Reload \/ UNCHANGED widgetVars
         \/ \E j \in late : LateNothing(j) \/ \E ref \in MaybeRef : LateDone(j, ref)
  PROVE  UNCHANGED requests
BY DEF Render, Send, Retry, Submit, Open, StreamFails, Take, TakeChunk, TakeDone, TakeError, TakeEnd,
   AssistantChunk, StreamEnds, AgentError, IdleTimeout, ResumeFailed, AssistantDone, Reload,
   LateNothing, LateDone, widgetVars

LEMMA RequestStep == WidgetTypes /\ [WidgetNext]_widgetVars => RequestTypes'
<1> SUFFICES ASSUME WidgetTypes, [WidgetNext]_widgetVars PROVE RequestTypes'
  OBVIOUS
<1>0. RequestTypes /\ Nothing \in MaybeRef /\ RequestFits(Free)
  BY DEF WidgetTypes, MaybeRef, RequestFits
<1>1. CASE LoadSettings
  <2>1. PICK s \in Fetches : Puts(s, Sent("settings", Nothing, Nothing))
    BY <1>0, <1>1, FetchPuts DEF LoadSettings
  <2> QED  BY <1>0, <2>1, SentFits, PutsType
<1>2. CASE NewDialog \/ OpenDialogs \/ SelectDialog \/ SaveSettings
  <2>1. PICK kind \in {"new", "dialogs", "select", "save"} : AsksOne(kind)
    BY <1>2, UserAsks
  <2>2. PICK s \in Fetches, ref \in MaybeRef : Puts(s, Sent(kind, ActiveProvider, ref))
    BY <2>1 DEF AsksOne
  <2>3. ActiveProvider \in Providers
    BY <1>2, UserAsks
  <2>4. RequestFits(Sent(kind, ActiveProvider, ref))
    BY <2>3, SentFits, WidgetAssumption
  <2> QED  BY <1>0, <2>2, <2>4, PutsType
<1>3. ASSUME NEW p \in Providers, ChangeProvider(p) PROVE RequestTypes'
  <2>1. PICK s \in Fetches, t \in Fetches :
           /\ s # t
           /\ requests' = [requests EXCEPT ![s] = Sent("state", p, Nothing),
                                           ![t] = Sent("state", p, Nothing)]
           /\ requests'[s] = Sent("state", p, Nothing)
           /\ requests'[t] = Sent("state", p, Nothing)
           /\ \A r \in Fetches \ {s, t} : requests'[r] = requests[r]
    BY <1>3, ProviderChanged
  <2>2. Sent("state", p, Nothing) \in Asked /\ RequestFits(Sent("state", p, Nothing))
    BY <1>0, SentFits, WidgetAssumption
  <2>3. requests' \in [Fetches -> {Free} \cup Asked]
    BY <1>0, <2>1, <2>2 DEF RequestTypes
  <2>4. ASSUME NEW r \in Fetches PROVE RequestFits(requests'[r])
    BY <1>0, <2>1, <2>2 DEF RequestTypes
  <2> QED  BY <2>3, <2>4 DEF RequestTypes, RequestFits
<1>4. ASSUME NEW s \in Fetches, Serve(s) PROVE RequestTypes'
  BY <1>0, <1>4, Served, PutsType
<1>5. ASSUME NEW s \in Fetches, Arrive(s) PROVE RequestTypes'
  <2>1. \/ Puts(s, Free)
        \/ /\ requests[s].provider \in Providers
           /\ Puts(s, Sent("state", requests[s].provider, Nothing))
    BY <1>5, Arrived
  <2>2. requests[s].provider \in Providers =>
          RequestFits(Sent("state", requests[s].provider, Nothing))
    BY <1>0, SentFits, WidgetAssumption
  <2> QED  BY <1>0, <2>1, <2>2, PutsType
<1>6. ASSUME NEW s \in Fetches, RequestFails(s) PROVE RequestTypes'
  BY <1>0, <1>6, PutsType DEF RequestFails, Puts
<1>7. CASE UNCHANGED requests
  BY <1>0, <1>7 DEF RequestTypes, RequestFits
<1>8. CASE EditSettings
  <2>1. PICK s \in Fetches : Puts(s, Sent("state", provider, Nothing))
    BY <1>0, <1>8, FetchPuts DEF EditSettings
  <2>2. provider \in Providers
    BY <1>8, RenderedMeans DEF EditSettings, ChangesSettings, WidgetTypes
  <2>3. RequestFits(Sent("state", provider, Nothing))
    BY <1>0, <2>2, SentFits, WidgetAssumption
  <2> QED  BY <1>0, <2>1, <2>3, PutsType
<1> QED
  BY <1>1, <1>2, <1>3, <1>4, <1>5, <1>6, <1>7, <1>8, Unasked DEF WidgetNext

\* The modal lists refs.
LEMMA ModalStep == WidgetTypes /\ [WidgetNext]_widgetVars => ModalTypes'
<1> SUFFICES ASSUME WidgetTypes, [WidgetNext]_widgetVars PROVE ModalTypes'
  OBVIOUS
<1>0. ModalTypes
  BY DEF WidgetTypes
<1>1. ASSUME NEW s \in Fetches, Arrive(s) PROVE ModalTypes'
  <2>1. requests[s].items \in SUBSET Refs /\ dialogRefs' \in {dialogRefs, {}, requests[s].items}
    BY <1>1, Arrived DEF Asked
  <2> QED  BY <1>0, <2>1 DEF ModalTypes
<1>2. CASE Reload
  BY <1>2 DEF Reload, ModalTypes
<1>3. ASSUME \/ LoadSettings \/ NewDialog \/ OpenDialogs \/ SelectDialog \/ SaveSettings
             \/ EditSettings \/ \E p \in Providers : ChangeProvider(p)
             \/ \E s \in Fetches : Serve(s) \/ RequestFails(s)
      PROVE  UNCHANGED dialogRefs
  BY <1>3 DEF LoadSettings, NewDialog, OpenDialogs, SelectDialog, SaveSettings, Asks,
     EditSettings, ChangeProvider, ChangesSettings, Serve, RequestFails
<1>4. ASSUME \/ Render \/ Send \/ Retry \/ Open \/ StreamFails \/ Take \/ AssistantChunk
             \/ StreamEnds \/ UNCHANGED widgetVars
             \/ \E j \in late : LateNothing(j) \/ \E ref \in MaybeRef : LateDone(j, ref)
      PROVE  UNCHANGED dialogRefs
  BY <1>4 DEF Render, Send, Retry, Submit, Open, StreamFails, Take, TakeChunk, TakeDone,
     TakeError, TakeEnd, AssistantChunk, StreamEnds, AgentError, IdleTimeout, ResumeFailed,
     AssistantDone, LateNothing, LateDone, widgetVars
<1>5. CASE UNCHANGED dialogRefs
  BY <1>0, <1>5 DEF ModalTypes
<1> QED  BY <1>1, <1>2, <1>3, <1>4, <1>5 DEF WidgetNext

-----------------------------------------------------------------------------
(* The server's end of the stream, and the tab's.                          *)

\* What the steps of the stream do to the rows, the subscriptions and the events.
LEMMA AnswerTypes ==
  ASSUME ServerTypes, NEW j \in Jobs, NEW reported \in MaybeRef,
         NEW ref, ref = IF reported = Nothing THEN j.captured ELSE reported,
         StoresAnswer(j, ref)
  PROVE  /\ ref \in MaybeRef /\ (ref = Nothing => j.captured = Nothing)
         /\ row' = [row EXCEPT ![j.provider] = ref]
         /\ row' \in [Providers -> MaybeRef] /\ row'[j.provider] = ref
         /\ listed' \in [Providers -> SUBSET Refs]
<1>1. ref \in MaybeRef /\ j.provider \in Providers /\ (ref = Nothing => j.captured = Nothing)
  BY DEF Jobs
<1>2. row' = [row EXCEPT ![j.provider] = ref]
  BY DEF StoresAnswer, Resumes
<1>3. row' \in [Providers -> MaybeRef] /\ row'[j.provider] = ref
  BY <1>1, <1>2 DEF ServerTypes
<1>4. listed' = [listed EXCEPT ![j.provider] = @ \cup ({ref} \ {Nothing})]
  BY DEF StoresAnswer, Remembers
<1>5. {ref} \ {Nothing} \subseteq Refs
  BY <1>1 DEF MaybeRef
<1>6. listed' \in [Providers -> SUBSET Refs]
  BY <1>1, <1>4, <1>5 DEF ServerTypes
<1> QED  BY <1>1, <1>2, <1>3, <1>6

LEMMA Running ==
  ASSUME ServerTypes
  PROVE  (job.at = "running" <=> job # NoJob) /\ (job # NoJob => job \in Jobs)
BY DEF ServerTypes, Jobs, NoJob

LEMMA ServerStep == WidgetTypes /\ [WidgetNext]_widgetVars => ServerTypes'
<1> SUFFICES ASSUME WidgetTypes, [WidgetNext]_widgetVars PROVE ServerTypes'
  OBVIOUS
<1>0. ServerTypes /\ StreamTypes
  BY DEF WidgetTypes
<1>1. CASE UNCHANGED server
  BY <1>0, <1>1 DEF server, ServerTypes
<1>2. ASSUME NEW s \in Fetches, Serve(s) PROVE ServerTypes'
  <2>1. row' \in [Providers -> MaybeRef] /\ saved' \in Providers
    BY <1>2, Served
  <2>2. UNCHANGED <<listed, job, late>>
    BY <1>2 DEF Serve
  <2> QED  BY <1>0, <2>1, <2>2 DEF ServerTypes
<1>3. CASE Open
  <2>1. stream.provider \in Providers
    BY <1>0, <1>3 DEF Open, StreamTypes, Streams, NoStream
  <2>2. job' = [at |-> "running", provider |-> stream.provider, captured |-> row[stream.provider]]
        /\ UNCHANGED <<row, listed, saved, late>>
    BY <1>3 DEF Open
  <2>3. job' \in Jobs
    BY <1>0, <2>1, <2>2 DEF Jobs, ServerTypes
  <2> QED  BY <1>0, <2>2, <2>3 DEF ServerTypes
<1>4. CASE StreamFails \/ AgentError \/ Reload
  BY <1>0, <1>4 DEF StreamFails, AgentError, Reload, ServerTypes
<1>5. CASE IdleTimeout
  <2>1. job \in Jobs /\ late' = late \cup {job} /\ job' = NoJob /\ UNCHANGED <<row, listed, saved>>
    BY <1>0, <1>5, Running DEF IdleTimeout
  <2> QED  BY <1>0, <2>1 DEF ServerTypes
<1>6. CASE ResumeFailed
  <2>1. /\ job \in Jobs /\ row' = [row EXCEPT ![job.provider] = Nothing] /\ job' = NoJob
        /\ UNCHANGED <<listed, saved, late>>
    BY <1>0, <1>6, Running DEF ResumeFailed, Resumes
  <2> QED  BY <1>0, <2>1 DEF ServerTypes, Jobs, MaybeRef
<1>7. ASSUME NEW reported \in MaybeRef, AssistantDone(reported) PROVE ServerTypes'
  <2> DEFINE ref == IF reported = Nothing THEN job.captured ELSE reported
  <2>1. /\ job \in Jobs /\ StoresAnswer(job, ref) /\ job' = NoJob
        /\ UNCHANGED <<saved, late>>
    BY <1>0, <1>7, Running DEF AssistantDone
  <2> HIDE DEF ref
  <2>2. row' \in [Providers -> MaybeRef] /\ listed' \in [Providers -> SUBSET Refs]
    BY <1>0, <2>1, AnswerTypes DEF ref
  <2> QED  BY <1>0, <2>1, <2>2 DEF ServerTypes
<1>8. ASSUME NEW j \in late, NEW reported \in MaybeRef, LateDone(j, reported)
      PROVE  ServerTypes'
  <2> DEFINE ref == IF reported = Nothing THEN j.captured ELSE reported
  <2>1. j \in Jobs
    BY <1>0 DEF ServerTypes
  <2>2. StoresAnswer(j, ref) /\ late' = late \ {j} /\ UNCHANGED <<saved, job>>
    BY <1>8 DEF LateDone
  <2> HIDE DEF ref
  <2>3. row' \in [Providers -> MaybeRef] /\ listed' \in [Providers -> SUBSET Refs]
    BY <1>0, <2>1, <2>2, AnswerTypes DEF ref
  <2> QED  BY <1>0, <2>2, <2>3 DEF ServerTypes
<1>9. ASSUME NEW j \in late, LateNothing(j) PROVE ServerTypes'
  BY <1>0, <1>9 DEF LateNothing, ServerTypes
<1>10. ASSUME \/ LoadSettings \/ NewDialog \/ OpenDialogs \/ SelectDialog \/ SaveSettings
              \/ EditSettings \/ Render
              \/ Send \/ Retry \/ Take \/ AssistantChunk \/ UNCHANGED widgetVars
              \/ \E p \in Providers : ChangeProvider(p)
              \/ \E s \in Fetches : Arrive(s) \/ RequestFails(s)
       PROVE  UNCHANGED server
  BY <1>10 DEF LoadSettings, NewDialog, OpenDialogs, SelectDialog, SaveSettings, EditSettings,
     Asks, Render, Send, Retry, Submit, Take, TakeChunk, TakeDone, TakeError, TakeEnd,
     AssistantChunk, ChangeProvider, ChangesSettings, Arrive, RequestFails, widgetVars
<1> QED
  BY <1>1, <1>2, <1>3, <1>4, <1>5, <1>6, <1>7, <1>8, <1>9, <1>10 DEF WidgetNext, StreamEnds

LEMMA StreamStep == WidgetTypes /\ [WidgetNext]_widgetVars => StreamTypes'
<1> SUFFICES ASSUME WidgetTypes, [WidgetNext]_widgetVars PROVE StreamTypes'
  OBVIOUS
<1>0. /\ StreamTypes /\ ScreenTypes /\ OnDisplay /\ Nothing \in Ids \cup {Nothing}
      /\ MaxSends \in Nat
  BY WidgetAssumption DEF WidgetTypes
<1>1. ASSUME NEW user \in Ids, Submit(user) PROVE StreamTypes'
  <2>1. /\ provider' = provider /\ Rendered
        /\ stream' = [at |-> "opening", user |-> user, bubble |-> sends',
                      provider |-> ActiveProvider, got |-> FALSE]
        /\ sends < MaxSends /\ sends' = sends + 1 /\ retry' = Nothing
        /\ certain' = (certain /\ Quiet)
    BY <1>0, <1>1 DEF Submit, Renders
  <2>4. provider \in Providers /\ ActiveProvider \in Providers
    BY <1>0, <2>1, RenderedMeans
  <2>2. sends' \in Ids /\ sends' \in 0 .. MaxSends
    BY <1>0, <2>1 DEF StreamTypes, Ids
  <2>3. stream' \in Streams
    BY <2>1, <2>2, <2>4 DEF Streams
  <2> QED  BY <1>0, <2>1, <2>2, <2>3, <2>4, WidgetAssumption DEF StreamTypes
<1>2. CASE Send
  <2>1. sends + 1 \in Ids
    BY <1>0, <1>2 DEF Send, Submit, StreamTypes, Ids
  <2>2. Submit(sends + 1)
    BY <1>2 DEF Send
  <2> QED  BY <1>1, <2>1, <2>2
<1>3. CASE Retry
  BY <1>0, <1>1, <1>3 DEF Retry, StreamTypes
<1>4. CASE Open
  <2>1. stream \in Streams /\ stream' = [stream EXCEPT !.at = "open"]
        /\ UNCHANGED <<provider, retry, sends, certain>>
    BY <1>0, <1>4 DEF Open, StreamTypes, NoStream, screen, queued
  <2>2. stream' \in Streams
    BY <2>1 DEF Streams
  <2>3. stream # NoStream
    BY <2>1 DEF Streams, NoStream
  <2> QED  BY <1>0, <2>1, <2>2, <2>3 DEF StreamTypes
<1>5. ASSUME GivesUp, provider' = provider, sends' = sends, certain' \in BOOLEAN,
             stream # NoStream
      PROVE  StreamTypes'
  <2>1. stream' = NoStream /\ retry' \in Ids
    BY <1>0, <1>5 DEF GivesUp, Finally, StreamTypes, Streams
  <2> QED  BY <1>0, <1>5, <2>1 DEF StreamTypes
<1>6. CASE StreamFails
  <2>1. GivesUp /\ sends' = sends /\ certain' = FALSE /\ stream # NoStream
    BY <1>6 DEF StreamFails, NoStream
  <2>2. provider' = provider
    BY <2>1 DEF GivesUp, Displays
  <2> QED  BY <1>5, <2>1, <2>2
<1>7. CASE TakeChunk
  <2>1. /\ events # <<>> /\ stream' = [stream EXCEPT !.got = TRUE]
        /\ UNCHANGED <<retry, sends, certain>>
    BY <1>7 DEF TakeChunk
  <2>2. stream.at = "open"
    BY <2>1 DEF WidgetTypes, EventsFit
  <2>3. stream \in Streams /\ stream # NoStream
    BY <1>0, <2>2 DEF StreamTypes, NoStream
  <2>4. stream' \in Streams
    BY <2>1, <2>3 DEF Streams
  <2>5. provider' = provider
    BY <1>7 DEF TakeChunk, Displays
  <2> QED  BY <1>0, <2>1, <2>3, <2>4, <2>5 DEF StreamTypes
<1>8. CASE TakeDone
  <2>1. provider' = provider
    BY <1>8 DEF TakeDone, Shows, screen, queued
  <2>2. UNCHANGED <<stream, retry, sends>> /\ certain' \in BOOLEAN
    BY <1>0, <1>8 DEF TakeDone, StreamTypes, ScreenTypes
  <2> QED  BY <1>0, <2>1, <2>2 DEF StreamTypes
<1>9. CASE TakeError \/ TakeEnd
  <2>1. events # <<>> /\ sends' = sends /\ certain' = certain
    BY <1>9 DEF TakeError, TakeEnd
  <2>2. stream # NoStream
    BY <2>1 DEF WidgetTypes, EventsFit, NoStream
  <2>3. CASE GivesUp
    <3>1. provider' = provider
      BY <2>3 DEF GivesUp, Displays
    <3> QED  BY <1>0, <1>5, <2>1, <2>2, <2>3, <3>1 DEF StreamTypes
  <2>4. CASE ~GivesUp
    <3>1. Finally /\ UNCHANGED <<screen, retry>>
      BY <1>9, <2>4 DEF TakeError, TakeEnd
    <3> QED  BY <1>0, <2>1, <3>1 DEF Finally, StreamTypes, screen, queued
  <2> QED  BY <2>3, <2>4
<1>10. ASSUME NEW s \in Fetches, Arrive(s) PROVE StreamTypes'
  <2>1. /\ provider' = provider \/ provider' \in Providers
        /\ retry' = retry \/ retry' = Nothing
    BY <1>10, Arrived
  <2>2. UNCHANGED <<stream, sends, certain>>
    BY <1>10 DEF Arrive
  <2> QED  BY <1>0, <2>1, <2>2, WidgetAssumption DEF StreamTypes
<1>11. ASSUME NEW p \in Providers, ChangesSettings(p) PROVE StreamTypes'
  <2>1. provider' = p /\ UNCHANGED <<stream, retry, sends>> /\ certain' = Quiet
    BY <1>11 DEF ChangesSettings, Renders
  <2> QED  BY <1>0, <2>1, WidgetAssumption DEF StreamTypes, Quiet
<1>16. ASSUME EditSettings \/ \E p \in Providers : ChangeProvider(p)
       PROVE  \E p \in Providers : ChangesSettings(p)
  <2>1. EditSettings => provider \in Providers
    BY <1>0, RenderedMeans DEF EditSettings, ChangesSettings
  <2> QED  BY <1>16, <2>1 DEF EditSettings, ChangeProvider
<1>12. CASE NewDialog \/ OpenDialogs \/ SelectDialog \/ SaveSettings
  <2>1. /\ UNCHANGED <<provider, stream, sends>>
        /\ certain' = Quiet \/ certain' = (certain /\ Quiet)
        /\ retry' = retry \/ retry' = Nothing
    BY <1>12 DEF NewDialog, OpenDialogs, SelectDialog, SaveSettings, Asks, screen, queued
  <2>2. certain' \in BOOLEAN
    BY <1>0, <2>1 DEF StreamTypes, Quiet
  <2> QED  BY <1>0, <2>1, <2>2 DEF StreamTypes
<1>13. CASE Reload
  BY <1>0, <1>13 DEF Reload, StreamTypes, Quiet
<1>14. ASSUME \/ LoadSettings \/ AssistantChunk \/ StreamEnds \/ UNCHANGED widgetVars
              \/ \E s \in Fetches : Serve(s) \/ RequestFails(s)
              \/ \E j \in late : LateNothing(j) \/ \E ref \in MaybeRef : LateDone(j, ref)
       PROVE  /\ UNCHANGED <<provider, stream, retry, sends>>
              /\ certain' = certain \/ certain' = FALSE
  BY <1>14 DEF LoadSettings, AssistantChunk, StreamEnds, AgentError, IdleTimeout, ResumeFailed,
     AssistantDone, Serve, RequestFails, LateNothing, LateDone, screen, queued, widgetVars
<1>17. CASE Render
  <2>1. UNCHANGED <<provider, stream, retry, sends, certain>>
    BY <1>17 DEF Render, Renders
  <2> QED  BY <1>0, <2>1 DEF StreamTypes
<1>15. CASE UNCHANGED <<provider, stream, retry, sends>> /\ (certain' = certain \/ certain' = FALSE)
  BY <1>0, <1>15 DEF StreamTypes
<1> QED
  BY <1>2, <1>3, <1>4, <1>6, <1>7, <1>8, <1>9, <1>10, <1>11, <1>12, <1>13, <1>14, <1>15, <1>16,
     <1>17
  DEF WidgetNext, Take

LEMMA EventTypes ==
  ASSUME NEW ref \in MaybeRef
  PROVE  \A kind \in {"text", "echo", "done", "error", "end"} :
           Event(kind, ref) \in Told /\ Event(kind, ref).kind = kind /\ Event(kind, ref).ref = ref
BY DEF Event, Told

\* The first event is taken.
LEMMA TailEvents ==
  ASSUME events \in Seq(Told), events # <<>>, events' = Tail(events)
  PROVE  /\ events' \in Seq(Told) /\ Len(events') = Len(events) - 1
         /\ \A i \in 1 .. Len(events') : i + 1 \in 1 .. Len(events) /\ events'[i] = events[i + 1]
BY HeadTailProperties

\* New events follow those that wait.
LEMMA MoreEvents ==
  ASSUME events \in Seq(Told), NEW new \in Seq(Told), Emits(new)
  PROVE  /\ events' \in Seq(Told) /\ Len(events') = Len(events) + Len(new)
         /\ \A i \in 1 .. Len(events') :
              \/ i \in 1 .. Len(events) /\ events'[i] = events[i]
              \/ i - Len(events) \in 1 .. Len(new) /\ events'[i] = new[i - Len(events)]
         /\ \A i \in 1 .. Len(new) :
              Len(events) + i \in 1 .. Len(events') /\ events'[Len(events) + i] = new[i]
BY ConcatProperties DEF Emits

\* The last events of a message, and with them the end of its subscription.
LEMMA LastEvents ==
  ASSUME EventsFit, ServerTypes, job # NoJob, NEW new \in Seq(Told), Emits(new),
         job' = NoJob, stream' = stream,
         \A i \in 1 .. Len(new) : new[i].kind \in {"error", "end"} => i = Len(new)
  PROVE  EventsFit'
<1>1. stream.at = "open" /\ stream'.at = "open"
  BY DEF EventsFit
<1>2. events' \in Seq(Told)
  BY MoreEvents DEF EventsFit
<1>3. ASSUME NEW i \in 1 .. Len(events'), events'[i].kind \in {"error", "end"}
      PROVE  i = Len(events')
  <2>1. Len(events) \in Nat /\ Len(new) \in Nat /\ Len(events') = Len(events) + Len(new)
    BY MoreEvents DEF EventsFit
  <2>2. CASE i \in 1 .. Len(events) /\ events'[i] = events[i]
    BY <1>3, <2>2 DEF EventsFit
  <2>3. CASE i - Len(events) \in 1 .. Len(new) /\ events'[i] = new[i - Len(events)]
    <3>1. i - Len(events) = Len(new)
      BY <1>3, <2>3
    <3> QED  BY <2>1, <3>1
  <2> QED  BY <2>2, <2>3, MoreEvents DEF EventsFit
<1> QED  BY <1>1, <1>2, <1>3 DEF EventsFit

LEMMA EventStep == WidgetTypes /\ [WidgetNext]_widgetVars => EventsFit'
<1> SUFFICES ASSUME WidgetTypes, [WidgetNext]_widgetVars PROVE EventsFit'
  OBVIOUS
<1>0. /\ EventsFit /\ StreamTypes /\ ServerTypes /\ Nothing \in MaybeRef
      /\ events \in Seq(Told)
  BY DEF WidgetTypes, EventsFit, MaybeRef
<1>1. CASE UNCHANGED <<stream, events, job>>
  BY <1>0, <1>1 DEF EventsFit
<1>2. ASSUME events' = <<>>, job' = NoJob PROVE EventsFit'
  <2>1. events' \in Seq(Told) /\ Len(events') = 0
    BY <1>2, EmptySeq
  <2> QED  BY <1>2, <2>1 DEF EventsFit
<1>3. CASE StreamFails \/ Reload
  BY <1>2, <1>3 DEF StreamFails, Reload
<1>4. ASSUME NEW user, Submit(user) PROVE EventsFit'
  <2>1. stream.at = "idle" /\ events' = events /\ job' = job
    BY <1>4 DEF Submit, server
  <2>2. events = <<>> /\ job = NoJob
    BY <1>0, <2>1 DEF EventsFit
  <2> QED  BY <1>2, <2>1, <2>2
<1>5. CASE Open
  <2>1. stream.at = "opening" /\ stream \in Streams /\ stream' = [stream EXCEPT !.at = "open"]
        /\ events' = events
    BY <1>0, <1>5 DEF Open, StreamTypes, NoStream
  <2>2. events' = <<>> /\ stream'.at = "open" /\ Len(events') = 0
    BY <1>0, <2>1 DEF EventsFit, Streams
  <2> QED  BY <1>0, <2>1, <2>2 DEF EventsFit
<1>6. ASSUME events # <<>>, events' = Tail(events), job' = job, stream'.at = stream.at
      PROVE  EventsFit'
  <2>1. /\ events' \in Seq(Told) /\ Len(events') = Len(events) - 1 /\ Len(events) \in Nat
        /\ \A i \in 1 .. Len(events') : i + 1 \in 1 .. Len(events) /\ events'[i] = events[i + 1]
    BY <1>0, <1>6, TailEvents
  <2>2. stream.at = "open"
    BY <1>0, <1>6 DEF EventsFit
  <2>3. ASSUME NEW i \in 1 .. Len(events')
        PROVE  /\ events'[i].kind \in {"error", "end"} => i = Len(events')
               /\ job' # NoJob => events'[i].kind \in {"text", "echo"}
    <3>1. i + 1 \in 1 .. Len(events) /\ events'[i] = events[i + 1] /\ i \in Int
      BY <2>1
    <3>2. /\ events[i + 1].kind \in {"error", "end"} => i + 1 = Len(events)
          /\ job # NoJob => events[i + 1].kind \in {"text", "echo"}
      BY <1>0, <3>1 DEF EventsFit
    <3>3. events'[i].kind = events[i + 1].kind
      BY <3>1
    <3>4. i + 1 = Len(events) => i = Len(events')
      BY <2>1, <3>1
    <3> QED  BY <1>6, <3>2, <3>3, <3>4
  <2> QED  BY <1>6, <2>1, <2>2, <2>3 DEF EventsFit
<1>7. CASE TakeChunk
  <2>1. /\ events # <<>> /\ events' = Tail(events)
        /\ job' = job /\ stream' = [stream EXCEPT !.got = TRUE]
    BY <1>7 DEF TakeChunk, server
  <2>2. stream.at = "open"
    BY <1>0, <2>1 DEF EventsFit
  <2>3. stream \in Streams
    BY <1>0, <2>2 DEF StreamTypes, NoStream
  <2> QED  BY <1>6, <2>1, <2>3 DEF Streams
<1>8. CASE TakeDone
  BY <1>6, <1>8 DEF TakeDone, server
<1>9. CASE TakeError \/ TakeEnd
  <2>1. /\ events # <<>> /\ Head(events).kind \in {"error", "end"}
        /\ events' = <<>> /\ job' = job
    BY <1>9 DEF TakeError, TakeEnd, server
  <2>2. Head(events) = events[1] /\ 1 \in 1 .. Len(events)
    BY <1>0, <2>1, HeadFits
  <2>3. job = NoJob
    BY <1>0, <2>1, <2>2 DEF EventsFit
  <2> QED  BY <1>2, <2>1, <2>3
<1>10. CASE AssistantChunk
  <2>1. PICK kind \in {"text", "echo"} : Emits(<<Event(kind, Nothing)>>)
    BY <1>10 DEF AssistantChunk
  <2>2. /\ job \in Jobs /\ job' = job /\ stream.at = "open" /\ stream' = stream
        /\ events = <<>> /\ Len(events) = 0
    BY <1>0, <1>10, Running DEF AssistantChunk, server
  <2>3. Event(kind, Nothing) \in Told /\ Event(kind, Nothing).kind = kind
    BY <1>0, EventTypes
  <2> DEFINE new == <<Event(kind, Nothing)>>
  <2>4. new \in Seq(Told) /\ Len(new) = 1 /\ new[1] = Event(kind, Nothing) /\ Emits(new)
    BY <2>1, <2>3
  <2> HIDE DEF new
  <2>5. /\ events' \in Seq(Told) /\ Len(events') = 0 + 1
        /\ 0 + 1 \in 1 .. Len(events') /\ events'[0 + 1] = new[1]
    BY <1>0, <2>2, <2>4, MoreEvents
  <2>6. Len(events') = 1 /\ \A i \in 1 .. Len(events') : i = 1
    BY <2>5
  <2>7. events'[1].kind = kind
    BY <2>3, <2>4, <2>5
  <2> QED  BY <2>2, <2>5, <2>6, <2>7 DEF EventsFit
<1>11. CASE AgentError \/ IdleTimeout \/ ResumeFailed
  <2> DEFINE new == <<Event("error", Nothing)>>
  <2>1. Emits(new) /\ job' = NoJob /\ stream' = stream /\ job # NoJob
    BY <1>0, <1>11, Running DEF AgentError, IdleTimeout, ResumeFailed
  <2>2. Event("error", Nothing) \in Told
    BY <1>0, EventTypes
  <2>3. new \in Seq(Told) /\ Len(new) = 1
    BY <2>2
  <2> HIDE DEF new
  <2>4. \A i \in 1 .. Len(new) : i = Len(new)
    BY <2>3
  <2> QED  BY <1>0, <2>1, <2>3, <2>4, LastEvents
<1>12. ASSUME NEW reported \in MaybeRef, AssistantDone(reported) PROVE EventsFit'
  <2> DEFINE ref == IF reported = Nothing THEN job.captured ELSE reported
             new == <<Event("done", ref), Event("end", Nothing)>>
  <2>1. Emits(new) /\ job' = NoJob /\ stream' = stream /\ job # NoJob /\ job \in Jobs
    BY <1>0, <1>12, Running DEF AssistantDone
  <2>2. ref \in MaybeRef
    BY <2>1 DEF Jobs
  <2> HIDE DEF ref
  <2>3. /\ Event("done", ref) \in Told /\ Event("end", Nothing) \in Told
        /\ Event("done", ref).kind = "done"
    BY <1>0, <2>2, EventTypes
  <2>4. new \in Seq(Told) /\ Len(new) = 2 /\ new[1] = Event("done", ref)
    BY <2>3
  <2> HIDE DEF new
  <2>5. \A i \in 1 .. Len(new) : new[i].kind \in {"error", "end"} => i = Len(new)
    <3>1. \A i \in 1 .. Len(new) : i = 1 \/ i = 2
      BY <2>4
    <3> QED  BY <2>3, <2>4, <3>1
  <2> QED  BY <1>0, <2>1, <2>4, <2>5, LastEvents
<1>13. ASSUME \/ LoadSettings \/ NewDialog \/ OpenDialogs \/ SelectDialog \/ SaveSettings
              \/ EditSettings \/ Render \/ UNCHANGED widgetVars
              \/ \E p \in Providers : ChangeProvider(p)
              \/ \E s \in Fetches : Serve(s) \/ Arrive(s) \/ RequestFails(s)
              \/ \E j \in late : LateNothing(j) \/ \E ref \in MaybeRef : LateDone(j, ref)
       PROVE  UNCHANGED <<stream, events, job>>
  BY <1>13 DEF LoadSettings, NewDialog, OpenDialogs, SelectDialog, SaveSettings, EditSettings,
     Asks, Render, ChangeProvider, ChangesSettings, Serve, Arrive, RequestFails, LateNothing,
     LateDone, server, widgetVars
<1> QED
  BY <1>1, <1>3, <1>4, <1>5, <1>7, <1>8, <1>9, <1>10, <1>11, <1>12, <1>13
  DEF WidgetNext, Take, StreamEnds, Send, Retry

-----------------------------------------------------------------------------
LEMMA WidgetTypesInit == WidgetInit => WidgetTypes
<1> SUFFICES ASSUME WidgetInit PROVE WidgetTypes
  OBVIOUS
<1>1. RequestTypes /\ ModalTypes
  BY DEF WidgetInit, RequestTypes, RequestFits, ModalTypes
<1>6. /\ row \in [Providers -> MaybeRef] /\ listed \in [Providers -> SUBSET Refs]
      /\ storage \in [Keys -> (SUBSET Bubbles) \cup {Nothing}]
      /\ sends \in 0 .. MaxSends
  <2>1. CASE New
    BY <2>1, WidgetAssumption DEF New, MaybeRef
  <2>2. ASSUME NEW p \in Providers, NEW ref \in Refs, MaxSends > 0, Visited(p, ref)
        PROVE  /\ row \in [Providers -> MaybeRef] /\ listed \in [Providers -> SUBSET Refs]
               /\ storage \in [Keys -> (SUBSET Bubbles) \cup {Nothing}]
               /\ sends \in 0 .. MaxSends
    <3>1. 1 \in Ids /\ sends = 1
      BY <2>2, WidgetAssumption DEF Visited, Ids
    <3>2. {User(1), Text(1)} \in SUBSET Bubbles
      BY <3>1 DEF Bubbles, User, Text
    <3>3. row \in [Providers -> MaybeRef] /\ listed \in [Providers -> SUBSET Refs]
      BY <2>2 DEF Visited, MaybeRef
    <3>4. storage \in [Keys -> (SUBSET Bubbles) \cup {Nothing}]
      BY <2>2, <3>2 DEF Visited
    <3> QED  BY <2>2, <3>1, <3>3, <3>4, WidgetAssumption
  <2>3. saved \in Providers
    BY WidgetAssumption DEF WidgetInit
  <2> QED  BY <2>1, <2>2, <2>3 DEF WidgetInit
<1>2. ServerTypes
  BY <1>6, WidgetAssumption DEF WidgetInit, ServerTypes
<1>3. ScreenTypes /\ OnDisplay
  BY <1>6 DEF WidgetInit, ScreenTypes, OnDisplay, MaybeRef
<1>4. StreamTypes
  BY <1>6, WidgetAssumption DEF WidgetInit, StreamTypes
<1>5. EventsFit
  <2>1. events \in Seq(Told) /\ Len(events) = 0
    BY EmptySeq DEF WidgetInit
  <2> QED  BY <2>1 DEF WidgetInit, EventsFit
<1> QED  BY <1>1, <1>2, <1>3, <1>4, <1>5 DEF WidgetTypes

\* The widget keeps to the types of its parts, what is on display is stored unless
\* a render is due, and a message's stream ends with its last event
\* (useTerminalAgentStorage.ts, terminal-agent.stream.ts).
THEOREM WidgetTypesCorrect == WidgetSpec => []WidgetTypes
<1>1. WidgetTypes /\ [WidgetNext]_widgetVars => WidgetTypes'
  BY RequestStep, ServerStep, ModalStep, DisplayStep, StreamStep, EventStep DEF WidgetTypes
<1> QED  BY WidgetTypesInit, <1>1, PTL DEF WidgetSpec

\* What the user wrote into a dialog stays there, but for the dialog on display: it
\* is emptied, or makes way before a render that is due has written its messages
\* (useTerminalAgentStorage.ts): for any providers, refs and requests.
THEOREM WrittenStays == WidgetSpec => WrittenIsKept
<1>1. WidgetTypes /\ [WidgetNext]_widgetVars =>
        [\A k \in Keys : \/ (MessagesOf(k) \cap Written) \subseteq MessagesOf(k)'
                         \/ k = key /\ (Emptied \/ Overtaken)]_widgetVars
  BY WrittenStep DEF Keeps
<1> QED  BY <1>1, WidgetTypesCorrect, PTL DEF WidgetSpec, WrittenIsKept

-----------------------------------------------------------------------------
(* What is on display while no operations overlap.                         *)

Busy == \E s \in Fetches : requests[s] # Free
Loading == \E s \in Fetches : requests[s] # Free /\ requests[s].kind # "dialogs"
Agrees == known => shown = row[provider]

\* A request goes alone, without a stream; several ones only load the state.
Alone ==
  /\ Busy \/ provider = Nothing => stream = NoStream /\ late = {}
  /\ \A s, t \in Fetches :
       s # t /\ requests[s] # Free /\ requests[t] # Free => requests[s].kind = "state"

\* A request is about the dialog on display, and its answer still right.
OfDisplay ==
  \A s \in Fetches :
    requests[s] # Free /\ requests[s].kind \in {"state", "new", "select"} =>
      /\ requests[s].provider = provider
      /\ requests[s].at = "answered" => requests[s].ref = row[provider]

\* So is a message, up to the event that reports its end.
OfStream ==
  /\ stream # NoStream => stream.provider = provider
  /\ job # NoJob => job.provider = provider /\ job.captured = row[provider] /\ Agrees
  /\ \A i \in 1 .. Len(events) : events[i].kind = "done" =>
       events[i].ref = row[provider] /\ (row[provider] = Nothing => Agrees)

Settled ==
  ~Loading /\ provider # Nothing =>
    Agrees \/ \E i \in 1 .. Len(events) : events[i].kind = "done"

Sure == Alone /\ OfDisplay /\ OfStream /\ Settled
WidgetInv == certain => Sure

LEMMA QuietMeans ==
  ASSUME WidgetTypes, Quiet
  PROVE  /\ stream = NoStream /\ job = NoJob /\ events = <<>> /\ late = {}
         /\ \A s \in Fetches : requests[s] = Free
         /\ Rendered => ActiveProvider = provider /\ provider # Nothing
<1>1. /\ RequestTypes /\ StreamTypes /\ ServerTypes /\ EventsFit /\ OnDisplay
  BY DEF WidgetTypes
<1>2. stream = NoStream
  BY <1>1 DEF Quiet, StreamTypes, Streams
<1>3. job = NoJob /\ events = <<>>
  BY <1>1, <1>2 DEF EventsFit, NoStream
<1>4. \A s \in Fetches : requests[s] = Free
  BY <1>1 DEF Quiet, RequestTypes, RequestFits, Asked
<1>5. Rendered => ActiveProvider = provider /\ provider # Nothing
  BY <1>1 DEF Quiet, Due, Rendered, ActiveProvider, OnDisplay
<1> QED  BY <1>2, <1>3, <1>4, <1>5 DEF Quiet

LEMMA NoStreamMeans ==
  ASSUME WidgetTypes, stream = NoStream
  PROVE  job = NoJob /\ events = <<>>
BY DEF WidgetTypes, EventsFit, NoStream

\* Without a stream the facts about it are empty.
LEMMA NoStreamStays ==
  ASSUME stream' = NoStream, job' = NoJob, events' = <<>>
  PROVE  OfStream'
<1>1. Len(events') = 0
  BY EmptySeq
<1> QED  BY <1>1 DEF OfStream

\* The requests: an operation starts from a quiet tab, or its request goes on.
LEMMA SureRequests ==
  ASSUME WidgetTypes, WidgetInv, certain',
         \/ LoadSettings \/ NewDialog \/ OpenDialogs \/ SelectDialog \/ SaveSettings
         \/ EditSettings \/ \E p \in Providers : ChangeProvider(p)
         \/ \E s \in Fetches : Serve(s) \/ Arrive(s) \/ RequestFails(s)
  PROVE  Sure'
<1>0. /\ RequestTypes /\ StreamTypes /\ ServerTypes /\ ScreenTypes /\ Nothing \in MaybeRef
  BY DEF WidgetTypes, MaybeRef
<1>1. CASE LoadSettings
  <2>1. /\ provider = Nothing /\ FreeSlots = Fetches /\ certain
        /\ UNCHANGED <<stream, job, late, events, provider>>
    BY <1>1 DEF LoadSettings, server, screen, queued
  <2>2. stream = NoStream /\ late = {}
    BY <2>1 DEF WidgetInv, Sure, Alone
  <2>3. job = NoJob /\ events = <<>>
    BY <2>2, NoStreamMeans
  <2>4. \A s \in Fetches : requests[s] = Free
    BY <1>0, <2>1 DEF FreeSlots, RequestTypes, RequestFits, Asked
  <2>5. PICK s \in Fetches : Puts(s, Sent("settings", Nothing, Nothing))
    BY <1>0, <1>1, FetchPuts DEF LoadSettings
  <2>6. /\ Sent("settings", Nothing, Nothing).kind = "settings"
        /\ RequestFits(Sent("settings", Nothing, Nothing))
    BY <1>0, SentFits
  <2>7. /\ requests'[s].kind = "settings"
        /\ \A t \in Fetches \ {s} : requests'[t] = Free
    BY <1>0, <2>4, <2>5, <2>6, PutsType
  <2>8. Alone' /\ OfDisplay'
    BY <2>1, <2>2, <2>7 DEF Alone, OfDisplay
  <2>9. OfStream'
    BY <2>1, <2>2, <2>3, NoStreamStays
  <2>10. Settled'
    BY <2>1 DEF Settled
  <2> QED  BY <2>8, <2>9, <2>10 DEF Sure
<1>2. CASE NewDialog \/ OpenDialogs \/ SelectDialog \/ SaveSettings
  <2>1. /\ UNCHANGED <<stream, job, late, events, provider, known, shown, row>>
        /\ Quiet /\ Rendered /\ (OpenDialogs => certain)
    <3>1. UNCHANGED <<stream, job, late, events, provider, known, shown, row>>
      BY <1>2 DEF NewDialog, OpenDialogs, SelectDialog, SaveSettings, Asks, server, screen, queued
    <3> QED  BY <1>2, <3>1, UserAsks
  <2>2. /\ stream = NoStream /\ job = NoJob /\ events = <<>> /\ late = {}
        /\ \A s \in Fetches : requests[s] = Free
        /\ ActiveProvider = provider /\ provider # Nothing /\ Len(events) = 0
    BY <2>1, QuietMeans, EmptySeq
  <2>3. PICK kind \in {"new", "dialogs", "select", "save"} :
          AsksOne(kind) /\ (kind = "dialogs" => OpenDialogs)
    BY <1>2, UserAsks
  <2>4. PICK s \in Fetches, ref \in MaybeRef : Puts(s, Sent(kind, provider, ref))
    BY <2>2, <2>3 DEF AsksOne
  <2> DEFINE q == Sent(kind, provider, ref)
  <2>5. RequestFits(q) /\ q # Free /\ q.provider = provider /\ q.at = "sent" /\ q.kind = kind
    BY <1>0, <2>2, SentFits DEF ScreenTypes
  <2> HIDE DEF q
  <2>6. requests'[s] = q /\ \A t \in Fetches \ {s} : requests'[t] = Free
    BY <1>0, <2>2, <2>4, <2>5, PutsType DEF q
  <2>7. Alone' /\ OfDisplay'
    BY <2>1, <2>2, <2>5, <2>6 DEF Alone, OfDisplay, Busy
  <2>8. Settled'
    <3>1. CASE kind = "dialogs"
      <4>1. ~Loading
        BY <2>2 DEF Loading
      <4>2. Agrees
        BY <2>1, <2>2, <2>3, <3>1, <4>1 DEF WidgetInv, Sure, Settled
      <4> QED  BY <2>1, <4>2 DEF Settled, Agrees
    <3>2. CASE kind # "dialogs"
      BY <2>5, <2>6, <3>2 DEF Settled, Loading
    <3> QED  BY <3>1, <3>2
  <2> QED  BY <2>1, <2>2, <2>7, <2>8, NoStreamStays DEF Sure
<1>7. ASSUME NEW p \in Providers, ChangesSettings(p)
      PROVE  /\ provider' = p /\ UNCHANGED <<stream, job, late, events>>
             /\ stream = NoStream /\ job = NoJob /\ events = <<>> /\ late = {}
             /\ \A s \in Fetches : requests[s] = Free
  <2>1. Quiet /\ provider' = p /\ UNCHANGED <<stream, job, late, events>>
    BY <1>7 DEF ChangesSettings, Renders, server
  <2> QED  BY <2>1, QuietMeans
<1>8. ASSUME NEW p \in Providers, ChangesSettings(p), NEW s \in Fetches,
             requests'[s] = Sent("state", p, Nothing),
             \A r \in Fetches : requests'[r] \in {Sent("state", p, Nothing), Free}
      PROVE  Sure'
  <2>1. /\ provider' = p /\ UNCHANGED <<stream, job, late, events>>
        /\ stream = NoStream /\ job = NoJob /\ events = <<>> /\ late = {}
    BY <1>7, <1>8
  <2> DEFINE q == Sent("state", p, Nothing)
  <2>2. q # Free /\ q.provider = p /\ q.at = "sent" /\ q.kind = "state"
    BY <1>0, SentFits, WidgetAssumption
  <2>3. requests'[s] = q /\ \A r \in Fetches : requests'[r] \in {q, Free}
    BY <1>8
  <2> HIDE DEF q
  <2>4. Alone' /\ OfDisplay' /\ Settled'
    BY <2>1, <2>2, <2>3 DEF Alone, OfDisplay, Settled, Loading
  <2> QED  BY <2>1, <2>4, NoStreamStays DEF Sure
<1>3. ASSUME NEW p \in Providers, ChangeProvider(p) PROVE Sure'
  <2>1. ChangesSettings(p)
    BY <1>3 DEF ChangeProvider
  <2>2. PICK s \in Fetches, t \in Fetches :
           /\ requests'[s] = Sent("state", p, Nothing)
           /\ requests'[t] = Sent("state", p, Nothing)
           /\ \A r \in Fetches \ {s, t} : requests'[r] = requests[r]
    BY <1>3, ProviderChanged
  <2>3. \A r \in Fetches : requests[r] = Free
    BY <1>7, <2>1
  <2> QED  BY <1>8, <2>1, <2>2, <2>3
<1>9. CASE EditSettings
  <2>1. ChangesSettings(provider)
    BY <1>9 DEF EditSettings
  <2>2. provider \in Providers
    BY <2>1, RenderedMeans DEF ChangesSettings, WidgetTypes
  <2>3. PICK s \in Fetches : Puts(s, Sent("state", provider, Nothing))
    BY <1>0, <1>9, FetchPuts DEF EditSettings
  <2>4. \A r \in Fetches : requests[r] = Free
    BY <1>7, <2>1, <2>2
  <2>5. RequestFits(Sent("state", provider, Nothing))
    BY <1>0, <2>2, SentFits, WidgetAssumption
  <2>6. /\ requests'[s] = Sent("state", provider, Nothing)
        /\ \A t \in Fetches \ {s} : requests'[t] = requests[t]
    BY <1>0, <2>3, <2>5, PutsType
  <2> QED  BY <1>8, <2>1, <2>2, <2>4, <2>6
<1>4. ASSUME NEW s \in Fetches, Serve(s) PROVE Sure'
  <2>1. certain /\ UNCHANGED <<stream, job, late, events, provider, known, shown>>
    BY <1>4 DEF Serve, screen, queued
  <2>2. PICK q \in Asked :
              /\ q.at = "answered" /\ q.kind = requests[s].kind
              /\ RequestFits(q) /\ q # Free /\ Puts(s, q)
              /\ q.kind \in {"state", "new", "select"} =>
                   q.provider = requests[s].provider /\ q.ref = row'[q.provider]
    BY <1>4, Served
  <2>3. requests[s] # Free /\ (requests[s].kind = "state" => row' = row)
    BY <1>4, Served
  <2>4. Alone /\ OfDisplay
    BY <2>1 DEF WidgetInv, Sure
  <2>5. stream = NoStream /\ late = {}
    BY <2>3, <2>4 DEF Alone, Busy
  <2>6. requests'[s] = q /\ \A t \in Fetches \ {s} : requests'[t] = requests[t]
    BY <1>0, <2>2, PutsType
  <2>7. Alone'
    BY <2>1, <2>2, <2>3, <2>4, <2>5, <2>6 DEF Alone
  <2>8. ASSUME NEW t \in Fetches, requests'[t] # Free,
               requests'[t].kind \in {"state", "new", "select"}
        PROVE  /\ requests'[t].provider = provider'
               /\ requests'[t].at = "answered" => requests'[t].ref = row'[provider']
    <3>1. CASE t = s
      BY <2>1, <2>2, <2>3, <2>4, <2>6, <2>8, <3>1 DEF OfDisplay
    <3>2. CASE t # s
      <4>1. requests'[t] = requests[t] /\ requests[s].kind = "state"
        BY <2>3, <2>4, <2>6, <2>8, <3>2 DEF Alone
      <4> QED  BY <2>1, <2>3, <2>4, <2>8, <4>1 DEF OfDisplay
    <3> QED  BY <3>1, <3>2
  <2>9. OfDisplay'
    BY <2>8 DEF OfDisplay
  <2>10. Settled'
    <3>1. CASE requests[s].kind = "dialogs"
      <4>1. CASE Loading
        <5>1. PICK t \in Fetches : requests[t] # Free /\ requests[t].kind # "dialogs"
          BY <4>1 DEF Loading
        <5>2. requests'[t] = requests[t]
          BY <2>6, <3>1, <5>1
        <5> QED  BY <5>1, <5>2 DEF Settled, Loading
      <4>2. CASE ~Loading /\ provider # Nothing
        <5>1. events = <<>> /\ Len(events) = 0
          BY <2>5, NoStreamMeans, EmptySeq
        <5>2. Agrees
          BY <2>1, <4>2, <5>1 DEF WidgetInv, Sure, Settled
        <5>3. row' = row
          BY <1>4, <3>1, Served
        <5> QED  BY <2>1, <5>2, <5>3 DEF Settled, Agrees
      <4>3. CASE provider = Nothing
        BY <2>1, <4>3 DEF Settled
      <4> QED  BY <4>1, <4>2, <4>3
    <3>2. CASE requests[s].kind # "dialogs"
      BY <2>2, <2>6, <3>2 DEF Settled, Loading
    <3> QED  BY <3>1, <3>2
  <2> QED  BY <2>1, <2>5, <2>7, <2>9, <2>10, NoStreamMeans, NoStreamStays DEF Sure
<1>5. ASSUME NEW s \in Fetches, Arrive(s) PROVE Sure'
  <2>1. certain /\ UNCHANGED <<stream, job, late, events, row>>
    BY <1>5 DEF Arrive, server
  <2>2. /\ requests[s] \in Asked /\ requests[s] # Free
        /\ requests[s].provider \in Providers /\ requests[s].at = "answered"
    BY <1>5, Arrived
  <2>3. Alone /\ OfDisplay
    BY <2>1 DEF WidgetInv, Sure
  <2>4. stream = NoStream /\ late = {}
    BY <2>2, <2>3 DEF Alone, Busy
  <2>5. OfStream'
    BY <2>1, <2>4, NoStreamMeans, NoStreamStays
  <2>6. CASE requests[s].kind \in {"settings", "save"}
    <3> DEFINE q == Sent("state", requests[s].provider, Nothing)
    <3>1. Puts(s, q) /\ provider' = requests[s].provider
      BY <1>5, <2>6, Arrived
    <3>2. RequestFits(q) /\ q # Free /\ q.provider = provider' /\ q.at = "sent" /\ q.kind = "state"
      BY <1>0, <2>2, <3>1, SentFits, WidgetAssumption
    <3> HIDE DEF q
    <3>3. requests'[s] = q /\ \A t \in Fetches \ {s} : requests'[t] = requests[t]
      BY <1>0, <3>1, <3>2, PutsType
    <3>4. \A t \in Fetches \ {s} : requests[t] = Free
      BY <2>2, <2>3, <2>6 DEF Alone
    <3>5. Alone' /\ OfDisplay' /\ Settled'
      BY <2>1, <2>4, <3>2, <3>3, <3>4 DEF Alone, OfDisplay, Settled, Loading
    <3> QED  BY <2>5, <3>5 DEF Sure
  <2>7. CASE requests[s].kind \in {"state", "new", "select"}
    <3>1. Puts(s, Free) /\ provider' = provider /\ shown' = requests[s].ref
      BY <1>5, <2>7, Arrived
    <3>2. requests[s].ref = row[provider]
      BY <2>2, <2>3, <2>7 DEF OfDisplay
    <3>3. requests'[s] = Free /\ \A t \in Fetches \ {s} : requests'[t] = requests[t]
      BY <1>0, <3>1, PutsType DEF RequestFits
    <3>4. Alone' /\ OfDisplay'
      BY <2>1, <2>3, <2>4, <3>1, <3>3 DEF Alone, OfDisplay
    <3>5. Settled'
      BY <2>1, <3>1, <3>2 DEF Settled, Agrees
    <3> QED  BY <2>5, <3>4, <3>5 DEF Sure
  <2>8. CASE requests[s].kind = "dialogs"
    <3>1. Puts(s, Free) /\ UNCHANGED <<provider, known, shown>>
      BY <1>5, <2>8, Arrived
    <3>2. requests'[s] = Free /\ \A t \in Fetches \ {s} : requests'[t] = requests[t]
      BY <1>0, <3>1, PutsType DEF RequestFits
    <3>3. Alone' /\ OfDisplay'
      BY <2>1, <2>3, <2>4, <3>1, <3>2 DEF Alone, OfDisplay
    <3>4. CASE Loading
      <4>1. PICK t \in Fetches : requests[t] # Free /\ requests[t].kind # "dialogs"
        BY <3>4 DEF Loading
      <4>2. requests'[t] = requests[t]
        BY <2>8, <3>2, <4>1
      <4> QED  BY <2>5, <3>3, <4>1, <4>2 DEF Sure, Settled, Loading
    <3>5. CASE ~Loading
      <4>1. Settled'
        BY <2>1, <3>1, <3>5 DEF WidgetInv, Sure, Settled, Agrees
      <4> QED  BY <2>5, <3>3, <4>1 DEF Sure
    <3> QED  BY <3>4, <3>5
  <2> QED  BY <2>2, <2>6, <2>7, <2>8 DEF Asked
<1>6. ASSUME NEW s \in Fetches, RequestFails(s) PROVE FALSE
  BY <1>6 DEF RequestFails
<1> QED  BY <1>1, <1>2, <1>3, <1>4, <1>5, <1>6, <1>9

\* While a message has a stream no request is under way.
LEMMA StreamIsAlone ==
  ASSUME WidgetTypes, Sure, stream # NoStream
  PROVE  ~Busy /\ provider # Nothing /\ stream.provider = provider
BY DEF WidgetTypes, StreamTypes, Sure, Alone, OfStream

\* The server takes the message and reports on it.
LEMMA SureServer ==
  ASSUME WidgetTypes, WidgetInv, certain',
         Open \/ AssistantChunk \/ StreamEnds
  PROVE  Sure'
<1>0. /\ RequestTypes /\ StreamTypes /\ ServerTypes /\ ScreenTypes /\ EventsFit
      /\ events \in Seq(Told) /\ Nothing \in MaybeRef
  BY DEF WidgetTypes, EventsFit, MaybeRef
<1> DEFINE Goes == /\ certain' => certain
                   /\ UNCHANGED <<requests, screen>> /\ stream.at \in {"opening", "open"}
<1>1. Goes
  <2>1. Open => Goes
    BY DEF Open
  <2>2. AssistantChunk => Goes
    BY DEF AssistantChunk
  <2>3. AgentError => Goes
    BY DEF AgentError
  <2>4. IdleTimeout => Goes
    BY DEF IdleTimeout
  <2>5. ResumeFailed => Goes
    BY DEF ResumeFailed
  <2>6. ASSUME NEW reported \in MaybeRef, AssistantDone(reported)
        PROVE  Goes
    BY <2>6 DEF AssistantDone
  <2> HIDE DEF Goes
  <2>7. StreamEnds => Goes
    BY <2>3, <2>4, <2>5, <2>6 DEF StreamEnds
  <2> QED  BY <2>1, <2>2, <2>7
<1>2. Sure /\ stream # NoStream
  BY <1>1 DEF Goes, WidgetInv, NoStream
<1>3. ~Busy /\ provider # Nothing /\ stream.provider = provider
  BY <1>2, StreamIsAlone
<1>4. UNCHANGED <<requests, provider, known, shown>> /\ ~Busy' /\ ~Loading
  BY <1>1, <1>3 DEF Goes, screen, queued, Busy, Loading
<1>5. Alone' /\ OfDisplay'
  BY <1>3, <1>4 DEF Alone, OfDisplay, Busy
<1>6. CASE Open
  <2>1. /\ stream \in Streams /\ stream' = [stream EXCEPT !.at = "open"] /\ stream.at = "opening"
        /\ row' = row /\ events' = events
        /\ job' = [at |-> "running", provider |-> stream.provider,
                   captured |-> row[stream.provider]]
    BY <1>0, <1>6 DEF Open, StreamTypes, NoStream
  <2>2. Len(events) = 0 /\ Len(events') = 0
    BY <1>0, <2>1 DEF EventsFit
  <2>3. Agrees
    BY <1>2, <1>3, <1>4, <2>2 DEF Sure, Settled
  <2>4. stream'.provider = provider
    BY <1>3, <2>1 DEF Streams
  <2>5. OfStream' /\ Settled'
    BY <1>3, <1>4, <2>1, <2>2, <2>3, <2>4 DEF OfStream, Settled, Agrees
  <2> QED  BY <1>5, <2>5 DEF Sure
<1>7. CASE AssistantChunk
  <2>1. PICK kind \in {"text", "echo"} : Emits(<<Event(kind, Nothing)>>)
    BY <1>7 DEF AssistantChunk
  <2>2. /\ job \in Jobs /\ job # NoJob /\ UNCHANGED <<job, row, stream>> /\ events = <<>>
    BY <1>0, <1>7, Running DEF AssistantChunk, server
  <2>3. Event(kind, Nothing) \in Told /\ Event(kind, Nothing).kind = kind
    BY <1>0, EventTypes
  <2> DEFINE new == <<Event(kind, Nothing)>>
  <2>4. new \in Seq(Told) /\ Emits(new) /\ \A i \in 1 .. Len(new) : new[i].kind = kind
    BY <2>1, <2>3
  <2> HIDE DEF new
  <2>5. Len(events) = 0
    BY <2>2, EmptySeq
  <2>6. \A i \in 1 .. Len(events') : events'[i].kind = kind
    BY <1>0, <2>4, <2>5, MoreEvents
  <2>7. OfStream /\ Agrees
    BY <1>2, <2>2 DEF Sure, OfStream
  <2>8. OfStream' /\ Settled'
    BY <1>4, <2>2, <2>6, <2>7 DEF OfStream, Settled, Agrees
  <2> QED  BY <1>5, <2>8 DEF Sure
<1>8. CASE AgentError \/ IdleTimeout
  <2> DEFINE new == <<Event("error", Nothing)>>
  <2>1. Emits(new) /\ job' = NoJob /\ stream' = stream /\ row' = row /\ job # NoJob
    BY <1>0, <1>8, Running DEF AgentError, IdleTimeout
  <2>2. Event("error", Nothing) \in Told /\ Event("error", Nothing).kind = "error"
    BY <1>0, EventTypes
  <2>3. new \in Seq(Told) /\ \A i \in 1 .. Len(new) : new[i].kind = "error"
    BY <2>2
  <2> HIDE DEF new
  <2>4. ASSUME NEW i \in 1 .. Len(events') PROVE events'[i].kind # "done"
    <3>1. CASE i \in 1 .. Len(events) /\ events'[i] = events[i]
      BY <1>0, <2>1, <3>1 DEF EventsFit
    <3>2. CASE i - Len(events) \in 1 .. Len(new) /\ events'[i] = new[i - Len(events)]
      BY <2>3, <3>2
    <3> QED  BY <1>0, <2>1, <2>3, <3>1, <3>2, MoreEvents
  <2>5. OfStream /\ Agrees
    BY <1>2, <2>1 DEF Sure, OfStream
  <2>6. OfStream' /\ Settled'
    BY <1>4, <2>1, <2>4, <2>5 DEF OfStream, Settled, Agrees
  <2> QED  BY <1>5, <2>6 DEF Sure
<1>9. CASE ResumeFailed
  BY <1>9 DEF ResumeFailed
<1>10. ASSUME NEW reported \in MaybeRef, AssistantDone(reported) PROVE Sure'
  <2> DEFINE ref == IF reported = Nothing THEN job.captured ELSE reported
             new == <<Event("done", ref), Event("end", Nothing)>>
  <2>1. /\ Emits(new) /\ job' = NoJob /\ stream' = stream /\ job # NoJob /\ job \in Jobs
        /\ StoresAnswer(job, ref)
    BY <1>0, <1>10, Running DEF AssistantDone
  <2>2. job.provider = provider /\ job.captured = row[provider] /\ Agrees
    BY <1>2, <2>1 DEF Sure, OfStream
  <2> HIDE DEF ref
  <2>3. ref \in MaybeRef /\ (ref = Nothing => job.captured = Nothing) /\ row'[provider] = ref
    BY <1>0, <2>1, <2>2, AnswerTypes DEF ref
  <2>4. /\ Event("done", ref) \in Told /\ Event("end", Nothing) \in Told
        /\ Event("done", ref).kind = "done" /\ Event("done", ref).ref = ref
        /\ Event("end", Nothing).kind = "end"
    BY <1>0, <2>3, EventTypes
  <2>5. /\ new \in Seq(Told) /\ Len(new) = 2
        /\ new[1] = Event("done", ref) /\ new[2] = Event("end", Nothing)
    BY <2>4
  <2> HIDE DEF new
  <2>6. \A i \in 1 .. Len(new) : new[i].kind = "done" => new[i].ref = ref
    <3>1. \A i \in 1 .. Len(new) : i = 1 \/ i = 2
      BY <2>5
    <3> QED  BY <2>4, <2>5, <3>1
  <2>7. ASSUME NEW i \in 1 .. Len(events'), events'[i].kind = "done"
        PROVE  events'[i].ref = ref
    <3>1. CASE i \in 1 .. Len(events) /\ events'[i] = events[i]
      BY <1>0, <2>1, <2>7, <3>1 DEF EventsFit
    <3>2. CASE i - Len(events) \in 1 .. Len(new) /\ events'[i] = new[i - Len(events)]
      BY <2>6, <2>7, <3>2
    <3> QED  BY <1>0, <2>1, <2>5, <3>1, <3>2, MoreEvents
  <2>8. \E i \in 1 .. Len(events') : events'[i].kind = "done"
    <3>1. 1 \in 1 .. Len(new) /\ new[1].kind = "done"
      BY <2>4, <2>5
    <3>2. /\ Len(events) + 1 \in 1 .. Len(events')
          /\ events'[Len(events) + 1] = new[1]
      BY <1>0, <2>1, <2>5, <3>1, MoreEvents
    <3> QED  BY <3>1, <3>2
  <2>9. ref = Nothing => Agrees'
    BY <1>4, <2>2, <2>3 DEF Agrees
  <2>10. OfStream' /\ Settled'
    BY <1>3, <1>4, <2>1, <2>3, <2>7, <2>8, <2>9 DEF OfStream, Settled, Sure
  <2> QED  BY <1>5, <2>10 DEF Sure
<1> QED  BY <1>6, <1>7, <1>8, <1>9, <1>10 DEF StreamEnds

\* The tab sends a message and takes its events.
LEMMA SureTab ==
  ASSUME WidgetTypes, WidgetInv, certain',
         Send \/ Retry \/ StreamFails \/ Take
  PROVE  Sure'
<1>0. /\ RequestTypes /\ StreamTypes /\ ServerTypes /\ ScreenTypes /\ EventsFit
      /\ events \in Seq(Told)
  BY DEF WidgetTypes, EventsFit
<1>1. ASSUME NEW user, Submit(user) PROVE Sure'
  <2>1. /\ certain /\ Quiet /\ Rendered
        /\ UNCHANGED <<requests, provider, known, shown, row, job, late, events>>
        /\ stream' = [at |-> "opening", user |-> user, bubble |-> sends',
                      provider |-> ActiveProvider, got |-> FALSE]
    BY <1>1 DEF Submit, Renders, server
  <2>2. /\ job = NoJob /\ events = <<>> /\ late = {} /\ ~Busy /\ ~Loading /\ Len(events) = 0
        /\ ActiveProvider = provider /\ provider # Nothing
    BY <2>1, QuietMeans, EmptySeq DEF Busy, Loading
  <2>3. Agrees
    BY <2>1, <2>2 DEF WidgetInv, Sure, Settled
  <2>4. Alone' /\ OfDisplay'
    BY <2>1, <2>2 DEF Alone, OfDisplay, Busy
  <2>5. stream'.provider = provider
    BY <2>1, <2>2
  <2>6. OfStream' /\ Settled'
    BY <2>1, <2>2, <2>3, <2>5 DEF OfStream, Settled, Agrees
  <2> QED  BY <2>4, <2>6 DEF Sure
<1>2. CASE StreamFails
  BY <1>2 DEF StreamFails
<1>3. CASE Take
  <2>1. /\ events # <<>> /\ certain
        /\ UNCHANGED <<requests, row, job, late>>
    BY <1>3 DEF Take, TakeChunk, TakeDone, TakeError, TakeEnd, server
  <2>2. /\ stream.at = "open" /\ stream # NoStream /\ stream \in Streams
        /\ Head(events) = events[1] /\ 1 \in 1 .. Len(events) /\ Len(events) \in Nat
    BY <1>0, <2>1, HeadFits DEF EventsFit, StreamTypes, NoStream
  <2>3. Sure /\ ~Busy /\ ~Loading /\ provider # Nothing /\ stream.provider = provider
    BY <2>1, <2>2, StreamIsAlone DEF WidgetInv, Busy, Loading
  <2>4. ASSUME provider' = provider PROVE Alone' /\ OfDisplay' /\ ~Busy'
    BY <2>1, <2>3, <2>4 DEF Alone, OfDisplay, Busy
  <2>5. ASSUME events' = Tail(events)
        PROVE  \A i \in 1 .. Len(events') :
                 i + 1 \in 1 .. Len(events) /\ events'[i] = events[i + 1]
    BY <1>0, <2>1, <2>5, TailEvents
  <2>6. CASE TakeChunk
    <3>1. /\ events' = Tail(events) /\ Head(events).kind # "done"
          /\ stream' = [stream EXCEPT !.got = TRUE]
      BY <2>6 DEF TakeChunk
    <3>2. UNCHANGED <<provider, known, shown>>
      BY <2>6 DEF TakeChunk, Displays
    <3>3. stream'.provider = provider
      BY <2>2, <2>3, <3>1 DEF Streams
    <3>4. \A i \in 1 .. Len(events') :
            i + 1 \in 1 .. Len(events) /\ events'[i] = events[i + 1]
      BY <2>5, <3>1
    <3>5. OfStream'
      <4>1. OfStream
        BY <2>3 DEF Sure
      <4> QED  BY <2>1, <3>2, <3>3, <3>4, <4>1 DEF OfStream, Agrees
    <3>6. Settled'
      <4>1. CASE Agrees
        BY <2>1, <3>2, <4>1 DEF Settled, Agrees
      <4>2. CASE ~Agrees
        <5>1. PICK i \in 1 .. Len(events) : events[i].kind = "done"
          BY <2>3, <4>2 DEF Sure, Settled
        <5>2. i # 1 /\ i \in Nat
          BY <2>2, <3>1, <5>1
        <5>3. Len(events') = Len(events) - 1
          BY <1>0, <2>1, <3>1, TailEvents
        <5>4. i - 1 \in 1 .. Len(events') /\ (i - 1) + 1 = i
          BY <2>2, <5>1, <5>2, <5>3
        <5>5. events'[i - 1].kind = "done"
          BY <3>4, <5>1, <5>4
        <5> QED  BY <5>4, <5>5 DEF Settled
      <4> QED  BY <4>1, <4>2
    <3> QED  BY <2>4, <3>2, <3>5, <3>6 DEF Sure
  <2>7. CASE TakeDone
    <3>1. /\ events' = Tail(events) /\ Head(events).kind = "done"
          /\ stream' = stream /\ known
          /\ Shows(ShownAfterDone(Head(events).ref))
      BY <2>7 DEF TakeDone
    <3>2. Head(events).ref = row[provider] /\ (row[provider] = Nothing => Agrees)
      BY <2>2, <2>3, <3>1 DEF Sure, OfStream
    <3>3. provider' = provider /\ shown' = ShownAfterDone(Head(events).ref)
      BY <3>1 DEF Shows
    <3>4. shown' = row[provider]
      BY <3>1, <3>2, <3>3 DEF ShownAfterDone, Agrees
    <3>5. Agrees'
      BY <2>1, <3>3, <3>4 DEF Agrees
    <3>6. \A i \in 1 .. Len(events') :
            i + 1 \in 1 .. Len(events) /\ events'[i] = events[i + 1]
      BY <2>5, <3>1
    <3>7. OfStream'
      <4>1. OfStream
        BY <2>3 DEF Sure
      <4>2. ASSUME NEW i \in 1 .. Len(events'), events'[i].kind = "done"
            PROVE  events'[i].ref = row'[provider']
        BY <2>1, <3>3, <3>6, <4>1, <4>2 DEF OfStream
      <4>3. stream'.provider = provider'
        BY <2>3, <3>1, <3>3
      <4>4. job' # NoJob => job'.provider = provider' /\ job'.captured = row'[provider']
        BY <2>1, <3>3, <4>1 DEF OfStream
      <4> QED  BY <3>5, <4>2, <4>3, <4>4 DEF OfStream
    <3>8. Settled'
      BY <3>5 DEF Settled
    <3> QED  BY <2>4, <3>3, <3>7, <3>8 DEF Sure
  <2>8. CASE TakeError \/ TakeEnd
    <3>1. /\ Head(events).kind \in {"error", "end"} /\ events' = <<>> /\ stream' = NoStream
          /\ UNCHANGED <<provider, known, shown>>
      BY <2>8 DEF TakeError, TakeEnd, GivesUp, Finally, Displays, screen, queued
    <3>2. Len(events) = 1 /\ events[1].kind # "done"
      BY <1>0, <2>2, <3>1 DEF EventsFit
    <3>3. \A i \in 1 .. Len(events) : i = 1
      BY <3>2
    <3>4. Agrees
      BY <2>3, <3>2, <3>3 DEF Sure, Settled
    <3>5. job = NoJob
      BY <1>0, <2>2, <3>1 DEF EventsFit
    <3>6. OfStream' /\ Settled'
      BY <2>1, <3>1, <3>4, <3>5, NoStreamStays DEF Settled, Agrees
    <3> QED  BY <2>4, <3>1, <3>6 DEF Sure
  <2> QED  BY <1>3, <2>6, <2>7, <2>8 DEF Take
<1> QED  BY <1>1, <1>2, <1>3 DEF Send, Retry

LEMMA SureStep ==
  WidgetTypes /\ WidgetInv /\ [WidgetNext]_widgetVars => WidgetInv'
<1> SUFFICES ASSUME WidgetTypes, WidgetInv, [WidgetNext]_widgetVars, certain'
             PROVE  Sure'
  BY DEF WidgetInv
<1>1. CASE UNCHANGED widgetVars
  BY <1>1 DEF widgetVars, server, screen, queued, WidgetInv, Sure, Alone, OfDisplay, OfStream,
     Settled, Agrees, Busy, Loading
<1>2. ASSUME NEW j \in late, LateNothing(j) PROVE Sure'
  <2>1. /\ certain /\ late' \subseteq late
        /\ UNCHANGED <<row, job, requests, provider, known, shown, stream, events>>
    BY <1>2 DEF LateNothing, screen, queued
  <2> QED
    BY <2>1 DEF WidgetInv, Sure, Alone, OfDisplay, OfStream, Settled, Agrees, Busy, Loading
<1>3. ASSUME NEW j \in late, NEW ref \in MaybeRef, LateDone(j, ref) PROVE FALSE
  BY <1>3 DEF LateDone
<1>4. CASE Reload
  <2>1. /\ Quiet /\ provider' = Nothing /\ stream' = NoStream /\ events' = <<>> /\ job' = NoJob
        /\ UNCHANGED <<late, requests>>
    BY <1>4 DEF Reload
  <2>2. late = {} /\ \A s \in Fetches : requests[s] = Free
    BY <2>1, QuietMeans
  <2>3. Alone' /\ OfDisplay' /\ Settled'
    BY <2>1, <2>2 DEF Alone, OfDisplay, Settled
  <2> QED  BY <2>1, <2>3, NoStreamStays DEF Sure
<1>5. CASE Render
  <2>1. /\ certain
        /\ UNCHANGED <<row, job, late, requests, provider, known, shown, stream, events>>
    BY <1>5 DEF Render, Renders, server
  <2> QED
    BY <2>1 DEF WidgetInv, Sure, Alone, OfDisplay, OfStream, Settled, Agrees, Busy, Loading
<1> QED
  BY <1>1, <1>2, <1>3, <1>4, <1>5, SureRequests, SureServer, SureTab DEF WidgetNext

\* When operations did not overlap and none failed, the dialog on display is the
\* one the server resumes next (useTerminalAgentController.ts over the rows of
\* terminal-agent-service.ts): for any providers, refs, requests and operations.
THEOREM ShownResumed == WidgetSpec => []ShownIsResumed
<1>1. WidgetInit => WidgetInv
  <2> SUFFICES ASSUME WidgetInit PROVE Sure
    BY DEF WidgetInv
  <2>1. Len(events) = 0
    BY EmptySeq DEF WidgetInit
  <2> QED
    BY <2>1 DEF WidgetInit, Sure, Alone, OfDisplay, OfStream, Settled
<1>2. WidgetTypes /\ WidgetInv => ShownIsResumed
  <2> SUFFICES ASSUME WidgetTypes, WidgetInv, Quiet, certain, provider # Nothing, known
               PROVE  shown = row[provider]
    BY DEF ShownIsResumed
  <2>1. events = <<>> /\ ~Loading /\ Len(events) = 0
    BY QuietMeans, EmptySeq DEF Loading
  <2> QED  BY <2>1 DEF WidgetInv, Sure, Settled, Agrees
<1> QED  BY <1>1, <1>2, SureStep, WidgetTypesCorrect, PTL DEF WidgetSpec

=============================================================================
