---------------------------- MODULE Shell_proofs ----------------------------
(* Theorems about Shell, for every value of its constants.                 *)
EXTENDS Shell, TLAPS

\* The shape of what the proofs look into: a call per slot, and one of the
\* three states per owner and widget.
Call(c) == c = [kind |-> c.kind, cookie |-> c.cookie, before |-> c.before,
                body |-> c.body, reply |-> c.reply]
CallsShaped == /\ calls = [s \in Slots |-> calls[s]]
               /\ \A s \in Slots : Call(calls[s])
StatesShaped ==
  moduleState \in [Owners -> [Widgets -> {"enabled", "auto", "user"}]]

FlagsInv == CallsShaped /\ FlagsAreOwed

\* Every action that touches the calls puts one record into one slot.
Puts(s, c) == s \in Slots /\ Call(c) /\ calls' = [calls EXCEPT ![s] = c]

-----------------------------------------------------------------------------
(* The calls.                                                              *)

LEMMA PutsShaped ==
  ASSUME CallsShaped, NEW s, NEW c, Puts(s, c)
  PROVE  /\ CallsShaped'
         /\ calls'[s] = c
         /\ \A t \in Slots \ {s} : calls'[t] = calls[t]
BY DEF CallsShaped, Puts, Call

\* What is in flight stays so, unless its own slot is given something else.
LEMMA PutsKeeps ==
  ASSUME CallsShaped, NEW s, NEW c, Puts(s, c), NEW kinds,
         calls[s].kind \notin kinds \/ c.kind \in kinds, InFlight(kinds)
  PROVE  InFlight(kinds)'
BY PutsShaped DEF InFlight, Puts

LEMMA PutsStarts ==
  ASSUME CallsShaped, NEW s, NEW c, Puts(s, c), NEW kinds, c.kind \in kinds
  PROVE  InFlight(kinds)'
BY PutsShaped DEF InFlight, Puts

LEMMA SendPuts ==
  ASSUME CallsShaped, NEW kind, NEW before, NEW body,
         Send(Request(kind, before, body))
  PROVE  \E s \in Slots : /\ Puts(s, Request(kind, before, body))
                          /\ calls[s].kind = "idle"
<1> DEFINE s == CHOOSE f \in Free : TRUE
<1>1. s \in Free  BY DEF Send
<1>2. s \in Slots /\ calls[s] = Idle
  <2>1. \A f \in Free : f \in Slots /\ calls[f] = Idle  BY DEF Free
  <2> QED  BY <1>1, <2>1
<1>3. Call(Request(kind, before, body))  BY DEF Call, Request
<1>4. calls' = [calls EXCEPT ![s] = Request(kind, before, body)]  BY DEF Send
<1>5. calls[s].kind = "idle"  BY <1>2 DEF Idle
<1> HIDE DEF s
<1> QED  BY <1>2, <1>3, <1>4, <1>5 DEF Puts

LEMMA ReplyPuts ==
  ASSUME CallsShaped, NEW s \in Slots, NEW reply, Reply(s, reply)
  PROVE  \E c : /\ Puts(s, c) /\ c.kind = calls[s].kind /\ c.reply = reply
<1> DEFINE c == [calls[s] EXCEPT !.reply = reply]
<1>1. Call(calls[s])  BY DEF CallsShaped
<1>2. Call(c) /\ c.kind = calls[s].kind /\ c.reply = reply
  BY <1>1 DEF Call
<1>3. calls' = [calls EXCEPT ![s] = c]  BY DEF Reply
<1> QED  BY <1>2, <1>3 DEF Puts

LEMMA DonePuts ==
  ASSUME NEW s \in Slots, Done(s)
  PROVE  Puts(s, Idle)
BY DEF Done, Puts, Call, Idle

LEMMA LoadPuts ==
  ASSUME NEW s \in Slots, LoadShell(s)
  PROVE  Puts(s, Request("load", None, None))
BY DEF LoadShell, Puts, Call, Request

-----------------------------------------------------------------------------
(* The flags.                                                              *)

LEMMA FlagsInit == Init => FlagsInv
BY DEF Init, FlagsInv, CallsShaped, Call, Idle, FlagsAreOwed

\* A request that sets no flag, and a handler of the server, keep every flag.
LEMMA FlagsKept ==
  ASSUME FlagsInv, NEW s, NEW c, Puts(s, c),
         calls[s].kind = "idle" \/ c.kind = calls[s].kind,
         UNCHANGED <<badge, flags>>
  PROVE  FlagsInv'
<1>1. ASSUME NEW kinds, "idle" \notin kinds, InFlight(kinds)
      PROVE  InFlight(kinds)'
  BY <1>1, PutsKeeps DEF FlagsInv
<1>2. CallsShaped'  BY PutsShaped DEF FlagsInv
<1> QED  BY <1>1, <1>2 DEF FlagsInv, FlagsAreOwed, badge, flags

\* A request of a kind that holds the badge's buttons.
LEMMA FlagsPending ==
  ASSUME FlagsInv, NEW s, NEW c, Puts(s, c), calls[s].kind = "idle",
         c.kind \in {"poll", "connect"}, UNCHANGED flags
  PROVE  FlagsInv'
<1>1. InFlight({"poll", "connect", "agents"})'
  BY PutsStarts DEF FlagsInv
<1>2. \A k \in {{"load"}, {"save", "settings"}} : InFlight(k) => InFlight(k)'
  BY PutsKeeps DEF FlagsInv
<1>3. CallsShaped'  BY PutsShaped DEF FlagsInv
<1> QED  BY <1>1, <1>2, <1>3 DEF FlagsInv, FlagsAreOwed, flags

LEMMA FlagsSaving ==
  ASSUME FlagsInv, NEW s, NEW c, Puts(s, c), calls[s].kind = "idle",
         c.kind \in {"save", "settings"}, UNCHANGED <<badge, loading>>
  PROVE  FlagsInv'
<1>1. InFlight({"save", "settings"})'
  BY PutsStarts DEF FlagsInv
<1>2. \A k \in {{"load"}, {"poll", "connect", "agents"}} :
        InFlight(k) => InFlight(k)'
  BY PutsKeeps DEF FlagsInv
<1>3. CallsShaped'  BY PutsShaped DEF FlagsInv
<1> QED  BY <1>1, <1>2, <1>3 DEF FlagsInv, FlagsAreOwed, badge

LEMMA FlagsSend == FlagsInv /\ (Poll \/ User) => FlagsInv'
<1> SUFFICES ASSUME FlagsInv, Poll \/ User PROVE FlagsInv'
  OBVIOUS
<1> USE DEF FlagsInv
<1>1. CASE Poll
  BY <1>1, SendPuts, FlagsPending DEF Poll, Request
<1>2. CASE Retry
  BY <1>2, SendPuts, FlagsPending DEF Retry, Request
<1>3. ASSUME NEW a \in Agents, Connect(a) PROVE FlagsInv'
  BY <1>3, SendPuts, FlagsPending DEF Connect, Request
<1>4. CASE SaveLayout
  BY <1>4, SendPuts, FlagsSaving DEF SaveLayout, Request
<1>5. CASE SaveSettings
  BY <1>5, SendPuts, FlagsSaving DEF SaveSettings, Request
<1>6. ASSUME NEW w \in Widgets, ToggleModule(w) PROVE FlagsInv'
  BY <1>6, SendPuts, FlagsKept DEF ToggleModule
<1>7. CASE StartEdit \/ CancelEdit \/ \E w, over \in Widgets : Drag(w, over)
  BY <1>7 DEF StartEdit, CancelEdit, Drag, CallsShaped, FlagsAreOwed,
    InFlight, badge, flags
<1> QED  BY <1>1, <1>2, <1>3, <1>4, <1>5, <1>6, <1>7 DEF User

LEMMA FlagsServe ==
  ASSUME FlagsInv, NEW s \in Slots, Serve(s)
  PROVE  FlagsInv'
<1>1. \E reply : Reply(s, reply)
  BY DEF Serve, ServeStatus, ServeConnect, ServeShell, ServeToggle
<1>2. UNCHANGED <<badge, flags>>
  BY DEF Serve, ServeStatus, ServeConnect, ServeShell, ServeToggle
<1> QED  BY <1>1, <1>2, ReplyPuts, FlagsKept DEF FlagsInv

\* A handler that ends in a load has left nothing of its own kind behind.
LEMMA FlagsLoad ==
  ASSUME FlagsInv, NEW s \in Slots, LoadShell(s), UNCHANGED isSaving,
         calls[s].kind \notin {"save", "settings"},
         \/ pending' = FALSE
         \/ /\ UNCHANGED <<pending, passportStatus>>
            /\ calls[s].kind \notin {"poll", "connect", "agents"}
  PROVE  FlagsInv'
<1> DEFINE c == Request("load", None, None)
<1>1. Puts(s, c) /\ c.kind = "load"  BY LoadPuts DEF Request
<1>2. CallsShaped' /\ InFlight({"load"})'
  BY <1>1, PutsShaped, PutsStarts DEF FlagsInv
<1>3. InFlight({"save", "settings"}) => InFlight({"save", "settings"})'
  BY <1>1, PutsKeeps DEF FlagsInv
<1>4. CASE pending' = FALSE
  BY <1>2, <1>3, <1>4 DEF FlagsInv, FlagsAreOwed
<1>5. CASE calls[s].kind \notin {"poll", "connect", "agents"}
  <2>1. InFlight({"poll", "connect", "agents"})
          => InFlight({"poll", "connect", "agents"})'
    BY <1>1, <1>5, PutsKeeps DEF FlagsInv
  <2> QED  BY <1>2, <1>3, <2>1 DEF FlagsInv, FlagsAreOwed
<1> QED  BY <1>4, <1>5

LEMMA FlagsErr ==
  ASSUME FlagsInv, NEW s \in Slots, Err(s)
  PROVE  FlagsInv'
<1>1. Puts(s, Idle)  BY DonePuts DEF Err
<1>2. CallsShaped'  BY <1>1, PutsShaped DEF FlagsInv
<1>3. \A kinds : calls[s].kind \notin kinds /\ InFlight(kinds)
                   => InFlight(kinds)'
  BY <1>1, PutsKeeps DEF FlagsInv
<1>4. pending' => InFlight({"poll", "connect", "agents"})' \/ passportStatus' = None
  BY <1>3 DEF Err, FlagsInv, FlagsAreOwed
<1>5. loading' => InFlight({"load"})'
  BY <1>3 DEF Err, LoadingAfterErr, FlagsInv, FlagsAreOwed
<1>6. isSaving' => InFlight({"save", "settings"})'
  BY <1>3 DEF Err, FlagsInv, FlagsAreOwed
<1> QED  BY <1>2, <1>4, <1>5, <1>6 DEF FlagsInv, FlagsAreOwed

LEMMA FlagsAnswer ==
  ASSUME FlagsInv, NEW s \in Slots, Answer(s)
  PROVE  FlagsInv'
<1>1. CASE StatusAnswered(s)
  <2>1. CASE LoadShell(s)
    BY <1>1, <2>1, FlagsLoad DEF StatusAnswered, Answered
  <2>2. CASE Done(s) /\ UNCHANGED loading
    <3>1. Puts(s, Idle)  BY <2>2, DonePuts
    <3>2. \A k \in {{"load"}, {"save", "settings"}} :
            InFlight(k) => InFlight(k)'
      BY <1>1, <3>1, PutsKeeps DEF FlagsInv, StatusAnswered, Answered
    <3>3. CallsShaped'  BY <3>1, PutsShaped DEF FlagsInv
    <3> QED
      BY <1>1, <2>2, <3>2, <3>3 DEF FlagsInv, FlagsAreOwed, StatusAnswered
  <2> QED  BY <1>1, <2>1, <2>2 DEF StatusAnswered
<1>2. CASE ConnectAnswered(s)
  <2> DEFINE c == ListRequest(calls[s].body)
  <2>1. Puts(s, c) /\ c.kind = "agents"
    BY <1>2 DEF ConnectAnswered, Puts, Call, ListRequest
  <2>2. InFlight({"poll", "connect", "agents"})'
    BY <2>1, PutsStarts DEF FlagsInv
  <2>3. \A k \in {{"load"}, {"save", "settings"}} : InFlight(k) => InFlight(k)'
    BY <1>2, <2>1, PutsKeeps DEF FlagsInv, ConnectAnswered, Answered
  <2>4. CallsShaped'  BY <2>1, PutsShaped DEF FlagsInv
  <2> QED
    BY <1>2, <2>2, <2>3, <2>4 DEF FlagsInv, FlagsAreOwed, ConnectAnswered, flags
<1>3. CASE AgentsAnswered(s)
  BY <1>3, FlagsLoad DEF AgentsAnswered, Answered
<1>4. CASE ShellAnswered(s)
  <2>1. Puts(s, Idle)  BY <1>4, DonePuts DEF ShellAnswered
  <2>2. InFlight({"poll", "connect", "agents"})
          => InFlight({"poll", "connect", "agents"})'
    BY <1>4, <2>1, PutsKeeps DEF FlagsInv, ShellAnswered, Answered
  <2>3. CallsShaped'  BY <2>1, PutsShaped DEF FlagsInv
  <2> QED
    BY <1>4, <2>2, <2>3 DEF FlagsInv, FlagsAreOwed, ShellAnswered, badge
<1>5. CASE ToggleAnswered(s)
  BY <1>5, FlagsLoad DEF ToggleAnswered, Answered, Toggles, badge
<1>6. CASE RefusalAnswered(s)
  BY <1>6, FlagsErr DEF RefusalAnswered
<1> QED  BY <1>1, <1>2, <1>3, <1>4, <1>5, <1>6 DEF Answer

LEMMA FlagsStep == FlagsInv /\ [Next]_vars => FlagsInv'
<1> SUFFICES ASSUME FlagsInv, [Next]_vars PROVE FlagsInv'
  OBVIOUS
<1>1. ASSUME NEW s \in Slots, Fail(s) PROVE FlagsInv'
  BY <1>1, FlagsErr DEF Fail
<1>2. CASE \/ \E a \in Agents : AgentComes(a) \/ AgentGoes(a)
           \/ ServeWidget \/ TokenExpires
           \/ UNCHANGED vars
  BY <1>2 DEF AgentComes, AgentGoes, ServeWidget, TokenExpires, vars, badge, flags,
    FlagsInv, CallsShaped, FlagsAreOwed, InFlight
<1> QED  BY <1>1, <1>2, FlagsSend, FlagsServe, FlagsAnswer DEF Next

\* No flag of the tab is ever set without a request in flight that will clear
\* it, however many requests overlap and in whatever order they are answered.
THEOREM FlagsOwed == Spec => []FlagsAreOwed
<1>1. FlagsInv => FlagsAreOwed  BY DEF FlagsInv
<1> QED  BY <1>1, FlagsInit, FlagsStep, PTL DEF Spec

-----------------------------------------------------------------------------
(* The draft.                                                              *)

\* Outside the edit mode the draft is the layout, in every tab and order of
\* answers: no answer, cancel or save leaves a part of an edit behind.
THEOREM NoDraft == Spec => []NoDraftOutsideEdit
<1>1. Init => NoDraftOutsideEdit
  BY DEF Init, NoDraftOutsideEdit
<1>2. NoDraftOutsideEdit /\ [Next]_vars => NoDraftOutsideEdit'
  <2> SUFFICES ASSUME NoDraftOutsideEdit, [Next]_vars
               PROVE  NoDraftOutsideEdit'
    OBVIOUS
  <2>1. ASSUME NEW s \in Slots, Answer(s) \/ Fail(s) PROVE NoDraftOutsideEdit'
    BY <2>1 DEF Answer, Fail, Err, StatusAnswered, ConnectAnswered,
      AgentsAnswered, ShellAnswered, PatchedDraft, ToggleAnswered,
      RefusalAnswered, grid, NoDraftOutsideEdit
  <2>2. ASSUME NEW s \in Slots, Serve(s) PROVE NoDraftOutsideEdit'
    BY <2>2 DEF Serve, ServeStatus, ServeConnect, ServeShell, ServeToggle,
      grid, NoDraftOutsideEdit
  <2>3. CASE Poll \/ User
    BY <2>3 DEF Poll, User, Retry, SaveLayout, SaveSettings, StartEdit,
      CancelEdit, Connect, ToggleModule, Drag, grid, NoDraftOutsideEdit
  <2>4. CASE \/ \E a \in Agents : AgentComes(a) \/ AgentGoes(a)
             \/ ServeWidget \/ TokenExpires
             \/ UNCHANGED vars
    BY <2>4 DEF AgentComes, AgentGoes, ServeWidget, TokenExpires, vars, grid,
      NoDraftOutsideEdit
  <2> QED  BY <2>1, <2>2, <2>3, <2>4 DEF Next
<1> QED  BY <1>1, <1>2, PTL DEF Spec

-----------------------------------------------------------------------------
(* The user's choice.                                                      *)

LEMMA OwnerType == \A c : Owner(c) \in Owners
BY DEF Owner, Owners

LEMMA ResolvedType ==
  ASSUME NEW o \in Owners,
         NEW states \in [Widgets -> {"enabled", "auto", "user"}]
  PROVE  /\ Resolved(o, states) \in [Widgets -> {"enabled", "auto", "user"}]
         /\ \A w \in Widgets : states[w] = "user" => Resolved(o, states)[w] = "user"
BY DEF Resolved

\* The widgets' states change only where the server resolves or toggles them.
LEMMA StatesServed ==
  ASSUME StatesShaped, NEW s \in Slots, ServeShell(s) \/ ServeToggle(s)
  PROVE  /\ StatesShaped'
         /\ \A o \in Owners, w \in Widgets :
              moduleState[o][w] = "user" /\ moduleState'[o][w] # "user" =>
                /\ calls[s].kind = "enable" /\ calls[s].body = w
                /\ Owner(calls[s].cookie) = o
                /\ Reply(s, Accepted)
<1> DEFINE o == Owner(calls[s].cookie)
           states == Resolved(o, moduleState[o])
           States == [Widgets -> {"enabled", "auto", "user"}]
<1>1. o \in Owners /\ moduleState[o] \in States
  BY OwnerType DEF StatesShaped
<1>2. /\ states \in States
      /\ \A w \in Widgets : moduleState[o][w] = "user" => states[w] = "user"
  BY <1>1, ResolvedType
<1>3. CASE ServeShell(s)
  <2>1. moduleState' = [moduleState EXCEPT ![o] = states]
    BY <1>3 DEF ServeShell, SetModules, ModuleStates, TokenOf
  <2> QED  BY <1>1, <1>2, <2>1 DEF StatesShaped
<1>4. CASE ServeToggle(s)
  <2> DEFINE w == calls[s].body
             allowed == calls[s].kind = "enable" => w \in Ready(o)
             toggled == [states EXCEPT ![w] = IF calls[s].kind = "enable"
                                              THEN "enabled" ELSE "user"]
  <2>1. /\ moduleState' = [moduleState EXCEPT ![o] =
                             IF ~allowed THEN states ELSE toggled]
        /\ Reply(s, IF allowed THEN Accepted ELSE Refused)
    BY <1>4 DEF ServeToggle, SetModules, ModuleStates, TokenOf
  <2>2. toggled \in States /\ \A v \in Widgets \ {w} : toggled[v] = states[v]
    BY <1>2
  <2>3. w \in Widgets /\ calls[s].kind # "enable" => toggled[w] = "user"
    BY <1>2
  <2>4. CASE ~allowed
    BY <1>1, <1>2, <2>1, <2>4 DEF StatesShaped
  <2>5. CASE allowed
    <3>1. moduleState' = [moduleState EXCEPT ![o] = toggled]
      BY <2>1, <2>5
    <3>2. Reply(s, Accepted)  BY <2>1, <2>5
    <3> HIDE DEF toggled, states, o, w
    <3> QED  BY <1>1, <1>2, <2>2, <2>3, <3>1, <3>2 DEF StatesShaped, o, w
  <2> QED  BY <2>4, <2>5
<1> QED  BY <1>3, <1>4

LEMMA StatesListed ==
  ASSUME StatesShaped, ServeWidget
  PROVE  /\ StatesShaped'
         /\ \A o \in Owners, w \in Widgets :
              moduleState[o][w] = "user" => moduleState'[o][w] = "user"
<1> DEFINE o == Owner(cookie)
           states == Resolved(o, moduleState[o])
<1>1. o \in Owners /\ moduleState[o] \in [Widgets -> {"enabled", "auto", "user"}]
  BY OwnerType DEF StatesShaped
<1>2. /\ states \in [Widgets -> {"enabled", "auto", "user"}]
      /\ \A w \in Widgets : moduleState[o][w] = "user" => states[w] = "user"
  BY <1>1, ResolvedType
<1>3. moduleState' = [moduleState EXCEPT ![o] = states]
  BY DEF ServeWidget, SetModules, ModuleStates
<1> HIDE DEF o, states
<1> QED  BY <1>1, <1>2, <1>3 DEF StatesShaped

LEMMA StatesOther ==
  ASSUME [Next]_vars
  PROVE  \/ \E s \in Slots : ServeShell(s) \/ ServeToggle(s)
         \/ ServeWidget \/ UNCHANGED moduleState
<1>1. ASSUME NEW s \in Slots, Answer(s) \/ Fail(s) PROVE UNCHANGED moduleState
  BY <1>1 DEF Answer, Fail, Err, StatusAnswered, ConnectAnswered,
    AgentsAnswered, ShellAnswered, ToggleAnswered, RefusalAnswered, server
<1>2. ASSUME NEW s \in Slots, ServeStatus(s) \/ ServeConnect(s)
      PROVE  UNCHANGED moduleState
  BY <1>2 DEF ServeStatus, ServeConnect, server
<1>3. CASE Poll \/ User
  BY <1>3 DEF Poll, User, Retry, SaveLayout, SaveSettings, StartEdit,
    CancelEdit, Connect, ToggleModule, Drag, server
<1>4. CASE \/ \E a \in Agents : AgentComes(a) \/ AgentGoes(a)
           \/ TokenExpires
           \/ UNCHANGED vars
  BY <1>4 DEF AgentComes, AgentGoes, TokenExpires, vars, server
<1> QED  BY <1>1, <1>2, <1>3, <1>4 DEF Next, Serve

LEMMA StatesInit == Init => StatesShaped
<1> SUFFICES ASSUME Init PROVE StatesShaped
  OBVIOUS
<1> DEFINE page == Owner(cookie)
           states == [w \in Widgets |-> "enabled"]
<1>1. page \in Owners  BY OwnerType
<1>2. Resolved(page, states) \in [Widgets -> {"enabled", "auto", "user"}]
  BY <1>1, ResolvedType
<1>3. moduleState = [o \in Owners |->
                       IF o = page THEN Resolved(o, states) ELSE states]
  BY DEF Init, DefaultModules, PageAgent
<1> QED  BY <1>2, <1>3 DEF StatesShaped

\* No listing of any request ever enables a widget that its user has disabled:
\* only an accepted request of the same owner to enable that widget does.
THEOREM UserChoice == Spec => UserChoiceSticks
<1> DEFINE Sticks ==
      \A o \in Owners, w \in Widgets :
        moduleState[o][w] = "user" /\ moduleState'[o][w] # "user" =>
          \E s \in Slots : /\ calls[s].kind = "enable" /\ calls[s].body = w
                           /\ Owner(calls[s].cookie) = o
                           /\ calls'[s].reply = Accepted
<1>1. StatesShaped /\ [Next]_vars => StatesShaped'
  BY StatesServed, StatesListed, StatesOther DEF StatesShaped
<1>2. CallsShaped /\ StatesShaped /\ [Next]_vars => Sticks
  <2> SUFFICES ASSUME CallsShaped, StatesShaped, [Next]_vars PROVE Sticks
    OBVIOUS
  <2>1. ASSUME NEW s \in Slots, ServeShell(s) \/ ServeToggle(s) PROVE Sticks
    <3>1. Reply(s, Accepted) => calls'[s].reply = Accepted
      BY ReplyPuts, PutsShaped
    <3> QED  BY <2>1, <3>1, StatesServed
  <2> QED  BY <2>1, StatesListed, StatesOther
<1>3. FlagsInv => CallsShaped  BY DEF FlagsInv
<1>4. CallsShaped /\ StatesShaped /\ [Next]_vars => [Sticks]_vars
  BY <1>2
<1> QED
  BY <1>1, <1>3, <1>4, StatesInit, FlagsInit, FlagsStep, PTL
  DEF Spec, UserChoiceSticks, TokenOf
=============================================================================
