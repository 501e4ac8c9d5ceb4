------------------------------- MODULE Shell -------------------------------
(***************************************************************************)
(* The shell: one browser tab (the zustand store of the shell and passport *)
(* slices) and the server routes it calls, /api/passport/agent/status* and *)
(* /api/shell/*, over the rows of core.db; and the route of the widgets'   *)
(* requests, /api/widget/*, which lists the modules as well.               *)
(*                                                                         *)
(* A store action runs up to its fetch, and from the answer to its next    *)
(* fetch or its end, without interruption.  A route reads its cookie, the  *)
(* presence of the agents and core.db in one go: once the widgets' server  *)
(* modules are loaded, nothing it awaits lets another request in between.  *)
(* Requests are handled, and answers arrive, in any order.                 *)
(***************************************************************************)
EXTENDS Naturals, Sequences, FiniteSets

CONSTANTS
  Agents,      \* agents a browser can be connected to
  Anonymous,   \* PASSPORT_ANONYMOUS_AGENT_ID, and no agent in a status
  NoCookie, Invalid,  \* a browser without an access token, or a bad one
  Widgets,     \* the discovered widgets
  Gated,       \* PASSPORT_REQUIRED_WIDGET_IDS: not ready without their agent
  Slots,       \* bound: requests of the tab in flight at once
  MaxEvents,   \* bound: clicks that send or edit something, agents that come
               \* or go, tokens that expire and requests that fail, together
  None         \* no status, body or reply

ASSUME ShellAssumption ==
  /\ Gated \subseteq Widgets /\ IsFiniteSet(Widgets)
  /\ Anonymous \notin Agents /\ NoCookie \notin Agents /\ Invalid \notin Agents
  /\ NoCookie # Invalid
  /\ MaxEvents \in Nat

VARIABLES
  online,          \* agents with an online session
  cookie,          \* what the browser's access token says
  moduleState,     \* module_state: "enabled", "auto" or "user" disabled
  rows,            \* widget_layout: the order of the widgets, per agent
  passportStatus,  \* what the badge shows, None until the first answer
  pending,         \* passportLoading or passportBusy: the badge's buttons wait
  loading, isSaving, isEditMode,
  layout, draftLayout,
  modules,         \* the widgets the tab holds for ready, and for enabled
  calls,           \* the tab's requests in flight
  events

server == <<online, moduleState, rows>>
badge == <<passportStatus, pending, cookie>>
grid == <<layout, draftLayout, modules, isEditMode>>
flags == <<loading, isSaving>>
vars == <<server, badge, grid, flags, calls, events>>

Owners == Agents \cup {Anonymous}
Orders == {f \in [1 .. Cardinality(Widgets) -> Widgets] :
             \A i, j \in DOMAIN f : f[i] = f[j] => i = j}
DefaultOrder == CHOOSE f \in Orders : TRUE  \* the order of discovery
DefaultModules == [w \in Widgets |-> "enabled"]
Status == [auth : {"connected", "disconnected", "unauthorized"}, agent : Owners]
Toggles == {"enable", "disable"}
Kinds == {"idle", "poll", "connect", "agents", "load", "save", "settings"}
           \cup Toggles

Idle == [kind |-> "idle", cookie |-> NoCookie, before |-> None, body |-> None,
         reply |-> None]

-----------------------------------------------------------------------------
(* What the routes compute.                                                *)

\* resolvePassportRequestContext: without a valid token, nobody.
Owner(c) == IF c \in Agents THEN c ELSE Anonymous

\* getAgentStatusSnapshot and resolveBrowserStatusPayload.
StatusOf(c) ==
  [auth |-> IF c = Invalid THEN "unauthorized"
            ELSE IF c \in online THEN "connected" ELSE "disconnected",
   agent |-> Owner(c)]

Ready(o) == {w \in Widgets : w \in Gated => o \in online}

\* resolveModuleEnabledState for every widget of a listing.
ResolvedAny(o, states) ==                                           \* mutant
  [w \in Widgets |-> IF w \in Ready(o) THEN "enabled"
                     ELSE IF states[w] = "enabled" THEN "auto" ELSE states[w]]
Resolved(o, states) ==
  [w \in Widgets |->
     IF w \notin Ready(o) /\ states[w] = "enabled" THEN "auto"
     ELSE IF w \in Ready(o) /\ states[w] = "auto" THEN "enabled"
     ELSE states[w]]

\* getShellSettings: the widgets a listing shows as ready and as enabled.
Listed(o, states) ==
  [ready |-> Ready(o), enabled |-> {w \in Ready(o) : states[w] = "enabled"}]

\* The layout a drag leaves: visible widgets reordered, hidden ones after them.
Visible(order) == SelectSeq(order, LAMBDA w : w \in modules.enabled)
MovedOf(order, w, over) ==
  LET visible == Visible(order)
      rest == SelectSeq(visible, LAMBDA v : v # w)
      at == CHOOSE i \in 1 .. Len(visible) : visible[i] = over
  IN  SubSeq(rest, 1, at - 1) \o <<w>> \o SubSeq(rest, at, Len(rest))
Reordered(order, w, over) ==
  MovedOf(order, w, over)
    \o SelectSeq(order, LAMBDA v : v \notin modules.enabled)

-----------------------------------------------------------------------------
TypeOK ==
  /\ online \subseteq Agents
  /\ cookie \in Agents \cup {NoCookie, Invalid}
  /\ moduleState \in [Owners -> [Widgets -> {"enabled", "auto", "user"}]]
  /\ rows \in [Owners -> Orders]
  /\ passportStatus \in Status \cup {None}
  /\ {pending, loading, isSaving, isEditMode} \subseteq BOOLEAN
  /\ layout \in Orders /\ draftLayout \in Orders
  /\ modules.ready \subseteq Widgets /\ modules.enabled \subseteq modules.ready
  /\ \A s \in Slots : calls[s].kind \in Kinds
  /\ events \in 0 .. MaxEvents

\* index.astro renders the page with the settings of its request, with which
\* ShellApp seeds the store.
PageAgent == Owner(cookie)

Init ==
  /\ online \in SUBSET Agents
  /\ cookie \in Agents \cup {NoCookie}
  /\ rows = [o \in Owners |-> DefaultOrder]
  /\ layout = DefaultOrder /\ draftLayout = DefaultOrder
  /\ LET page == PageAgent
         states == DefaultModules
     IN  /\ moduleState = [o \in Owners |->
                             IF o = page THEN Resolved(o, states) ELSE states]
         /\ modules = Listed(page, Resolved(page, states))
  /\ passportStatus = None /\ pending = TRUE
  /\ loading = FALSE /\ isSaving = FALSE /\ isEditMode = FALSE
  /\ calls = [s \in Slots |-> Idle]
  /\ events = 0

-----------------------------------------------------------------------------
(* The tab sends.                                                          *)

Request(kind, before, body) ==
  [kind |-> kind, cookie |-> cookie, before |-> before, body |-> body,
   reply |-> None]

\* Which of the free slots takes a request does not matter.
Free == {s \in Slots : calls[s] = Idle}
Send(request) ==
  /\ Free # {}
  /\ calls' = [calls EXCEPT ![CHOOSE s \in Free : TRUE] = request]

Event == events < MaxEvents /\ events' = events + 1

\* syncFromStatus, from setInterval: it does not wait for an earlier one.
Poll ==
  /\ Send(Request("poll", passportStatus, None))
  /\ pending' = (pending \/ passportStatus = None)
  /\ UNCHANGED <<server, passportStatus, cookie, grid, flags, events>>

\* retryStatus differs from a poll in holding the buttons.
Retry ==
  /\ ~pending /\ Event
  /\ Send(Request("poll", passportStatus, None))
  /\ pending' = TRUE
  /\ UNCHANGED <<server, passportStatus, cookie, grid, flags>>

Connect(a) ==
  /\ ~pending /\ Event
  /\ Send(Request("connect", None, a))
  /\ pending' = TRUE
  /\ UNCHANGED <<server, passportStatus, cookie, grid, flags>>

\* saveLayout, of a layout that was edited.
SaveLayout ==
  /\ isEditMode /\ ~isSaving /\ draftLayout # layout /\ Event
  /\ Send(Request("save", None, draftLayout))
  /\ isSaving' = TRUE
  /\ UNCHANGED <<server, badge, grid, loading>>

\* toggleTheme, toggleLocale, saveSettings: they send the draft layout too.
SaveSettings ==
  /\ Event
  /\ Send(Request("settings", None, draftLayout))
  /\ isSaving' = TRUE
  /\ UNCHANGED <<server, badge, grid, loading>>

\* toggleModule, offered for a ready widget while nothing is saved.
ToggleModule(w) ==
  /\ w \in modules.ready /\ ~isSaving /\ Event
  /\ Send(Request(IF w \in modules.enabled THEN "disable" ELSE "enable",
                     None, w))
  /\ UNCHANGED <<server, badge, grid, flags>>

-----------------------------------------------------------------------------
(* The tab edits.                                                          *)

StartEdit ==
  /\ ~isEditMode
  /\ isEditMode' = TRUE /\ draftLayout' = layout
  /\ UNCHANGED <<server, badge, layout, modules, flags, calls, events>>

CancelEdit ==
  /\ isEditMode /\ ~isSaving
  /\ isEditMode' = FALSE /\ draftLayout' = layout
  /\ UNCHANGED <<server, badge, layout, modules, flags, calls, events>>

\* startDrag, overDrag and endDrag: an answer in between ends the drag.
Drag(w, over) ==
  /\ isEditMode /\ {w, over} \subseteq modules.enabled /\ w # over /\ Event
  /\ draftLayout' = Reordered(draftLayout, w, over)
  /\ UNCHANGED <<server, badge, layout, modules, isEditMode, flags, calls>>

-----------------------------------------------------------------------------
(* The server handles a request.                                           *)

Refused == [ok |-> FALSE]
Accepted == [ok |-> TRUE]

\* core-repository.ts.
LayoutItems(o) == rows[o]
ModuleStates(o) == moduleState[o]
SetModules(o, states) == moduleState' = [moduleState EXCEPT ![o] = states]
ReplaceLayout(o, order) == rows' = [rows EXCEPT ![o] = order]

Reply(s, reply) == calls' = [calls EXCEPT ![s].reply = reply]

\* extractAccessTokenFromRequest, and the cookie of connect's answer.
TokenOf(s) == calls[s].cookie
AccessCookie(s) == calls[s].body

Asked(s, kinds) == calls[s].kind \in kinds /\ calls[s].reply = None

ServeStatus(s) ==
  /\ Asked(s, {"poll"})
  /\ Reply(s, StatusOf(TokenOf(s)))
  /\ UNCHANGED <<server, badge, grid, flags, events>>

\* connect issues a token for an agent that is online.
ServeConnect(s) ==
  /\ Asked(s, {"connect"})
  /\ Reply(s, IF calls[s].body \in online THEN Accepted ELSE Refused)
  /\ UNCHANGED <<server, badge, grid, flags, events>>

\* Every listing writes what it resolves.
ServeShell(s) ==
  LET o == Owner(TokenOf(s))
      states == Resolved(o, ModuleStates(o))
      order == IF calls[s].kind = "load" THEN LayoutItems(o) ELSE calls[s].body
  IN  /\ Asked(s, {"load", "save", "settings"})
      /\ SetModules(o, states)
      /\ ReplaceLayout(o, order)
      /\ Reply(s, [layout |-> order, modules |-> Listed(o, states)])
      /\ UNCHANGED <<online, badge, grid, flags, events>>

\* setShellModuleEnabled; only a ready widget can be enabled.
ServeToggle(s) ==
  LET o == Owner(TokenOf(s))
      w == calls[s].body
      states == Resolved(o, ModuleStates(o))
      allowed == calls[s].kind = "enable" => w \in Ready(o)
  IN  /\ Asked(s, Toggles)
      /\ SetModules(o,
           IF ~allowed THEN states
           ELSE [states EXCEPT ![w] =
                   IF calls[s].kind = "enable" THEN "enabled" ELSE "user"])
      /\ Reply(s, IF allowed THEN Accepted ELSE Refused)
      /\ UNCHANGED <<online, rows, badge, grid, flags, events>>

\* The route of the widgets' requests, which come and are handled at once: before
\* a widget gets to handle one, the modules are listed, unless there is no access.
ServeWidget ==
  LET o == Owner(cookie)
  IN  /\ \E w \in Widgets : w \in Gated => o \in Agents
      /\ SetModules(o, Resolved(o, ModuleStates(o)))
      /\ UNCHANGED <<online, rows, badge, grid, flags, calls, events>>

-----------------------------------------------------------------------------
(* An answer reaches the tab.                                              *)

Answered(s, kinds) == calls[s].kind \in kinds /\ calls[s].reply # None

Done(s) == calls' = [calls EXCEPT ![s] = Idle]

\* loadShell, called from the handler of another answer.
LoadShell(s) ==
  /\ calls' = [calls EXCEPT ![s] = Request("load", None, None)]
  /\ loading' = TRUE

\* mapStatusToState.
ShownOfSameAgent(status) ==                                         \* mutant
  IF passportStatus # None /\ passportStatus.agent = status.agent
  THEN passportStatus ELSE status
Shown(status) == status

\* A status differs from the snapshot the poll took before its fetch, or not.
Reloads(before, next) == before # next
StatusAnswered(s) ==
  /\ Answered(s, {"poll"})
  /\ passportStatus' = Shown(calls[s].reply)
  /\ pending' = FALSE
  /\ IF Reloads(calls[s].before, calls[s].reply)
     THEN LoadShell(s)
     ELSE Done(s) /\ UNCHANGED loading
  /\ UNCHANGED <<server, cookie, grid, isSaving, events>>

\* The answer to connect brings the cookie and a status, which is shown once
\* the list of agents has been fetched as well; the list is not modelled.
ListRequest(a) ==
  [kind |-> "agents", cookie |-> NoCookie, before |-> None, body |-> None,
   reply |-> [auth |-> "connected", agent |-> a]]
ConnectAnswered(s) ==
  /\ Answered(s, {"connect"}) /\ calls[s].reply = Accepted
  /\ cookie' = AccessCookie(s)
  /\ calls' = [calls EXCEPT ![s] = ListRequest(calls[s].body)]
  /\ UNCHANGED <<server, passportStatus, pending, grid, flags, events>>

AgentsAnswered(s) ==
  /\ Answered(s, {"agents"})
  /\ passportStatus' = Shown(calls[s].reply)
  /\ pending' = FALSE
  /\ LoadShell(s)
  /\ UNCHANGED <<server, cookie, grid, isSaving, events>>

\* buildShellStatePatch: the draft is replaced, the edit mode is kept.
DraftKept(order) == IF isEditMode THEN draftLayout ELSE order       \* mutant
PatchedDraft(order) == order
StaysInEdit(s) == isEditMode /\ calls[s].kind # "save"
ShellAnswered(s) ==
  /\ Answered(s, {"load", "save", "settings"})
  /\ layout' = calls[s].reply.layout
  /\ draftLayout' = PatchedDraft(calls[s].reply.layout)
  /\ modules' = calls[s].reply.modules
  /\ isEditMode' = StaysInEdit(s)
  /\ loading' = FALSE /\ isSaving' = FALSE
  /\ Done(s)
  /\ UNCHANGED <<server, badge, events>>

ToggleAnswered(s) ==
  /\ Answered(s, Toggles) /\ calls[s].reply = Accepted
  /\ LoadShell(s)
  /\ UNCHANGED <<server, badge, grid, isSaving, events>>

\* The Err branches: each resets what its own action has set.
LoadingForgotten(s) == loading                                      \* mutant
LoadingAfterErr(s) == IF calls[s].kind = "load" THEN FALSE ELSE loading
Err(s) ==
  /\ pending' = IF calls[s].kind \in {"poll", "connect", "agents"}
                THEN FALSE ELSE pending
  /\ loading' = LoadingAfterErr(s)
  /\ isSaving' = IF calls[s].kind \in {"save", "settings"}
                 THEN FALSE ELSE isSaving
  /\ Done(s)
  /\ UNCHANGED <<server, passportStatus, cookie, grid>>

RefusalAnswered(s) ==
  /\ Answered(s, {"connect"} \cup Toggles) /\ calls[s].reply = Refused
  /\ Err(s)
  /\ UNCHANGED events

\* The request or its answer is lost, or the route fails.
Fail(s) ==
  /\ calls[s] # Idle /\ Event
  /\ Err(s)

-----------------------------------------------------------------------------
(* Around the tab.                                                         *)

AgentComes(a) ==
  /\ a \notin online /\ Event
  /\ online' = online \cup {a}
  /\ UNCHANGED <<moduleState, rows, badge, grid, flags, calls>>

AgentGoes(a) ==
  /\ a \in online /\ Event
  /\ online' = online \ {a}
  /\ UNCHANGED <<moduleState, rows, badge, grid, flags, calls>>

\* The access token expires in its cookie, or the cookie with it (Max-Age).
TokenExpires ==
  /\ cookie # NoCookie /\ Event
  /\ cookie' \in {Invalid, NoCookie} \ {cookie}
  /\ UNCHANGED <<server, passportStatus, pending, grid, flags, calls>>

Serve(s) ==
  ServeStatus(s) \/ ServeConnect(s) \/ ServeShell(s) \/ ServeToggle(s)

Answer(s) == \/ StatusAnswered(s) \/ ConnectAnswered(s) \/ AgentsAnswered(s)
             \/ ShellAnswered(s) \/ ToggleAnswered(s) \/ RefusalAnswered(s)

User == \/ Retry \/ SaveLayout \/ SaveSettings \/ StartEdit \/ CancelEdit
        \/ \E a \in Agents : Connect(a)
        \/ \E w \in Widgets : ToggleModule(w)
        \/ \E w, over \in Widgets : Drag(w, over)

Next ==
  \/ Poll \/ User
  \/ \E s \in Slots : Serve(s) \/ Answer(s) \/ Fail(s)
  \/ \E a \in Agents : AgentComes(a) \/ AgentGoes(a)
  \/ ServeWidget \/ TokenExpires

Spec == Init /\ [][Next]_vars

\* setInterval fires, and every request that is not lost is handled and
\* answered; the user and the agents owe nothing.
FairSpec ==
  /\ Spec
  /\ WF_vars(Poll)
  /\ \A s \in Slots : WF_vars(Serve(s) \/ Answer(s))

-----------------------------------------------------------------------------
(* Properties.                                                             *)

\* Outside the edit mode nothing is left of an edit: whatever saves, reloads,
\* failures and cancels overlap, the draft (slices/shell-layout-slice.ts) is
\* the layout that is shown.  A theme toggle would save what is left of one.
NoDraftOutsideEdit == ~isEditMode => draftLayout = layout

\* A widget that its user has disabled is enabled by its user only: the
\* automatic enabling of widgets whose agent is back (resolveModuleEnabledState
\* in shell-service.helpers.ts) never mistakes the user's choice for its own,
\* however listings and toggles of all requests are ordered.
UserChoiceSticks ==
  [][\A o \in Owners, w \in Widgets :
       moduleState[o][w] = "user" /\ moduleState'[o][w] # "user" =>
         \E s \in Slots : /\ calls[s].kind = "enable" /\ calls[s].body = w
                          /\ Owner(TokenOf(s)) = o
                          /\ calls'[s].reply = Accepted]_vars

\* The status that the badge shows is in the end the status of the agent whose
\* token the browser holds, although polls, a connect and its list overlap and
\* an older answer may replace a newer one (domains/passport/client/slice.ts).
StatusSettles == <>[](passportStatus = StatusOf(cookie))

\* No flag stays behind: while the badge's buttons wait, the shell loads or
\* saves, a request of that kind is still in flight, whose answer or failure
\* will clear it - also when requests fail or are refused and although the
\* answers of other requests clear the same flags (the Ok and Err branches of
\* the slices).  Only the page starts with waiting buttons, before its first
\* poll.
InFlight(kinds) == \E s \in Slots : calls[s].kind \in kinds
FlagsAreOwed ==
  /\ pending => InFlight({"poll", "connect", "agents"}) \/ passportStatus = None
  /\ loading => InFlight({"load"})
  /\ isSaving => InFlight({"save", "settings"})

=============================================================================
