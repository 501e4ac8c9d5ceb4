--------------------------- MODULE PassportRuntime ---------------------------
(***************************************************************************)
(* The gRPC runtime of the passport domain: the streams agents open, the   *)
(* in-memory Map of live connections, the agent_sessions rows kept for     *)
(* audit, and the HTTP reads that reconcile the Map before they answer.    *)
(*                                                                         *)
(* Node runs one callback at a time, so an action is one run of a callback *)
(* up to its await or its end.  The 'data' handler is two actions: it      *)
(* captures the stream's local `connection` and suspends on the JWT secret *)
(* (Data), and it resumes later, in any order with the other handlers of   *)
(* the stream and with its 'end' and 'error' events (the Resume actions).  *)
(*                                                                         *)
(* Time is the age of a connection in ticks since it was last seen, capped *)
(* just above the heartbeat timeout: the code only ever compares the two.  *)
(***************************************************************************)
EXTENDS Naturals

CONSTANTS
  Agents,      \* agent ids, the `sub` of an access JWT
  Streams,     \* gRPC calls; one per run_cycle of an agent process
  Sessions,    \* values of the sessionId field of an envelope
  Handlers,    \* bound: 'data' handlers of one stream suspended at once
  Slots,       \* bound: AgentConnection objects of one stream in use at once
  AgentOf,     \* the agent whose token a stream presents
  SessionsOf,  \* the session ids the envelopes of a stream carry
  Timeout,     \* JULIA_AGENT_HEARTBEAT_TIMEOUT_MS, in ticks
  MaxFaults,   \* bound: server crashes and failing calls in one behaviour
  None,        \* null: no connection
  Idle         \* a handler that is not suspended

Ref == Streams \X Slots            \* object identities of AgentConnection

ASSUME RuntimeAssumption ==
  /\ AgentOf \in [Streams -> Agents]
  /\ SessionsOf \in [Streams -> (SUBSET Sessions) \ {{}}] /\ Sessions # {}
  /\ Timeout \in Nat /\ MaxFaults \in Nat
  /\ None \notin Ref /\ Idle \notin Ref /\ None # Idle

VARIABLES
  transport,    \* what the server's call object has reported
  closed,       \* streams the server has called end() on
  local,        \* the `connection` variable of handleConnectStream
  pending,      \* the currentConnection each suspended handler captured
  connections,  \* PassportRuntime.connections
  conn,         \* the AgentConnection objects
  sessions,     \* table agent_sessions
  expired,      \* streams whose access JWT verifyAccessJwt now rejects
  unauthorized, \* PassportRuntime.lastUnauthorized # null
  heard,        \* history: ticks since an authorised envelope of the agent
  answer,       \* the agents the read served by this step reported online
  faults

vars == <<transport, closed, local, pending, connections, conn, sessions,
          expired, unauthorized, heard, answer, faults>>

Age == 0 .. Timeout + 1
Older(n) == IF n > Timeout THEN n ELSE n + 1

Transports == {"new", "open", "lost", "ended"}
\* "stream" stands for the reasons stream_end and stream_error.
Row == [status : {"none", "online", "disconnected"},
        reason : {"none", "stream", "heartbeat_timeout"}]
NoRow == [status |-> "none", reason |-> "none"]

\* The garbage collector: an object nothing refers to has no state.
Unused == [age |-> Timeout + 1, session |-> CHOOSE x \in Sessions : TRUE]

AgentConnection == [age : Age, session : Sessions]

\* A Map lists a connection under the agent of the connection's stream.
ConnectionMap == {m \in [Agents -> Ref \cup {None}] :
                    \A a \in Agents : m[a] # None => AgentOf[m[a][1]] = a}

TypeOK ==
  /\ transport \in [Streams -> Transports]
  /\ closed \in SUBSET Streams
  /\ local \in [Streams -> Ref \cup {None}]
  /\ \A s \in Streams : local[s] # None => local[s][1] = s
  /\ pending \in [Streams -> [Handlers -> Ref \cup {None, Idle}]]
  /\ \A s \in Streams, h \in Handlers :
        pending[s][h] \in Ref => pending[s][h][1] = s
  /\ connections \in ConnectionMap
  /\ conn \in [Ref -> AgentConnection]
  /\ sessions \in [Sessions -> Row]
  /\ expired \in SUBSET Streams
  /\ unauthorized \in BOOLEAN
  /\ heard \in [Agents -> Age]
  /\ answer \in SUBSET Agents
  /\ faults \in 0 .. MaxFaults

Referenced(c) ==
  \/ \E s \in Streams : local[s] = c \/ \E h \in Handlers : pending[s][h] = c
  \/ \E a \in Agents : connections[a] = c

\* Every action ends with this: the objects with their new fields, garbage reset.
Collected(objects) ==
  [c \in Ref |-> IF Referenced(c)' THEN objects[c] ELSE Unused]

FreeRefs(s) == {c \in Ref : c[1] = s /\ ~Referenced(c)}

Init ==
  /\ transport = [s \in Streams |-> "new"]
  /\ closed = {}
  /\ local = [s \in Streams |-> None]
  /\ pending = [s \in Streams |-> [h \in Handlers |-> Idle]]
  /\ connections = [a \in Agents |-> None]
  /\ conn = [c \in Ref |-> Unused]
  /\ sessions = [x \in Sessions |-> NoRow]
  /\ expired = {}
  /\ unauthorized = FALSE
  /\ heard = [a \in Agents |-> Timeout + 1]
  /\ answer = {}
  /\ faults = 0

-----------------------------------------------------------------------------
(* Effects shared by the handlers.                                         *)

\* The object c is seen by an authorised envelope that carries session x.
Seen(c, x) == [conn EXCEPT ![c] = [age |-> 0, session |-> x]]

\* touchConnection puts a connection the Map does not hold (any more) back.
PutBackNever(map, c) == map                                       \* mutant
PutBack(map, c) == [map EXCEPT ![AgentOf[c[1]]] = c]

\* upsertAgentSession: going online again keeps the old disconnectReason.
UpsertOnline(rows, x) == [rows EXCEPT ![x].status = "online"]
UpsertDisconnected(rows, x, why) ==
  [rows EXCEPT ![x] = [status |-> "disconnected", reason |-> why]]

\* markConnectionDisconnected: deletes whatever the Map holds for the agent.
MarkRow(rows, c, why) ==
  IF c = None THEN rows ELSE UpsertDisconnected(rows, conn[c].session, why)
MarkMap(map, c) ==
  IF c = None THEN map ELSE [map EXCEPT ![AgentOf[c[1]]] = None]

\* A write after end() makes a call that is not destroyed yet emit 'error';
\* on a destroyed call it is dropped, on a lost one it goes nowhere.
WriteOutcomes(s) == IF s \in closed THEN {"ok", "error"} ELSE {"ok"}

\* verifyAccessJwt, evaluated when the handler resumes.
AcceptsAll(s) == TRUE                                             \* mutant
Accepts(s) == s \notin expired

Fault == faults < MaxFaults /\ faults' = faults + 1
NoAnswer == answer' = {}

Resumes(s, h) ==
  /\ pending[s][h] # Idle
  /\ pending' = [pending EXCEPT ![s][h] = Idle]

-----------------------------------------------------------------------------
(* The stream.                                                             *)

\* An agent opens its call; handleConnectStream installs the listeners.
Connect(s) ==
  /\ transport[s] = "new"
  /\ transport' = [transport EXCEPT ![s] = "open"]
  /\ NoAnswer
  /\ UNCHANGED <<closed, local, pending, connections, conn, sessions, expired,
                 unauthorized, heard, faults>>

\* An envelope arrives: the handler captures `connection` and awaits the secret.
Data(s, h) ==
  /\ transport[s] = "open"
  /\ pending[s][h] = Idle
  /\ pending' = [pending EXCEPT ![s][h] = local[s]]
  /\ NoAnswer
  /\ UNCHANGED <<transport, closed, local, connections, sessions, expired,
                 unauthorized, heard, faults>>
  /\ conn' = Collected(conn)

\* The token is rejected: the handler answers UNAUTHORIZED and assigns the
\* connection it captured, whatever `connection` has become in the meantime.
ResumeUnauthorized(s, h) ==
  /\ Resumes(s, h)
  /\ ~Accepts(s)
  /\ local' = [local EXCEPT ![s] = pending[s][h]]
  /\ unauthorized' = TRUE
  /\ \E written \in WriteOutcomes(s) :
       LET marked == IF written = "error" THEN pending[s][h] ELSE None
       IN  /\ sessions' = MarkRow(sessions, marked, "stream")
           /\ connections' = MarkMap(connections, marked)
  /\ NoAnswer
  /\ UNCHANGED <<transport, closed, expired, heard, faults>>
  /\ conn' = Collected(conn)

\* touchConnection with no current connection: a new object enters the Map,
\* its row goes online and the stream is pinged.
ResumeFirst(s, h) ==
  /\ Resumes(s, h)
  /\ Accepts(s)
  /\ pending[s][h] = None
  /\ FreeRefs(s) # {}
  /\ \E x \in SessionsOf[s], written \in WriteOutcomes(s) :
       LET c == CHOOSE c \in FreeRefs(s) : TRUE
           online == UpsertOnline(sessions, x)
       IN  /\ local' = [local EXCEPT ![s] = c]
           /\ connections' = [connections EXCEPT ![AgentOf[s]] =
                                IF written = "error" THEN None ELSE c]
           /\ sessions' = IF written = "error"
                            THEN UpsertDisconnected(online, x, "stream")
                            ELSE online
           /\ conn' = Collected(Seen(c, x))
  /\ unauthorized' = FALSE
  /\ heard' = [heard EXCEPT ![AgentOf[s]] = 0]
  /\ NoAnswer
  /\ UNCHANGED <<transport, closed, expired, faults>>

\* touchConnection with the captured connection: it is seen again, and put back
\* in the Map if another object, or none, is listed.  The row is rewritten
\* only when the session id changes.
ResumeKnown(s, h) ==
  /\ Resumes(s, h)
  /\ Accepts(s)
  /\ pending[s][h] # None
  /\ \E x \in SessionsOf[s] :
       LET c == pending[s][h]
       IN  /\ local' = [local EXCEPT ![s] = c]
           /\ connections' = PutBack(connections, c)
           /\ sessions' = IF conn[c].session = x THEN sessions
                                                 ELSE UpsertOnline(sessions, x)
           /\ conn' = Collected(Seen(c, x))
  /\ unauthorized' = FALSE
  /\ heard' = [heard EXCEPT ![AgentOf[s]] = 0]
  /\ NoAnswer
  /\ UNCHANGED <<transport, closed, expired, faults>>

\* The secret cannot be resolved: the handler throws and its catch marks the
\* connection the stream has by now.
ResumeNoSecret(s, h) ==
  /\ Resumes(s, h)
  /\ Fault
  /\ sessions' = MarkRow(sessions, local[s], "stream")
  /\ connections' = MarkMap(connections, local[s])
  /\ NoAnswer
  /\ UNCHANGED <<transport, closed, local, expired, unauthorized, heard>>
  /\ conn' = Collected(conn)

\* touchConnection's upsert throws: the new object is already in the Map (a
\* known one is seen, not listed), and `connection` is never assigned.
ResumeUpsertFails(s, h) ==
  /\ Resumes(s, h)
  /\ Accepts(s)
  /\ Fault
  /\ unauthorized' = FALSE
  /\ heard' = [heard EXCEPT ![AgentOf[s]] = 0]
  /\ NoAnswer
  /\ UNCHANGED <<transport, closed, local, expired>>
  /\ \E x \in SessionsOf[s] :
       \/ /\ pending[s][h] = None
          /\ FreeRefs(s) # {}
          /\ LET c == CHOOSE c \in FreeRefs(s) : TRUE
             IN  /\ connections' =
                      MarkMap([connections EXCEPT ![AgentOf[s]] = c], local[s])
                 /\ conn' = Collected(Seen(c, x))
          /\ sessions' = MarkRow(sessions, local[s], "stream")
       \/ LET c == pending[s][h]
          IN  /\ c # None
              /\ conn[c].session # x
              /\ connections' = MarkMap(connections, local[s])
              /\ conn' = Collected(Seen(c, x))
              /\ sessions' =
                   IF local[s] = c
                     THEN UpsertDisconnected(sessions, x, "stream")
                     ELSE MarkRow(sessions, local[s], "stream")

\* Storing or publishing a widget event throws: the touch stands, `connection`
\* is not assigned, and the catch marks the connection the stream has.
ResumePublishFails(s, h) ==
  /\ Resumes(s, h)
  /\ Accepts(s)
  /\ Fault
  /\ unauthorized' = FALSE
  /\ heard' = [heard EXCEPT ![AgentOf[s]] = 0]
  /\ NoAnswer
  /\ UNCHANGED <<transport, closed, local, expired>>
  /\ pending[s][h] # None \/ FreeRefs(s) # {}
  /\ \E x \in SessionsOf[s] :
       LET first == pending[s][h] = None
           c == IF first THEN CHOOSE c \in FreeRefs(s) : TRUE
                         ELSE pending[s][h]
           touched == IF first \/ conn[c].session # x
                        THEN UpsertOnline(sessions, x) ELSE sessions
       IN  /\ connections' =
                MarkMap([connections EXCEPT ![AgentOf[s]] = c], local[s])
           /\ sessions' = IF local[s] = c
                            THEN UpsertDisconnected(touched, x, "stream")
                            ELSE MarkRow(touched, local[s], "stream")
           /\ conn' = Collected(Seen(c, x))

\* The agent half-closes: 'end' marks the stream's connection and ends the call.
StreamEnd(s) ==
  /\ transport[s] = "open"
  /\ transport' = [transport EXCEPT ![s] = "ended"]
  /\ sessions' = MarkRow(sessions, local[s], "stream")
  /\ connections' = MarkMap(connections, local[s])
  /\ closed' = closed \cup {s}
  /\ NoAnswer
  /\ UNCHANGED <<local, pending, expired, unauthorized, heard, faults>>
  /\ conn' = Collected(conn)

\* The transport fails with an 'error' event.
StreamError(s) ==
  /\ transport[s] = "open"
  /\ transport' = [transport EXCEPT ![s] = "ended"]
  /\ sessions' = MarkRow(sessions, local[s], "stream")
  /\ connections' = MarkMap(connections, local[s])
  /\ NoAnswer
  /\ UNCHANGED <<closed, local, pending, expired, unauthorized, heard, faults>>
  /\ conn' = Collected(conn)

\* The peer vanishes, or cancels the call: no event this code listens to.
StreamLost(s) ==
  /\ transport[s] = "open"
  /\ transport' = [transport EXCEPT ![s] = "lost"]
  /\ NoAnswer
  /\ UNCHANGED <<closed, local, pending, connections, conn, sessions, expired,
                 unauthorized, heard, faults>>

-----------------------------------------------------------------------------
(* Reads: reconcileStaleSessions, then the answer.                         *)

StaleTooLate == {a \in Agents :                                    \* mutant
  connections[a] # None /\ conn[connections[a]].age > Timeout + 1}
Stale == {a \in Agents :
            connections[a] # None /\ conn[connections[a]].age > Timeout}

\* reconcileStaleSessions for the connections of the agents R: the row is
\* disconnected, the call ended and the Map entry deleted.
ReconciledRows(R) ==
  [x \in Sessions |->
     IF \E a \in R : conn[connections[a]].session = x
       THEN [status |-> "disconnected", reason |-> "heartbeat_timeout"]
       ELSE sessions[x]]
ReconciledNotClosed(R) == closed                                  \* mutant
ReconciledClosed(R) == closed \cup {connections[a][1] : a \in R}
ReconciledKept(R) == connections                                  \* mutant
ReconciledMap(R) ==
  [a \in Agents |-> IF a \in R THEN None ELSE connections[a]]

Online(map) == {a \in Agents : map[a] # None}

\* getOnlineAgentSession and getOnlineAgentSnapshots.
Poll ==
  /\ sessions' = ReconciledRows(Stale)
  /\ closed' = ReconciledClosed(Stale)
  /\ connections' = ReconciledMap(Stale)
  /\ answer' = Online(connections')
  /\ UNCHANGED <<transport, local, pending, expired, unauthorized, heard,
                 faults>>
  /\ conn' = Collected(conn)

\* A row update throws inside the loop: the connections before it are
\* reconciled, the failing one and those after it stay, and nothing is answered.
PollFails ==
  /\ Fault
  /\ \E R \in SUBSET Stale :
       /\ R # Stale
       /\ sessions' = ReconciledRows(R)
       /\ closed' = ReconciledClosed(R)
       /\ connections' = ReconciledMap(R)
  /\ NoAnswer
  /\ UNCHANGED <<transport, local, pending, expired, unauthorized, heard>>
  /\ conn' = Collected(conn)

\* The command is written to the call of the agent's entry; if the call emits
\* 'error' for it, the stream's connection is marked.
Written(left, rows, s) ==
  \E written \in WriteOutcomes(s) :
    LET marked == IF written = "error" THEN local[s] ELSE None
    IN  /\ sessions' = MarkRow(rows, marked, "stream")
        /\ connections' = MarkMap(left, marked)

\* dispatchWidgetCommand reconciles the stale sessions first.
Dispatch(a) ==
  LET left == ReconciledMap(Stale)
  IN /\ left[a] # None
     /\ answer' = {a}
     /\ closed' = ReconciledClosed(Stale)
     /\ Written(left, ReconciledRows(Stale), left[a][1])
     /\ UNCHANGED <<transport, local, pending, expired, unauthorized, heard,
                    faults>>
     /\ conn' = Collected(conn)

-----------------------------------------------------------------------------
(* The environment.                                                        *)

\* The access JWT a stream presents runs out (the agent never renews it
\* within a stream).
Expire(s) ==
  /\ s \notin expired
  /\ expired' = expired \cup {s}
  /\ NoAnswer
  /\ UNCHANGED <<transport, closed, local, pending, connections, conn, sessions,
                 unauthorized, heard, faults>>

Tick ==
  /\ heard' = [a \in Agents |-> Older(heard[a])]
  /\ NoAnswer
  /\ UNCHANGED <<transport, closed, local, pending, connections, sessions,
                 expired, unauthorized, faults>>
  /\ conn' = Collected([c \in Ref |-> [conn[c] EXCEPT !.age = Older(@)]])

\* The process dies and restarts: memory is gone, the rows stay.
ServerCrash ==
  /\ Fault
  /\ transport' = [s \in Streams |->
                     IF transport[s] = "new" THEN "new" ELSE "ended"]
  /\ local' = [s \in Streams |-> None]
  /\ pending' = [s \in Streams |-> [h \in Handlers |-> Idle]]
  /\ connections' = [a \in Agents |-> None]
  /\ conn' = [c \in Ref |-> Unused]
  /\ unauthorized' = FALSE
  /\ NoAnswer
  /\ UNCHANGED <<closed, sessions, expired, heard>>

-----------------------------------------------------------------------------
Resume(s, h) ==
  \/ ResumeUnauthorized(s, h)
  \/ ResumeFirst(s, h)
  \/ ResumeKnown(s, h)

ResumeThrows(s, h) ==
  \/ ResumeNoSecret(s, h)
  \/ ResumeUpsertFails(s, h)
  \/ ResumePublishFails(s, h)

Next ==
  \/ \E s \in Streams :
       \/ Connect(s)
       \/ \E h \in Handlers : Data(s, h) \/ Resume(s, h) \/ ResumeThrows(s, h)
       \/ StreamEnd(s)
       \/ StreamError(s)
       \/ StreamLost(s)
       \/ Expire(s)
  \/ \E a \in Agents : Dispatch(a)
  \/ Poll
  \/ PollFails
  \/ Tick
  \/ ServerCrash

Spec == Init /\ [][Next]_vars

(* Fairness.  An agent sends a heartbeat every 15 s for as long as its call  *)
(* is up; an awaited secret resolves or throws; the clock advances; some     *)
(* browser keeps polling the status; and an agent leaves a call the server   *)
(* has ended (its inbound loop returns).                                     *)
AgentLeaves(s) == s \in closed /\ (StreamEnd(s) \/ StreamLost(s))

Fairness ==
  /\ \A s \in Streams :
       /\ WF_vars(\E h \in Handlers : Data(s, h))
       /\ \A h \in Handlers : WF_vars(Resume(s, h) \/ ResumeThrows(s, h))
       /\ WF_vars(AgentLeaves(s))
  /\ WF_vars(Tick)
  /\ WF_vars(Poll)

FairSpec == Spec /\ Fairness

-----------------------------------------------------------------------------
(* Properties.                                                             *)

Listed(s) ==
  LET c == connections[AgentOf[s]] IN c # None /\ c[1] = s

\* A call that is up, not ended by the server, with a token that is accepted.
Healthy(s) == transport[s] = "open" /\ s \notin closed /\ s \notin expired

\* The Map never believes in a contact fresher than the last envelope of that
\* agent the server authorised (touchConnection is the only writer of
\* lastSeenAtMs, and it runs behind resolveAuthorizedEnvelope).
NoFresherThanHeard ==
  \A a \in Agents : connections[a] # None =>
     conn[connections[a]].age >= heard[a]

\* A read reports an agent online, and a dispatch is accepted for it, only if
\* an envelope of it was authorised within the heartbeat timeout: the Map is
\* reconciled before every answer, though nothing else ever expires an entry.
AnswerIsRecent == \A a \in answer : heard[a] <= Timeout

\* A session whose row says heartbeat_timeout had its call ended by the server
\* (README: "On timeout server marks connection as disconnected and closes
\* stale stream").
TimedOutCallIsClosed ==
  \A x \in Sessions : sessions[x].reason = "heartbeat_timeout" =>
     \E s \in closed : x \in SessionsOf[s]

\* Once its token is rejected a call cannot enter the Map again, also not by an
\* envelope that arrived, and captured its connection, before the expiry.
ExpiredNeverRelisted ==
  [][\A s \in expired : ~Listed(s) => ~Listed(s)']_vars

\* A call that is gone for the server (with or without an event), or whose token
\* is no longer accepted though the agent goes on sending envelopes on it, stops
\* being the agent's listed connection for good, ghosts included: entries that a
\* suspended handler makes after 'end' was handled.
Gone(s) == transport[s] \in {"lost", "ended"} \/ s \in expired
GoneIsDelisted == <>[](\A s \in Streams : Gone(s) => ~Listed(s))

\* Whatever a stale call's 'end', 'error' or timeout deletes from the Map, an
\* agent with a healthy call ends up listed and stays so.
SelfHealing ==
  \A s \in Streams : <>[]Healthy(s) => <>[](connections[AgentOf[s]] # None)

\* The runtime implements the presence it promises.
Presence == INSTANCE AgentPresence WITH online <- Online(connections)
PresenceSpec == Presence!Spec

=============================================================================
