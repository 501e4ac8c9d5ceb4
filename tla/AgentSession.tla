----------------------------- MODULE AgentSession -----------------------------
(***************************************************************************)
(* The Rust agent's authorisation cycle, composed with the token tables:   *)
(* run_cycle reads the stored refresh token, trades it, falls back to the  *)
(* enrollment token, writes session.json, opens its stream, and starts     *)
(* over 5 s after the stream ends or a step fails.                         *)
(*                                                                         *)
(* The process may crash anywhere: a call it had sent is still handled by  *)
(* the server, next to the ones of its successor.                          *)
(***************************************************************************)
EXTENDS PassportTokens

CONSTANTS
  Agent,      \* JULIA_AGENT_ID, and the agent_id in session.json
  Ticket,     \* JULIA_AGENT_ENROLLMENT_TOKEN
  MaxFailures \* bound: crashes and failing steps of the process

ASSUME AgentAssumption ==
  /\ Agent \in Agents /\ Ticket \in Tickets
  /\ MaxFailures \in Nat
  /\ IsFiniteSet(Calls) /\ None \notin Calls

VARIABLES
  phase,      \* where run_cycle is
  disk,       \* refresh_token of a readable session.json
  mem,        \* refresh token of the SessionTokens in memory
  call,       \* the HTTP call the process awaits
  failures

Process == <<phase, disk, mem, call, failures>>
sessionVars == <<vars, Process>>

Phases == {"sleep", "start", "refreshing", "enroll", "enrolling", "write",
           "connect", "streaming"}

\* The process is the client of PassportTokens: it knows what it holds.
Held == {disk, mem} \ {None}

SessionTypeOK ==
  /\ TypeOK
  /\ phase \in Phases
  /\ disk \in Tokens \cup {None}
  /\ mem \in Tokens \cup {None}
  /\ call \in Calls \cup {None}
  /\ failures \in 0 .. MaxFailures

SessionInit ==
  /\ phase = "start" /\ disk = None /\ mem = None /\ call = None
  /\ failures = 0
  /\ Init

\* A step of the process alone: the server only sees what it still holds.
ServerWaits ==
  known' = Held' /\ UNCHANGED <<tickets, tokens, registry, calls, faults>>

Failure == failures < MaxFailures /\ failures' = failures + 1

-----------------------------------------------------------------------------
(* authorize.                                                              *)

FreeCalls == {r \in Calls : calls[r].at = "free"}

Post(secret, next) ==
  /\ phase' = next
  /\ UNCHANGED <<disk, mem, failures>>
  /\ FreeCalls # {}
  /\ call' = CHOOSE r \in FreeCalls : TRUE
  /\ Send(call', Agent, secret)

\* A session file that can be read: refresh with its token.
AskRefresh == phase = "start" /\ disk # None /\ Post(disk, "refreshing")

NoSession ==
  /\ phase = "start" /\ disk = None
  /\ phase' = "enroll"
  /\ UNCHANGED <<disk, mem, call, failures>> /\ ServerWaits

AskEnroll == phase = "enroll" /\ Post(Ticket, "enrolling")

\* The 200 of either endpoint.
Authorized ==
  /\ phase \in {"refreshing", "enrolling"}
  /\ calls[call].token # None
  /\ phase' = "write" /\ mem' = calls[call].token /\ call' = None
  /\ UNCHANGED <<disk, failures>>
  /\ known' = Held' /\ Deliver(call)

\* Any failure of the refresh falls back to enrolling, any failure of that ends
\* the cycle.
AfterFailureSleeps == "sleep"                                       \* mutant
AfterFailure == IF phase = "refreshing" THEN "enroll" ELSE "sleep"

Refused ==
  /\ phase \in {"refreshing", "enrolling"}
  /\ calls[call].token = None
  /\ phase' = AfterFailure /\ call' = None
  /\ UNCHANGED <<disk, mem, failures>>
  /\ known' = Held' /\ Deliver(call)

CallFails ==
  /\ phase \in {"refreshing", "enrolling"}
  /\ phase' = AfterFailure /\ call' = None
  /\ UNCHANGED <<disk, mem, failures>>
  /\ Lose(call)

-----------------------------------------------------------------------------
(* The rest of run_cycle, and the loop around it.                          *)

\* storage::write_session.
WriteSkipped == disk' = disk                                        \* mutant
WriteSession == disk' = mem

Write ==
  /\ phase = "write"
  /\ phase' = "connect"
  /\ WriteSession
  /\ UNCHANGED <<mem, call, failures>> /\ ServerWaits

\* The write is not atomic: the file may be left old, new or unreadable.
TornWrite == disk' \in {disk, mem, None}

EndCycle == phase' = "sleep" /\ mem' = None /\ UNCHANGED call

WriteFails ==
  /\ phase = "write"
  /\ EndCycle /\ TornWrite
  /\ Failure
  /\ ServerWaits

Connect ==
  /\ phase = "connect"
  /\ phase' = "streaming"
  /\ UNCHANGED <<disk, mem, call, failures>> /\ ServerWaits

ConnectFails ==
  /\ phase = "connect"
  /\ EndCycle
  /\ Failure
  /\ UNCHANGED disk /\ ServerWaits

StreamEnds ==
  /\ phase = "streaming"
  /\ EndCycle
  /\ UNCHANGED <<disk, failures>> /\ ServerWaits

Wake ==
  /\ phase = "sleep"
  /\ phase' = "start"
  /\ UNCHANGED <<disk, mem, call, failures>> /\ ServerWaits

Crash ==
  /\ Failure
  /\ phase' = "start" /\ mem' = None /\ call' = None
  /\ IF phase = "write" THEN TornWrite ELSE UNCHANGED disk
  /\ ServerWaits

-----------------------------------------------------------------------------
(* The server and its surroundings, which leave the process alone.         *)

Serve(r) == UNCHANGED Process /\ Handle(r)

\* The answer to a call of a process that has crashed goes nowhere.
DropAnswer(r) ==
  r # call /\ UNCHANGED <<Process, known>> /\ (Deliver(r) \/ Lose(r))

\* Tickets and agents come and go; only this agent holds tokens here.
Surroundings ==
  /\ UNCHANGED Process
  /\ \/ \E e \in Tickets :
          \/ \E a \in Agents : CreateTicket(e, a)
          \/ RevokeTicket(e)
          \/ ExpireTicket(e)
     \/ \E a \in Agents : CreateTicketFails(a)
     \/ \E t \in Tokens : ExpireToken(t)

Step ==
  \/ AskRefresh \/ NoSession \/ AskEnroll
  \/ Authorized \/ Refused
  \/ Write \/ Connect \/ Wake

SessionNext ==
  \/ Step
  \/ CallFails \/ WriteFails \/ ConnectFails \/ StreamEnds \/ Crash
  \/ \E r \in Calls : Serve(r) \/ DropAnswer(r)
  \/ Surroundings

SessionSpec == SessionInit /\ [][SessionNext]_sessionVars

\* The process runs on, and the server handles every call it is sent; nothing
\* is assumed of crashes, losses, expiries or the administrator.
FairSpec ==
  /\ SessionSpec
  /\ WF_sessionVars(Step)
  /\ \A r \in Calls : WF_sessionVars(Serve(r)) /\ WF_sessionVars(DropAnswer(r))

-----------------------------------------------------------------------------
(* Properties.                                                             *)

Stored == tokens[disk]

\* While the agent streams, session.json holds a token that can be traded for
\* the next cycle, unless 30 days have passed: no call of an earlier process that
\* is still under way at the server can spend it.
StoredTokenIsLive ==
  phase = "streaming" => disk # None /\ Stored.state = "live"

\* A use of the enrollment token is spent for the first enrollment, and once at
\* most for each failure since: a ticket with n uses survives n - 1 of them.
UsesAreSpentOnFaults ==
  tickets[Ticket].total - tickets[Ticket].left <= 1 + faults + failures

\* Once enrolled, and as long as nothing fails, an agent comes back after every
\* end of its stream, whatever becomes of its enrollment token.
StreamsAgain ==
  [](faults + failures = 0) /\ <>(phase = "streaming") =>
    []<>(phase = "streaming")

\* With an enrollment token that stays valid and has more uses than there are
\* failures, the agent always gets back to streaming.
Recovers ==
  /\ <>(tickets[Ticket].total > MaxFaults + MaxFailures)
  /\ [](~tickets[Ticket].revoked /\ ~tickets[Ticket].expired)
  => []<>(phase = "streaming")

\* docs/agent-architecture-plan.md: "on restart, agent loads stored
\* refresh_token, requests fresh access_jwt, and reconnects" (only a revoked or
\* expired one makes it enroll again).
RestartReconnects ==
  [](\A t \in Tokens : ~tokens[t].expired) =>
    (phase = "start" /\ disk # None ~> phase = "streaming")

=============================================================================
