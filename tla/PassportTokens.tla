---------------------------- MODULE PassportTokens ----------------------------
(***************************************************************************)
(* The credentials of agents: the enrollment tokens an administrator       *)
(* creates, the refresh tokens an agent trades for access JWTs, and the    *)
(* HTTP handlers that spend, rotate and revoke them.                       *)
(*                                                                         *)
(* The queries of a handler are synchronous: everything up to the await on *)
(* the JWT secret is one step, and the answer is another one that may fail *)
(* after the tables have changed.  Clients are arbitrary: they may send    *)
(* any token they have been given, again and in any order.                 *)
(*                                                                         *)
(* A refresh token belongs to the family of the enrollment it descends     *)
(* from (not stored by the code): the ticket and the uses it had left.     *)
(***************************************************************************)
EXTENDS Naturals, FiniteSets

CONSTANTS
  Agents,
  Tickets,    \* rows of agent_enrollment_tokens
  Tokens,     \* rows of agent_tokens in use at once
  Calls,      \* bound: HTTP calls under way at once
  MaxUses,    \* PASSPORT_ENROLLMENT_MAX_USES
  MaxFaults,  \* bound: failures, losses and expiries in one behaviour
  None

Families == Tickets \X (0 .. MaxUses - 1)

ASSUME TokensAssumption ==
  /\ MaxUses \in Nat \ {0} /\ MaxFaults \in Nat
  /\ None \notin Agents \cup Tokens \cup Tickets \cup Families
  /\ Tickets \cap Tokens = {}

VARIABLES
  tickets,   \* table agent_enrollment_tokens
  tokens,    \* table agent_tokens
  registry,  \* agent_registry.status
  calls,     \* HTTP calls to enroll and token/refresh
  known,     \* refresh tokens some client holds
  faults

vars == <<tickets, tokens, registry, calls, known, faults>>

TicketRow == [agent : Agents \cup {None}, total : 0 .. MaxUses,
              left : 0 .. MaxUses, revoked : BOOLEAN, expired : BOOLEAN]
NoTicket == [agent |-> None, total |-> 0, left |-> 0, revoked |-> FALSE,
             expired |-> FALSE]
Token == [state : {"none", "live", "revoked"}, agent : Agents \cup {None},
          family : Families \cup {None}, expired : BOOLEAN]
NoToken == [state |-> "none", agent |-> None, family |-> None, expired |-> FALSE]

\* at: "sent" before the handler has run, "secret" while it awaits the JWT
\* secret, "answered" with token None for an error of any kind.
Call == [at : {"free", "sent", "secret", "answered"}, agent : Agents \cup {None},
         secret : Tickets \cup Tokens \cup {None}, token : Tokens \cup {None}]
NoCall == [at |-> "free", agent |-> None, secret |-> None, token |-> None]

TypeOK ==
  /\ tickets \in [Tickets -> TicketRow]
  /\ tokens \in [Tokens -> Token]
  /\ registry \in [Agents -> {"none", "enrollment_pending", "online"}]
  /\ calls \in [Calls -> Call]
  /\ known \in SUBSET Tokens
  /\ faults \in 0 .. MaxFaults

Init ==
  /\ tickets = [e \in Tickets |-> NoTicket]
  /\ tokens = [t \in Tokens |-> NoToken]
  /\ registry = [a \in Agents |-> "none"]
  /\ calls = [r \in Calls |-> NoCall]
  /\ known = {}
  /\ faults = 0

Fault == faults < MaxFaults /\ faults' = faults + 1

\* Rows that cannot matter any more are reused for new tokens: dead, and held
\* by no client and no call.
InCalls == UNION {{calls[r].secret, calls[r].token} : r \in Calls}
Unused == {t \in Tokens : tokens[t].state # "live" /\ t \notin known \cup InCalls}
NewToken == CHOOSE t \in Unused : TRUE

-----------------------------------------------------------------------------
(* The handlers of enroll and token/refresh.                               *)

\* isExpiredIso, revokedAt and usesLeft, checked by consumeEnrollmentToken.
ConsumableByAnyone(e, a) ==                                         \* mutant
  /\ tickets[e].agent # None /\ tickets[e].left > 0
  /\ ~tickets[e].revoked /\ ~tickets[e].expired
Consumable(e, a) ==
  /\ tickets[e].agent = a
  /\ ~tickets[e].revoked /\ ~tickets[e].expired
  /\ tickets[e].left > 0

Spent(e) == [tickets EXCEPT ![e].left = @ - 1]

\* issueRefreshToken.
Issued(table, t, a, f) ==
  [table EXCEPT ![t] = [state |-> "live", agent |-> a, family |-> f,
                        expired |-> FALSE]]

\* The row rotateRefreshToken and revokeRefreshToken look for.
Matches(t, a) == tokens[t].state # "none" /\ tokens[t].agent = a
ExchangeableRevoked(t, a) == Matches(t, a) /\ ~tokens[t].expired     \* mutant
Exchangeable(t, a) ==
  Matches(t, a) /\ tokens[t].state = "live" /\ ~tokens[t].expired

RevokedNever(table, t) == table                                     \* mutant
Revoked(table, t) == [table EXCEPT ![t].state = "revoked"]

Answer(r, t) == [calls EXCEPT ![r].at = "answered", ![r].token = t]
AwaitsSecretOld(r, t) ==                                            \* mutant
  [calls EXCEPT ![r].at = "secret",
                ![r].token = IF @ = None /\ calls[r].secret \in Tokens
                               THEN calls[r].secret ELSE t]
AwaitsSecret(r, t) == [calls EXCEPT ![r].at = "secret", ![r].token = t]

\* enrollPassportAgent up to its await.
Enroll(r) ==
  LET e == calls[r].secret
      a == calls[r].agent
  IN  /\ calls[r].at = "sent" /\ e \in Tickets
      /\ Consumable(e, a)
      /\ Unused # {}
      /\ tokens' = Issued(tokens, NewToken, a, <<e, tickets[e].left - 1>>)
      /\ calls' = AwaitsSecret(r, NewToken)
      /\ tickets' = Spent(e)
      /\ registry' = [registry EXCEPT ![a] = "online"]
      /\ UNCHANGED <<known, faults>>

\* The use is spent, then registerAgent or issueRefreshToken throws.
EnrollFails(r) ==
  LET e == calls[r].secret
      a == calls[r].agent
  IN  /\ calls[r].at = "sent" /\ e \in Tickets
      /\ Consumable(e, a)
      /\ Fault
      /\ tickets' = Spent(e)
      /\ registry' \in {registry, [registry EXCEPT ![a] = "online"]}
      /\ calls' = Answer(r, None)
      /\ UNCHANGED <<tokens, known>>

\* refreshPassportSession up to its await.
Refresh(r) ==
  LET t == calls[r].secret
      a == calls[r].agent
  IN  /\ calls[r].at = "sent" /\ t \in Tokens
      /\ Exchangeable(t, a)
      /\ Unused # {}
      /\ tokens' = Issued(Revoked(tokens, t), NewToken, a, tokens[t].family)
      /\ calls' = AwaitsSecret(r, NewToken)
      /\ UNCHANGED <<tickets, registry, known, faults>>

\* The old token is revoked, then the insert of the new one throws.
RefreshFails(r) ==
  LET t == calls[r].secret
      a == calls[r].agent
  IN  /\ calls[r].at = "sent" /\ t \in Tokens
      /\ Exchangeable(t, a)
      /\ Fault
      /\ tokens' = Revoked(tokens, t)
      /\ calls' = Answer(r, None)
      /\ UNCHANGED <<tickets, registry, known>>

Reject(r) ==
  LET x == calls[r].secret
      a == calls[r].agent
  IN  /\ calls[r].at = "sent"
      /\ IF x \in Tickets THEN ~Consumable(x, a) ELSE ~Exchangeable(x, a)
      /\ calls' = Answer(r, None)
      /\ UNCHANGED <<tickets, tokens, registry, known, faults>>

SecretResolves(r) ==
  /\ calls[r].at = "secret"
  /\ calls' = Answer(r, calls[r].token)
  /\ UNCHANGED <<tickets, tokens, registry, known, faults>>

\* resolvePassportJwtSecret throws: the tables keep what they have.
SecretFails(r) ==
  /\ calls[r].at = "secret"
  /\ Fault
  /\ calls' = Answer(r, None)
  /\ UNCHANGED <<tickets, tokens, registry, known>>

Handle(r) ==
  \/ Enroll(r) \/ EnrollFails(r)
  \/ Refresh(r) \/ RefreshFails(r)
  \/ Reject(r)
  \/ SecretResolves(r) \/ SecretFails(r)

-----------------------------------------------------------------------------
(* The administrator, revocation and time.                                 *)

\* createEnrollmentToken: the agent id is reserved if it is new.
CreateTicket(e, a) ==
  /\ tickets[e].agent = None
  /\ \E n \in 1 .. MaxUses :
       tickets' = [tickets EXCEPT ![e].agent = a, ![e].total = n,
                                  ![e].left = n]
  /\ registry' = [registry EXCEPT ![a] =
                    IF @ = "none" THEN "enrollment_pending" ELSE @]
  /\ UNCHANGED <<tokens, calls, known, faults>>

\* The id is reserved, then the insert of the ticket throws.
CreateTicketFails(a) ==
  /\ Fault
  /\ registry' = [registry EXCEPT ![a] =
                    IF @ = "none" THEN "enrollment_pending" ELSE @]
  /\ UNCHANGED <<tickets, tokens, calls, known>>

RevokeTicket(e) ==
  /\ tickets[e].agent # None /\ ~tickets[e].revoked
  /\ tickets' = [tickets EXCEPT ![e].revoked = TRUE]
  /\ UNCHANGED <<tokens, registry, calls, known, faults>>

ExpireTicket(e) ==
  /\ tickets[e].agent # None /\ ~tickets[e].expired
  /\ tickets' = [tickets EXCEPT ![e].expired = TRUE]
  /\ UNCHANGED <<tokens, registry, calls, known, faults>>

\* token/revoke: also an expired token can be revoked.
RevokeToken(t, a) ==
  /\ t \in known
  /\ Matches(t, a) /\ tokens[t].state = "live"
  /\ Fault
  /\ tokens' = Revoked(tokens, t)
  /\ UNCHANGED <<tickets, registry, calls, known>>

ExpireToken(t) ==
  /\ tokens[t].state = "live" /\ ~tokens[t].expired
  /\ Fault
  /\ tokens' = [tokens EXCEPT ![t].expired = TRUE]
  /\ UNCHANGED <<tickets, registry, calls, known>>

-----------------------------------------------------------------------------
(* The clients and the network.                                            *)

\* A client sends a ticket or a refresh token it holds, for any agent id.
Send(r, a, x) ==
  /\ calls[r].at = "free"
  /\ x \in known \cup {e \in Tickets : tickets[e].agent # None}
  /\ calls' = [calls EXCEPT ![r] =
                 [at |-> "sent", agent |-> a, secret |-> x, token |-> None]]
  /\ UNCHANGED <<tickets, tokens, registry, known, faults>>

\* The answer arrives; the client may keep the new token and drop old ones.
Deliver(r) ==
  /\ calls[r].at = "answered"
  /\ calls' = [calls EXCEPT ![r] = NoCall]
  /\ known' \in SUBSET ((known \cup {calls[r].token}) \ {None})
  /\ UNCHANGED <<tickets, tokens, registry, faults>>

\* The request, or the answer to it, gets lost; or the server dies over it.
Lose(r) ==
  /\ calls[r].at # "free"
  /\ Fault
  /\ calls' = [calls EXCEPT ![r] = NoCall]
  /\ UNCHANGED <<tickets, tokens, registry, known>>

\* A client forgets tokens (a crash, an overwritten file).
Forget ==
  /\ known' \in SUBSET known
  /\ UNCHANGED <<tickets, tokens, registry, calls, faults>>

-----------------------------------------------------------------------------
Next ==
  \/ \E r \in Calls :
       \/ Handle(r)
       \/ \E a \in Agents, x \in Tickets \cup Tokens : Send(r, a, x)
       \/ Deliver(r)
       \/ Lose(r)
  \/ \E e \in Tickets :
       \/ \E a \in Agents : CreateTicket(e, a)
       \/ RevokeTicket(e)
       \/ ExpireTicket(e)
  \/ \E a \in Agents : CreateTicketFails(a)
  \/ \E t \in Tokens : ExpireToken(t) \/ \E a \in Agents : RevokeToken(t, a)
  \/ Forget

Spec == Init /\ [][Next]_vars

-----------------------------------------------------------------------------
(* Properties.                                                             *)

Live == {t \in Tokens : tokens[t].state = "live"}

\* However often and in whatever order refresh calls arrive, a family never has
\* two tokens that can be exchanged: a replayed token does not fork it.
OneLiveToken ==
  \A t, u \in Live : tokens[t].family = tokens[u].family => t = u

\* The token an answer carries is live when it is delivered, whatever other
\* calls did while the handler awaited the secret: nobody holds it yet, so
\* nobody can have spent or revoked it.
AnswerIsLive ==
  \A r \in Calls : calls[r].token # None => calls[r].token \in Live \ known

\* A token never outlives its registration: its agent is registered "online",
\* also when enrolling stopped half way, and belongs to its ticket's agent.
TokensAreRegistered ==
  \A t \in Live : /\ registry[tokens[t].agent] = "online"
                  /\ tickets[tokens[t].family[1]].agent = tokens[t].agent

\* The families of refresh tokens are those that uses of tickets have paid for.
FamiliesOf(table) == {table[t].family : t \in {u \in Tokens : table[u].state = "live"}}
Family == INSTANCE TokenFamilies WITH
  left <- [e \in Tickets |-> tickets[e].left],
  made <- {e \in Tickets : tickets[e].agent # None},
  live <- FamiliesOf(tokens)
FamilySpec == Family!Spec

=============================================================================
