-------------------------- MODULE PassportTokens_proofs --------------------------
(* Theorems about PassportTokens, for every set of agents, tickets, tokens  *)
(* and calls, every number of uses and of faults.                           *)
EXTENDS PassportTokens, TLAPS

\* A call that was sent names an agent, and a ticket or a token.
SentIsMeant ==
  \A r \in Calls : calls[r].at = "sent" =>
    calls[r].agent \in Agents /\ calls[r].secret \in Tickets \cup Tokens

\* A live token has an owner, and descends from a use that is spent.
LiveIsPaid ==
  \A t \in Live : /\ tokens[t].agent \in Agents
                  /\ tokens[t].family \in Families
                  /\ tokens[t].family[2] >= tickets[tokens[t].family[1]].left

\* The token of an answer is in no other call.
AnswerIsPrivate ==
  \A r \in Calls : calls[r].token # None =>
    \A q \in Calls : /\ calls[q].secret # calls[r].token
                     /\ q # r => calls[q].token # calls[r].token

\* The inductive invariant, in the two halves that its proof treats apart.
TableInv == LiveIsPaid /\ OneLiveToken /\ TokensAreRegistered
CallInv == SentIsMeant /\ AnswerIsLive /\ AnswerIsPrivate
Inv == TypeOK /\ TableInv /\ CallInv

-----------------------------------------------------------------------------
(* What the operations on the tables do.                                   *)

LEMMA NewTokenFacts ==
  ASSUME Unused # {}
  PROVE  /\ NewToken \in Tokens
         /\ NewToken \notin Live /\ NewToken \notin known
         /\ \A r \in Calls : calls[r].secret # NewToken /\ calls[r].token # NewToken
<1>1. NewToken \in Unused  BY DEF NewToken
<1> QED  BY <1>1 DEF Unused, Live, InCalls

\* A new row beside the others.
LEMMA IssuedFacts ==
  ASSUME TypeOK, NEW n \in Tokens, n \notin Live,
         NEW a \in Agents, NEW f \in Families, tokens' = Issued(tokens, n, a, f)
  PROVE  /\ tokens' \in [Tokens -> Token]
         /\ Live' = Live \cup {n}
         /\ tokens'[n].agent = a /\ tokens'[n].family = f
         /\ \A t \in Live : tokens'[t] = tokens[t]
<1>1. tokens \in [Tokens -> Token]  BY DEF TypeOK
<1>2. tokens' \in [Tokens -> Token]  BY <1>1 DEF Issued, Token
<1>3. tokens'[n].state = "live" /\ tokens'[n].agent = a /\ tokens'[n].family = f
  BY <1>1 DEF Issued
<1>4. \A t \in Tokens \ {n} : tokens'[t] = tokens[t]
  BY <1>1 DEF Issued
<1> QED  BY <1>2, <1>3, <1>4 DEF Live

LEMMA RevokedFacts ==
  ASSUME TypeOK, NEW t \in Tokens, tokens' = Revoked(tokens, t)
  PROVE  /\ tokens' \in [Tokens -> Token]
         /\ Live' = Live \ {t}
         /\ \A u \in Live \ {t} : tokens'[u] = tokens[u]
<1>1. tokens \in [Tokens -> Token]  BY DEF TypeOK
<1>2. tokens' \in [Tokens -> Token]  BY <1>1 DEF Revoked, Token
<1>3. tokens'[t].state = "revoked"
  BY <1>1 DEF Revoked, Token
<1>4. \A u \in Tokens \ {t} : tokens'[u] = tokens[u]
  BY <1>1 DEF Revoked
<1> QED  BY <1>2, <1>3, <1>4 DEF Live

\* A rotation: the new row takes the family of the row it replaces.
LEMMA RotatedFacts ==
  ASSUME TypeOK, NEW t \in Live, NEW n \in Tokens, n \notin Live,
         NEW a \in Agents, NEW f \in Families,
         tokens' = Issued(Revoked(tokens, t), n, a, f)
  PROVE  /\ tokens' \in [Tokens -> Token]
         /\ Live' = (Live \ {t}) \cup {n}
         /\ tokens'[n].agent = a /\ tokens'[n].family = f
         /\ \A u \in Live \ {t} : tokens'[u] = tokens[u]
<1>1. tokens \in [Tokens -> Token] /\ t \in Tokens /\ t # n
  BY DEF TypeOK, Live
<1>2. Revoked(tokens, t) \in [Tokens -> Token]
  BY <1>1 DEF Revoked, Token
<1>3. tokens' \in [Tokens -> Token]
  BY <1>2 DEF Issued, Token
<1>4. tokens'[n].state = "live" /\ tokens'[n].agent = a /\ tokens'[n].family = f
  BY <1>2 DEF Issued
<1>5. tokens'[t].state = "revoked"
  BY <1>1, <1>2 DEF Issued, Revoked, Token
<1>6. \A u \in Tokens \ {t, n} : tokens'[u] = tokens[u]
  BY <1>1, <1>2 DEF Issued, Revoked
<1> QED  BY <1>3, <1>4, <1>5, <1>6 DEF Live

\* A use that is spent.
LEMMA SpentFacts ==
  ASSUME TypeOK, NEW e \in Tickets, tickets[e].left > 0, tickets' = Spent(e)
  PROVE  /\ tickets' \in [Tickets -> TicketRow]
         /\ tickets'[e].left = tickets[e].left - 1
         /\ \A d \in Tickets : /\ tickets'[d].agent = tickets[d].agent
                               /\ tickets'[d].left \in Nat /\ tickets[d].left \in Nat
                               /\ tickets'[d].left <= tickets[d].left
<1> DEFINE spent == [tickets[e] EXCEPT !.left = @ - 1]
<1>1. tickets \in [Tickets -> TicketRow] /\ tickets[e].left \in 1 .. MaxUses
  BY TokensAssumption DEF TypeOK, TicketRow
<1>2. spent \in TicketRow /\ spent.left = tickets[e].left - 1
      /\ spent.agent = tickets[e].agent
  BY <1>1, TokensAssumption DEF TicketRow
<1>3. tickets' = [tickets EXCEPT ![e] = spent]
  BY DEF Spent
<1> HIDE DEF spent
<1>4. tickets' \in [Tickets -> TicketRow]
  BY <1>1, <1>2, <1>3
<1>5. \A d \in Tickets : tickets'[d] = IF d = e THEN spent ELSE tickets[d]
  BY <1>1, <1>3
<1>6. \A d \in Tickets : tickets'[d].left \in Nat /\ tickets[d].left \in Nat
  BY <1>1, <1>4, TokensAssumption DEF TicketRow
<1>7. \A d \in Tickets : tickets'[d].left <= tickets[d].left
  BY <1>1, <1>2, <1>5, <1>6
<1> QED  BY <1>2, <1>4, <1>5, <1>6, <1>7

\* The tables keep their promises when nothing but dead rows changes ...
LEMMA TableKept ==
  ASSUME TableInv, Live' \subseteq Live, \A t \in Live' : tokens'[t] = tokens[t],
         \A t \in Live' :
           LET e == tokens[t].family[1]
           IN  /\ tickets'[e].agent = tickets[e].agent
               /\ tokens[t].family[2] >= tickets'[e].left
               /\ registry'[tokens[t].agent] = "online"
  PROVE  TableInv'
<1>1. LiveIsPaid'  BY DEF TableInv, LiveIsPaid
<1>2. OneLiveToken'
  <2> SUFFICES ASSUME NEW t \in Live', NEW u \in Live',
                      tokens'[t].family = tokens'[u].family
               PROVE  t = u
    BY DEF OneLiveToken
  <2> QED  BY DEF TableInv, OneLiveToken
<1>3. TokensAreRegistered'  BY DEF TableInv, TokensAreRegistered
<1> QED  BY <1>1, <1>2, <1>3 DEF TableInv

\* ... and when a new row comes in whose use was just spent, or whose family
\* has no other live row left.
LEMMA TableGrows ==
  ASSUME TypeOK, TableInv, NEW kept \in SUBSET Live, NEW n \in Tokens, n \notin Live,
         Live' = kept \cup {n}, \A t \in kept : tokens'[t] = tokens[t],
         tokens'[n].agent \in Agents, tokens'[n].family \in Families,
         \A t \in kept : tokens[t].family # tokens'[n].family,
         \A e \in Tickets : tickets'[e].agent = tickets[e].agent
                            /\ tickets'[e].left <= tickets[e].left,
         \A e \in Tickets : tickets'[e].left \in Nat /\ tickets[e].left \in Nat,
         tickets'[tokens'[n].family[1]].agent = tokens'[n].agent,
         tokens'[n].family[2] >= tickets'[tokens'[n].family[1]].left,
         \A t \in kept \cup {n} : registry'[tokens'[t].agent] = "online"
  PROVE  TableInv'
<1>0. \A t \in kept : /\ tokens[t].agent \in Agents /\ tokens[t].family \in Families
                      /\ tokens[t].family[1] \in Tickets /\ tokens[t].family[2] \in Nat
                      /\ tokens[t].family[2] >= tickets[tokens[t].family[1]].left
                      /\ tickets[tokens[t].family[1]].agent = tokens[t].agent
  BY TokensAssumption DEF TableInv, LiveIsPaid, TokensAreRegistered, Families
<1>1. LiveIsPaid'
  <2> SUFFICES ASSUME NEW t \in kept \cup {n}
               PROVE  /\ tokens'[t].agent \in Agents
                      /\ tokens'[t].family \in Families
                      /\ tokens'[t].family[2] >= tickets'[tokens'[t].family[1]].left
    BY DEF LiveIsPaid
  <2> QED  BY <1>0
<1>2. OneLiveToken'
  <2> SUFFICES ASSUME NEW t \in kept \cup {n}, NEW u \in kept \cup {n},
                      tokens'[t].family = tokens'[u].family
               PROVE  t = u
    BY DEF OneLiveToken
  <2> QED  BY DEF TableInv, OneLiveToken
<1>3. TokensAreRegistered'
  <2> SUFFICES ASSUME NEW t \in kept \cup {n}
               PROVE  /\ registry'[tokens'[t].agent] = "online"
                      /\ tickets'[tokens'[t].family[1]].agent = tokens'[t].agent
    BY DEF TokensAreRegistered
  <2> QED  BY <1>0
<1> QED  BY <1>1, <1>2, <1>3 DEF TableInv

\* A handler that moves its call on breaks no promise about the others, as long
\* as the tokens of their answers stay live and its own is new.
LEMMA CallMoves ==
  ASSUME TypeOK, CallInv, NEW r \in Calls, NEW place \in {"secret", "answered"},
         NEW t \in Tokens \cup {None},
         calls' = [calls EXCEPT ![r].at = place, ![r].token = t], UNCHANGED known,
         \A q \in Calls : calls[q].token # None => calls[q].token \in Live',
         t \notin {None, calls[r].token} =>
           /\ t \in Live' \ known
           /\ \A q \in Calls : calls[q].secret # t /\ calls[q].token # t
  PROVE  CallInv' /\ calls' \in [Calls -> Call]
<1>1. calls \in [Calls -> Call]  BY DEF TypeOK
<1>2. calls' \in [Calls -> Call]  BY <1>1 DEF Call
<1>3. /\ calls'[r].at = place /\ calls'[r].token = t
      /\ calls'[r].secret = calls[r].secret /\ calls'[r].agent = calls[r].agent
  BY <1>1 DEF Call
<1>4. \A q \in Calls \ {r} : calls'[q] = calls[q]
  BY <1>1
<1>5. SentIsMeant'  BY <1>3, <1>4 DEF CallInv, SentIsMeant
<1>6. AnswerIsLive'
  <2> SUFFICES ASSUME NEW q \in Calls, calls'[q].token # None
               PROVE  calls'[q].token \in Live' \ known
    BY DEF AnswerIsLive
  <2> QED  BY <1>3, <1>4 DEF CallInv, AnswerIsLive
<1>7. AnswerIsPrivate'
  <2> SUFFICES ASSUME NEW q \in Calls, calls'[q].token # None, NEW p \in Calls
               PROVE  /\ calls'[p].secret # calls'[q].token
                      /\ p # q => calls'[p].token # calls'[q].token
    BY DEF AnswerIsPrivate
  <2>1. calls'[p].secret = calls[p].secret
    BY <1>3, <1>4
  <2>2. CASE calls'[q].token = calls[q].token /\ calls'[p].token \in {None, calls[p].token}
    <3>1. calls[q].token # None
      BY <2>2
    <3>2. /\ calls[p].secret # calls[q].token
          /\ p # q => calls[p].token # calls[q].token
      BY <3>1 DEF CallInv, AnswerIsPrivate
    <3> QED  BY <2>1, <2>2, <3>1, <3>2
  <2>3. CASE q = r /\ t \notin {None, calls[r].token}
    BY <1>3, <1>4, <2>1, <2>3
  <2>4. CASE p = r /\ q # r /\ t \notin {None, calls[r].token}
    <3>1. calls'[q].token = calls[q].token /\ calls'[p].token = t
      BY <1>3, <1>4, <2>4
    <3>2. calls[p].secret # calls[q].token
      BY <3>1 DEF CallInv, AnswerIsPrivate
    <3>3. calls[q].token # t
      BY <2>4
    <3> QED  BY <2>1, <3>1, <3>2, <3>3
  <2> QED  BY <1>3, <1>4, <2>2, <2>3, <2>4
<1> QED  BY <1>2, <1>5, <1>6, <1>7 DEF CallInv

\* A step that leaves the calls alone.
LEMMA CallsKept ==
  ASSUME CallInv, UNCHANGED calls, known' \subseteq known,
         \A q \in Calls : calls[q].token # None => calls[q].token \in Live'
  PROVE  CallInv'
BY DEF CallInv, SentIsMeant, AnswerIsLive, AnswerIsPrivate

\* A call that is freed, with its token known from then on or not.
LEMMA CallFreed ==
  ASSUME TypeOK, CallInv, NEW r \in Calls, calls' = [calls EXCEPT ![r] = NoCall],
         known' \subseteq known \cup {calls[r].token}, UNCHANGED tokens
  PROVE  CallInv' /\ calls' \in [Calls -> Call]
<1>1. calls \in [Calls -> Call]  BY DEF TypeOK
<1>2. NoCall \in Call  BY DEF NoCall, Call
<1>3. calls' \in [Calls -> Call] /\ calls'[r] = NoCall
      /\ \A q \in Calls \ {r} : calls'[q] = calls[q]
  BY <1>1, <1>2
<1>4. calls'[r].at = "free" /\ calls'[r].token = None /\ calls'[r].secret = None
  BY <1>3 DEF NoCall
<1>5. Live' = Live  BY DEF Live
<1>6. SentIsMeant' /\ AnswerIsPrivate'
  BY <1>3, <1>4 DEF CallInv, SentIsMeant, AnswerIsPrivate
<1>7. AnswerIsLive'
  <2> SUFFICES ASSUME NEW q \in Calls, calls'[q].token # None
               PROVE  calls'[q].token \in Live /\ calls'[q].token \notin known'
    BY <1>5 DEF AnswerIsLive
  <2>1. q # r /\ calls'[q] = calls[q]
    BY <1>3, <1>4
  <2>2. calls[q].token # calls[r].token
    BY <2>1 DEF CallInv, AnswerIsPrivate
  <2> QED  BY <2>1, <2>2 DEF CallInv, AnswerIsLive
<1> QED  BY <1>3, <1>6, <1>7 DEF CallInv

-----------------------------------------------------------------------------
(* The invariant is inductive: first the handlers.                         *)

LEMMA EnrollStep ==
  ASSUME Inv, NEW r \in Calls, Enroll(r)
  PROVE  Inv'
<1> DEFINE e == calls[r].secret
           a == calls[r].agent
           n == NewToken
           f == <<e, tickets[e].left - 1>>
<1>0. /\ TypeOK /\ TableInv /\ CallInv
      /\ e \in Tickets /\ a \in Agents /\ tickets[e].agent = a
      /\ tickets[e] \in TicketRow /\ tickets[e].left > 0
  BY DEF Inv, Enroll, CallInv, SentIsMeant, Consumable, TypeOK
<1>1. tickets[e].left \in 1 .. MaxUses /\ f \in Families
  BY <1>0, TokensAssumption DEF TicketRow, Families
<1>2. /\ n \in Tokens /\ n \notin Live /\ n \notin known
      /\ \A q \in Calls : calls[q].secret # n /\ calls[q].token # n
  BY NewTokenFacts DEF Enroll
<1>3. /\ tokens' = Issued(tokens, n, a, f)
      /\ calls' = [calls EXCEPT ![r].at = "secret", ![r].token = n]
      /\ tickets' = [tickets EXCEPT ![e].left = @ - 1]
      /\ registry' = [registry EXCEPT ![a] = "online"]
      /\ UNCHANGED <<known, faults>>
  BY DEF Enroll, AwaitsSecret, Spent
<1> HIDE DEF n, e, a
<1>4. /\ tokens' \in [Tokens -> Token]
      /\ Live' = Live \cup {n}
      /\ tokens'[n].agent = a /\ tokens'[n].family = f
      /\ \A t \in Live : tokens'[t] = tokens[t]
  BY <1>0, <1>1, <1>2, <1>3, IssuedFacts
<1>5. /\ tickets' \in [Tickets -> TicketRow]
      /\ tickets'[e].left = tickets[e].left - 1
      /\ \A d \in Tickets : /\ tickets'[d].agent = tickets[d].agent
                            /\ tickets'[d].left \in Nat /\ tickets[d].left \in Nat
                            /\ tickets'[d].left <= tickets[d].left
  BY <1>0, <1>3, SpentFacts DEF Spent
<1>6. registry' \in [Agents -> {"none", "enrollment_pending", "online"}]
      /\ registry'[a] = "online" /\ \A b \in Agents \ {a} : registry'[b] = registry[b]
  BY <1>0, <1>3 DEF TypeOK
<1>7. \A t \in Live : tokens[t].family # f
  <2> SUFFICES ASSUME NEW t \in Live, tokens[t].family = f PROVE FALSE
    OBVIOUS
  <2>1. tokens[t].family[2] >= tickets[tokens[t].family[1]].left
    BY <1>0 DEF TableInv, LiveIsPaid
  <2> QED  BY <1>1, <2>1
<1>8. TableInv'
  <2>1. \A t \in Live \cup {n} : registry'[tokens'[t].agent] = "online"
    BY <1>0, <1>4, <1>6 DEF TableInv, LiveIsPaid, TokensAreRegistered
  <2>2. tickets'[f[1]].agent = a /\ f[2] >= tickets'[f[1]].left
    BY <1>0, <1>1, <1>5
  <2> HIDE DEF f
  <2> QED  BY <1>0, <1>1, <1>2, <1>4, <1>5, <1>7, <2>1, <2>2, TableGrows
<1>9. CallInv' /\ calls' \in [Calls -> Call]
  <2>1. \A q \in Calls : calls[q].token # None => calls[q].token \in Live'
    BY <1>0, <1>4 DEF CallInv, AnswerIsLive
  <2> QED  BY <1>0, <1>2, <1>3, <1>4, <2>1, CallMoves
<1>10. TypeOK'
  BY <1>0, <1>3, <1>4, <1>5, <1>6, <1>9 DEF TypeOK
<1> QED  BY <1>8, <1>9, <1>10 DEF Inv

LEMMA RefreshStep ==
  ASSUME Inv, NEW r \in Calls, Refresh(r)
  PROVE  Inv'
<1> DEFINE t == calls[r].secret
           a == calls[r].agent
           n == NewToken
           f == tokens[t].family
<1>0. /\ TypeOK /\ TableInv /\ CallInv
      /\ t \in Live /\ a \in Agents /\ tokens[t].agent = a
  BY DEF Inv, Refresh, CallInv, SentIsMeant, Exchangeable, Matches, Live
<1>1. /\ f \in Families
      /\ f[2] >= tickets[f[1]].left /\ tickets[f[1]].agent = a
      /\ \A u \in Live \ {t} : tokens[u].family # f
  BY <1>0 DEF TableInv, LiveIsPaid, TokensAreRegistered, OneLiveToken
<1>2. /\ n \in Tokens /\ n \notin Live /\ n \notin known
      /\ \A q \in Calls : calls[q].secret # n /\ calls[q].token # n
  BY NewTokenFacts DEF Refresh
<1>3. /\ tokens' = Issued(Revoked(tokens, t), n, a, f)
      /\ calls' = [calls EXCEPT ![r].at = "secret", ![r].token = n]
      /\ UNCHANGED <<tickets, registry, known, faults>>
  BY DEF Refresh, AwaitsSecret
<1>p. \A q \in Calls : calls[q].token # None => calls[q].token # t
  BY <1>0 DEF CallInv, AnswerIsPrivate
<1> HIDE DEF n, t, a, f
<1>4. /\ tokens' \in [Tokens -> Token]
      /\ Live' = (Live \ {t}) \cup {n}
      /\ tokens'[n].agent = a /\ tokens'[n].family = f
      /\ \A u \in Live \ {t} : tokens'[u] = tokens[u]
  BY <1>0, <1>1, <1>2, <1>3, RotatedFacts
<1>5. TableInv'
  <2>1. \A u \in (Live \ {t}) \cup {n} : registry'[tokens'[u].agent] = "online"
    BY <1>0, <1>3, <1>4 DEF TableInv, TokensAreRegistered
  <2>2. \A e \in Tickets : tickets[e].left \in Nat
    <3>1. \A e \in Tickets : tickets[e] \in TicketRow
      BY <1>0 DEF TypeOK
    <3> QED  BY <3>1, TokensAssumption DEF TicketRow
  <2>3. UNCHANGED tickets /\ \A e \in Tickets : tickets[e].left <= tickets[e].left
    BY <1>3, <2>2
  <2> QED  BY <1>0, <1>1, <1>2, <1>4, <2>1, <2>2, <2>3, TableGrows
<1>6. CallInv' /\ calls' \in [Calls -> Call]
  <2>1. \A q \in Calls : calls[q].token # None => calls[q].token \in Live'
    BY <1>0, <1>4, <1>p DEF CallInv, AnswerIsLive
  <2> QED  BY <1>0, <1>2, <1>3, <1>4, <2>1, CallMoves
<1>7. TypeOK'
  BY <1>0, <1>3, <1>4, <1>6 DEF TypeOK
<1> QED  BY <1>5, <1>6, <1>7 DEF Inv

\* The table keeps what it promises when no row of a token changes.
LEMMA RowsKept ==
  ASSUME TypeOK, TableInv, UNCHANGED tokens,
         \A d \in Tickets :
           /\ tickets[d].agent # None => tickets'[d].agent = tickets[d].agent
           /\ tickets[d].agent # None => tickets'[d].left <= tickets[d].left
           /\ tickets'[d].left \in Nat /\ tickets[d].left \in Nat,
         \A b \in Agents : registry[b] = "online" => registry'[b] = "online"
  PROVE  TableInv' /\ Live' = Live
<1>1. Live' = Live  BY DEF Live
<1>2. ASSUME NEW t \in Live
      PROVE  LET e == tokens[t].family[1]
             IN  /\ tickets'[e].agent = tickets[e].agent
                 /\ tokens[t].family[2] >= tickets'[e].left
                 /\ registry'[tokens[t].agent] = "online"
  <2> DEFINE e == tokens[t].family[1]
  <2>1. /\ tokens[t].agent \in Agents /\ tokens[t].family \in Families
        /\ tokens[t].family[2] >= tickets[e].left
        /\ tickets[e].agent = tokens[t].agent
        /\ registry[tokens[t].agent] = "online"
    BY <1>2 DEF TableInv, LiveIsPaid, TokensAreRegistered
  <2>2. e \in Tickets /\ tokens[t].family[2] \in Nat
    BY <2>1, TokensAssumption DEF Families
  <2>3. tickets[e].agent # None
    BY <2>1, TokensAssumption
  <2>4. /\ tickets'[e].agent = tickets[e].agent
        /\ tickets'[e].left <= tickets[e].left
        /\ tickets'[e].left \in Nat /\ tickets[e].left \in Nat
    BY <2>2, <2>3
  <2> HIDE DEF e
  <2> QED  BY <2>1, <2>2, <2>4 DEF e
<1> QED  BY <1>1, <1>2, TableKept

LEMMA LeftIsNat ==
  ASSUME TypeOK, NEW d \in Tickets
  PROVE  tickets[d].left \in Nat /\ tickets[d].left <= tickets[d].left
<1>1. tickets[d].left \in Nat
  BY TokensAssumption DEF TypeOK, TicketRow
<1> QED  BY <1>1

\* The tables are left alone.
LEMMA TableSame ==
  ASSUME TypeOK, TableInv, UNCHANGED <<tickets, tokens, registry>>
  PROVE  TableInv' /\ Live' = Live
BY LeftIsNat, RowsKept

LEMMA HandlerFails ==
  ASSUME Inv, NEW r \in Calls,
         EnrollFails(r) \/ Reject(r) \/ SecretResolves(r) \/ SecretFails(r)
  PROVE  Inv'
<1>0. TypeOK /\ TableInv /\ CallInv  BY DEF Inv
<1>1. UNCHANGED <<tokens, known>> /\ Live' = Live
  BY DEF EnrollFails, Reject, SecretResolves, SecretFails, Live
<1>2. \A q \in Calls : calls[q].token # None => calls[q].token \in Live'
  BY <1>0, <1>1 DEF CallInv, AnswerIsLive
<1>3. PICK t \in {None, calls[r].token} :
        calls' = [calls EXCEPT ![r].at = "answered", ![r].token = t]
  BY DEF EnrollFails, Reject, SecretResolves, SecretFails, Answer
<1>4. t \in Tokens \cup {None}
  BY <1>0 DEF TypeOK, Call
<1>5. CallInv' /\ calls' \in [Calls -> Call]
  BY <1>0, <1>1, <1>2, <1>3, <1>4, CallMoves
<1>6. faults' \in 0 .. MaxFaults
  BY <1>0, TokensAssumption
  DEF EnrollFails, Reject, SecretResolves, SecretFails, Fault, TypeOK
<1>7. CASE EnrollFails(r)
  <2> DEFINE e == calls[r].secret
             a == calls[r].agent
  <2>1. e \in Tickets /\ a \in Agents /\ tickets[e].left > 0 /\ tickets' = Spent(e)
        /\ registry' \in {registry, [registry EXCEPT ![a] = "online"]}
    BY <1>0, <1>7 DEF EnrollFails, CallInv, SentIsMeant, Consumable
  <2>2. /\ tickets' \in [Tickets -> TicketRow]
        /\ \A d \in Tickets : /\ tickets'[d].agent = tickets[d].agent
                              /\ tickets'[d].left \in Nat /\ tickets[d].left \in Nat
                              /\ tickets'[d].left <= tickets[d].left
    BY <1>0, <2>1, SpentFacts
  <2>3. registry' \in [Agents -> {"none", "enrollment_pending", "online"}]
        /\ \A b \in Agents : registry[b] = "online" => registry'[b] = "online"
    BY <1>0, <2>1 DEF TypeOK
  <2> HIDE DEF e, a
  <2>4. TableInv'
    BY <1>0, <1>1, <2>2, <2>3, RowsKept
  <2> QED  BY <1>0, <1>1, <1>5, <1>6, <2>2, <2>3, <2>4 DEF Inv, TypeOK
<1>8. CASE Reject(r) \/ SecretResolves(r) \/ SecretFails(r)
  <2>1. UNCHANGED <<tickets, tokens, registry>>
    BY <1>8 DEF Reject, SecretResolves, SecretFails
  <2>2. TableInv'
    BY <1>0, <2>1, TableSame
  <2> QED  BY <1>0, <1>1, <1>5, <1>6, <2>1, <2>2 DEF Inv, TypeOK
<1> QED  BY <1>7, <1>8

\* A row that is revoked, by a rotation that fails or on request.
LEMMA RevokeStep ==
  ASSUME Inv, NEW t \in Live, tokens' = Revoked(tokens, t),
         UNCHANGED <<tickets, registry>>
  PROVE  /\ TableInv' /\ tokens' \in [Tokens -> Token]
         /\ Live' = Live \ {t}
<1>0. TypeOK /\ TableInv /\ t \in Tokens  BY DEF Inv, Live
<1>1. /\ tokens' \in [Tokens -> Token]
      /\ Live' = Live \ {t}
      /\ \A u \in Live \ {t} : tokens'[u] = tokens[u]
  BY <1>0, RevokedFacts
<1>2. TableInv'
  BY <1>0, <1>1, TableKept DEF TableInv, LiveIsPaid, TokensAreRegistered
<1> QED  BY <1>1, <1>2

LEMMA RevocationSteps ==
  ASSUME Inv,
         \/ \E r \in Calls : RefreshFails(r)
         \/ \E t \in Tokens, a \in Agents : RevokeToken(t, a)
  PROVE  Inv'
<1>0. TypeOK /\ TableInv /\ CallInv  BY DEF Inv
<1>1. ASSUME NEW r \in Calls, RefreshFails(r) PROVE Inv'
  <2> DEFINE t == calls[r].secret
  <2>1. t \in Live /\ tokens' = Revoked(tokens, t)
        /\ UNCHANGED <<tickets, registry, known>>
        /\ calls' = [calls EXCEPT ![r].at = "answered", ![r].token = None]
    BY <1>1 DEF RefreshFails, Exchangeable, Matches, Live, Answer
  <2>2. \A q \in Calls : calls[q].token # None => calls[q].token # t
    BY <1>0 DEF CallInv, AnswerIsPrivate
  <2> HIDE DEF t
  <2>3. TableInv' /\ tokens' \in [Tokens -> Token] /\ Live' = Live \ {t}
    BY <2>1, RevokeStep
  <2>4. \A q \in Calls : calls[q].token # None => calls[q].token \in Live'
    BY <1>0, <2>2, <2>3 DEF CallInv, AnswerIsLive
  <2>5. CallInv' /\ calls' \in [Calls -> Call]
    BY <1>0, <2>1, <2>4, CallMoves
  <2>6. faults' \in 0 .. MaxFaults
    BY <1>0, <1>1, TokensAssumption DEF RefreshFails, Fault, TypeOK
  <2> QED  BY <1>0, <2>1, <2>3, <2>5, <2>6 DEF Inv, TypeOK
<1>2. ASSUME NEW t \in Tokens, NEW a \in Agents, RevokeToken(t, a) PROVE Inv'
  <2>1. t \in Live /\ t \in known /\ tokens' = Revoked(tokens, t)
        /\ UNCHANGED <<tickets, registry, known, calls>>
    BY <1>2 DEF RevokeToken, Live
  <2>2. TableInv' /\ tokens' \in [Tokens -> Token] /\ Live' = Live \ {t}
    BY <2>1, RevokeStep
  <2>3. \A q \in Calls : calls[q].token # None => calls[q].token \in Live'
    BY <1>0, <2>1, <2>2 DEF CallInv, AnswerIsLive
  <2>4. CallInv'
    BY <1>0, <2>1, <2>3, CallsKept
  <2>5. faults' \in 0 .. MaxFaults
    BY <1>0, <1>2, TokensAssumption DEF RevokeToken, Fault, TypeOK
  <2> QED  BY <1>0, <2>1, <2>2, <2>4, <2>5 DEF Inv, TypeOK
<1> QED  BY <1>1, <1>2

-----------------------------------------------------------------------------
(* Then the administrator, time, the clients and the network.              *)

LEMMA TicketSteps ==
  ASSUME Inv,
         \/ \E e \in Tickets : \/ \E a \in Agents : CreateTicket(e, a)
                               \/ RevokeTicket(e) \/ ExpireTicket(e)
         \/ \E a \in Agents : CreateTicketFails(a)
  PROVE  Inv'
<1>0. TypeOK /\ TableInv /\ CallInv  BY DEF Inv
<1> DEFINE Goal ==
      /\ tickets' \in [Tickets -> TicketRow]
      /\ registry' \in [Agents -> {"none", "enrollment_pending", "online"}]
      /\ faults' \in 0 .. MaxFaults
      /\ UNCHANGED <<tokens, calls, known>>
      /\ \A d \in Tickets :
           /\ tickets[d].agent # None => tickets'[d].agent = tickets[d].agent
           /\ tickets[d].agent # None => tickets'[d].left <= tickets[d].left
           /\ tickets'[d].left \in Nat
      /\ \A b \in Agents : registry[b] = "online" => registry'[b] = "online"
<1>t. /\ tickets \in [Tickets -> TicketRow]
      /\ \A d \in Tickets : tickets[d].left \in Nat /\ tickets[d].left <= tickets[d].left
  BY <1>0, LeftIsNat DEF TypeOK
<1>1. ASSUME NEW e \in Tickets, NEW a \in Agents, CreateTicket(e, a) PROVE Goal
  <2>1. PICK n \in 1 .. MaxUses :
          tickets' = [tickets EXCEPT ![e].agent = a, ![e].total = n, ![e].left = n]
    BY <1>1 DEF CreateTicket
  <2> DEFINE new == [tickets[e] EXCEPT !.agent = a, !.total = n, !.left = n]
  <2>2. new \in TicketRow /\ new.left \in Nat
    <3>1. n \in 0 .. MaxUses /\ n \in Nat
      BY TokensAssumption
    <3>2. tickets[e] \in TicketRow
      BY <1>t
    <3> QED  BY <3>1, <3>2 DEF TicketRow
  <2>3. tickets' = [tickets EXCEPT ![e] = new]
    BY <1>t, <2>1 DEF TicketRow
  <2> HIDE DEF new
  <2>4. tickets' \in [Tickets -> TicketRow]
    BY <1>t, <2>2, <2>3
  <2>5. \A d \in Tickets : tickets'[d] = IF d = e THEN new ELSE tickets[d]
    BY <1>t, <2>3
  <2>6. /\ registry' \in [Agents -> {"none", "enrollment_pending", "online"}]
        /\ \A b \in Agents : registry[b] = "online" => registry'[b] = "online"
        /\ UNCHANGED <<tokens, calls, known, faults>> /\ faults \in 0 .. MaxFaults
        /\ tickets[e].agent = None
    BY <1>0, <1>1 DEF CreateTicket, TypeOK
  <2> QED  BY <1>t, <2>2, <2>4, <2>5, <2>6
<1>2. ASSUME NEW e \in Tickets, RevokeTicket(e) \/ ExpireTicket(e) PROVE Goal
  <2> DEFINE new == IF RevokeTicket(e) THEN [tickets[e] EXCEPT !.revoked = TRUE]
                                       ELSE [tickets[e] EXCEPT !.expired = TRUE]
  <2>1. new \in TicketRow /\ new.left = tickets[e].left /\ new.agent = tickets[e].agent
    BY <1>t DEF TicketRow
  <2>2. tickets' = [tickets EXCEPT ![e] = new]
        /\ UNCHANGED <<tokens, registry, calls, known, faults>>
    BY <1>2, <1>t DEF RevokeTicket, ExpireTicket
  <2> HIDE DEF new
  <2>3. \A d \in Tickets : tickets'[d].left = tickets[d].left
                           /\ tickets'[d].agent = tickets[d].agent
    BY <1>t, <2>1, <2>2
  <2>4. tickets' \in [Tickets -> TicketRow]
    BY <1>t, <2>1, <2>2
  <2> QED  BY <1>0, <1>t, <2>2, <2>3, <2>4 DEF TypeOK
<1>3. ASSUME NEW a \in Agents, CreateTicketFails(a) PROVE Goal
  <2>1. faults' \in 0 .. MaxFaults
    BY <1>0, <1>3, TokensAssumption DEF CreateTicketFails, Fault, TypeOK
  <2>2. /\ registry' \in [Agents -> {"none", "enrollment_pending", "online"}]
        /\ \A b \in Agents : registry[b] = "online" => registry'[b] = "online"
        /\ UNCHANGED <<tickets, tokens, calls, known>>
    BY <1>0, <1>3 DEF CreateTicketFails, TypeOK
  <2> QED  BY <1>t, <2>1, <2>2
<1>4. Goal
  BY <1>1, <1>2, <1>3
<1>5. TableInv' /\ Live' = Live
  BY <1>0, <1>4, <1>t, RowsKept
<1>6. CallInv'
  BY <1>0, <1>4, <1>5, CallsKept DEF CallInv, AnswerIsLive
<1> QED  BY <1>0, <1>4, <1>5, <1>6 DEF Inv, TypeOK

\* An expired row is still live.
LEMMA ExpireStep ==
  ASSUME Inv, NEW t \in Tokens, ExpireToken(t)
  PROVE  Inv'
<1>0. TypeOK /\ TableInv /\ CallInv  BY DEF Inv
<1>1. tokens \in [Tokens -> Token]  BY <1>0 DEF TypeOK
<1>2. tokens' \in [Tokens -> Token]
  BY <1>1 DEF ExpireToken, Token
<1>3. \A u \in Tokens : /\ tokens'[u].state = tokens[u].state
                        /\ tokens'[u].agent = tokens[u].agent
                        /\ tokens'[u].family = tokens[u].family
  BY <1>1 DEF ExpireToken, Token
<1>4. Live' = Live /\ Live \subseteq Tokens
  BY <1>3 DEF Live
<1>5. UNCHANGED <<tickets, registry, calls, known>>
  BY DEF ExpireToken
<1>6. TableInv'
  BY <1>0, <1>3, <1>4, <1>5
  DEF TableInv, LiveIsPaid, OneLiveToken, TokensAreRegistered
<1>7. CallInv'
  BY <1>0, <1>4, <1>5, CallsKept DEF CallInv, AnswerIsLive
<1>8. faults' \in 0 .. MaxFaults
  BY <1>0, TokensAssumption DEF ExpireToken, Fault, TypeOK
<1> QED  BY <1>0, <1>2, <1>5, <1>6, <1>7, <1>8 DEF Inv, TypeOK

LEMMA ClientSteps ==
  ASSUME Inv,
         \/ \E r \in Calls : \/ \E a \in Agents, x \in Tickets \cup Tokens : Send(r, a, x)
                             \/ Deliver(r) \/ Lose(r)
         \/ Forget \/ UNCHANGED vars
  PROVE  Inv'
<1>0. TypeOK /\ TableInv /\ CallInv  BY DEF Inv
<1>1. UNCHANGED <<tickets, tokens, registry>>
  BY DEF Send, Deliver, Lose, Forget, vars
<1>2. TableInv' /\ Live' = Live
  BY <1>0, <1>1, TableSame
<1>3. faults' \in 0 .. MaxFaults
  BY <1>0, TokensAssumption DEF Send, Deliver, Lose, Forget, vars, Fault, TypeOK
<1>4. SUFFICES CallInv' /\ calls' \in [Calls -> Call] /\ known' \in SUBSET Tokens
  BY <1>0, <1>1, <1>2, <1>3 DEF Inv, TypeOK
<1>5. calls \in [Calls -> Call] /\ known \in SUBSET Tokens
  BY <1>0 DEF TypeOK
<1>6. CASE Forget \/ UNCHANGED vars
  <2>1. UNCHANGED calls /\ known' \subseteq known
    BY <1>6 DEF Forget, vars
  <2> QED  BY <1>0, <1>2, <1>5, <2>1, CallsKept DEF CallInv, AnswerIsLive
<1>7. ASSUME NEW r \in Calls, Deliver(r) \/ Lose(r)
      PROVE  CallInv' /\ calls' \in [Calls -> Call] /\ known' \in SUBSET Tokens
  <2>1. calls[r].token \in Tokens \cup {None}
    BY <1>5 DEF Call
  <2>2. calls' = [calls EXCEPT ![r] = NoCall]
        /\ known' \subseteq known \cup {calls[r].token}
        /\ known' \subseteq (known \cup {calls[r].token}) \ {None}
    <3>1. None \notin known
      BY <1>5, TokensAssumption
    <3> QED  BY <1>7, <3>1 DEF Deliver, Lose
  <2> QED  BY <1>0, <1>1, <1>5, <2>1, <2>2, CallFreed
<1>8. ASSUME NEW r \in Calls, NEW a \in Agents, NEW x \in Tickets \cup Tokens,
             Send(r, a, x)
      PROVE  CallInv' /\ calls' \in [Calls -> Call] /\ known' \in SUBSET Tokens
  <2> DEFINE sent == [at |-> "sent", agent |-> a, secret |-> x, token |-> None]
  <2>1. calls' = [calls EXCEPT ![r] = sent] /\ UNCHANGED known
        /\ (x \in known \/ x \in Tickets)
    BY <1>8 DEF Send
  <2>2. sent \in Call
    BY DEF Call
  <2>3. sent.at = "sent" /\ sent.agent = a /\ sent.secret = x /\ sent.token = None
    OBVIOUS
  <2> HIDE DEF sent
  <2>4. calls' \in [Calls -> Call]
        /\ \A q \in Calls : calls'[q] = IF q = r THEN sent ELSE calls[q]
    BY <1>5, <2>1, <2>2
  <2>5. SentIsMeant'
    BY <1>0, <2>3, <2>4 DEF CallInv, SentIsMeant
  <2>6. AnswerIsLive'
    BY <1>0, <1>2, <2>1, <2>3, <2>4 DEF CallInv, AnswerIsLive
  <2>7. AnswerIsPrivate'
    <3> SUFFICES ASSUME NEW q \in Calls, calls'[q].token # None, NEW p \in Calls
                 PROVE  /\ calls'[p].secret # calls'[q].token
                        /\ p # q => calls'[p].token # calls'[q].token
      BY DEF AnswerIsPrivate
    <3>1. q # r /\ calls'[q] = calls[q]
      BY <2>3, <2>4
    <3>2. calls[q].token \in Live \ known
      BY <1>0, <3>1 DEF CallInv, AnswerIsLive
    <3>3. calls[q].token # x
      BY <2>1, <3>2, TokensAssumption DEF Live
    <3>4. CASE p = r
      BY <2>3, <2>4, <3>1, <3>3, <3>4
    <3>5. CASE p # r
      BY <1>0, <2>4, <3>1, <3>5 DEF CallInv, AnswerIsPrivate
    <3> QED  BY <3>4, <3>5
  <2> QED  BY <1>5, <2>1, <2>4, <2>5, <2>6, <2>7 DEF CallInv
<1> QED  BY <1>6, <1>7, <1>8

-----------------------------------------------------------------------------
LEMMA InvInit == Init => Inv
<1> SUFFICES ASSUME Init PROVE Inv
  OBVIOUS
<1>1. NoTicket \in TicketRow /\ NoToken \in Token /\ NoCall \in Call
  BY TokensAssumption DEF NoTicket, TicketRow, NoToken, Token, NoCall, Call
<1>2. TypeOK
  BY <1>1, TokensAssumption DEF Init, TypeOK
<1>3. Live = {}
  BY DEF Init, Live, NoToken
<1>4. \A r \in Calls : calls[r].at = "free" /\ calls[r].token = None
  BY DEF Init, NoCall
<1>5. TableInv
  BY <1>3 DEF TableInv, LiveIsPaid, OneLiveToken, TokensAreRegistered
<1>6. CallInv
  BY <1>4 DEF CallInv, SentIsMeant, AnswerIsLive, AnswerIsPrivate
<1> QED  BY <1>2, <1>5, <1>6 DEF Inv

LEMMA InvStep == Inv /\ [Next]_vars => Inv'
<1> SUFFICES ASSUME Inv, [Next]_vars PROVE Inv'
  OBVIOUS
<1>1. ASSUME NEW r \in Calls, Handle(r) PROVE Inv'
  BY <1>1, EnrollStep, RefreshStep, HandlerFails, RevocationSteps DEF Handle
<1> QED
  BY <1>1, TicketSteps, ExpireStep, RevocationSteps, ClientSteps DEF Next

\* The tables, the calls and what clients know stay in their types.
THEOREM TypeCorrect == Spec => []TypeOK
<1>1. Inv => TypeOK  BY DEF Inv
<1> QED  BY <1>1, InvInit, InvStep, PTL DEF Spec

\* However many calls replay a token, a family never forks.
THEOREM NeverForks == Spec => []OneLiveToken
<1>1. Inv => OneLiveToken  BY DEF Inv, TableInv
<1> QED  BY <1>1, InvInit, InvStep, PTL DEF Spec

\* Whatever other calls do while a handler awaits the secret, the token it
\* answers with is live when it arrives.
THEOREM AnswersLive == Spec => []AnswerIsLive
<1>1. Inv => AnswerIsLive  BY DEF Inv, CallInv
<1> QED  BY <1>1, InvInit, InvStep, PTL DEF Spec

\* A live token has a registered owner, the agent of its ticket.
THEOREM TokensRegistered == Spec => []TokensAreRegistered
<1>1. Inv => TokensAreRegistered  BY DEF Inv, TableInv
<1> QED  BY <1>1, InvInit, InvStep, PTL DEF Spec

-----------------------------------------------------------------------------
(* The refinement of TokenFamilies.                                        *)

Left == [e \in Tickets |-> tickets[e].left]
Made == {e \in Tickets : tickets[e].agent # None}
LiveFamilies == {tokens[t].family : t \in Live}

FamilyStep == [Family!Next]_(Family!vars)
FamilyStutter == UNCHANGED <<Left, Made, LiveFamilies>>

LEMMA FamilyView ==
  /\ FamiliesOf(tokens) = LiveFamilies /\ FamiliesOf(tokens)' = LiveFamilies'
  /\ FamilyStutter => FamilyStep
  /\ \A e \in Tickets : Family!Create(e) \/ Family!Spend(e) => FamilyStep
  /\ \A f \in LiveFamilies : Family!Kill(f) => FamilyStep
<1>1. FamiliesOf(tokens) = LiveFamilies /\ FamiliesOf(tokens)' = LiveFamilies'
  BY DEF FamiliesOf, LiveFamilies, Live
<1>2. FamilyStutter => FamilyStep
  BY <1>1 DEF FamilyStutter, FamilyStep, Family!vars, Left, Made
<1> QED
  BY <1>1, <1>2 DEF FamilyStep, Family!Next

\* The abstract state only moves with the tickets and the live rows.
LEMMA SameFamilies ==
  ASSUME Live' = Live, \A t \in Live : tokens'[t].family = tokens[t].family
  PROVE  UNCHANGED LiveFamilies
BY DEF LiveFamilies

LEMMA SameTickets ==
  ASSUME \A e \in Tickets : /\ tickets'[e].left = tickets[e].left
                            /\ tickets'[e].agent = tickets[e].agent
  PROVE  UNCHANGED <<Left, Made>>
BY DEF Left, Made

LEMMA FamilyInit == Init => Family!Init
<1> SUFFICES ASSUME Init PROVE Family!Init
  OBVIOUS
<1>1. \A e \in Tickets : tickets[e].left = 0 /\ tickets[e].agent = None
  BY DEF Init, NoTicket
<1>2. FamiliesOf(tokens) = {}
  BY DEF Init, FamiliesOf, NoToken
<1> QED  BY <1>1, <1>2 DEF Family!Init

\* A use is spent: on a family that comes to life, or on none.
LEMMA SpendStep ==
  ASSUME Inv, NEW r \in Calls, Enroll(r) \/ EnrollFails(r)
  PROVE  FamilyStep
<1> DEFINE e == calls[r].secret
           a == calls[r].agent
           n == NewToken
           f == <<e, tickets[e].left - 1>>
<1>0. /\ TypeOK /\ e \in Tickets /\ a \in Agents /\ tickets[e].left > 0
      /\ tickets' = Spent(e)
  BY DEF Inv, CallInv, SentIsMeant, Enroll, EnrollFails, Consumable
<1>1. /\ \A d \in Tickets : tickets'[d].agent = tickets[d].agent
      /\ tickets'[e].left = tickets[e].left - 1
      /\ \A d \in Tickets \ {e} : tickets'[d] = tickets[d]
  BY <1>0, SpentFacts DEF Spent, TypeOK
<1>2. /\ UNCHANGED Made
      /\ Left[e] > 0 /\ Left' = [Left EXCEPT ![e] = @ - 1]
      /\ f = <<e, Left[e] - 1>>
  BY <1>0, <1>1 DEF Left, Made
<1>3. LiveFamilies' \in {LiveFamilies, LiveFamilies \cup {f}}
  <2>1. CASE EnrollFails(r)
    BY <2>1 DEF EnrollFails, LiveFamilies, Live
  <2>2. CASE Enroll(r)
    <3>1. n \in Tokens /\ n \notin Live
      BY <2>2, NewTokenFacts DEF Enroll
    <3>2. tokens' = Issued(tokens, n, a, f)
      BY <2>2 DEF Enroll
    <3>3. f \in Families
      BY <1>0, TokensAssumption DEF TypeOK, TicketRow, Families
    <3> HIDE DEF n, a, f
    <3>4. /\ Live' = Live \cup {n} /\ tokens'[n].family = f
          /\ \A t \in Live : tokens'[t] = tokens[t]
      BY <1>0, <3>1, <3>2, <3>3, IssuedFacts
    <3> QED  BY <3>4 DEF LiveFamilies
  <2> QED  BY <2>1, <2>2
<1> HIDE DEF e, f
<1>4. PICK d \in Tickets : d = e
  BY <1>0
<1>5. Family!Spend(d)
  BY <1>2, <1>3, <1>4, FamilyView DEF Family!Spend, Left, Made, f
<1>6. Family!Spend(d) => FamilyStep
  BY FamilyView
<1> QED  BY <1>5, <1>6

\* A rotation goes unnoticed.
LEMMA RotateStep ==
  ASSUME Inv, NEW r \in Calls, Refresh(r)
  PROVE  FamilyStep
<1> DEFINE t == calls[r].secret
           a == calls[r].agent
           n == NewToken
           f == tokens[t].family
<1>0. TypeOK /\ TableInv /\ t \in Live /\ a \in Agents
  BY DEF Inv, CallInv, SentIsMeant, Refresh, Exchangeable, Matches, Live
<1>1. f \in Families
  BY <1>0 DEF TableInv, LiveIsPaid
<1>2. n \in Tokens /\ n \notin Live
  BY NewTokenFacts DEF Refresh
<1>3. tokens' = Issued(Revoked(tokens, t), n, a, f) /\ UNCHANGED tickets
  BY DEF Refresh
<1>f. f = tokens[t].family
  OBVIOUS
<1> HIDE DEF t, a, n, f
<1>4. /\ Live' = (Live \ {t}) \cup {n} /\ tokens'[n].family = f
      /\ \A u \in Live \ {t} : tokens'[u] = tokens[u]
  BY <1>0, <1>1, <1>2, <1>3, RotatedFacts
<1>5. UNCHANGED LiveFamilies
  BY <1>0, <1>4, <1>f DEF LiveFamilies
<1>6. UNCHANGED <<Left, Made>>
  BY <1>3, SameTickets
<1> QED  BY <1>5, <1>6, FamilyView DEF FamilyStutter

\* The row that is revoked was the only one of its family.
LEMMA KillStep ==
  ASSUME Inv, NEW t \in Live, tokens' = Revoked(tokens, t), UNCHANGED tickets
  PROVE  FamilyStep
<1> DEFINE f == tokens[t].family
<1>0. TypeOK /\ OneLiveToken /\ t \in Tokens  BY DEF Inv, TableInv, Live
<1>1. /\ Live' = Live \ {t}
      /\ \A u \in Live \ {t} : tokens'[u] = tokens[u]
  BY <1>0, RevokedFacts
<1>2. f \in LiveFamilies /\ \A u \in Live \ {t} : tokens[u].family # f
  BY <1>0 DEF LiveFamilies, OneLiveToken
<1> HIDE DEF f
<1>3. LiveFamilies' = LiveFamilies \ {f}
  BY <1>1, <1>2 DEF LiveFamilies, f
<1>4. UNCHANGED <<Left, Made>>
  BY SameTickets
<1>5. Family!Kill(f)
  BY <1>2, <1>3, <1>4, FamilyView DEF Family!Kill, Left, Made
<1> QED  BY <1>2, <1>5, FamilyView

LEMMA CreateStep ==
  ASSUME Inv, NEW e \in Tickets, NEW a \in Agents, CreateTicket(e, a)
  PROVE  FamilyStep
<1>0. tickets \in [Tickets -> TicketRow] /\ a # None /\ tickets[e].agent = None
  BY TokensAssumption DEF Inv, TypeOK, CreateTicket
<1>1. PICK n \in 1 .. MaxUses :
        tickets' = [tickets EXCEPT ![e].agent = a, ![e].total = n, ![e].left = n]
  BY DEF CreateTicket
<1>2. /\ tickets'[e].agent = a /\ tickets'[e].left = n
      /\ \A d \in Tickets \ {e} : tickets'[d] = tickets[d]
  BY <1>0, <1>1 DEF TicketRow
<1>3. e \notin Made /\ Made' = Made \cup {e} /\ Left' = [Left EXCEPT ![e] = n]
  <2>1. e \notin Made
    BY <1>0 DEF Made
  <2>2. Made' = Made \cup {e}
    <3>1. \A d \in Tickets : d \in Made' <=> d \in Made \/ d = e
      BY <1>0, <1>2 DEF Made
    <3>2. Made \subseteq Tickets /\ Made' \subseteq Tickets
      BY DEF Made
    <3> QED  BY <3>1, <3>2
  <2>3. Left' = [Left EXCEPT ![e] = n]
    <3>1. \A d \in Tickets : tickets'[d].left = IF d = e THEN n ELSE tickets[d].left
      BY <1>2
    <3> QED  BY <3>1 DEF Left
  <2> QED  BY <2>1, <2>2, <2>3
<1>4. UNCHANGED LiveFamilies
  BY DEF CreateTicket, LiveFamilies, Live
<1>5. Family!Create(e)
  BY <1>3, <1>4, FamilyView DEF Family!Create, Left, Made
<1> QED  BY <1>5, FamilyView

\* Every other step is invisible: it neither spends nor creates, and a row that
\* is live stays live in its family.
LEMMA QuietSteps ==
  ASSUME Inv,
         \/ \E r \in Calls : \/ Reject(r) \/ SecretResolves(r) \/ SecretFails(r)
                             \/ \E a \in Agents, x \in Tickets \cup Tokens : Send(r, a, x)
                             \/ Deliver(r) \/ Lose(r)
         \/ \E e \in Tickets : RevokeTicket(e) \/ ExpireTicket(e)
         \/ \E a \in Agents : CreateTicketFails(a)
         \/ \E t \in Tokens : ExpireToken(t)
         \/ Forget \/ UNCHANGED vars
  PROVE  FamilyStep
<1>0. tickets \in [Tickets -> TicketRow] /\ tokens \in [Tokens -> Token]
  BY DEF Inv, TypeOK
<1>1. UNCHANGED <<Left, Made>>
  <2>1. CASE UNCHANGED tickets
    BY <2>1, SameTickets
  <2>2. ASSUME NEW e \in Tickets, RevokeTicket(e) \/ ExpireTicket(e)
        PROVE  UNCHANGED <<Left, Made>>
    <3>1. \A d \in Tickets : /\ tickets'[d].left = tickets[d].left
                             /\ tickets'[d].agent = tickets[d].agent
      BY <1>0, <2>2 DEF RevokeTicket, ExpireTicket, TicketRow
    <3> QED  BY <3>1, SameTickets
  <2>3. \/ UNCHANGED tickets
        \/ \E e \in Tickets : RevokeTicket(e) \/ ExpireTicket(e)
    BY DEF Reject, SecretResolves, SecretFails, Send, Deliver, Lose,
           CreateTicketFails, ExpireToken, Forget, vars
  <2> QED  BY <2>1, <2>2, <2>3
<1>2. UNCHANGED LiveFamilies
  <2>1. CASE UNCHANGED tokens
    BY <2>1 DEF LiveFamilies, Live
  <2>2. ASSUME NEW t \in Tokens, ExpireToken(t) PROVE UNCHANGED LiveFamilies
    <3>1. \A u \in Tokens : tokens'[u].state = tokens[u].state
                            /\ tokens'[u].family = tokens[u].family
      BY <1>0, <2>2 DEF ExpireToken, Token
    <3>2. Live' = Live /\ \A u \in Live : tokens'[u].family = tokens[u].family
      BY <3>1 DEF Live
    <3> QED  BY <3>2, SameFamilies
  <2>3. UNCHANGED tokens \/ \E t \in Tokens : ExpireToken(t)
    BY DEF Reject, SecretResolves, SecretFails, Send, Deliver, Lose, RevokeTicket,
           ExpireTicket, CreateTicketFails, Forget, vars
  <2> QED  BY <2>1, <2>2, <2>3
<1> QED  BY <1>1, <1>2, FamilyView DEF FamilyStutter

LEMMA FamilyNext == Inv /\ [Next]_vars => FamilyStep
<1> SUFFICES ASSUME Inv, [Next]_vars PROVE FamilyStep
  OBVIOUS
<1>1. ASSUME NEW r \in Calls, RefreshFails(r) PROVE FamilyStep
  <2>1. calls[r].secret \in Live /\ tokens' = Revoked(tokens, calls[r].secret)
        /\ UNCHANGED tickets
    BY <1>1 DEF RefreshFails, Exchangeable, Live
  <2> QED  BY <2>1, KillStep
<1>2. ASSUME NEW t \in Tokens, NEW a \in Agents, RevokeToken(t, a) PROVE FamilyStep
  <2>1. t \in Live /\ tokens' = Revoked(tokens, t) /\ UNCHANGED tickets
    BY <1>2 DEF RevokeToken, Live
  <2> QED  BY <2>1, KillStep
<1>3. ASSUME NEW r \in Calls, Handle(r) PROVE FamilyStep
  BY <1>1, <1>3, SpendStep, RotateStep, QuietSteps DEF Handle
<1> QED
  BY <1>2, <1>3, CreateStep, QuietSteps DEF Next

\* The tables implement the abstract promise: a use pays for one family at
\* most, rotation is invisible, and what is dead stays dead.
THEOREM ImplementsFamilies == Spec => FamilySpec
<1>1. Inv /\ [Next]_vars => [Family!Next]_(Family!vars)
  BY FamilyNext DEF FamilyStep
<1> QED
  BY <1>1, FamilyInit, InvInit, InvStep, PTL DEF Spec, FamilySpec, Family!Spec

=============================================================================
