---------------------------- MODULE Agent_proofs ----------------------------
(***************************************************************************)
(* Theorems about AgentSession, for every set of agents, tickets, tokens   *)
(* and calls, every number of uses, and any number of faults of the server *)
(* and failures of the process; and about AgentExecutor, for every set of  *)
(* jobs, commands and lines and every capacity of the channels.            *)
(*                                                                         *)
(* The process is one of the clients PassportTokens allows for, so all     *)
(* that is proved there holds here; what is new relates what the process   *)
(* holds to what the server still thinks of it.  The executor refines      *)
(* AgentAnswers: its invariant says that what was heard of a job, what of  *)
(* it is on the wire, and what its task has still to send fit together.    *)
(***************************************************************************)
EXTENDS AgentSession, AgentExecutor, PassportTokens_proofs,
        FiniteSetTheorems, SequenceTheorems

Asking == phase \in {"refreshing", "enrolling"}
Carrying == phase \in {"write", "connect", "streaming"}

SessionTypes ==
  /\ phase \in Phases
  /\ disk \in Tokens \cup {None} /\ mem \in Tokens \cup {None}
  /\ failures \in 0 .. MaxFailures
  /\ known = Held

\* The call the process awaits is its own, and carries the secret it holds.
CallFits ==
  /\ Asking => /\ call \in Calls /\ calls[call].at # "free"
               /\ calls[call].secret = IF phase = "refreshing" THEN disk ELSE Ticket
  /\ ~Asking => call = None
  /\ phase = "refreshing" => disk # None

\* A token in memory is live, and no call can spend it: it has never been sent.
MemFits ==
  /\ Carrying => mem \in Live /\ \A r \in Calls : calls[r].secret # mem
  /\ ~Carrying => mem = None

DiskFits == phase \in {"connect", "streaming"} => disk = mem

\* Every request is the agent's own, and so is every token.
Owned ==
  /\ \A r \in Calls : calls[r].at = "sent" =>
       calls[r].agent = Agent /\ calls[r].token = None
  /\ \A t \in Live : tokens[t].agent = Agent

Sound(t) == t \in Live /\ ~tokens[t].expired

\* A call of an earlier process may still spend t.
Asked(t) == \E r \in Calls \ {call} : calls[r].at = "sent" /\ calls[r].secret = t

\* The process is on its way to a token that it can trade, without spending
\* another use of its ticket.
Good ==
  \/ phase \in {"sleep", "start"} /\ Sound(disk) /\ ~Asked(disk)
  \/ phase = "refreshing" /\ calls[call].at = "sent" /\ Sound(disk) /\ ~Asked(disk)
  \/ Asking /\ Sound(calls[call].token)
  \/ phase = "enrolling" /\ calls[call].at = "sent"
  \/ Carrying /\ Sound(mem)

\* Requests that may still spend a use of the ticket.
Tries == {r \in Calls : calls[r].at = "sent" /\ calls[r].secret = Ticket}

Used == tickets[Ticket].total - tickets[Ticket].left
Miss == IF Good THEN 0 ELSE 1
Mishaps == faults + failures

\* What is spent, may be spent and will have to be spent never exceeds the first
\* enrollment and the mishaps so far.
Budget ==
  /\ tickets[Ticket].left <= tickets[Ticket].total
  /\ Used + Cardinality(Tries) + Miss <= 1 + Mishaps

Places == CallFits /\ MemFits /\ DiskFits /\ Owned
SessionInv == Inv /\ SessionTypes /\ Places /\ Budget

-----------------------------------------------------------------------------
(* The process is a client of PassportTokens.                              *)

LEMMA FreeCall ==
  ASSUME FreeCalls # {}
  PROVE  (CHOOSE r \in FreeCalls : TRUE) \in Calls
BY DEF FreeCalls

LEMMA ProcessForgets ==
  ASSUME ServerWaits, known = Held, Held' \subseteq Held
  PROVE  Forget
BY DEF ServerWaits, Forget

\* Every step of the session is one of the server, of a client, or of neither.
LEMMA SessionIsClient ==
  ASSUME SessionTypes, CallFits, SessionNext
  PROVE  Next
<1> USE AgentAssumption
<1>1. ASSUME NEW secret \in Tickets \cup Tokens, NEW next, Post(secret, next)
      PROVE  Next
  <2>1. call' \in Calls /\ Send(call', Agent, secret)
    BY <1>1, FreeCall DEF Post
  <2> QED  BY <2>1 DEF Next
<1>2. CASE AskRefresh \/ AskEnroll
  BY <1>1, <1>2 DEF AskRefresh, AskEnroll, SessionTypes
<1>3. CASE Authorized \/ Refused \/ CallFails
  BY <1>3 DEF Authorized, Refused, CallFails, CallFits, Asking, Next
<1>4. CASE NoSession \/ Write \/ Connect \/ Wake \/ WriteFails \/ ConnectFails
           \/ StreamEnds \/ Crash
  <2>1. ServerWaits /\ Held' \subseteq Held
    BY <1>4 DEF NoSession, Write, WriteSession, Connect, Wake, WriteFails, TornWrite,
                EndCycle, ConnectFails, StreamEnds, Crash, Held
  <2> QED  BY <2>1, ProcessForgets DEF SessionTypes, Next
<1>5. ASSUME NEW r \in Calls, Serve(r) \/ DropAnswer(r)
      PROVE  Next
  BY <1>5 DEF Serve, DropAnswer, Next
<1>6. CASE Surroundings
  BY <1>6 DEF Surroundings, Next
<1> QED
  BY <1>2, <1>3, <1>4, <1>5, <1>6 DEF SessionNext, Step

LEMMA SessionStutters == UNCHANGED sessionVars => UNCHANGED vars
BY DEF sessionVars

\* The types of the process, and that the server sees what it holds.
LEMMA SessionTypesStep ==
  ASSUME Inv, SessionTypes, CallFits, [SessionNext]_sessionVars
  PROVE  SessionTypes'
<1> USE AgentAssumption DEF SessionTypes, Phases
<1>1. CASE AskRefresh \/ AskEnroll
  BY <1>1 DEF AskRefresh, AskEnroll, Post, Send, Held
<1>2. CASE Authorized \/ Refused
  <2>1. calls[call].token \in Tokens \cup {None}
    BY <1>2 DEF Authorized, Refused, CallFits, Asking, Inv, TypeOK, Call
  <2> QED  BY <1>2, <2>1 DEF Authorized, Refused, AfterFailure
<1>3. CASE CallFails
  BY <1>3 DEF CallFails, AfterFailure, Lose, Held
<1>4. CASE NoSession \/ Write \/ Connect \/ Wake \/ StreamEnds
  BY <1>4 DEF NoSession, Write, WriteSession, Connect, Wake, StreamEnds, EndCycle,
              ServerWaits
<1>5. CASE WriteFails \/ ConnectFails \/ Crash
  BY <1>5 DEF WriteFails, ConnectFails, Crash, EndCycle, TornWrite, ServerWaits, Failure
<1>6. CASE \E r \in Calls : Serve(r)
  <2>1. UNCHANGED <<Process, known>>
    BY <1>6 DEF Serve, Handle, Enroll, EnrollFails, Refresh, RefreshFails, Reject,
                SecretResolves, SecretFails
  <2> QED  BY <2>1 DEF Process, Held
<1>7. CASE (\E r \in Calls : DropAnswer(r)) \/ UNCHANGED sessionVars
  <2>1. UNCHANGED <<Process, known>>
    BY <1>7 DEF DropAnswer, sessionVars, vars
  <2> QED  BY <2>1 DEF Process, Held
<1>8. CASE Surroundings
  <2>1. UNCHANGED <<Process, known>>
    BY <1>8 DEF Surroundings, CreateTicket, RevokeTicket, ExpireTicket, CreateTicketFails,
                ExpireToken
  <2> QED  BY <2>1 DEF Process, Held
<1> QED
  BY <1>1, <1>2, <1>3, <1>4, <1>5, <1>6, <1>7, <1>8 DEF SessionNext, Step

-----------------------------------------------------------------------------
(* What the steps do to the calls.                                         *)

LEMMA AnsweredCall ==
  ASSUME TypeOK, NEW r \in Calls, NEW place, NEW t,
         calls' = [calls EXCEPT ![r].at = place, ![r].token = t]
  PROVE  /\ calls'[r].at = place /\ calls'[r].token = t
         /\ calls'[r].secret = calls[r].secret /\ calls'[r].agent = calls[r].agent
         /\ \A q \in Calls \ {r} : calls'[q] = calls[q]
BY DEF TypeOK, Call

LEMMA FreedCall ==
  ASSUME TypeOK, NEW r \in Calls, calls' = [calls EXCEPT ![r] = NoCall]
  PROVE  /\ calls'[r].at = "free" /\ calls'[r].token = None /\ calls'[r].secret = None
         /\ \A q \in Calls \ {r} : calls'[q] = calls[q]
BY DEF TypeOK, Call, NoCall

LEMMA PostedCall ==
  ASSUME TypeOK, NEW secret, NEW next, Post(secret, next)
  PROVE  /\ call' \in Calls /\ calls[call'].at = "free"
         /\ calls'[call'].at = "sent" /\ calls'[call'].token = None
         /\ calls'[call'].secret = secret /\ calls'[call'].agent = Agent
         /\ \A q \in Calls \ {call'} : calls'[q] = calls[q]
<1>1. PICK r \in Calls : r = call' /\ Send(r, Agent, secret)
  BY FreeCall DEF Post
<1> QED  BY <1>1 DEF Send, TypeOK

\* The tickets and tokens are no business of the process.
LEMMA TablesStand ==
  ASSUME UNCHANGED tokens
  PROVE  Live' = Live /\ \A t : Sound(t)' <=> Sound(t)
BY DEF Live, Sound

\* What a handler, a loss or a dropped answer leaves of the other calls.
Untouched(r) ==
  /\ \A q \in Calls \ {r} : calls'[q] = calls[q]
  /\ calls'[r].at # "sent"

\* A handler only moves its own call on.
Handles(r) ==
  /\ calls[r].at \in {"sent", "secret"} /\ calls'[r].at \in {"secret", "answered"}
  /\ calls'[r].secret = calls[r].secret
  /\ Untouched(r)

LEMMA HandlerCalls ==
  ASSUME TypeOK, NEW r \in Calls, Handle(r)
  PROVE  Handles(r)
<1>1. \E place \in {"secret", "answered"} : \E t :
        calls' = [calls EXCEPT ![r].at = place, ![r].token = t]
  BY DEF Handle, Enroll, EnrollFails, Refresh, RefreshFails, Reject, SecretResolves,
         SecretFails, Answer, AwaitsSecret
<1>2. PICK place \in {"secret", "answered"} : \E t :
        calls' = [calls EXCEPT ![r].at = place, ![r].token = t]
  BY <1>1
<1>t. PICK t : calls' = [calls EXCEPT ![r].at = place, ![r].token = t]
  BY <1>2
<1>3. calls[r].at \in {"sent", "secret"}
  BY DEF Handle, Enroll, EnrollFails, Refresh, RefreshFails, Reject, SecretResolves,
         SecretFails
<1> QED  BY <1>t, <1>3, AnsweredCall DEF Handles, Untouched

-----------------------------------------------------------------------------
(* What the steps of the server do to the live tokens.                     *)

\* Nothing happens to them, one comes in for a call, or one is traded or lost
\* by the call that names it.
TokensStand == \A t \in Live : t \in Live' /\ tokens'[t] = tokens[t]
NoNewToken == Live' \subseteq Live /\ \A t \in Live' : tokens'[t].agent = tokens[t].agent

LEMMA EnrollTokens ==
  ASSUME Inv, Owned, NEW r \in Calls, Enroll(r)
  PROVE  /\ TokensStand
         /\ calls'[r].token \in Live' /\ ~tokens'[calls'[r].token].expired
         /\ \A t \in Live' : tokens'[t].agent = Agent
<1> DEFINE e == calls[r].secret
           f == <<e, tickets[e].left - 1>>
           n == NewToken
<1>0. /\ TypeOK /\ e \in Tickets /\ calls[r].agent = Agent /\ tickets[e].left \in 1 .. MaxUses
  BY TokensAssumption
  DEF Inv, Enroll, Owned, Consumable, TypeOK, TicketRow
<1>1. f \in Families
  BY <1>0, TokensAssumption DEF Families
<1>2. n \in Tokens /\ n \notin Live
  BY NewTokenFacts DEF Enroll
<1>3. tokens' = Issued(tokens, n, Agent, f) /\ calls' = AwaitsSecret(r, n)
  BY <1>0 DEF Enroll
<1> HIDE DEF n, f, e
<1>4. /\ Live' = Live \cup {n} /\ tokens'[n].agent = Agent
      /\ \A t \in Live : tokens'[t] = tokens[t]
  BY <1>0, <1>1, <1>2, <1>3, AgentAssumption, IssuedFacts
<1>5. calls'[r].token = n
  BY <1>0, <1>3 DEF AwaitsSecret, TypeOK, Call
<1>6. ~tokens'[n].expired
  BY <1>0, <1>2, <1>3 DEF Issued, TypeOK
<1> QED  BY <1>4, <1>5, <1>6 DEF TokensStand, Owned

LEMMA RefreshTokens ==
  ASSUME Inv, Owned, NEW r \in Calls, Refresh(r)
  PROVE  /\ \A t \in Live \ {calls[r].secret} : t \in Live' /\ tokens'[t] = tokens[t]
         /\ calls'[r].token \in Live' /\ ~tokens'[calls'[r].token].expired
         /\ \A t \in Live' : tokens'[t].agent = Agent
<1> DEFINE u == calls[r].secret
           f == tokens[u].family
           n == NewToken
<1>0. TypeOK /\ TableInv /\ u \in Live /\ calls[r].agent = Agent
  BY DEF Inv, Refresh, Owned, Exchangeable, Matches, Live
<1>1. f \in Families
  BY <1>0 DEF TableInv, LiveIsPaid
<1>2. n \in Tokens /\ n \notin Live
  BY NewTokenFacts DEF Refresh
<1>3. tokens' = Issued(Revoked(tokens, u), n, Agent, f) /\ calls' = AwaitsSecret(r, n)
  BY <1>0 DEF Refresh
<1> HIDE DEF n, f, u
<1>4. /\ Live' = (Live \ {u}) \cup {n} /\ tokens'[n].agent = Agent
      /\ \A t \in Live \ {u} : tokens'[t] = tokens[t]
  BY <1>0, <1>1, <1>2, <1>3, AgentAssumption, RotatedFacts
<1>5. calls'[r].token = n
  BY <1>0, <1>3 DEF AwaitsSecret, TypeOK, Call
<1>6. ~tokens'[n].expired
  BY <1>0, <1>2, <1>3 DEF Issued, Revoked, TypeOK, Live
<1>7. \A t \in Live' : tokens'[t].agent = Agent
  BY <1>4 DEF Owned
<1> QED  BY <1>4, <1>5, <1>6, <1>7 DEF u

LEMMA RefreshFailsTokens ==
  ASSUME Inv, Owned, NEW r \in Calls, RefreshFails(r)
  PROVE  /\ \A t \in Live \ {calls[r].secret} : t \in Live' /\ tokens'[t] = tokens[t]
         /\ \A t \in Live' : tokens'[t].agent = Agent
<1>1. TypeOK /\ calls[r].secret \in Tokens
  BY DEF Inv, RefreshFails
<1>2. tokens' = Revoked(tokens, calls[r].secret)
  BY DEF RefreshFails
<1>3. /\ Live' = Live \ {calls[r].secret}
      /\ \A t \in Live \ {calls[r].secret} : tokens'[t] = tokens[t]
  BY <1>1, <1>2, RevokedFacts
<1> QED  BY <1>3 DEF Owned

\* The tokens other than the one that is traded stay as they are, for whatever
\* handler.
LEMMA HandlerTokens ==
  ASSUME Inv, Owned, NEW r \in Calls, Handle(r)
  PROVE  /\ \A t \in Live \ {calls[r].secret} : t \in Live' /\ tokens'[t] = tokens[t]
         /\ \A t \in Live' : tokens'[t].agent = Agent
<1>1. CASE Enroll(r)
  BY <1>1, EnrollTokens DEF TokensStand
<1>2. CASE Refresh(r) \/ RefreshFails(r)
  BY <1>2, RefreshTokens, RefreshFailsTokens
<1>3. CASE UNCHANGED tokens
  BY <1>3 DEF Live, Owned
<1> QED
  BY <1>1, <1>2, <1>3 DEF Handle, EnrollFails, Reject, SecretResolves, SecretFails

-----------------------------------------------------------------------------
(* What the process holds fits what the server thinks of it.               *)

LEMMA AskPlaces ==
  ASSUME Inv, SessionTypes, Places, AskRefresh \/ AskEnroll
  PROVE  Places'
<1>1. PICK secret : \/ AskRefresh /\ secret = disk /\ Post(secret, "refreshing")
                    \/ AskEnroll /\ secret = Ticket /\ Post(secret, "enrolling")
  BY DEF AskRefresh, AskEnroll
<1>2. /\ call' \in Calls /\ calls[call'].at = "free"
      /\ calls'[call'].at = "sent" /\ calls'[call'].token = None
      /\ calls'[call'].secret = secret /\ calls'[call'].agent = Agent
      /\ \A q \in Calls \ {call'} : calls'[q] = calls[q]
  BY <1>1, PostedCall DEF Inv
<1>3. UNCHANGED <<disk, mem, tokens>> /\ ~Carrying /\ ~Carrying'
  BY <1>1 DEF AskRefresh, AskEnroll, Post, Send, Carrying
<1>4. CallFits'
  BY <1>1, <1>2, <1>3 DEF AskRefresh, AskEnroll, Post, CallFits, Asking
<1>5. MemFits' /\ DiskFits'
  BY <1>3 DEF Places, MemFits, DiskFits, Carrying
<1>6. Owned'
  BY <1>2, <1>3, TablesStand DEF Places, Owned
<1> QED  BY <1>4, <1>5, <1>6 DEF Places

LEMMA AnswerPlaces ==
  ASSUME Inv, SessionTypes, Places, Authorized \/ Refused \/ CallFails
  PROVE  Places'
<1>1. /\ Asking /\ ~Asking' /\ call \in Calls /\ call' = None
      /\ calls' = [calls EXCEPT ![call] = NoCall] /\ UNCHANGED <<disk, tokens>>
  BY DEF Authorized, Refused, CallFails, AfterFailure, Deliver, Lose, Places, CallFits,
         Asking
<1>c. PICK r \in Calls : r = call
  BY <1>1
<1>2. /\ calls'[r].at = "free" /\ calls'[r].secret = None
      /\ \A q \in Calls \ {r} : calls'[q] = calls[q]
  BY <1>1, <1>c, FreedCall DEF Inv
<1>3. CallFits'
  BY <1>1 DEF CallFits, Asking
<1>4. MemFits'
  <2>1. CASE Authorized
    <3>1. calls[r].token # None /\ mem' = calls[r].token /\ Carrying'
      BY <1>c, <2>1 DEF Authorized, Carrying
    <3>2. mem' \in Live /\ mem' # None /\ \A q \in Calls : calls[q].secret # mem'
      BY <3>1 DEF Inv, CallInv, AnswerIsLive, AnswerIsPrivate
    <3> QED  BY <1>1, <1>2, <3>1, <3>2, TablesStand DEF MemFits
  <2>2. CASE Refused \/ CallFails
    <3>1. UNCHANGED mem /\ ~Carrying /\ ~Carrying'
      BY <2>2 DEF Refused, CallFails, AfterFailure, Carrying
    <3> QED  BY <3>1 DEF Places, MemFits
  <2> QED  BY <2>1, <2>2
<1>5. DiskFits'
  BY DEF Authorized, Refused, CallFails, AfterFailure, DiskFits
<1>6. Owned'
  BY <1>1, <1>2, TablesStand DEF Places, Owned
<1> QED  BY <1>3, <1>4, <1>5, <1>6 DEF Places

LEMMA CyclePlaces ==
  ASSUME SessionTypes, Places,
         NoSession \/ Write \/ Connect \/ Wake \/ WriteFails \/ ConnectFails
         \/ StreamEnds \/ Crash
  PROVE  Places'
<1>1. UNCHANGED <<calls, tokens>> /\ call' = None /\ ~Asking'
  BY DEF NoSession, Write, Connect, Wake, WriteFails, ConnectFails, StreamEnds, Crash,
         EndCycle, ServerWaits, Places, CallFits, Asking
<1>2. CallFits' /\ Owned'
  BY <1>1, TablesStand DEF CallFits, Asking, Places, Owned
<1>3. CASE Write \/ Connect
  <2>1. Carrying /\ Carrying' /\ UNCHANGED mem
    BY <1>3 DEF Write, Connect, Carrying
  <2>2. DiskFits'
    BY <1>3 DEF Write, WriteSession, Connect, DiskFits, Places
  <2> QED  BY <1>1, <1>2, <2>1, <2>2, TablesStand DEF Places, MemFits
<1>4. CASE NoSession \/ Wake \/ WriteFails \/ ConnectFails \/ StreamEnds \/ Crash
  <2>1. ~Carrying' /\ mem' = None
    BY <1>4 DEF NoSession, Wake, WriteFails, ConnectFails, StreamEnds, Crash, EndCycle,
                Places, MemFits, Carrying
  <2> QED  BY <1>2, <2>1 DEF Places, MemFits, DiskFits, Carrying
<1> QED  BY <1>3, <1>4

\* The process looks on while the server handles a call, or its answer is lost.
LEMMA WatchPlaces ==
  ASSUME SessionTypes, Places, UNCHANGED Process,
         \A t \in Live : (\A r \in Calls : calls[r].secret # t) => t \in Live',
         \A r \in Calls : calls'[r].secret \in {calls[r].secret, None},
         call \in Calls => calls'[call].at # "free"
                           /\ calls'[call].secret = calls[call].secret,
         Owned'
  PROVE  Places'
<1>1. CallFits'  BY DEF Places, CallFits, Process, Asking
<1>2. MemFits'
  <2>1. Carrying => mem # None
    BY TokensAssumption DEF Places, MemFits, Live
  <2> QED  BY <2>1 DEF Places, MemFits, Process, Carrying
<1>3. DiskFits'  BY DEF Places, DiskFits, Process
<1> QED  BY <1>1, <1>2, <1>3 DEF Places

LEMMA ServePlaces ==
  ASSUME Inv, SessionTypes, Places, NEW r \in Calls, Serve(r)
  PROVE  Places'
<1>1. Handles(r) /\ Owned
  BY HandlerCalls DEF Serve, Inv, Places
<1>2. /\ \A t \in Live \ {calls[r].secret} : t \in Live'
      /\ \A t \in Live' : tokens'[t].agent = Agent
  BY <1>1, HandlerTokens DEF Serve
<1>3. Owned'
  BY <1>1, <1>2 DEF Handles, Untouched, Owned
<1>4. /\ \A q \in Calls : calls'[q].secret \in {calls[q].secret, None}
      /\ call \in Calls => calls'[call].at # "free"
                           /\ calls'[call].secret = calls[call].secret
  <2>1. \A q \in Calls : calls'[q].secret = calls[q].secret
    BY <1>1 DEF Handles, Untouched
  <2>2. call \in Calls => calls[call].at # "free"
    BY AgentAssumption DEF Places, CallFits
  <2> QED  BY <1>1, <2>1, <2>2 DEF Handles, Untouched
<1> QED  BY <1>2, <1>3, <1>4, WatchPlaces DEF Serve

LEMMA DropPlaces ==
  ASSUME Inv, SessionTypes, Places, NEW r \in Calls, DropAnswer(r)
  PROVE  Places'
<1>1. r # call /\ calls' = [calls EXCEPT ![r] = NoCall] /\ UNCHANGED <<Process, tokens>>
  BY DEF DropAnswer, Deliver, Lose
<1>2. /\ calls'[r].at = "free" /\ calls'[r].secret = None
      /\ \A q \in Calls \ {r} : calls'[q] = calls[q]
  BY <1>1, FreedCall DEF Inv
<1>3. Owned'
  BY <1>1, <1>2, TablesStand DEF Places, Owned
<1>4. call \in Calls => calls[call].at # "free"
  BY AgentAssumption DEF Places, CallFits
<1> QED  BY <1>1, <1>2, <1>3, <1>4, TablesStand, WatchPlaces

LEMMA SurroundingsPlaces ==
  ASSUME Inv, SessionTypes, Places, Surroundings
  PROVE  Places'
<1>1. UNCHANGED <<Process, calls>>
  BY DEF Surroundings, CreateTicket, RevokeTicket, ExpireTicket, CreateTicketFails,
         ExpireToken
<1>2. Live' = Live /\ \A t \in Live : tokens'[t].agent = tokens[t].agent
  <2>1. CASE UNCHANGED tokens
    BY <2>1 DEF Live
  <2>2. ASSUME NEW t \in Tokens, ExpireToken(t)
        PROVE  \A u \in Tokens : tokens'[u].state = tokens[u].state
                                 /\ tokens'[u].agent = tokens[u].agent
    BY <2>2 DEF ExpireToken, Inv, TypeOK, Token
  <2> QED
    BY <2>1, <2>2 DEF Surroundings, CreateTicket, RevokeTicket, ExpireTicket,
                      CreateTicketFails, Live
<1>3. Owned'
  BY <1>1, <1>2 DEF Places, Owned
<1>4. call \in Calls => calls[call].at # "free"
  BY AgentAssumption DEF Places, CallFits
<1> QED  BY <1>1, <1>2, <1>3, <1>4, WatchPlaces

LEMMA PlacesStep ==
  ASSUME Inv, SessionTypes, Places, [SessionNext]_sessionVars
  PROVE  Places'
<1>1. CASE UNCHANGED sessionVars
  BY <1>1 DEF sessionVars, vars, Process, Places, CallFits, MemFits, DiskFits, Owned,
              Asking, Carrying, Live
<1> QED
  BY <1>1, AskPlaces, AnswerPlaces, CyclePlaces, ServePlaces, DropPlaces,
     SurroundingsPlaces
  DEF SessionNext, Step

-----------------------------------------------------------------------------
(* The budget.                                                             *)

LEMMA TriesFinite ==
  /\ IsFiniteSet(Tries) /\ Cardinality(Tries) \in Nat
  /\ IsFiniteSet(Tries') /\ Cardinality(Tries') \in Nat
  /\ Tries' \subseteq Tries => Cardinality(Tries') <= Cardinality(Tries)
<1>1. Tries \subseteq Calls /\ Tries' \subseteq Calls /\ IsFiniteSet(Calls)
  BY AgentAssumption DEF Tries
<1>2. IsFiniteSet(Tries) /\ IsFiniteSet(Tries')
  BY <1>1, FS_Subset
<1> QED  BY <1>2, FS_Subset, FS_CardinalityType

Measured ==
  /\ tickets[Ticket].left \in Nat /\ tickets[Ticket].total \in Nat
  /\ faults \in Nat /\ failures \in Nat /\ Mishaps \in Nat
  /\ Miss \in {0, 1} /\ (Good <=> Miss = 0)

LEMMA BudgetTypes == Inv /\ SessionTypes => Measured
<1> SUFFICES ASSUME Inv, SessionTypes PROVE Measured
  OBVIOUS
<1>1. tickets[Ticket] \in TicketRow /\ faults \in Nat /\ failures \in Nat
  BY AgentAssumption, TokensAssumption DEF Inv, TypeOK, SessionTypes
<1> QED
  BY <1>1, TokensAssumption DEF TicketRow, Mishaps, Miss, Measured

LEMMA BudgetTypesNext == Inv' /\ SessionTypes' => Measured'
BY BudgetTypes, PTL

TicketStands ==
  /\ tickets'[Ticket].left = tickets[Ticket].left
  /\ tickets'[Ticket].total = tickets[Ticket].total

\* A step may cost no more than the mishaps it brings.
LEMMA BalanceKept ==
  ASSUME Inv, Inv', SessionTypes, SessionTypes', Budget,
         tickets'[Ticket].left <= tickets'[Ticket].total,
         Used' + Cardinality(Tries') + Miss' + Mishaps
           <= Used + Cardinality(Tries) + Miss + Mishaps'
  PROVE  Budget'
<1>1. /\ Mishaps \in Nat /\ Miss \in Nat /\ Used \in Int
      /\ Mishaps' \in Nat /\ Miss' \in Nat /\ Used' \in Int
  BY BudgetTypes, BudgetTypesNext DEF Measured, Used
<1>2. Cardinality(Tries) \in Nat /\ Cardinality(Tries') \in Nat
  BY TriesFinite
<1>3. Used + Cardinality(Tries) + Miss <= 1 + Mishaps
  BY DEF Budget
<1>4. Used' + Cardinality(Tries') + Miss' <= 1 + Mishaps'
  <2> HIDE DEF Used, Miss, Mishaps, Tries
  <2> QED  BY <1>1, <1>2, <1>3
<1> QED  BY <1>4 DEF Budget

\* A step that spends nothing, asks for nothing, and spoils what the process is
\* on its way to only with a mishap.
LEMMA BudgetKept ==
  ASSUME Inv, Inv', SessionTypes, SessionTypes', Budget, TicketStands,
         Tries' \subseteq Tries, Mishaps' >= Mishaps,
         Good => Good' \/ Mishaps' > Mishaps
  PROVE  Budget'
<1>1. /\ Mishaps \in Nat /\ Miss \in {0, 1} /\ (Good <=> Miss = 0)
      /\ Mishaps' \in Nat /\ Miss' \in {0, 1} /\ (Good' <=> Miss' = 0)
  BY BudgetTypes, BudgetTypesNext DEF Measured
<1>2. /\ Cardinality(Tries) \in Nat /\ Cardinality(Tries') \in Nat
      /\ Cardinality(Tries') <= Cardinality(Tries)
  BY TriesFinite
<1>3. Used' = Used /\ Used \in Int
  BY BudgetTypes DEF Used, TicketStands, Measured
<1>4. Used' + Cardinality(Tries') + Miss' + Mishaps
        <= Used + Cardinality(Tries) + Miss + Mishaps'
  <2>1. Mishaps' > Mishaps \/ Miss' <= Miss
    BY <1>1
  <2> HIDE DEF Used, Miss, Mishaps, Tries
  <2> QED  BY <1>1, <1>2, <1>3, <2>1
<1> QED  BY <1>4, BalanceKept DEF Budget, TicketStands

LEMMA AskBudget ==
  ASSUME Inv, Inv', SessionTypes, SessionTypes', Places, Budget, AskRefresh \/ AskEnroll
  PROVE  Budget'
<1>1. PICK secret : \/ AskRefresh /\ secret = disk /\ Post(secret, "refreshing")
                    \/ AskEnroll /\ secret = Ticket /\ Post(secret, "enrolling")
  BY DEF AskRefresh, AskEnroll
<1>2. PICK r \in Calls :
        /\ r = call' /\ calls[r].at = "free"
        /\ calls'[r].at = "sent" /\ calls'[r].secret = secret
        /\ \A q \in Calls \ {r} : calls'[q] = calls[q]
  BY <1>1, PostedCall DEF Inv
<1>3. UNCHANGED <<disk, mem, tokens, tickets, faults, failures>>
  BY <1>1 DEF Post, Send
<1>4. TicketStands /\ Mishaps' = Mishaps /\ Mishaps \in Nat
  BY <1>3, BudgetTypes DEF TicketStands, Mishaps, Measured
<1>5. call = None /\ ~Asking /\ ~Carrying
  BY DEF AskRefresh, AskEnroll, Places, CallFits, Asking, Carrying
<1>6. CASE AskRefresh
  <2>1. secret = disk /\ phase = "start" /\ phase' = "refreshing" /\ disk \in Tokens
    BY <1>1, <1>6 DEF AskRefresh, AskEnroll, Post, SessionTypes
  <2>2. disk # Ticket
    BY <2>1, AgentAssumption, TokensAssumption
  <2>3. Tries' \subseteq Tries
    BY <1>2, <2>1, <2>2 DEF Tries
  <2>4. Good => Sound(disk) /\ ~Asked(disk)
    BY <1>5, <2>1 DEF Good
  <2>5. Asked(disk)' => Asked(disk)
    BY <1>2, <1>3, <1>5, AgentAssumption DEF Asked
  <2>6. Sound(disk) => Sound(disk)'
    BY <1>3, TablesStand DEF Sound
  <2>7. Good => Good'
    BY <1>2, <2>1, <2>4, <2>5, <2>6 DEF Good
  <2> QED  BY <1>4, <2>3, <2>7, BudgetKept
<1>7. CASE AskEnroll
  <2>1. secret = Ticket /\ phase = "enroll" /\ phase' = "enrolling"
    BY <1>1, <1>7 DEF AskRefresh, AskEnroll, Post
  <2>2. r \notin Tries /\ Tries' = Tries \cup {r}
    BY <1>2, <2>1 DEF Tries
  <2>3. Cardinality(Tries') = Cardinality(Tries) + 1
    BY <2>2, TriesFinite, FS_AddElement
  <2>4. ~Good /\ Good'
    BY <1>2, <1>5, <2>1 DEF Good, Carrying
  <2>5. Miss = 1 /\ Miss' = 0
    BY <2>4 DEF Miss
  <2>6. Used' = Used /\ Used \in Int
    BY <1>3, BudgetTypes DEF Used, Measured
  <2>7. /\ Used + Cardinality(Tries) + Miss <= 1 + Mishaps
        /\ Cardinality(Tries) \in Nat
    BY TriesFinite DEF Budget
  <2>8. Used' + Cardinality(Tries') + Miss' <= 1 + Mishaps'
    <3> HIDE DEF Used, Miss, Mishaps, Tries
    <3> QED  BY <1>4, <2>3, <2>5, <2>6, <2>7
  <2> QED  BY <1>4, <2>8 DEF Budget, TicketStands
<1> QED  BY <1>6, <1>7

LEMMA AnswerBudget ==
  ASSUME Inv, Inv', SessionTypes, SessionTypes', Places, Budget,
         Authorized \/ Refused \/ CallFails
  PROVE  Budget'
<1>1. /\ Asking /\ call \in Calls
      /\ calls' = [calls EXCEPT ![call] = NoCall]
      /\ UNCHANGED <<disk, tokens, tickets, failures>>
  BY DEF Authorized, Refused, CallFails, Deliver, Lose, Places, CallFits, Asking
<1>c. PICK r \in Calls : r = call
  BY <1>1
<1>2. /\ calls'[r].at = "free"
      /\ \A q \in Calls \ {r} : calls'[q] = calls[q]
  BY <1>1, <1>c, FreedCall DEF Inv
<1>3. Tries' \subseteq Tries
  BY <1>2 DEF Tries
<1>4. TicketStands /\ Mishaps \in Nat
  BY <1>1, BudgetTypes DEF TicketStands, Measured
<1>5. CASE Authorized \/ Refused
  <2>1. Mishaps' = Mishaps /\ calls[call].at = "answered"
    BY <1>1, <1>5 DEF Authorized, Refused, Deliver, Mishaps
  <2>2. Good => Sound(calls[call].token)
    BY <1>1, <2>1 DEF Good, Asking, Carrying
  <2>3. CASE Authorized
    <3>1. mem' = calls[call].token /\ Carrying'
      BY <2>3 DEF Authorized, Carrying
    <3>2. Good => Good'
      BY <1>1, <2>2, <3>1 DEF Good, Sound, Live
    <3> QED  BY <1>3, <1>4, <2>1, <3>2, BudgetKept
  <2>4. CASE Refused
    <3>1. ~Good
      BY <2>2, <2>4, TokensAssumption DEF Refused, Sound, Live
    <3> QED  BY <1>3, <1>4, <2>1, <3>1, BudgetKept
  <2> QED  BY <1>5, <2>3, <2>4
<1>6. CASE CallFails
  <2>1. Mishaps' = Mishaps + 1
    BY <1>1, <1>6, BudgetTypes DEF CallFails, Lose, Fault, Mishaps, Measured
  <2> QED  BY <1>3, <1>4, <2>1, BudgetKept
<1> QED  BY <1>5, <1>6

LEMMA CycleBudget ==
  ASSUME Inv, Inv', SessionTypes, SessionTypes', Places, Budget,
         NoSession \/ Write \/ Connect \/ Wake \/ WriteFails \/ ConnectFails
         \/ StreamEnds \/ Crash
  PROVE  Budget'
<1>1. UNCHANGED <<calls, tokens, tickets, faults>>
  BY DEF NoSession, Write, Connect, Wake, WriteFails, ConnectFails, StreamEnds, Crash,
         ServerWaits
<1>2. Tries' \subseteq Tries /\ TicketStands /\ Mishaps \in Nat
  BY <1>1, BudgetTypes DEF Tries, TicketStands, Measured
<1>3. CASE WriteFails \/ ConnectFails \/ Crash
  <2>1. Mishaps' = Mishaps + 1
    BY <1>1, <1>3, BudgetTypes
    DEF WriteFails, ConnectFails, Crash, Failure, Mishaps, Measured
  <2> QED  BY <1>2, <2>1, BudgetKept
<1>4. CASE NoSession \/ Write \/ Connect \/ Wake \/ StreamEnds
  <2>1. Mishaps' = Mishaps
    BY <1>1, <1>4 DEF NoSession, Write, Connect, Wake, StreamEnds, Mishaps
  <2>2. Good => Good'
    <3>1. CASE NoSession
      BY <3>1, TokensAssumption DEF NoSession, Good, Sound, Live, Asking, Carrying
    <3>2. CASE Write \/ Connect
      BY <1>1, <3>2 DEF Write, Connect, Good, Sound, Live, Asking, Carrying
    <3>3. CASE Wake
      <4>1. UNCHANGED <<disk, call>> /\ phase = "sleep" /\ phase' = "start"
        BY <3>3 DEF Wake
      <4> QED  BY <1>1, <4>1 DEF Good, Sound, Live, Asked, Asking, Carrying
    <3>4. CASE StreamEnds
      <4>1. /\ phase = "streaming" /\ phase' = "sleep" /\ UNCHANGED disk /\ disk = mem
            /\ \A r \in Calls : calls[r].secret # mem
        BY <3>4 DEF StreamEnds, EndCycle, Places, DiskFits, MemFits, Carrying
      <4>2. ~Asked(disk)'
        BY <1>1, <4>1 DEF Asked
      <4> QED  BY <1>1, <4>1, <4>2 DEF Good, Sound, Live, Asking, Carrying
    <3> QED  BY <1>4, <3>1, <3>2, <3>3, <3>4
  <2> QED  BY <1>2, <2>1, <2>2, BudgetKept
<1> QED  BY <1>3, <1>4

-----------------------------------------------------------------------------
(* The budget while the process waits, and the server goes on.             *)

\* A step of another call leaves the process on its way: it can only spend the
\* secret it was sent with.
LEMMA OthersLeaveGood ==
  ASSUME Inv, SessionTypes, Places, UNCHANGED Process,
         NEW r \in Calls, r # call, Untouched(r), NEW x,
         x \in Live => calls[r].at = "sent" /\ calls[r].secret = x,
         \A t \in Live \ {x} : t \in Live' /\ tokens'[t] = tokens[t]
  PROVE  Good => Good'
<1>1. UNCHANGED <<phase, disk, mem, call>>
  BY DEF Process
<1>2. \A t : Asked(t)' => Asked(t)
  BY <1>1 DEF Asked, Untouched
<1>3. \A t : Sound(t) /\ t # x => Sound(t)'
  BY DEF Sound
<1>4. call \in Calls => calls'[call] = calls[call]
  BY DEF Untouched
<1>5. \A t : Sound(t) /\ ~Asked(t) => t # x
  BY DEF Asked, Sound
<1>6. CASE phase \in {"sleep", "start"}
  <2>1. Good => Sound(disk) /\ ~Asked(disk)
    BY <1>6 DEF Good, Asking, Carrying
  <2> QED  BY <1>1, <1>2, <1>3, <1>5, <1>6, <2>1 DEF Good
<1>7. CASE Asking
  <2>1. call \in Calls /\ ~Carrying /\ phase \notin {"sleep", "start"}
    BY <1>7 DEF Asking, Carrying, Places, CallFits
  <2>2. Sound(calls[call].token) => calls[call].token # x
    <3>1. Sound(calls[call].token) => calls[call].token # None
      BY TokensAssumption DEF Sound, Live
    <3>2. calls[call].token # None => calls[r].secret # calls[call].token
      BY <2>1 DEF Inv, CallInv, AnswerIsPrivate
    <3> QED  BY <3>1, <3>2 DEF Sound
  <2>3. \/ phase = "refreshing" /\ calls[call].at = "sent" /\ Sound(disk) /\ ~Asked(disk)
        \/ Asking /\ Sound(calls[call].token)
        \/ phase = "enrolling" /\ calls[call].at = "sent"
        \/ ~Good
    BY <2>1 DEF Good
  <2>4. CASE phase = "refreshing" /\ calls[call].at = "sent" /\ Sound(disk) /\ ~Asked(disk)
    BY <1>1, <1>2, <1>3, <1>4, <1>5, <2>1, <2>4 DEF Good
  <2>5. CASE Asking /\ Sound(calls[call].token)
    <3>1. Sound(calls[call].token)'
      <4>1. PICK t : t = calls[call].token
        OBVIOUS
      <4>2. Sound(t)' /\ calls'[call'].token = t
        BY <1>1, <1>3, <1>4, <2>1, <2>2, <2>5, <4>1
      <4> QED  BY <4>2 DEF Sound
    <3> QED  BY <1>1, <2>5, <3>1 DEF Good, Asking
  <2>6. CASE phase = "enrolling" /\ calls[call].at = "sent"
    BY <1>1, <1>4, <2>1, <2>6 DEF Good
  <2> QED  BY <2>3, <2>4, <2>5, <2>6
<1>8. CASE Carrying
  <2>1. mem # x
    BY <1>8 DEF Places, MemFits
  <2>2. Good => Sound(mem)
    BY <1>8 DEF Good, Asking, Carrying
  <2> QED  BY <1>1, <1>3, <1>8, <2>1, <2>2 DEF Good, Carrying
<1>9. CASE phase = "enroll"
  BY <1>9 DEF Good, Asking, Carrying
<1> QED  BY <1>6, <1>7, <1>8, <1>9 DEF SessionTypes, Phases, Asking, Carrying

\* A use that is spent was asked for.
LEMMA SpendBalance ==
  ASSUME Inv, SessionTypes, Budget, NEW r \in Calls, Enroll(r) \/ EnrollFails(r)
  PROVE  /\ tickets'[Ticket].left <= tickets'[Ticket].total
         /\ Used' + Cardinality(Tries') = Used + Cardinality(Tries)
<1> DEFINE e == calls[r].secret
<1>1. /\ e \in Tickets /\ tickets[e].left > 0 /\ tickets' = Spent(e)
      /\ calls[r].at = "sent" /\ Handles(r) /\ TypeOK
  BY HandlerCalls DEF Enroll, EnrollFails, Consumable, Handle, Inv
<1>2. /\ tickets[Ticket].left \in Nat /\ tickets[Ticket].total \in Nat
      /\ tickets[Ticket].left <= tickets[Ticket].total
  BY BudgetTypes DEF Measured, Budget
<1>3. \A q \in Calls \ {r} : q \in Tries' <=> q \in Tries
  BY <1>1 DEF Handles, Untouched, Tries
<1>4. r \notin Tries' /\ Tries \subseteq Calls /\ Tries' \subseteq Calls
  BY <1>1 DEF Handles, Untouched, Tries
<1>5. CASE e = Ticket
  <2>1. r \in Tries /\ Tries' = Tries \ {r}
    BY <1>1, <1>3, <1>4, <1>5 DEF Tries
  <2>2. Cardinality(Tries') = Cardinality(Tries) - 1
    BY <2>1, TriesFinite, FS_RemoveElement
  <2>3. /\ tickets'[Ticket].left = tickets[Ticket].left - 1
        /\ tickets'[Ticket].total = tickets[Ticket].total
    BY <1>1, <1>5 DEF Spent, TypeOK, TicketRow
  <2>4. Used' = Used + 1 /\ Used \in Int
    BY <1>2, <2>3 DEF Used
  <2>5. Cardinality(Tries) \in Nat
    BY TriesFinite
  <2> HIDE DEF Used, Tries
  <2> QED  BY <1>1, <1>2, <1>5, <2>2, <2>3, <2>4, <2>5
<1>6. CASE e # Ticket
  <2>1. Tries' = Tries
    BY <1>3, <1>4, <1>6 DEF Tries
  <2>2. tickets'[Ticket] = tickets[Ticket]
    BY <1>1, <1>6, AgentAssumption DEF Spent, TypeOK
  <2> QED  BY <1>2, <2>1, <2>2 DEF Used
<1> QED  BY <1>5, <1>6

\* The handler of another call than the one the process waits for.
LEMMA OthersServed ==
  ASSUME Inv, SessionTypes, Places, NEW r \in Calls, Serve(r), r # call
  PROVE  Good => Good'
<1>1. UNCHANGED Process /\ Untouched(r) /\ Owned
  BY HandlerCalls DEF Serve, Handles, Inv, Places
<1>2. CASE UNCHANGED tokens
  <2>1. \A t \in Live \ {None} : t \in Live' /\ tokens'[t] = tokens[t]
    BY <1>2 DEF Live
  <2>2. None \notin Live
    BY TokensAssumption DEF Live
  <2> QED  BY <1>1, <2>1, <2>2, OthersLeaveGood
<1>3. CASE Enroll(r) \/ Refresh(r) \/ RefreshFails(r)
  <2>1. \A t \in Live \ {calls[r].secret} : t \in Live' /\ tokens'[t] = tokens[t]
    BY <1>1, HandlerTokens DEF Serve
  <2>2. calls[r].at = "sent"
    BY <1>3 DEF Enroll, Refresh, RefreshFails
  <2> QED  BY <1>1, <2>1, <2>2, OthersLeaveGood
<1> QED
  BY <1>2, <1>3 DEF Serve, Handle, EnrollFails, Reject, SecretResolves, SecretFails

\* The handler of the call it waits for, when nothing fails and it is not refused.
LEMMA OwnServed ==
  ASSUME Inv, SessionTypes, Places, Serve(call), call \in Calls,
         Enroll(call) \/ Refresh(call) \/ SecretResolves(call)
  PROVE  Good => Good'
<1>1. Asking /\ UNCHANGED Process /\ Asking' /\ call' = call
  BY AgentAssumption DEF Serve, Process, Places, CallFits, Asking
<1>2. CASE Enroll(call) \/ Refresh(call)
  <2>1. Sound(calls[call].token)'
    BY <1>1, <1>2, EnrollTokens, RefreshTokens DEF Places, Sound
  <2> QED  BY <1>1, <2>1 DEF Good
<1>3. CASE SecretResolves(call)
  <2>1. calls[call].at = "secret" /\ calls'[call].token = calls[call].token
        /\ UNCHANGED tokens
    BY <1>3 DEF SecretResolves, Answer, Inv, TypeOK, Call
  <2>2. Good => Sound(calls[call].token)
    BY <1>1, <2>1 DEF Good, Asking, Carrying
  <2>3. Sound(calls[call].token) => Sound(calls[call].token)'
    BY <1>1, <2>1 DEF Sound, Live
  <2> QED  BY <1>1, <2>2, <2>3 DEF Good
<1> QED  BY <1>2, <1>3

\* A refresh with a sound token is not refused, so only an enrollment can be: it
\* takes back the use it asked for.
LEMMA RefusalIsPaid ==
  ASSUME Inv, Inv', SessionTypes, SessionTypes', Places, Budget,
         call \in Calls, Serve(call), Reject(call)
  PROVE  Budget'
<1>1. /\ Asking /\ UNCHANGED <<Process, tokens, tickets, faults>> /\ Handles(call)
      /\ calls[call].at = "sent" /\ calls[call].agent = Agent /\ calls[call].token = None
  BY AgentAssumption, HandlerCalls
  DEF Serve, Reject, Handle, Inv, Places, CallFits, Owned
<1>2. Tries' \subseteq Tries /\ TicketStands /\ Mishaps' = Mishaps /\ Mishaps \in Nat
  BY <1>1, BudgetTypes
  DEF Handles, Untouched, Tries, TicketStands, Mishaps, Process, Measured
<1>3. CASE phase = "refreshing"
  <2>1. disk \in Tokens /\ calls[call].secret = disk /\ disk \notin Tickets
    BY <1>3, TokensAssumption DEF Places, CallFits, Asking, SessionTypes
  <2>2. ~Exchangeable(disk, Agent)
    BY <1>1, <2>1 DEF Reject
  <2>3. ~Sound(disk)
    BY <2>2 DEF Exchangeable, Matches, Sound, Live, Places, Owned
  <2>4. ~Sound(calls[call].token)
    BY <1>1, TokensAssumption DEF Sound, Live
  <2>5. ~Good
    BY <1>3, <2>3, <2>4 DEF Good, Carrying
  <2> QED  BY <1>2, <2>5, BudgetKept
<1>4. CASE phase = "enrolling"
  <2>1. call \in Tries /\ call \notin Tries'
    BY <1>1, <1>4 DEF Tries, Places, CallFits, Asking, Handles, Untouched
  <2>2. Cardinality(Tries') <= Cardinality(Tries) - 1
    <3>1. Tries' \subseteq Tries \ {call}
      BY <1>2, <2>1
    <3>2. IsFiniteSet(Tries \ {call}) /\ Cardinality(Tries \ {call}) = Cardinality(Tries) - 1
      BY <2>1, TriesFinite, FS_RemoveElement
    <3> QED  BY <3>1, <3>2, FS_Subset
  <2>3. Used' = Used /\ Used \in Int /\ Miss \in Nat /\ Miss' \in {0, 1}
    BY <1>2, BudgetTypes, BudgetTypesNext DEF Used, TicketStands, Measured
  <2>4. Cardinality(Tries) \in Nat /\ Cardinality(Tries') \in Nat
    BY TriesFinite
  <2>5. Used' + Cardinality(Tries') + Miss' + Mishaps
          <= Used + Cardinality(Tries) + Miss + Mishaps'
    <3> HIDE DEF Used, Miss, Mishaps, Tries
    <3> QED  BY <1>2, <2>2, <2>3, <2>4
  <2> QED  BY <1>2, <2>5, BalanceKept DEF TicketStands, Budget
<1> QED  BY <1>1, <1>3, <1>4 DEF Asking

LEMMA ServeBudget ==
  ASSUME Inv, Inv', SessionTypes, SessionTypes', Places, Budget,
         NEW r \in Calls, Serve(r)
  PROVE  Budget'
<1>1. UNCHANGED <<Process, failures>> /\ Handle(r) /\ Handles(r)
  BY HandlerCalls DEF Serve, Process, Inv
<1>2. Mishaps \in Nat /\ faults \in Nat /\ failures \in Nat
  BY BudgetTypes DEF Measured
<1>3. CASE Enroll(r) \/ EnrollFails(r)
  <2>1. /\ tickets'[Ticket].left <= tickets'[Ticket].total
        /\ Used' + Cardinality(Tries') = Used + Cardinality(Tries)
    BY <1>3, SpendBalance
  <2>2. \/ Mishaps' = Mishaps /\ (Good => Good')
        \/ Mishaps' = Mishaps + 1
    <3>1. CASE Enroll(r)
      BY <1>1, <3>1, OthersServed, OwnServed DEF Enroll, Mishaps
    <3>2. CASE EnrollFails(r)
      BY <1>1, <1>2, <3>2 DEF EnrollFails, Fault, Mishaps
    <3> QED  BY <1>3, <3>1, <3>2
  <2>3. /\ Miss \in {0, 1} /\ (Good <=> Miss = 0) /\ Used \in Int
        /\ Miss' \in {0, 1} /\ (Good' <=> Miss' = 0) /\ Used' \in Int
    BY BudgetTypes, BudgetTypesNext DEF Measured, Used
  <2>4. Cardinality(Tries) \in Nat /\ Cardinality(Tries') \in Nat
    BY TriesFinite
  <2>5. Used' + Cardinality(Tries') + Miss' + Mishaps
          <= Used + Cardinality(Tries) + Miss + Mishaps'
    <3>1. Miss' + Mishaps <= Miss + Mishaps'
      BY <1>2, <2>2, <2>3
    <3>2. Mishaps \in Nat /\ Mishaps' \in Nat /\ Miss \in Nat /\ Miss' \in Nat
      BY <1>2, <2>2, <2>3
    <3>3. Used \in Int /\ Used' \in Int
      BY <2>3
    <3>4. Used' + Cardinality(Tries') = Used + Cardinality(Tries)
      BY <2>1
    <3> DEFINE before == Used + Cardinality(Tries)
               after == Used' + Cardinality(Tries')
    <3>5. before \in Int /\ after \in Int /\ after = before
      BY <2>4, <3>3, <3>4
    <3> HIDE DEF before, after
    <3>6. \A a, b, c, d, e \in Int : b + c <= d + e => a + b + c <= a + d + e
      OBVIOUS
    <3>7. Miss' \in Int /\ Miss \in Int /\ Mishaps \in Int /\ Mishaps' \in Int
      BY <3>2
    <3>8. before + Miss' + Mishaps <= before + Miss + Mishaps'
      BY <3>1, <3>5, <3>6, <3>7
    <3>9. after + Miss' + Mishaps <= before + Miss + Mishaps'
      BY <3>5, <3>8
    <3> QED  BY <3>9 DEF before, after
  <2> QED  BY <2>1, <2>5, BalanceKept
<1>4. CASE Refresh(r) \/ RefreshFails(r) \/ SecretResolves(r) \/ SecretFails(r)
           \/ Reject(r)
  <2>1. Tries' \subseteq Tries /\ TicketStands
    BY <1>1, <1>4
    DEF Handles, Untouched, Tries, TicketStands, Refresh, RefreshFails, SecretResolves,
        SecretFails, Reject
  <2>2. CASE RefreshFails(r) \/ SecretFails(r)
    <3>1. Mishaps' = Mishaps + 1
      BY <1>1, <1>2, <2>2 DEF RefreshFails, SecretFails, Fault, Mishaps
    <3> QED  BY <1>2, <2>1, <3>1, BudgetKept
  <2>3. CASE Refresh(r) \/ SecretResolves(r) \/ Reject(r)
    <3>1. Mishaps' = Mishaps
      BY <1>1, <2>3 DEF Refresh, SecretResolves, Reject, Mishaps
    <3>2. CASE r # call \/ ~Reject(r)
      <4>1. Good => Good'
        BY <2>3, <3>2, OthersServed, OwnServed
      <4> QED  BY <1>2, <2>1, <3>1, <4>1, BudgetKept
    <3>3. CASE r = call /\ Reject(r)
      BY <3>3, RefusalIsPaid
    <3> QED  BY <3>2, <3>3
  <2> QED  BY <1>4, <2>2, <2>3
<1> QED  BY <1>1, <1>3, <1>4 DEF Handle

LEMMA DropBudget ==
  ASSUME Inv, Inv', SessionTypes, SessionTypes', Places, Budget,
         NEW r \in Calls, DropAnswer(r)
  PROVE  Budget'
<1>1. /\ r # call /\ calls' = [calls EXCEPT ![r] = NoCall]
      /\ UNCHANGED <<Process, failures, tokens, tickets>>
  BY DEF DropAnswer, Deliver, Lose, Process
<1>2. Untouched(r)
  BY <1>1, FreedCall DEF Untouched, Inv
<1>3. Tries' \subseteq Tries /\ TicketStands
  BY <1>1, <1>2 DEF Untouched, Tries, TicketStands
<1>4. /\ \A t \in Live \ {None} : t \in Live' /\ tokens'[t] = tokens[t]
      /\ None \notin Live
  BY <1>1, TokensAssumption DEF Live
<1>5. Good => Good'
  BY <1>1, <1>2, <1>4, OthersLeaveGood
<1>6. Mishaps' >= Mishaps
  <2>1. faults \in Nat /\ failures \in Nat
    BY BudgetTypes DEF Measured
  <2> QED  BY <1>1, <2>1 DEF DropAnswer, Deliver, Lose, Fault, Mishaps
<1> QED  BY <1>3, <1>5, <1>6, BudgetKept

LEMMA SurroundingsBudget ==
  ASSUME Inv, Inv', SessionTypes, SessionTypes', Places, Budget, Surroundings
  PROVE  Budget'
<1>1. /\ UNCHANGED <<phase, disk, mem, call, failures, calls>>
      /\ tickets \in [Tickets -> TicketRow]
  BY DEF Surroundings, CreateTicket, RevokeTicket, ExpireTicket, CreateTicketFails,
         ExpireToken, Process, Inv, TypeOK
<1>2. Tries' = Tries /\ Mishaps \in Nat /\ faults \in Nat /\ failures \in Nat
  BY <1>1, BudgetTypes DEF Tries, Measured
<1>g. CASE UNCHANGED tokens
  <2>1. Good' <=> Good
    BY <1>1, <1>g DEF Good, Sound, Asked, Live, Asking, Carrying
  <2>2. CASE TicketStands
    <3>1. faults' = faults \/ faults' = faults + 1
      BY DEF Surroundings, CreateTicket, RevokeTicket, ExpireTicket, CreateTicketFails,
             ExpireToken, Fault
    <3>2. Mishaps' >= Mishaps
      BY <1>1, <1>2, <3>1 DEF Mishaps
    <3> QED  BY <1>2, <2>1, <2>2, <3>2, BudgetKept
  <2>3. ASSUME NEW e \in Tickets, NEW a \in Agents, CreateTicket(e, a), e = Ticket
        PROVE  Budget'
    <3>1. PICK n \in 1 .. MaxUses :
            tickets' = [tickets EXCEPT ![e].agent = a, ![e].total = n, ![e].left = n]
      BY <2>3 DEF CreateTicket
    <3>2. tickets'[Ticket].left = n /\ tickets'[Ticket].total = n
      BY <1>1, <2>3, <3>1 DEF TicketRow
    <3>3. Used' = 0 /\ Used \in Nat
      <4>1. Used' = 0  BY <3>2 DEF Used
      <4>2. Used \in Nat  BY BudgetTypes DEF Measured, Budget, Used
      <4> QED  BY <4>1, <4>2
    <3>4. Mishaps' = Mishaps /\ Miss' = Miss /\ Miss \in Nat
      BY <1>1, <2>1, <2>3, BudgetTypes DEF CreateTicket, Mishaps, Miss, Measured
    <3>5. Cardinality(Tries) \in Nat
      BY TriesFinite
    <3>6. Used' + Cardinality(Tries') + Miss' + Mishaps
            <= Used + Cardinality(Tries) + Miss + Mishaps'
      <4> HIDE DEF Used, Miss, Mishaps, Tries
      <4> QED  BY <1>2, <3>3, <3>4, <3>5
    <3> QED  BY <3>2, <3>6, BalanceKept
  <2>4. ASSUME NEW e \in Tickets, NEW a \in Agents, CreateTicket(e, a), e # Ticket
        PROVE  TicketStands
    BY <1>1, <2>4, AgentAssumption DEF CreateTicket, TicketStands
  <2>5. ASSUME NEW e \in Tickets, RevokeTicket(e) \/ ExpireTicket(e)
        PROVE  TicketStands
    BY <1>1, <2>5, AgentAssumption DEF RevokeTicket, ExpireTicket, TicketStands, TicketRow
  <2>6. CASE UNCHANGED tickets
    BY <2>2, <2>6 DEF TicketStands
  <2> QED
    BY <2>2, <2>3, <2>4, <2>5, <2>6 DEF Surroundings, CreateTicketFails, ExpireToken
<1>h. ASSUME NEW t \in Tokens, ExpireToken(t) PROVE Budget'
  <2>1. Mishaps' = Mishaps + 1 /\ TicketStands
    BY <1>1, <1>2, <1>h DEF ExpireToken, Fault, Mishaps, TicketStands
  <2> QED  BY <1>2, <2>1, BudgetKept
<1> QED
  BY <1>g, <1>h DEF Surroundings, CreateTicket, RevokeTicket, ExpireTicket,
                    CreateTicketFails

LEMMA BudgetStep ==
  ASSUME Inv, Inv', SessionTypes, SessionTypes', Places, Budget,
         [SessionNext]_sessionVars
  PROVE  Budget'
<1>1. CASE UNCHANGED sessionVars
  <2>1. Budget' <=> Budget
    BY <1>1 DEF sessionVars, vars, Process, Budget, Used, Miss, Mishaps, Tries, Good,
                Sound, Asked, Live, Asking, Carrying
  <2> QED  BY <2>1
<1> QED
  BY <1>1, AskBudget, AnswerBudget, CycleBudget, ServeBudget, DropBudget,
     SurroundingsBudget
  DEF SessionNext, Step

-----------------------------------------------------------------------------
(* The theorems.                                                           *)

LEMMA SessionInvInit == SessionInit => SessionInv
<1> SUFFICES ASSUME SessionInit PROVE SessionInv
  OBVIOUS
<1> USE AgentAssumption, TokensAssumption
<1>1. Inv
  BY InvInit DEF SessionInit
<1>2. \A r \in Calls : calls[r].at = "free" /\ calls[r].secret = None
  BY DEF SessionInit, Init, NoCall
<1>3. Live = {}
  BY DEF SessionInit, Init, Live, NoToken
<1>4. SessionTypes
  BY DEF SessionInit, Init, SessionTypes, Phases, Held
<1>5. Places
  BY <1>2, <1>3 DEF SessionInit, Places, CallFits, MemFits, DiskFits, Owned, Asking, Carrying
<1>6. Budget
  <2>1. tickets[Ticket].left = 0 /\ tickets[Ticket].total = 0
    BY DEF SessionInit, Init, NoTicket
  <2>2. Cardinality(Tries) = 0
    <3>1. Tries = {}
      BY <1>2 DEF Tries
    <3> QED  BY <3>1, FS_EmptySet
  <2>3. Mishaps = 0 /\ Miss \in {0, 1}
    BY DEF SessionInit, Init, Mishaps, Miss
  <2>4. Used = 0
    BY <2>1 DEF Used
  <2> HIDE DEF Used, Miss, Mishaps, Tries
  <2> QED  BY <2>1, <2>2, <2>3, <2>4 DEF Budget
<1> QED  BY <1>1, <1>4, <1>5, <1>6 DEF SessionInv

LEMMA SessionInvStep == SessionInv /\ [SessionNext]_sessionVars => SessionInv' /\ [Next]_vars
<1> SUFFICES ASSUME SessionInv, [SessionNext]_sessionVars
             PROVE  SessionInv' /\ [Next]_vars
  OBVIOUS
<1>1. [Next]_vars
  BY SessionIsClient, SessionStutters DEF SessionInv, Places
<1>2. Inv'
  BY <1>1, InvStep DEF SessionInv
<1>3. SessionTypes' /\ Places'
  BY SessionTypesStep, PlacesStep DEF SessionInv, Places
<1>4. Budget'
  BY <1>2, <1>3, BudgetStep DEF SessionInv
<1> QED  BY <1>1, <1>2, <1>3, <1>4 DEF SessionInv

LEMMA SessionInvariant == SessionSpec => []SessionInv
BY SessionInvInit, SessionInvStep, PTL DEF SessionSpec

\* The process, and the tables it is composed with, stay in their types.
THEOREM SessionTypesCorrect == SessionSpec => []SessionTypeOK
<1>1. SessionInv => SessionTypeOK
  BY DEF SessionInv, SessionTypes, SessionTypeOK, Inv, Places, CallFits
<1> QED  BY <1>1, SessionInvariant, PTL

\* The agent is a client as PassportTokens describes them: whatever is proved
\* of its behaviours holds with this agent, crashes and restarts included.
THEOREM SessionIsAClient == SessionSpec => Spec
<1>1. SessionInit => Init
  BY DEF SessionInit
<1> QED
  BY <1>1, SessionInvInit, SessionInvStep, PTL DEF SessionSpec, Spec

\* While the agent streams, the token in session.json can be traded: no call of
\* an earlier process can have spent it or will.
THEOREM StoredTokenLives == SessionSpec => []StoredTokenIsLive
<1>1. SessionInv => StoredTokenIsLive
  BY TokensAssumption
  DEF SessionInv, Places, MemFits, DiskFits, Carrying, Live, StoredTokenIsLive, Stored
<1> QED  BY <1>1, SessionInvariant, PTL

\* Uses of the enrollment token are spent for the first enrollment and for
\* mishaps, one each at most.
THEOREM UsesSpentOnFaults == SessionSpec => []UsesAreSpentOnFaults
<1>1. SessionInv => UsesAreSpentOnFaults
  <2> SUFFICES ASSUME SessionInv PROVE UsesAreSpentOnFaults
    OBVIOUS
  <2>1. Used \in Int /\ Miss \in Nat /\ Mishaps \in Nat /\ Cardinality(Tries) \in Nat
    BY BudgetTypes, TriesFinite DEF SessionInv, Measured, Used
  <2>2. Used + Cardinality(Tries) + Miss <= 1 + Mishaps
    BY DEF SessionInv, Budget
  <2>3. Used <= 1 + Mishaps
    <3> HIDE DEF Used, Miss, Mishaps, Tries
    <3> QED  BY <2>1, <2>2
  <2>4. faults \in Nat /\ failures \in Nat
    BY BudgetTypes DEF SessionInv, Measured
  <2> QED  BY <2>3, <2>4 DEF Used, Mishaps, UsesAreSpentOnFaults
<1> QED  BY <1>1, SessionInvariant, PTL

-----------------------------------------------------------------------------
(* The executor: what a job has still to say fits what was heard of it.    *)

Final == {"done", "error"}
Kinds == {"status", "chunk", "resume_failed"} \cup Final

JobRecord == [pc : {"start", "write", "spawn", "reading", "over"},
              todo : Seq(Kinds), spoke : BOOLEAN]

ExecutorTypes ==
  /\ cycle \in Nat \ {0}
  /\ at \in [Jobs -> Nat] /\ \A j \in Jobs : at[j] <= cycle
  /\ wire \in Seq([job : Jobs, kind : Kinds])
  /\ heard \in [Jobs -> {"running", "speaking", "failing", "answered", "over"}]
  /\ job \in [Jobs -> JobRecord]

OnWire(j) == {i \in 1 .. Len(wire) : wire[i].job = j}

\* Text of the job has been heard, or is on its way.
Spoken(j) == heard[j] = "speaking" \/ \E i \in OnWire(j) : wire[i].kind = "chunk"

\* An event on the wire comes by the job's own connection, a verdict is the
\* last thing said, an answer follows text, a failed resume only the error.
EventFits(j, i) ==
  /\ at[j] = cycle /\ heard[j] \notin Verdicts
  /\ heard[j] = "failing" => wire[i].kind = "error"
  /\ wire[i].kind \in Final \cup {"resume_failed"} => job[j].pc = "over"
  /\ wire[i].kind \in Final => job[j].todo = <<>> /\ \A k \in OnWire(j) : k <= i
  /\ wire[i].kind = "resume_failed" =>
       /\ job[j].todo = <<>> \/ job[j].todo = <<"error">>
       /\ \A k \in OnWire(j) : k > i => wire[k].kind = "error"
  /\ wire[i].kind = "done" =>
       heard[j] = "speaking" \/ \E k \in OnWire(j) : k < i /\ wire[k].kind = "chunk"

\* What the task has still to send while its connection is up.
TodoFits(j) ==
  LET todo == job[j].todo
  IN  /\ heard[j] \in Verdicts => todo = <<>> /\ job[j].pc = "over"
      /\ heard[j] = "failing" =>
           job[j].pc = "over" /\ (todo = <<>> \/ todo = <<"error">>)
      /\ \A k \in 1 .. Len(todo) :
           /\ job[j].pc # "over" => todo[k] = "status" \/ todo[k] = "chunk"
           /\ todo[k] \in Final => k = Len(todo)
           /\ todo[k] = "resume_failed" => todo = <<"resume_failed", "error">>
           /\ todo[k] = "done" => Spoken(j) \/ \E m \in 1 .. Len(todo) : m < k /\ todo[m] = "chunk"
      /\ job[j].pc = "write" \/ (job[j].pc = "reading" /\ job[j].spoke) =>
           Spoken(j) \/ \E k \in 1 .. Len(todo) : todo[k] = "chunk"

JobFits(j) ==
  /\ at[j] = 0 => heard[j] = "running" /\ job[j].todo = <<>> /\ job[j].pc = "start"
  /\ job[j].pc = "start" \/ job[j].pc = "spawn" => ~job[j].spoke
  /\ \A i \in OnWire(j) : EventFits(j, i)
  /\ at[j] = cycle => TodoFits(j)

ExecutorInv == ExecutorTypes /\ \A j \in Jobs : JobFits(j)

LEMMA ExecutorInvInit == ExecutorInit => ExecutorInv
<1> SUFFICES ASSUME ExecutorInit PROVE ExecutorInv
  OBVIOUS
<1>1. ExecutorTypes
  BY DEF ExecutorInit, ExecutorTypes, JobRecord
<1>2. Len(wire) = 0 /\ cycle = 1
  BY DEF ExecutorInit
<1>3. ASSUME NEW j \in Jobs
      PROVE  JobFits(j)
  <2>1. OnWire(j) = {}
    BY <1>2 DEF OnWire
  <2>2. /\ at[j] = 0 /\ heard[j] = "running" /\ job[j].todo = <<>>
        /\ job[j].pc = "start" /\ ~job[j].spoke
    BY DEF ExecutorInit
  <2> QED  BY <1>2, <2>1, <2>2 DEF JobFits
<1> QED  BY <1>1, <1>3 DEF ExecutorInv

\* A job that only its task has touched, other jobs aside.
LEMMA OtherJobs ==
  ASSUME ExecutorInv, NEW j \in Jobs, UNCHANGED <<cycle, wire, heard>>,
         at'[j] = at[j], job'[j] = job[j]
  PROVE  JobFits(j)'
<1>1. OnWire(j)' = OnWire(j)
  BY DEF OnWire
<1>2. ASSUME NEW i \in OnWire(j)
      PROVE  EventFits(j, i)'
  <2>1. EventFits(j, i)
    BY DEF ExecutorInv, JobFits
  <2> QED  BY <1>1, <2>1 DEF EventFits
<1>3. ASSUME at[j] = cycle
      PROVE  TodoFits(j)'
  <2>1. TodoFits(j)
    BY <1>3 DEF ExecutorInv, JobFits
  <2>2. Spoken(j)' <=> Spoken(j)
    BY <1>1 DEF Spoken
  <2> QED  BY <2>1, <2>2 DEF TodoFits
<1> QED  BY <1>1, <1>2, <1>3 DEF ExecutorInv, JobFits

\* A step of a task with nothing left to send: it may say what fits.
LEMMA TaskMoves ==
  ASSUME ExecutorInv, NEW j \in Jobs, at[j] # 0, job[j].pc # "over",
         UNCHANGED <<cycle, wire, heard, at>>,
         job' \in [Jobs -> JobRecord], \A i \in Jobs \ {j} : job'[i] = job[i],
         job[j].todo = <<>>,
         job'[j].pc = "start" \/ job'[j].pc = "spawn" => ~job'[j].spoke,
         at[j] = cycle =>
           LET todo == job'[j].todo
           IN  /\ \A k \in 1 .. Len(todo) :
                    /\ job'[j].pc # "over" => todo[k] = "status" \/ todo[k] = "chunk"
                    /\ todo[k] \in Final => k = Len(todo)
                    /\ todo[k] = "resume_failed" => todo = <<"resume_failed", "error">>
                    /\ todo[k] = "done" =>
                         Spoken(j) \/ \E m \in 1 .. Len(todo) : m < k /\ todo[m] = "chunk"
               /\ job'[j].pc = "write" \/ (job'[j].pc = "reading" /\ job'[j].spoke) =>
                    Spoken(j) \/ \E k \in 1 .. Len(todo) : todo[k] = "chunk"
  PROVE  ExecutorInv'
<1>1. ExecutorTypes'
  BY DEF ExecutorInv, ExecutorTypes
<1>2. \A i \in Jobs \ {j} : JobFits(i)'
  BY OtherJobs DEF ExecutorInv, ExecutorTypes
<1>3. OnWire(j)' = OnWire(j) /\ (Spoken(j)' <=> Spoken(j))
  BY DEF OnWire, Spoken
<1>4. \A i \in OnWire(j) : EventFits(j, i)'
  BY <1>3 DEF ExecutorInv, JobFits, EventFits
<1>5. at[j] = cycle => TodoFits(j)'
  <2> SUFFICES ASSUME at[j] = cycle PROVE TodoFits(j)'
    OBVIOUS
  <2>1. heard'[j] \notin Verdicts /\ heard'[j] # "failing"
    BY DEF ExecutorInv, JobFits, TodoFits
  <2> QED  BY <1>3, <2>1 DEF TodoFits
<1>6. JobFits(j)'
  BY <1>3, <1>4, <1>5 DEF JobFits
<1> QED  BY <1>1, <1>2, <1>6 DEF ExecutorInv

LEMMA GoesFacts ==
  ASSUME ExecutorInv, NEW j \in Jobs, NEW pc, NEW todo \in Seq(Kinds), Goes(j, pc, todo),
         pc \in {"start", "write", "spawn", "reading", "over"}
  PROVE  /\ job' \in [Jobs -> JobRecord]
         /\ job'[j].pc = pc /\ job'[j].todo = todo /\ job'[j].spoke = job[j].spoke
         /\ \A i \in Jobs \ {j} : job'[i] = job[i]
BY DEF ExecutorInv, ExecutorTypes, JobRecord, Goes

LEMMA AtFacts ==
  ASSUME NEW j \in Jobs, NEW pc, At(j, pc)
  PROVE  at[j] # 0 /\ job[j].pc = pc /\ job[j].todo = <<>>
BY DEF At

\* Progress and text, before the task is over.
Talk(todo) ==
  /\ todo \in Seq(Kinds)
  /\ \A k \in 1 .. Len(todo) : todo[k] = "status" \/ todo[k] = "chunk"

LEMMA TalkIsFine ==
  ASSUME ExecutorInv, NEW j \in Jobs, at[j] # 0, job[j].pc # "over", job[j].todo = <<>>,
         NEW pc \in {"spawn", "write", "reading"}, NEW todo, Talk(todo), Goes(j, pc, todo),
         pc = "write" => \E k \in 1 .. Len(todo) : todo[k] = "chunk",
         pc = "spawn" \/ pc = "reading" => ~job[j].spoke,
         UNCHANGED <<cycle, wire, heard, at>>
  PROVE  ExecutorInv'
<1>1. /\ job' \in [Jobs -> JobRecord]
      /\ job'[j].pc = pc /\ job'[j].todo = todo /\ job'[j].spoke = job[j].spoke
      /\ \A i \in Jobs \ {j} : job'[i] = job[i]
  BY GoesFacts DEF Talk
<1>2. \A k \in 1 .. Len(todo) : /\ todo[k] = "status" \/ todo[k] = "chunk"
                                /\ todo[k] \notin Final
                                /\ todo[k] # "resume_failed" /\ todo[k] # "done"
  BY DEF Talk, Final
<1> QED  BY <1>1, <1>2, TaskMoves

\* The last word of a task.
Farewell(j, todo) ==
  \/ todo = <<"error">>
  \/ todo = <<"status">> \/ todo = <<"status", "error">>
  \/ todo = <<"resume_failed", "error">>
  \/ todo = <<"status", "done">> /\ (at[j] = cycle => Spoken(j))
  \/ todo = <<"done">> /\ (at[j] = cycle => Spoken(j))
  \/ todo = <<"chunk", "done">>

LEMMA FarewellIsFine ==
  ASSUME ExecutorInv, NEW j \in Jobs, at[j] # 0, job[j].pc # "over", job[j].todo = <<>>,
         NEW todo, Farewell(j, todo), Goes(j, "over", todo),
         UNCHANGED <<cycle, wire, heard, at>>
  PROVE  ExecutorInv'
<1>a. ASSUME NEW x \in Kinds, NEW y \in Kinds
      PROVE  /\ <<x>> \in Seq(Kinds) /\ Len(<<x>>) = 1 /\ <<x>>[1] = x
             /\ <<x, y>> \in Seq(Kinds) /\ Len(<<x, y>>) = 2
             /\ <<x, y>>[1] = x /\ <<x, y>>[2] = y
  OBVIOUS
<1>b. {"error", "status", "done", "resume_failed", "chunk"} \subseteq Kinds
  BY DEF Kinds, Final
<1> DEFINE Fine ==
      /\ todo \in Seq(Kinds)
      /\ \A k \in 1 .. Len(todo) :
           /\ todo[k] \in Final => k = Len(todo)
           /\ todo[k] = "resume_failed" => todo = <<"resume_failed", "error">>
           /\ todo[k] = "done" /\ at[j] = cycle =>
                Spoken(j) \/ \E m \in 1 .. Len(todo) : m < k /\ todo[m] = "chunk"
<1>1. ASSUME todo = <<"error">> \/ todo = <<"status">>
      PROVE  Fine
  <2>1. PICK x \in {"error", "status"} : todo = <<x>>
    BY <1>1
  <2> QED  BY <1>a, <1>b, <2>1 DEF Final
<1>2. ASSUME todo = <<"status", "error">> \/ todo = <<"resume_failed", "error">>
      PROVE  Fine
  <2>1. PICK x \in {"status", "resume_failed"} : todo = <<x, "error">>
    BY <1>2
  <2> QED  BY <1>a, <1>b, <2>1 DEF Final
<1>3. ASSUME todo = <<"done">> /\ (at[j] = cycle => Spoken(j))
      PROVE  Fine
  BY <1>a, <1>b, <1>3 DEF Final
<1>4. ASSUME todo = <<"status", "done">> /\ (at[j] = cycle => Spoken(j))
      PROVE  Fine
  BY <1>a, <1>b, <1>4 DEF Final
<1>5. ASSUME todo = <<"chunk", "done">>
      PROVE  Fine
  BY <1>a, <1>b, <1>5 DEF Final
<1>6. Fine
  BY <1>1, <1>2, <1>3, <1>4, <1>5 DEF Farewell
<1>7. /\ job' \in [Jobs -> JobRecord]
      /\ job'[j].pc = "over" /\ job'[j].todo = todo
      /\ \A i \in Jobs \ {j} : job'[i] = job[i]
  BY <1>6, GoesFacts
<1> QED  BY <1>6, <1>7, TaskMoves

LEMMA CommandSteps ==
  ASSUME ExecutorInv, NEW j \in Jobs,
         ResetOrCancel(j) \/ TranscribeStart(j) \/ TranscribeWrite(j) \/ RefuseMessage(j)
         \/ StartMessage(j)
  PROVE  ExecutorInv'
<1>1. CASE ResetOrCancel(j) \/ RefuseMessage(j)
  <2>1. PICK todo : Goes(j, "over", todo) /\ (todo = <<"status">> \/ todo = <<"error">>)
    BY <1>1 DEF ResetOrCancel, RefuseMessage
  <2>2. At(j, "start") /\ UNCHANGED <<cycle, wire, heard, at>>
    BY <1>1 DEF ResetOrCancel, RefuseMessage
  <2> QED  BY <2>1, <2>2, AtFacts, FarewellIsFine DEF Farewell
<1>2. CASE TranscribeStart(j)
  <2>1. At(j, "start") /\ UNCHANGED <<cycle, wire, heard, at>>
    BY <1>2 DEF TranscribeStart
  <2>2. CASE Goes(j, "over", <<"status", "error">>)
    BY <2>1, <2>2, AtFacts, FarewellIsFine DEF Farewell
  <2>3. CASE Goes(j, "write", <<"status", "status", "status", "chunk">>)
    <3> DEFINE todo == <<"status", "status", "status", "chunk">>
    <3>1. Talk(todo)
      BY DEF Talk, Kinds
    <3>2. \E k \in 1 .. Len(todo) : todo[k] = "chunk"
      <4>1. 4 \in 1 .. Len(todo) /\ todo[4] = "chunk"
        OBVIOUS
      <4> QED  BY <4>1
    <3>3. Goes(j, "write", todo)
      BY <2>3
    <3> HIDE DEF todo
    <3> QED  BY <2>1, <3>1, <3>2, <3>3, AtFacts, TalkIsFine
  <2> QED  BY <1>2, <2>2, <2>3 DEF TranscribeStart
<1>3. CASE TranscribeWrite(j)
  <2>1. At(j, "write") /\ UNCHANGED <<cycle, wire, heard, at>>
    BY <1>3 DEF TranscribeWrite
  <2>2. CASE Fails(j)
    BY <2>1, <2>2, AtFacts, FarewellIsFine DEF Farewell, Fails
  <2>3. CASE Goes(j, "over", <<"status", "done">>)
    <3>1. at[j] = cycle => Spoken(j)
      <4>1. job[j].todo = <<>> /\ job[j].pc = "write" /\ Len(<<>>) = 0
        BY <2>1, AtFacts
      <4> QED  BY <4>1 DEF ExecutorInv, JobFits, TodoFits
    <3> QED  BY <2>1, <2>3, <3>1, AtFacts, FarewellIsFine DEF Farewell
  <2> QED  BY <1>3, <2>2, <2>3 DEF TranscribeWrite
<1>4. CASE StartMessage(j)
  <2>1. At(j, "start") /\ UNCHANGED <<cycle, wire, heard, at>>
    BY <1>4 DEF StartMessage
  <2>2. PICK todo : /\ Goes(j, "spawn", todo)
                    /\ todo = <<"status", "status">> \/ todo = <<"status">>
    BY <1>4 DEF StartMessage
  <2>3. Talk(todo)
    BY <2>2 DEF Talk, Kinds
  <2>4. ~job[j].spoke
    BY <2>1, AtFacts DEF ExecutorInv, JobFits
  <2> QED  BY <2>1, <2>2, <2>3, <2>4, AtFacts, TalkIsFine
<1> QED  BY <1>1, <1>2, <1>3, <1>4

LEMMA SpawnStep ==
  ASSUME ExecutorInv, NEW j \in Jobs, Spawn(j)
  PROVE  ExecutorInv'
<1>1. At(j, "spawn") /\ UNCHANGED <<cycle, wire, heard, at>>
  BY DEF Spawn
<1>2. CASE Fails(j)
  BY <1>1, <1>2, AtFacts, FarewellIsFine DEF Farewell, Fails
<1>3. CASE Goes(j, "reading", <<>>)
  <2>1. Talk(<<>>)
    BY DEF Talk
  <2>2. ~job[j].spoke
    BY <1>1, AtFacts DEF ExecutorInv, JobFits
  <2> QED  BY <1>1, <1>3, <2>1, <2>2, AtFacts, TalkIsFine
<1> QED  BY <1>2, <1>3 DEF Spawn

\* A line is progress and text, and it speaks when there is text in it.
LEMMA LineTalks ==
  ASSUME NEW line
  PROVE  /\ Talk(EventsOf(line))
         /\ Speaks(line) =>
              \E k \in 1 .. Len(EventsOf(line)) : EventsOf(line)[k] = "chunk"
<1>1. CASE line.form = "json"
  <2>1. Speaks(line) <=> line.text
    BY <1>1 DEF Speaks
  <2> DEFINE first == IF line.status THEN <<"status">> ELSE <<>>
             then == IF line.text THEN <<"chunk">>
                     ELSE IF line.source = "stderr" THEN <<"status">> ELSE <<>>
  <2>2. EventsOf(line) = first \o then
    BY <1>1 DEF EventsOf
  <2>a. <<"status">> \in Seq(Kinds) /\ <<"chunk">> \in Seq(Kinds) /\ <<>> \in Seq(Kinds)
    BY DEF Kinds
  <2>b. first = <<>> \/ first = <<"status">>
    OBVIOUS
  <2>c. then = <<"chunk">> \/ (~Speaks(line) /\ (then = <<>> \/ then = <<"status">>))
    BY <2>1
  <2>3. first \in Seq(Kinds) /\ then \in Seq(Kinds)
    BY <2>a, <2>b, <2>c
  <2> HIDE DEF first, then
  <2>4. /\ first \o then \in Seq(Kinds)
        /\ Len(first \o then) = Len(first) + Len(then)
        /\ \A k \in 1 .. Len(first) : (first \o then)[k] = first[k]
        /\ \A k \in 1 .. Len(then) : (first \o then)[Len(first) + k] = then[k]
    BY <2>3, ConcatProperties
  <2>5. Talk(first \o then)
    BY <2>4, <2>b, <2>c DEF Talk
  <2>6. ASSUME Speaks(line)
        PROVE  \E k \in 1 .. Len(first \o then) : (first \o then)[k] = "chunk"
    <3>1. then = <<"chunk">> /\ Len(then) = 1 /\ then[1] = "chunk" /\ Len(first) \in Nat
      BY <2>3, <2>6, <2>c
    <3>2. Len(first) + 1 \in 1 .. Len(first \o then) /\ (first \o then)[Len(first) + 1] = "chunk"
      BY <2>4, <3>1
    <3> QED  BY <3>2
  <2> QED  BY <2>2, <2>5, <2>6
<1>2. CASE line.form = "plain"
  <2>1. CASE line.source = "stdout"
    <3>1. EventsOf(line) = <<"chunk">>
      BY <1>2, <2>1 DEF EventsOf
    <3>2. Len(<<"chunk">>) = 1 /\ <<"chunk">>[1] = "chunk" /\ <<"chunk">> \in Seq(Kinds)
      BY DEF Kinds
    <3> QED  BY <3>1, <3>2 DEF Talk
  <2>2. CASE line.source # "stdout"
    <3>1. EventsOf(line) = <<"status">> /\ ~Speaks(line)
      BY <1>2, <2>2 DEF EventsOf, Speaks
    <3>2. Len(<<"status">>) = 1 /\ <<"status">>[1] = "status" /\ <<"status">> \in Seq(Kinds)
      BY DEF Kinds
    <3> QED  BY <3>1, <3>2 DEF Talk
  <2> QED  BY <2>1, <2>2
<1>3. CASE line.form # "json" /\ line.form # "plain"
  <2>1. EventsOf(line) = <<>> /\ ~Speaks(line)
    BY <1>3 DEF EventsOf, Speaks
  <2> QED  BY <2>1 DEF Talk
<1> QED  BY <1>1, <1>2, <1>3

LEMMA TakeLineStep ==
  ASSUME ExecutorInv, NEW j \in Jobs, TakeLine(j)
  PROVE  ExecutorInv'
<1>1. PICK line : /\ line = Head(lines[j])
                  /\ job' = [job EXCEPT ![j].todo = EventsOf(line),
                                        ![j].spoke = @ \/ Speaks(line)]
  BY DEF TakeLine
<1>2. /\ at[j] # 0 /\ job[j].pc = "reading" /\ job[j].todo = <<>>
      /\ UNCHANGED <<cycle, wire, heard, at>>
  BY AtFacts DEF TakeLine
<1> DEFINE todo == EventsOf(line)
<1>3. /\ Talk(todo) /\ todo \in Seq(Kinds)
      /\ Speaks(line) => \E k \in 1 .. Len(todo) : todo[k] = "chunk"
  BY LineTalks DEF Talk
<1>4. job'[j].todo = todo /\ job'[j].pc = "reading"
      /\ job'[j].spoke = (job[j].spoke \/ Speaks(line))
      /\ \A i \in Jobs \ {j} : job'[i] = job[i]
  BY <1>1, <1>2 DEF ExecutorInv, ExecutorTypes, JobRecord
<1>5. job' \in [Jobs -> JobRecord]
  <2>1. job \in [Jobs -> JobRecord]
    BY DEF ExecutorInv, ExecutorTypes
  <2>2. job'[j] = [job[j] EXCEPT !.todo = todo, !.spoke = job[j].spoke \/ Speaks(line)]
    BY <1>1, <2>1
  <2>3. (job[j].spoke \/ Speaks(line)) \in BOOLEAN
    OBVIOUS
  <2>4. job'[j] \in JobRecord
    BY <1>3, <2>1, <2>2, <2>3 DEF JobRecord
  <2>5. job' = [job EXCEPT ![j] = job'[j]]
    BY <1>1, <2>1
  <2> QED  BY <2>1, <2>4, <2>5
<1> HIDE DEF todo
<1>6. \A k \in 1 .. Len(todo) : /\ todo[k] = "status" \/ todo[k] = "chunk"
                                /\ todo[k] \notin Final
                                /\ todo[k] # "resume_failed" /\ todo[k] # "done"
  BY <1>3 DEF Talk, Final
<1>7. at[j] = cycle /\ job[j].spoke => Spoken(j)
  <2>1. Len(<<>>) = 0
    OBVIOUS
  <2> QED  BY <1>2, <2>1 DEF ExecutorInv, JobFits, TodoFits
<1> QED  BY <1>2, <1>3, <1>4, <1>5, <1>6, <1>7, TaskMoves

LEMMA FinishStep ==
  ASSUME ExecutorInv, NEW j \in Jobs, Finish(j)
  PROVE  ExecutorInv'
<1>1. /\ at[j] # 0 /\ job[j].pc = "reading" /\ job[j].todo = <<>>
      /\ UNCHANGED <<cycle, wire, heard, at>>
  BY AtFacts DEF Finish
<1>2. CASE Fails(j)
  BY <1>1, <1>2, FarewellIsFine DEF Farewell, Fails
<1>3. CASE Goes(j, "over", FillIn(j))
  <2>1. CASE job[j].spoke
    <3>1. FillIn(j) = <<"done">>
      BY <2>1 DEF FillIn
    <3>2. at[j] = cycle => Spoken(j)
      <4>1. Len(<<>>) = 0
        OBVIOUS
      <4> QED  BY <1>1, <2>1, <4>1 DEF ExecutorInv, JobFits, TodoFits
    <3> QED  BY <1>1, <1>3, <3>1, <3>2, FarewellIsFine DEF Farewell
  <2>2. CASE ~job[j].spoke
    <3>1. FillIn(j) = <<"chunk", "done">>
      BY <2>2 DEF FillIn
    <3> QED  BY <1>1, <1>3, <3>1, FarewellIsFine DEF Farewell
  <2> QED  BY <2>1, <2>2
<1>4. CASE Goes(j, "over", IF cmd[j].resume /\ cmd[j].provider = "gemini"
                            THEN <<"resume_failed", "error">> ELSE <<"error">>)
  <2>1. PICK todo : /\ Goes(j, "over", todo)
                    /\ todo = <<"resume_failed", "error">> \/ todo = <<"error">>
    BY <1>4
  <2> QED  BY <1>1, <2>1, FarewellIsFine DEF Farewell
<1> QED  BY <1>2, <1>3, <1>4 DEF Finish

\* The next event goes out: everything said before stays as it was.
LEMMA SendStep ==
  ASSUME ExecutorInv, NEW j \in Jobs, SendEvent(j)
  PROVE  ExecutorInv'
<1>0. PICK todo : todo = job[j].todo
  OBVIOUS
<1>1. /\ at[j] = cycle /\ wire' = Append(wire, [job |-> j, kind |-> Head(todo)])
      /\ job' = [job EXCEPT ![j].todo = Tail(todo)]
      /\ UNCHANGED <<cycle, heard, at>>
      /\ todo # <<>> /\ todo \in Seq(Kinds) /\ TodoFits(j)
  BY <1>0 DEF SendEvent, ExecutorInv, ExecutorTypes, JobRecord, JobFits
<1>2. PICK rest : rest = Tail(todo)
  OBVIOUS
<1>3. /\ Head(todo) = todo[1] /\ todo[1] \in Kinds
      /\ rest \in Seq(Kinds) /\ Len(todo) \in Nat \ {0} /\ Len(rest) = Len(todo) - 1
      /\ \A k \in 1 .. Len(rest) : rest[k] = todo[k + 1]
      /\ Len(todo) = 1 => rest = <<>>
      /\ 1 \in 1 .. Len(todo)
  <2>1. /\ Head(todo) = todo[1] /\ todo[1] \in Kinds
        /\ rest \in Seq(Kinds) /\ Len(todo) \in Nat \ {0} /\ Len(rest) = Len(todo) - 1
        /\ \A k \in 1 .. Len(rest) : rest[k] = todo[k + 1]
    BY <1>1, <1>2, HeadTailProperties, LenProperties, EmptySeq
  <2>2. Len(rest) = 0 => rest = <<>>
    BY <2>1, EmptySeq
  <2> QED  BY <2>1, <2>2
<1>4. PICK n : n = Len(wire)
  OBVIOUS
<1>5. /\ wire' \in Seq([job : Jobs, kind : Kinds]) /\ n \in Nat /\ Len(wire') = n + 1
      /\ wire'[n + 1].job = j /\ wire'[n + 1].kind = todo[1]
      /\ \A i \in 1 .. n : wire'[i] = wire[i]
  <2>1. /\ wire \in Seq([job : Jobs, kind : Kinds])
        /\ [job |-> j, kind |-> todo[1]] \in [job : Jobs, kind : Kinds]
    BY <1>3 DEF ExecutorInv, ExecutorTypes
  <2> QED  BY <1>1, <1>3, <1>4, <2>1, AppendProperties, LenProperties
<1>6. /\ job' \in [Jobs -> JobRecord]
      /\ job'[j].todo = rest /\ job'[j].pc = job[j].pc /\ job'[j].spoke = job[j].spoke
      /\ \A i \in Jobs \ {j} : job'[i] = job[i]
  BY <1>1, <1>2, <1>3 DEF ExecutorInv, ExecutorTypes, JobRecord
<1>7. ExecutorTypes'
  BY <1>1, <1>5, <1>6 DEF ExecutorInv, ExecutorTypes
<1>8. /\ OnWire(j)' = OnWire(j) \cup {n + 1} /\ n + 1 \notin OnWire(j)
      /\ \A i \in Jobs \ {j} : OnWire(i)' = OnWire(i)
      /\ \A i \in Jobs : \A k \in OnWire(i) : k \in 1 .. n /\ wire'[k] = wire[k]
  BY <1>4, <1>5 DEF OnWire
<1>9. \* what TodoFits says of todo
      /\ heard[j] \notin Verdicts
      /\ heard[j] = "failing" => job[j].pc = "over" /\ todo = <<"error">>
      /\ \A k \in 1 .. Len(todo) :
           /\ job[j].pc # "over" => todo[k] = "status" \/ todo[k] = "chunk"
           /\ todo[k] \in Final => k = Len(todo)
           /\ todo[k] = "resume_failed" => todo = <<"resume_failed", "error">>
           /\ todo[k] = "done" => Spoken(j) \/ \E m \in 1 .. Len(todo) : m < k /\ todo[m] = "chunk"
      /\ job[j].pc = "write" \/ (job[j].pc = "reading" /\ job[j].spoke) =>
           Spoken(j) \/ \E k \in 1 .. Len(todo) : todo[k] = "chunk"
  BY <1>0, <1>1 DEF TodoFits
<1>10. \* and of its head
      /\ heard[j] = "failing" => todo[1] = "error"
      /\ todo[1] \in Final \cup {"resume_failed"} => job[j].pc = "over"
      /\ todo[1] \in Final => rest = <<>>
      /\ todo[1] = "resume_failed" => rest = <<"error">>
      /\ todo[1] = "done" => Spoken(j)
  <2>1. <<"error">>[1] = "error" /\ Tail(<<"resume_failed", "error">>) = <<"error">>
    OBVIOUS
  <2>2. heard[j] = "failing" => todo[1] = "error"
    BY <1>9, <2>1
  <2>3. job[j].pc # "over" => todo[1] = "status" \/ todo[1] = "chunk"
    BY <1>3, <1>9
  <2>4. todo[1] \in Final \cup {"resume_failed"} => job[j].pc = "over"
    BY <2>3 DEF Final
  <2>5. todo[1] \in Final => rest = <<>>
    <3>1. todo[1] \in Final => 1 = Len(todo)
      BY <1>3, <1>9
    <3> QED  BY <1>3, <3>1
  <2>6. todo[1] = "resume_failed" => rest = <<"error">>
    BY <1>2, <1>3, <1>9, <2>1
  <2>7. todo[1] = "done" => Spoken(j)
    BY <1>3, <1>9
  <2> QED  BY <2>2, <2>4, <2>5, <2>6, <2>7
<1>11. ASSUME NEW i \in Jobs \ {j} PROVE JobFits(i)'
  <2>1. JobFits(i)
    BY DEF ExecutorInv
  <2>2. Spoken(i)' <=> Spoken(i)
    BY <1>1, <1>8 DEF Spoken
  <2>3. ASSUME NEW k \in OnWire(i) PROVE EventFits(i, k)'
    <3>1. EventFits(i, k)
      BY <2>1 DEF JobFits
    <3>2. /\ UNCHANGED <<cycle, heard, at>> /\ job'[i] = job[i] /\ OnWire(i)' = OnWire(i)
          /\ wire'[k] = wire[k] /\ \A m \in OnWire(i) : wire'[m] = wire[m]
      BY <1>1, <1>6, <1>8
    <3> QED  BY <3>1, <3>2 DEF EventFits
  <2>4. at[i] = cycle => TodoFits(i)'
    BY <1>1, <1>6, <2>1, <2>2 DEF JobFits, TodoFits
  <2> QED  BY <1>1, <1>6, <1>8, <2>1, <2>3, <2>4 DEF JobFits
<1>12. (Spoken(j) => Spoken(j)') /\ (todo[1] = "chunk" => Spoken(j)')
  BY <1>1, <1>5, <1>8 DEF Spoken
<1>13. EventFits(j, n + 1)'
  <2>1. \A k \in OnWire(j)' : k <= n + 1 /\ ~(k > n + 1)
    BY <1>5, <1>8
  <2>2. todo[1] = "done" =>
          heard[j] = "speaking" \/ \E k \in OnWire(j)' : k < n + 1 /\ wire'[k].kind = "chunk"
    BY <1>5, <1>8, <1>10 DEF Spoken
  <2> QED
    BY <1>1, <1>5, <1>6, <1>9, <1>10, <2>1, <2>2 DEF EventFits
<1>14. ASSUME NEW i \in OnWire(j) PROVE EventFits(j, i)'
  <2>1. EventFits(j, i)
    BY DEF ExecutorInv, JobFits
  <2>2. wire[i].kind \notin Final
    BY <1>0, <1>1, <2>1 DEF EventFits
  <2>3. wire[i].kind = "resume_failed" => todo[1] = "error" /\ rest = <<>>
    <3>1. <<"error">>[1] = "error" /\ "error" \in Final
      BY DEF Final
    <3>2. wire[i].kind = "resume_failed" => todo = <<"error">>
      BY <1>0, <1>1, <2>1 DEF EventFits
    <3> QED  BY <1>10, <3>1, <3>2
  <2>4. /\ at[j] = cycle /\ heard[j] \notin Verdicts
        /\ heard[j] = "failing" => wire[i].kind = "error"
        /\ wire[i].kind = "resume_failed" => job[j].pc = "over"
        /\ wire[i].kind = "resume_failed" => \A k \in OnWire(j) : k > i => wire[k].kind = "error"
    BY <2>1 DEF EventFits
  <2>5. wire'[i] = wire[i] /\ i \in 1 .. n
    BY <1>8
  <2>6. wire[i].kind # "done"
    BY <2>2 DEF Final
  <2> QED
    BY <1>1, <1>5, <1>6, <1>8, <2>2, <2>3, <2>4, <2>5, <2>6 DEF EventFits
<1>15. TodoFits(j)'
  <2>1. heard[j] = "failing" => job[j].pc = "over" /\ rest = <<>>
    BY <1>9, <1>10 DEF Final
  <2>2. ASSUME NEW k \in 1 .. Len(rest)
        PROVE  /\ job[j].pc # "over" => rest[k] = "status" \/ rest[k] = "chunk"
               /\ rest[k] \in Final => k = Len(rest)
               /\ rest[k] # "resume_failed"
               /\ rest[k] = "done" =>
                    Spoken(j)' \/ \E m \in 1 .. Len(rest) : m < k /\ rest[m] = "chunk"
    <3>1. k + 1 \in 1 .. Len(todo) /\ rest[k] = todo[k + 1]
      BY <1>3
    <3>2. todo[k + 1] # "resume_failed"
      <4>1. /\ Len(<<"resume_failed", "error">>) = 2 /\ <<"resume_failed", "error">>[2] = "error"
        OBVIOUS
      <4>2. todo[k + 1] = "resume_failed" => todo = <<"resume_failed", "error">>
        BY <1>9, <3>1
      <4>3. todo = <<"resume_failed", "error">> => k + 1 = 2
        BY <1>3, <4>1
      <4> QED  BY <4>1, <4>2, <4>3
    <3>3. ASSUME todo[k + 1] = "done"
          PROVE  Spoken(j)' \/ \E m \in 1 .. Len(rest) : m < k /\ rest[m] = "chunk"
      <4>1. Spoken(j) \/ \E m \in 1 .. Len(todo) : m < k + 1 /\ todo[m] = "chunk"
        BY <1>9, <3>1, <3>3
      <4>2. ASSUME NEW m \in 1 .. Len(todo), m < k + 1, todo[m] = "chunk", m # 1
            PROVE  m - 1 \in 1 .. Len(rest) /\ m - 1 < k /\ rest[m - 1] = "chunk"
        BY <1>3, <4>2
      <4> QED  BY <1>12, <4>1, <4>2
    <3>4. todo[k + 1] \in Final => k = Len(rest)
      BY <1>3, <1>9, <3>1
    <3>5. job[j].pc # "over" => todo[k + 1] = "status" \/ todo[k + 1] = "chunk"
      BY <1>9, <3>1
    <3> QED  BY <3>1, <3>2, <3>3, <3>4, <3>5
  <2>3. ASSUME job[j].pc = "write" \/ (job[j].pc = "reading" /\ job[j].spoke)
        PROVE  Spoken(j)' \/ \E k \in 1 .. Len(rest) : rest[k] = "chunk"
    <3>1. Spoken(j) \/ \E k \in 1 .. Len(todo) : todo[k] = "chunk"
      BY <1>9, <2>3
    <3>2. ASSUME NEW m \in 1 .. Len(todo), todo[m] = "chunk", m # 1
          PROVE  m - 1 \in 1 .. Len(rest) /\ rest[m - 1] = "chunk"
      BY <1>3, <3>2
    <3> QED  BY <1>12, <3>1, <3>2
  <2>4. heard'[j] = heard[j] /\ heard[j] \notin Verdicts
    BY <1>1, <1>9
  <2> QED  BY <1>6, <2>1, <2>2, <2>3, <2>4 DEF TodoFits
<1>16. JobFits(j)'
  <2>1. at[j] # 0
    BY <1>1 DEF ExecutorInv, ExecutorTypes
  <2>2. job[j].pc = "start" \/ job[j].pc = "spawn" => ~job[j].spoke
    BY DEF ExecutorInv, JobFits
  <2>3. \A i \in OnWire(j)' : EventFits(j, i)'
    BY <1>8, <1>13, <1>14
  <2> QED  BY <1>1, <1>6, <1>15, <2>1, <2>2, <2>3 DEF JobFits
<1> QED  BY <1>7, <1>11, <1>16 DEF ExecutorInv


\* A job whose connection has ended has nothing on the wire.
LEMMA EndedIsQuiet ==
  ASSUME ExecutorInv, NEW j \in Jobs, at[j] # cycle
  PROVE  OnWire(j) = {}
<1>1. \A i \in OnWire(j) : EventFits(j, i)
  BY DEF ExecutorInv, JobFits
<1>2. \A i \in OnWire(j) : FALSE
  BY <1>1 DEF EventFits
<1> QED  BY <1>2

LEMMA SendAfterEndStep ==
  ASSUME ExecutorInv, NEW j \in Jobs, SendAfterEnd(j)
  PROVE  ExecutorInv'
<1>1. /\ at[j] # cycle /\ job[j].todo # <<>> /\ UNCHANGED <<cycle, wire, heard, at>>
      /\ job \in [Jobs -> JobRecord] /\ JobFits(j)
  BY DEF SendAfterEnd, ExecutorInv, ExecutorTypes
<1>2. /\ job' \in [Jobs -> JobRecord]
      /\ job'[j].pc = "over" \/ (job'[j].pc = job[j].pc /\ job'[j].spoke = job[j].spoke)
      /\ \A i \in Jobs \ {j} : job'[i] = job[i]
  <2>1. CASE job' = [job EXCEPT ![j].todo = Tail(@)]
    <3>1. PICK rest : rest = Tail(job[j].todo)
      OBVIOUS
    <3>2. rest \in Seq(Kinds)
      BY <1>1, <3>1, HeadTailProperties DEF JobRecord
    <3>3. job' = [job EXCEPT ![j].todo = rest]
      BY <2>1, <3>1
    <3> QED  BY <1>1, <3>2, <3>3 DEF JobRecord
  <2>2. CASE Goes(j, "over", <<>>)
    BY <1>1, <2>2 DEF Goes, JobRecord
  <2> QED  BY <2>1, <2>2 DEF SendAfterEnd
<1>3. OnWire(j)' = {} /\ at[j] # 0
  <2>1. OnWire(j)' = OnWire(j)
    BY <1>1 DEF OnWire
  <2> QED  BY <1>1, <2>1, EndedIsQuiet DEF JobFits
<1>4. JobFits(j)'
  BY <1>1, <1>2, <1>3 DEF JobFits
<1>5. \A i \in Jobs \ {j} : JobFits(i)'
  BY <1>1, <1>2, OtherJobs
<1>6. ExecutorTypes'
  BY <1>1, <1>2 DEF ExecutorInv, ExecutorTypes
<1> QED  BY <1>4, <1>5, <1>6 DEF ExecutorInv

LEMMA ReceiveStep ==
  ASSUME ExecutorInv, NEW j \in Jobs, Receive(j)
  PROVE  ExecutorInv'
<1>1. /\ at[j] = 0 /\ at' = [at EXCEPT ![j] = cycle] /\ UNCHANGED <<cycle, wire, heard, job>>
      /\ at \in [Jobs -> Nat] /\ cycle \in Nat \ {0} /\ JobFits(j)
      /\ \A i \in Jobs : at[i] <= cycle
  BY DEF Receive, ExecutorInv, ExecutorTypes
<1>2. at' \in [Jobs -> Nat] /\ at'[j] = cycle /\ \A i \in Jobs \ {j} : at'[i] = at[i]
  BY <1>1
<1>3. ExecutorTypes'
  BY <1>1, <1>2 DEF ExecutorInv, ExecutorTypes
<1>4. \A i \in Jobs \ {j} : JobFits(i)'
  BY <1>1, <1>2, OtherJobs
<1>5. OnWire(j)' = {}
  <2>1. OnWire(j)' = OnWire(j)
    BY <1>1 DEF OnWire
  <2> QED  BY <1>1, <2>1, EndedIsQuiet
<1>6. heard[j] = "running" /\ job[j].todo = <<>> /\ job[j].pc = "start" /\ Len(<<>>) = 0
  BY <1>1 DEF JobFits
<1>7. TodoFits(j)'
  BY <1>1, <1>6 DEF TodoFits, Verdicts
<1>8. JobFits(j)'
  BY <1>1, <1>2, <1>5, <1>6, <1>7 DEF JobFits
<1> QED  BY <1>3, <1>4, <1>8 DEF ExecutorInv

\* The provider and its readers say nothing themselves.
LEMMA QuietStep ==
  ASSUME ExecutorInv, UNCHANGED <<cycle, wire, heard, at, job>>
  PROVE  ExecutorInv'
<1>1. ExecutorTypes'
  BY DEF ExecutorInv, ExecutorTypes
<1>2. \A j \in Jobs : JobFits(j)'
  BY OtherJobs
<1> QED  BY <1>1, <1>2 DEF ExecutorInv

LEMMA ReconnectStep ==
  ASSUME ExecutorInv, Reconnect
  PROVE  ExecutorInv'
<1>1. /\ cycle \in Nat \ {0} /\ cycle' = cycle + 1 /\ wire' = <<>> /\ Len(<<>>) = 0
      /\ UNCHANGED <<heard, at, job>>
      /\ at \in [Jobs -> Nat] /\ \A j \in Jobs : at[j] <= cycle
  BY DEF Reconnect, ExecutorInv, ExecutorTypes
<1>2. ExecutorTypes'
  <2>1. cycle' \in Nat \ {0} /\ \A j \in Jobs : at'[j] <= cycle'
    BY <1>1
  <2>2. wire' \in Seq([job : Jobs, kind : Kinds])
    BY <1>1
  <2> QED  BY <1>1, <2>1, <2>2 DEF ExecutorInv, ExecutorTypes
<1>3. ASSUME NEW j \in Jobs PROVE JobFits(j)'
  <2>1. OnWire(j)' = {}
    BY <1>1 DEF OnWire
  <2>2. at'[j] # cycle'
    BY <1>1
  <2> QED  BY <1>1, <2>1, <2>2 DEF ExecutorInv, JobFits
<1> QED  BY <1>2, <1>3 DEF ExecutorInv

\* What the server makes of the next event: never garbled.
LEMMA NextIsHeard ==
  ASSUME ExecutorInv, wire # <<>>
  PROVE  LET j == wire[1].job
             kind == wire[1].kind
             next == Heard(heard[j], kind)
         IN  /\ j \in Jobs /\ 1 \in OnWire(j) /\ EventFits(j, 1) /\ Head(wire) = wire[1]
             /\ kind = "status" => next = heard[j]
             /\ kind = "chunk" => next = "speaking"
             /\ kind = "resume_failed" => next = "failing" /\ heard[j] # "failing"
             /\ kind = "done" => next = "answered" /\ heard[j] = "speaking"
             /\ kind = "error" => next = "over"
             /\ heard[j] = "failing" => kind = "error"
             /\ heard[j] \notin Verdicts
             /\ kind \in Kinds
<1>1. PICK j, kind : j = wire[1].job /\ kind = wire[1].kind
  OBVIOUS
<1>2. wire \in Seq([job : Jobs, kind : Kinds])
  BY DEF ExecutorInv, ExecutorTypes
<1>3. 1 \in 1 .. Len(wire) /\ wire[1] \in [job : Jobs, kind : Kinds] /\ Head(wire) = wire[1]
  <2>1. Len(wire) \in Nat \ {0} /\ wire \in [1 .. Len(wire) -> [job : Jobs, kind : Kinds]]
    BY <1>2, LenProperties, EmptySeq
  <2> QED  BY <1>2, <2>1
<1>4. j \in Jobs /\ kind \in Kinds /\ 1 \in OnWire(j)
  BY <1>1, <1>3 DEF OnWire
<1>5. EventFits(j, 1)
  BY <1>4 DEF ExecutorInv, JobFits
<1>6. heard[j] \notin Verdicts /\ (heard[j] = "failing" => kind = "error")
  BY <1>1, <1>5 DEF EventFits
<1>7. kind = "done" => heard[j] = "speaking"
  <2>1. \A k \in OnWire(j) : ~(k < 1)
    BY DEF OnWire
  <2> QED  BY <1>1, <1>5, <2>1 DEF EventFits
<1>8. /\ kind = "status" => Heard(heard[j], kind) = heard[j]
      /\ kind = "chunk" => Heard(heard[j], kind) = "speaking"
      /\ kind = "resume_failed" => Heard(heard[j], kind) = "failing"
      /\ kind = "done" => Heard(heard[j], kind) = "answered"
      /\ kind = "error" => Heard(heard[j], kind) = "over"
  BY <1>6, <1>7 DEF Heard
<1> QED  BY <1>1, <1>3, <1>4, <1>5, <1>6, <1>7, <1>8

\* The wire without its first event.
LEMMA WireMoves ==
  ASSUME ExecutorInv, wire # <<>>, wire' = Tail(wire)
  PROVE  /\ wire' \in Seq([job : Jobs, kind : Kinds])
         /\ \A j \in Jobs :
              /\ \A k \in OnWire(j)' :
                   k \in Nat /\ k # 0 /\ k + 1 \in OnWire(j) /\ wire'[k] = wire[k + 1]
              /\ \A k \in OnWire(j) : k # 1 =>
                   k - 1 \in Nat /\ k - 1 \in OnWire(j)' /\ wire'[k - 1] = wire[k]
<1>1. wire \in Seq([job : Jobs, kind : Kinds])
  BY DEF ExecutorInv, ExecutorTypes
<1>2. PICK n, m : n = Len(wire) /\ m = Len(wire')
  OBVIOUS
<1>3. /\ wire' \in Seq([job : Jobs, kind : Kinds]) /\ n \in Nat \ {0} /\ m = n - 1
      /\ \A k \in 1 .. m : wire'[k] = wire[k + 1]
  BY <1>1, <1>2, HeadTailProperties, LenProperties, EmptySeq
<1>4. \A k \in 1 .. m : k \in Nat /\ k # 0 /\ k + 1 \in 1 .. n
  BY <1>3
<1>5. \A k \in 1 .. n : k # 1 => k - 1 \in Nat /\ k - 1 \in 1 .. m /\ (k - 1) + 1 = k
  BY <1>3
<1>6. /\ \A j \in Jobs : OnWire(j) = {k \in 1 .. n : wire[k].job = j}
      /\ \A j \in Jobs : OnWire(j)' = {k \in 1 .. m : wire'[k].job = j}
  BY <1>2 DEF OnWire
<1>7. \A k \in 1 .. n : k # 1 => wire'[k - 1] = wire[k]
  BY <1>3, <1>5
<1>8. ASSUME NEW j \in Jobs, NEW k \in OnWire(j)'
      PROVE  k \in Nat /\ k # 0 /\ k + 1 \in OnWire(j) /\ wire'[k] = wire[k + 1]
  <2>1. k \in 1 .. m /\ wire'[k].job = j
    BY <1>6
  <2> QED  BY <1>3, <1>4, <1>6, <2>1
<1>9. ASSUME NEW j \in Jobs, NEW k \in OnWire(j), k # 1
      PROVE  k - 1 \in Nat /\ k - 1 \in OnWire(j)' /\ wire'[k - 1] = wire[k]
  <2>1. k \in 1 .. n /\ wire[k].job = j
    BY <1>6
  <2> QED  BY <1>5, <1>6, <1>7, <1>9, <2>1
<1> QED  BY <1>3, <1>8, <1>9

LEMMA DeliverStep ==
  ASSUME ExecutorInv, DeliverEvent
  PROVE  ExecutorInv'
<1>1. PICK j, kind : j = wire[1].job /\ kind = wire[1].kind
  OBVIOUS
<1>2. /\ j \in Jobs /\ 1 \in OnWire(j) /\ EventFits(j, 1)
      /\ kind = "status" => Heard(heard[j], kind) = heard[j]
      /\ kind = "chunk" => Heard(heard[j], kind) = "speaking"
      /\ kind = "resume_failed" => Heard(heard[j], kind) = "failing"
      /\ kind = "done" => Heard(heard[j], kind) = "answered"
      /\ kind = "error" => Heard(heard[j], kind) = "over"
      /\ heard[j] = "failing" => kind = "error"
      /\ heard[j] \notin Verdicts /\ kind \in Kinds
      /\ Head(wire) = wire[1]
  BY <1>1, NextIsHeard DEF DeliverEvent
<1>3. /\ wire' = Tail(wire) /\ UNCHANGED <<cycle, at, job>>
      /\ heard' = [heard EXCEPT ![j] = Heard(heard[j], kind)]
      /\ heard \in [Jobs -> {"running", "speaking", "failing", "answered", "over"}]
  BY <1>1, <1>2 DEF DeliverEvent, ExecutorInv, ExecutorTypes
<1>4. /\ heard' \in [Jobs -> {"running", "speaking", "failing", "answered", "over"}]
      /\ heard'[j] = Heard(heard[j], kind)
      /\ \A i \in Jobs \ {j} : heard'[i] = heard[i]
  BY <1>2, <1>3 DEF Kinds, Final
<1>5. /\ wire' \in Seq([job : Jobs, kind : Kinds])
      /\ \A i \in Jobs :
           /\ \A k \in OnWire(i)' :
                k \in Nat /\ k # 0 /\ k + 1 \in OnWire(i) /\ wire'[k] = wire[k + 1]
           /\ \A k \in OnWire(i) : k # 1 =>
                k - 1 \in Nat /\ k - 1 \in OnWire(i)' /\ wire'[k - 1] = wire[k]
  BY <1>3, WireMoves DEF DeliverEvent
<1>6. ExecutorTypes'
  BY <1>3, <1>4, <1>5 DEF ExecutorInv, ExecutorTypes
<1>7. ASSUME NEW i \in Jobs
      PROVE  /\ JobFits(i) /\ i # j => 1 \notin OnWire(i)
             /\ \A k \in OnWire(i) : k \in Nat /\ k # 0
  BY <1>1 DEF ExecutorInv, OnWire
<1>8. ASSUME NEW i \in Jobs \ {j} PROVE JobFits(i)'
  <2>1. JobFits(i) /\ heard'[i] = heard[i] /\ 1 \notin OnWire(i)
    BY <1>4, <1>7 DEF ExecutorInv
  <2>2. Spoken(i) => Spoken(i)'
    BY <1>5, <2>1 DEF Spoken
  <2>3. ASSUME NEW k \in OnWire(i)' PROVE EventFits(i, k)'
    <3>1. k \in Nat /\ k + 1 \in OnWire(i) /\ wire'[k] = wire[k + 1] /\ EventFits(i, k + 1)
      BY <1>5, <2>1 DEF JobFits
    <3>2. \A m \in OnWire(i)' : m \in Nat /\ m + 1 \in OnWire(i) /\ wire'[m] = wire[m + 1]
      BY <1>5
    <3>3. \A m \in OnWire(i)' : /\ m + 1 <= k + 1 => m <= k
                                /\ m > k => m + 1 > k + 1
      BY <3>1, <3>2
    <3>4. wire'[k].kind = "done" =>
            heard[i] = "speaking" \/ \E m \in OnWire(i)' : m < k /\ wire'[m].kind = "chunk"
      <4>1. ASSUME NEW m \in OnWire(i), m < k + 1, wire[m].kind = "chunk"
            PROVE  m - 1 \in OnWire(i)' /\ m - 1 < k /\ wire'[m - 1].kind = "chunk"
        BY <1>5, <1>7, <2>1, <3>1, <4>1
      <4> QED  BY <3>1, <4>1 DEF EventFits
    <3>5. /\ at[i] = cycle /\ heard[i] \notin Verdicts
          /\ heard[i] = "failing" => wire'[k].kind = "error"
          /\ wire'[k].kind \in Final \cup {"resume_failed"} => job[i].pc = "over"
          /\ wire'[k].kind \in Final => job[i].todo = <<>> /\ \A m \in OnWire(i)' : m <= k
          /\ wire'[k].kind = "resume_failed" =>
               /\ job[i].todo = <<>> \/ job[i].todo = <<"error">>
               /\ \A m \in OnWire(i)' : m > k => wire'[m].kind = "error"
      BY <3>1, <3>2, <3>3 DEF EventFits
    <3> QED  BY <1>3, <2>1, <3>4, <3>5 DEF EventFits
  <2>4. at[i] = cycle => TodoFits(i)'
    BY <1>3, <2>1, <2>2 DEF JobFits, TodoFits
  <2> QED  BY <1>3, <2>1, <2>3, <2>4 DEF JobFits
<1>9. /\ kind \in Final => job[j].todo = <<>> /\ job[j].pc = "over" /\ OnWire(j)' = {}
      /\ kind = "resume_failed" =>
           /\ job[j].todo = <<>> \/ job[j].todo = <<"error">>
           /\ job[j].pc = "over" /\ \A k \in OnWire(j)' : wire'[k].kind = "error"
  <2>1. ASSUME NEW k \in OnWire(j)'
        PROVE  /\ k + 1 \in OnWire(j) /\ wire'[k] = wire[k + 1]
               /\ ~(k + 1 <= 1) /\ k + 1 > 1
    BY <1>2, <1>5
  <2>2. kind \in Final => \A k \in OnWire(j)' : FALSE
    BY <1>1, <1>2, <2>1 DEF EventFits
  <2>3. kind = "resume_failed" => \A k \in OnWire(j)' : wire'[k].kind = "error"
    BY <1>1, <1>2, <2>1 DEF EventFits
  <2> QED  BY <1>1, <1>2, <2>2, <2>3 DEF EventFits
<1>10. kind = "status" \/ kind = "chunk" \/ kind = "resume_failed" \/ kind \in Final
  BY <1>2 DEF Kinds
<1>11. kind = "done" \/ kind = "error" <=> kind \in Final
  BY DEF Final
<1>12. ASSUME kind = "status" \/ kind = "chunk"
       PROVE  /\ Spoken(j) => Spoken(j)'
              /\ heard'[j] \notin Verdicts /\ heard'[j] # "failing"
              /\ heard[j] = "speaking" => heard'[j] = "speaking"
  <2>1. heard'[j] = heard[j] \/ heard'[j] = "speaking"
    BY <1>2, <1>4, <1>12
  <2>2. ASSUME NEW k \in OnWire(j), wire[k].kind = "chunk"
        PROVE  Spoken(j)'
    <3>1. CASE k = 1
      BY <1>1, <1>2, <1>4, <2>2, <3>1 DEF Spoken
    <3>2. CASE k # 1
      BY <1>2, <1>5, <2>2, <3>2 DEF Spoken
    <3> QED  BY <3>1, <3>2
  <2>3. heard[j] # "failing"
    BY <1>2, <1>12
  <2> QED  BY <1>2, <2>1, <2>2, <2>3 DEF Spoken, Verdicts
<1>13. ASSUME NEW k \in OnWire(j)' PROVE EventFits(j, k)'
  <2>1. /\ k \in Nat /\ k # 0 /\ k + 1 \in OnWire(j) /\ wire'[k] = wire[k + 1]
        /\ EventFits(j, k + 1)
    BY <1>2, <1>5 DEF ExecutorInv, JobFits
  <2>2. kind \notin Final
    BY <1>9
  <2>3. CASE kind = "resume_failed"
    <3>1. heard'[j] = "failing" /\ wire'[k].kind = "error"
      BY <1>2, <1>4, <1>9, <2>3
    <3>2. job[j].pc = "over" /\ job[j].todo = <<>> /\ at[j] = cycle
      BY <1>9, <2>1, <2>3, <3>1 DEF EventFits, Final
    <3>3. \A m \in OnWire(j)' : m <= k
      <4>1. \A m \in OnWire(j)' : m \in Nat /\ m + 1 \in OnWire(j)
        BY <1>2, <1>5
      <4>2. \A m \in OnWire(j) : m <= k + 1
        BY <2>1, <3>1 DEF EventFits, Final
      <4>3. \A m \in OnWire(j)' : m + 1 <= k + 1 /\ m \in Nat
        BY <4>1, <4>2
      <4> QED  BY <2>1, <4>3
    <3> QED  BY <1>3, <3>1, <3>2, <3>3 DEF EventFits, Verdicts
  <2>4. CASE kind = "status" \/ kind = "chunk"
    <3>1. \A m \in OnWire(j)' : m \in Nat /\ m + 1 \in OnWire(j) /\ wire'[m] = wire[m + 1]
      BY <1>2, <1>5
    <3>2. \A m \in OnWire(j)' : /\ m + 1 <= k + 1 => m <= k
                                /\ m > k => m + 1 > k + 1
      BY <2>1, <3>1
    <3>3. wire'[k].kind = "done" =>
            heard'[j] = "speaking" \/ \E m \in OnWire(j)' : m < k /\ wire'[m].kind = "chunk"
      <4>1. ASSUME NEW m \in OnWire(j), m < k + 1, wire[m].kind = "chunk", m # 1
            PROVE  m - 1 \in OnWire(j)' /\ m - 1 < k /\ wire'[m - 1].kind = "chunk"
        BY <1>2, <1>5, <1>7, <2>1, <4>1
      <4>2. wire[1].kind = "chunk" => heard'[j] = "speaking"
        BY <1>1, <1>2, <1>4
      <4>3. wire'[k].kind = "done" =>
              heard[j] = "speaking" \/ \E m \in OnWire(j) : m < k + 1 /\ wire[m].kind = "chunk"
        BY <2>1 DEF EventFits
      <4> QED  BY <1>12, <2>4, <4>1, <4>2, <4>3
    <3>4. /\ at[j] = cycle
          /\ wire'[k].kind \in Final \cup {"resume_failed"} => job[j].pc = "over"
          /\ wire'[k].kind \in Final => job[j].todo = <<>> /\ \A m \in OnWire(j)' : m <= k
          /\ wire'[k].kind = "resume_failed" =>
               /\ job[j].todo = <<>> \/ job[j].todo = <<"error">>
               /\ \A m \in OnWire(j)' : m > k => wire'[m].kind = "error"
      BY <2>1, <3>1, <3>2 DEF EventFits
    <3> QED  BY <1>3, <1>12, <2>4, <3>3, <3>4 DEF EventFits
  <2> QED  BY <1>10, <2>2, <2>3, <2>4
<1>14. TodoFits(j)'
  <2>1. at[j] = cycle /\ TodoFits(j)
    BY <1>2 DEF EventFits, ExecutorInv, JobFits
  <2>2. CASE kind \in Final
    <3>1. job'[j].todo = <<>> /\ job'[j].pc = "over" /\ Len(<<>>) = 0
      BY <1>3, <1>9, <2>2
    <3> QED  BY <3>1 DEF TodoFits
  <2>3. CASE kind = "resume_failed"
    <3>1. /\ job'[j].todo = <<>> \/ job'[j].todo = <<"error">>
          /\ job'[j].pc = "over" /\ heard'[j] = "failing"
          /\ Len(<<>>) = 0 /\ Len(<<"error">>) = 1 /\ <<"error">>[1] = "error"
      BY <1>2, <1>3, <1>4, <1>9, <2>3
    <3>2. heard'[j] \notin Verdicts /\ "error" # "resume_failed" /\ "error" # "done"
      BY <3>1 DEF Verdicts
    <3>3. CASE job'[j].todo = <<>>
      BY <3>1, <3>2, <3>3 DEF TodoFits
    <3>4. CASE job'[j].todo = <<"error">>
      BY <3>1, <3>2, <3>4 DEF TodoFits
    <3> QED  BY <3>1, <3>3, <3>4
  <2>4. CASE kind = "status" \/ kind = "chunk"
    <3>1. job'[j] = job[j]
      BY <1>3
    <3> QED  BY <1>12, <2>1, <2>4, <3>1 DEF TodoFits
  <2> QED  BY <1>10, <2>2, <2>3, <2>4
<1>15. JobFits(j)'
  <2>1. at'[j] # 0
    BY <1>2, <1>3 DEF EventFits, ExecutorInv, ExecutorTypes
  <2> QED  BY <1>2, <1>3, <1>13, <1>14, <2>1 DEF ExecutorInv, JobFits
<1> QED  BY <1>6, <1>8, <1>15 DEF ExecutorInv

\* The steps that neither send nor deliver leave what was heard alone.
StaysHeard == UNCHANGED <<cycle, heard, at>>

LEMMA TaskStep ==
  ASSUME ExecutorInv, NEW j \in Jobs, Task(j)
  PROVE  ExecutorInv' /\ StaysHeard
<1>1. StaysHeard
  BY DEF Task, StaysHeard, SendEvent, SendAfterEnd, ResetOrCancel, TranscribeStart,
         TranscribeWrite, RefuseMessage, StartMessage, Spawn, TakeLine, Finish
<1>2. ExecutorInv'
  BY SendStep, SendAfterEndStep, CommandSteps, SpawnStep, TakeLineStep, FinishStep DEF Task
<1> QED  BY <1>1, <1>2

LEMMA ExecutorInvStep == ExecutorInv /\ [ExecutorNext]_executorVars => ExecutorInv'
<1> SUFFICES ASSUME ExecutorInv, [ExecutorNext]_executorVars
             PROVE  ExecutorInv'
  OBVIOUS
<1>1. ASSUME NEW j \in Jobs, Receive(j) PROVE ExecutorInv'
  BY <1>1, ReceiveStep
<1>2. ASSUME NEW j \in Jobs, Task(j) PROVE ExecutorInv'
  BY <1>2, TaskStep
<1>3. ASSUME NEW j \in Jobs,
             Exit(j) \/ (\E line \in Lines : PrintLine(j, line))
             \/ \E s \in Sources : Reader(j, s) \/ LineFails(j, s)
      PROVE  ExecutorInv'
  BY <1>3, QuietStep DEF Exit, PrintLine, Reader, Read, ReaderEnds, LineFails, Breaks
<1>4. CASE UNCHANGED executorVars
  BY <1>4, QuietStep DEF executorVars
<1> QED
  BY <1>1, <1>2, <1>3, <1>4, DeliverStep, ReconnectStep DEF ExecutorNext

-----------------------------------------------------------------------------
(* The executor answers as AgentAnswers says.                              *)

AnswerStates == {"none", "running", "speaking", "failing", "answered", "over"}

AnswerReads ==
  /\ AnswerOf \in [Jobs -> AnswerStates]
  /\ \A j \in Jobs :
       /\ at[j] = 0 => AnswerOf[j] = "none"
       /\ at[j] # 0 /\ heard[j] \in Verdicts => AnswerOf[j] = heard[j]
       /\ at[j] # 0 /\ heard[j] \notin Verdicts =>
            AnswerOf[j] = IF at[j] = cycle THEN heard[j] ELSE "over"
       /\ heard[j] \notin Verdicts => heard[j] \in {"running", "speaking", "failing"}

LEMMA AnswerFacts == ExecutorInv => AnswerReads
<1> SUFFICES ASSUME ExecutorInv PROVE AnswerReads
  OBVIOUS
<1>1. \A j \in Jobs :
        heard[j] \in {"running", "speaking", "failing", "answered", "over"}
  BY DEF ExecutorInv, ExecutorTypes
<1> QED  BY <1>1 DEF AnswerReads, AnswerOf, AnswerStates, Verdicts

LEMMA NextAnswerFacts == ExecutorInv' => AnswerReads'
BY AnswerFacts, PTL

LEMMA OneAnswer ==
  ASSUME ExecutorInv, ExecutorInv', NEW j \in Jobs, NEW to, AnswerOf'[j] = to,
         \A i \in Jobs \ {j} : AnswerOf'[i] = AnswerOf[i]
  PROVE  AnswerOf' = [AnswerOf EXCEPT ![j] = to]
BY AnswerFacts, NextAnswerFacts DEF AnswerReads

LEMMA SameAnswers ==
  ASSUME ExecutorInv, ExecutorInv', StaysHeard
  PROVE  AnswerOf' = AnswerOf
BY AnswerFacts, NextAnswerFacts DEF AnswerReads, StaysHeard

LEMMA ReceiveBegins ==
  ASSUME ExecutorInv, NEW j \in Jobs, Receive(j)
  PROVE  Answers!Next
<1>1. ExecutorInv'
  BY ReceiveStep
<1>2. /\ at[j] = 0 /\ at' = [at EXCEPT ![j] = cycle] /\ UNCHANGED <<cycle, heard>>
      /\ at \in [Jobs -> Nat] /\ cycle # 0 /\ heard[j] = "running"
  BY DEF Receive, ExecutorInv, ExecutorTypes, JobFits
<1>3. at'[j] = cycle /\ \A i \in Jobs \ {j} : at'[i] = at[i]
  BY <1>2
<1>4. AnswerOf[j] = "none" /\ AnswerOf'[j] = "running"
  BY <1>1, <1>2, <1>3, AnswerFacts, NextAnswerFacts DEF AnswerReads, Verdicts
<1>5. \A i \in Jobs \ {j} : AnswerOf'[i] = AnswerOf[i]
  BY <1>1, <1>2, <1>3, AnswerFacts, NextAnswerFacts DEF AnswerReads
<1>6. AnswerOf' = [AnswerOf EXCEPT ![j] = "running"]
  BY <1>1, <1>4, <1>5, OneAnswer
<1>7. Answers!Begin(j)
  BY <1>4, <1>6 DEF Answers!Begin, Answers!Becomes
<1> QED  BY <1>7 DEF Answers!Next

LEMMA DeliverAnswers ==
  ASSUME ExecutorInv, DeliverEvent
  PROVE  Answers!Next \/ UNCHANGED AnswerOf
<1>1. ExecutorInv'
  BY DeliverStep
<1>2. PICK j, kind : j = wire[1].job /\ kind = wire[1].kind
  OBVIOUS
<1>3. /\ j \in Jobs /\ EventFits(j, 1)
      /\ kind = "status" => Heard(heard[j], kind) = heard[j]
      /\ kind = "chunk" => Heard(heard[j], kind) = "speaking"
      /\ kind = "resume_failed" => Heard(heard[j], kind) = "failing" /\ heard[j] # "failing"
      /\ kind = "done" => Heard(heard[j], kind) = "answered" /\ heard[j] = "speaking"
      /\ kind = "error" => Heard(heard[j], kind) = "over"
      /\ heard[j] = "failing" => kind = "error"
      /\ heard[j] \notin Verdicts /\ kind \in Kinds
      /\ Head(wire) = wire[1]
  BY <1>2, NextIsHeard DEF DeliverEvent
<1>4. /\ UNCHANGED <<cycle, at>> /\ heard' = [heard EXCEPT ![j] = Heard(heard[j], kind)]
      /\ heard \in [Jobs -> {"running", "speaking", "failing", "answered", "over"}]
      /\ at[j] = cycle /\ cycle # 0
  BY <1>2, <1>3 DEF DeliverEvent, ExecutorInv, ExecutorTypes, EventFits
<1>5. /\ heard'[j] = Heard(heard[j], kind)
      /\ \A i \in Jobs \ {j} : heard'[i] = heard[i]
  BY <1>3, <1>4
<1>6. \A i \in Jobs \ {j} : AnswerOf'[i] = AnswerOf[i]
  <2>1. AnswerReads /\ AnswerReads'
    BY <1>1, AnswerFacts, NextAnswerFacts
  <2>2. UNCHANGED <<cycle, at>>
    BY <1>4
  <2> QED  BY <1>5, <2>1, <2>2 DEF AnswerReads
<1>7. /\ AnswerOf[j] = heard[j] /\ heard[j] \in {"running", "speaking", "failing"}
      /\ AnswerOf'[j] = heard'[j]
  <2>1. AnswerReads /\ AnswerReads'
    BY <1>1, AnswerFacts, NextAnswerFacts
  <2>2. UNCHANGED <<cycle, at>> /\ at[j] # 0 /\ at[j] = cycle
    BY <1>4
  <2> QED  BY <1>3, <2>1, <2>2 DEF AnswerReads
<1>8. AnswerOf' = [AnswerOf EXCEPT ![j] = heard'[j]]
  <2>1. PICK to : to = heard'[j]
    OBVIOUS
  <2>2. AnswerOf'[j] = to
    BY <1>7, <2>1
  <2> QED  BY <1>1, <1>3, <1>6, <2>1, <2>2, OneAnswer
<1>9. CASE heard'[j] = heard[j]
  BY <1>7, <1>8, <1>9, AnswerFacts DEF AnswerReads
<1>10. CASE heard'[j] # heard[j] /\ kind = "chunk"
  <2>1. heard[j] = "running" /\ heard'[j] = "speaking"
    BY <1>3, <1>5, <1>7, <1>10
  <2>2. Answers!Speak(j)
    BY <1>7, <1>8, <2>1 DEF Answers!Speak, Answers!Becomes
  <2> QED  BY <1>3, <2>2 DEF Answers!Next
<1>11. CASE kind = "resume_failed"
  <2>1. Answers!ResumeFailed(j)
    BY <1>3, <1>5, <1>7, <1>8, <1>11 DEF Answers!ResumeFailed, Answers!Becomes
  <2> QED  BY <1>3, <2>1 DEF Answers!Next
<1>12. CASE kind = "done"
  <2>1. Answers!Answered(j)
    BY <1>3, <1>5, <1>7, <1>8, <1>12 DEF Answers!Answered, Answers!Becomes
  <2> QED  BY <1>3, <2>1 DEF Answers!Next
<1>13. CASE kind = "error"
  <2>1. Answers!Over(j)
    BY <1>3, <1>5, <1>7, <1>8, <1>13 DEF Answers!Over, Answers!Becomes, Answers!Working
  <2> QED  BY <1>3, <2>1 DEF Answers!Next
<1> QED
  BY <1>3, <1>5, <1>9, <1>10, <1>11, <1>12, <1>13 DEF Kinds, Final

LEMMA ReconnectEnds ==
  ASSUME ExecutorInv, Reconnect
  PROVE  Answers!Next
<1>1. ExecutorInv'
  BY ReconnectStep
<1>2. /\ UNCHANGED <<heard, at>> /\ \A j \in Jobs : at'[j] # cycle'
  BY DEF Reconnect, ExecutorInv, ExecutorTypes
<1> DEFINE lost == {j \in Jobs : AnswerOf[j] \in Answers!Working /\ AnswerOf'[j] = "over"}
<1>3. ASSUME NEW j \in Jobs
      PROVE  \/ AnswerOf'[j] = AnswerOf[j]
             \/ AnswerOf[j] \in Answers!Working /\ AnswerOf'[j] = "over"
  BY <1>1, <1>2, AnswerFacts, NextAnswerFacts DEF AnswerReads, Answers!Working
<1>4. ASSUME NEW j \in Jobs
      PROVE  AnswerOf'[j] = IF j \in lost THEN "over" ELSE AnswerOf[j]
  BY <1>3
<1>5. lost \in SUBSET {j \in Jobs : AnswerOf[j] \in Answers!Working}
  OBVIOUS
<1> HIDE DEF lost
<1>6. AnswerOf' = [j \in Jobs |-> IF j \in lost THEN "over" ELSE AnswerOf[j]]
  BY <1>1, <1>4, NextAnswerFacts DEF AnswerReads
<1>7. Answers!AllOver
  BY <1>5, <1>6 DEF Answers!AllOver
<1> QED  BY <1>7 DEF Answers!Next

LEMMA ExecutorAnswers ==
  ExecutorInv /\ [ExecutorNext]_executorVars => [Answers!Next]_AnswerOf
<1> SUFFICES ASSUME ExecutorInv, [ExecutorNext]_executorVars
             PROVE  Answers!Next \/ UNCHANGED AnswerOf
  OBVIOUS
<1>1. ExecutorInv'
  BY ExecutorInvStep
<1>2. ASSUME NEW j \in Jobs, Receive(j) PROVE Answers!Next
  BY <1>2, ReceiveBegins
<1>3. ASSUME NEW j \in Jobs, Task(j) PROVE UNCHANGED AnswerOf
  BY <1>1, <1>3, TaskStep, SameAnswers
<1>4. ASSUME NEW j \in Jobs,
             Exit(j) \/ (\E line \in Lines : PrintLine(j, line))
             \/ \E s \in Sources : Reader(j, s) \/ LineFails(j, s)
      PROVE  UNCHANGED AnswerOf
  <2>1. StaysHeard
    BY <1>4 DEF Exit, PrintLine, Reader, Read, ReaderEnds, LineFails, Breaks, StaysHeard
  <2> QED  BY <1>1, <2>1, SameAnswers
<1>5. CASE UNCHANGED executorVars
  <2>1. StaysHeard
    BY <1>5 DEF executorVars, StaysHeard
  <2> QED  BY <1>1, <2>1, SameAnswers
<1> QED
  BY <1>2, <1>3, <1>4, <1>5, DeliverAnswers, ReconnectEnds DEF ExecutorNext

\* For every number of jobs, whatever the providers print, at every capacity of
\* the channels and however often the connection ends: the server hears text
\* before an answer, one verdict for each command, and nothing of it after that
\* (execute_terminal_agent_message and its send_widget_event calls).
THEOREM AnswersImplemented == ExecutorSpec => AnswerSpec
<1>1. ExecutorInit => Answers!Init
  <2> SUFFICES ASSUME ExecutorInit PROVE Answers!Init
    OBVIOUS
  <2>1. ExecutorInv /\ \A j \in Jobs : at[j] = 0
    BY ExecutorInvInit DEF ExecutorInit
  <2>2. \A j \in Jobs : AnswerOf[j] = "none"
    BY <2>1, AnswerFacts DEF AnswerReads
  <2> QED  BY <2>1, <2>2, AnswerFacts DEF AnswerReads, Answers!Init
<1> QED
  BY <1>1, ExecutorInvInit, ExecutorInvStep, ExecutorAnswers, PTL
     DEF ExecutorSpec, AnswerSpec, Answers!Spec

=============================================================================
