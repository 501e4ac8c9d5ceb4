---------------------------- MODULE RemoteCaches ----------------------------
(***************************************************************************)
(* The server's two copies of remote data: the model catalog of the        *)
(* providers (domains/llm/server/service.ts and its catalog repository,    *)
(* read by the terminal agent's GET models) and the weather forecast       *)
(* (widgets/weather/server/module.ts and its repository).                  *)
(*                                                                         *)
(* A request reads the stored row, and when that is missing, expired or    *)
(* refused by the caller, asks the provider, stores what comes back and    *)
(* answers with it; when the provider does not deliver, it answers with    *)
(* the row it read before it asked.  Several requests do this at once.     *)
(* The catalog retries, the forecast does not.  The two copies share no    *)
(* state, so a behaviour watches one of them, chosen in Init.              *)
(*                                                                         *)
(* What is stored is the version of the provider's data it shows; 0 is no  *)
(* row.                                                                    *)
(***************************************************************************)
EXTENDS Secrets

CONSTANTS Requests,   \* slots for requests under way
          MaxVersion, \* bound on the versions a provider goes through
          Retries,    \* the catalog's retries after a first attempt
          Error       \* the answer of a failed request

ASSUME RetriesAssumption == Retries \in Nat
ASSUME VersionAssumption == MaxVersion \in Nat \ {0} /\ Error \notin 0..MaxVersion
ASSUME SecretsAssumption ==
    /\ Preloaded \in Seq(Keys)
    /\ Required \subseteq {Preloaded[i] : i \in 1..Len(Preloaded)}
    /\ Loader \notin Callers

VARIABLES kind,     \* the copy watched: "models" or "weather"
          row,      \* the version stored
          fresh,    \* the stored row is younger than its time to live
          provider, \* the version the provider would deliver now
          request   \* request[r]: where a request stands

cacheVars == <<kind, row, fresh, provider, request>>
vars == <<secretVars, cacheVars>>

Versions == 0..MaxVersion

\* held is the row the request read, got what the provider delivered to it
\* or, once answered, the answer.
Idle == [at |-> "idle"]
Answered == [at : {"answered"}, held : Versions, got : Versions \cup {Error}]
RequestStates ==
    {Idle} \cup [at : {"startup"}, force : BOOLEAN]
           \cup [at : {"asking", "sleeping"}, held : Versions, attempt : 0..Retries]
           \cup [at : {"delivered"}, held : Versions, got : Versions]
           \cup Answered

TypeOK ==
    /\ SecretsTypeOK
    /\ kind \in {"models", "weather"}
    /\ row \in Versions
    /\ fresh \in BOOLEAN
    /\ provider \in 1..MaxVersion
    /\ request \in [Requests -> RequestStates]

\* A row may be left by an earlier process.
Init ==
    /\ SecretsInit
    /\ kind \in {"models", "weather"}
    /\ row \in {0, 1}
    /\ fresh \in {FALSE, row = 1}
    /\ provider = 1
    /\ request = [r \in Requests |-> Idle]

-----------------------------------------------------------------------------
(* Helpers.                                                                *)

At(r, place) == request[r].at = place

Goes(r, to) == request' = [request EXCEPT ![r] = to]

Answers(r, held, got) == Goes(r, [at |-> "answered", held |-> held, got |-> got])

Asking(held, attempt) == [at |-> "asking", held |-> held, attempt |-> attempt]

\* mutant: a refresh that fails is the catalog's error, whatever it had read
FailsAtOnce(r) ==
    LET held == request[r].held
    IN  Answers(r, held, IF held = 0 \/ kind = "models" THEN Error ELSE held)

\* What a request falls back to is the row it read before it asked.
FallsBack(r) ==
    LET held == request[r].held
    IN  Answers(r, held, IF held = 0 THEN Error ELSE held)

-----------------------------------------------------------------------------
(* A request up to its first wait.                                         *)

\* A widget asks, or asks for a refresh; the middleware holds it back.
Arrive(r, force) ==
    /\ At(r, "idle") \/ At(r, "answered")
    /\ Goes(r, [at |-> "startup", force |-> force])
    /\ UNCHANGED <<secretVars, kind, row, fresh, provider>>

\* The startup failed, and with it every request from then on.
Refuse(r) ==
    /\ At(r, "startup")
    /\ Refusing
    /\ Answers(r, 0, Error)
    /\ UNCHANGED <<secretVars, kind, row, fresh, provider>>

Reads(r) ==
    /\ At(r, "startup")
    /\ Serving
    /\ UNCHANGED <<secretVars, kind, row, fresh, provider>>

\* The database cannot be read.
ReadFails(r) == Reads(r) /\ Answers(r, 0, Error)

\* A fresh row answers, unless a refresh is asked for.
IsFresh(r) == ~request[r].force /\ row > 0 /\ fresh

AnswerFresh(r) == Reads(r) /\ IsFresh(r) /\ Answers(r, row, row)

\* The agent has no API key: the catalog answers with what it has, if only
\* an empty list.
AnswerKeyless(r) ==
    /\ Reads(r)
    /\ kind = "models"
    /\ ~IsFresh(r)
    /\ Answers(r, row, row)

Ask(r) == Reads(r) /\ ~IsFresh(r) /\ Goes(r, Asking(row, 0))

-----------------------------------------------------------------------------
(* A request that waits for the provider.                                  *)

Unstored == UNCHANGED <<secretVars, kind, row, fresh, provider>>

\* The provider answers with its data of that moment; the body is still to
\* be read.
Deliver(r) ==
    /\ At(r, "asking")
    /\ Goes(r, [at |-> "delivered", held |-> request[r].held, got |-> provider])
    /\ Unstored

\* mutant: the attempts are not counted
NotCounted(attempt) == attempt

Counted(attempt) == attempt + 1

\* No answer in time, a 429 or a 5xx: the catalog sleeps and tries again.
FailForNow(r) ==
    /\ At(r, "asking")
    /\ kind = "models"
    /\ request[r].attempt < Retries
    /\ Goes(r, [request[r] EXCEPT !.at = "sleeping"])
    /\ Unstored

Wake(r) ==
    /\ At(r, "sleeping")
    /\ Goes(r, Asking(request[r].held, Counted(request[r].attempt)))
    /\ Unstored

\* Any other failure, an answer of the wrong shape, or the last attempt.
FailForGood(r) ==
    /\ At(r, "asking")
    /\ FallsBack(r)
    /\ Unstored

\* A catalog without a usable model is not stored and is no error.
DeliverEmpty(r) ==
    /\ At(r, "asking")
    /\ kind = "models"
    /\ Answers(r, request[r].held, request[r].held)
    /\ Unstored

\* The rows of the copy are replaced in one transaction.
Store(r) ==
    /\ At(r, "delivered")
    /\ row' = request[r].got
    /\ fresh' = TRUE
    /\ Answers(r, request[r].held, request[r].got)
    /\ UNCHANGED <<secretVars, kind, provider>>

\* The write is refused: an error for the catalog, the copy for the
\* forecast.
StoreFails(r) ==
    /\ At(r, "delivered")
    /\ IF kind = "models" THEN Answers(r, request[r].held, Error) ELSE FallsBack(r)
    /\ Unstored

-----------------------------------------------------------------------------
(* The world.                                                              *)

Expire ==
    /\ fresh
    /\ fresh' = FALSE
    /\ UNCHANGED <<secretVars, kind, row, provider, request>>

ProviderMoves ==
    /\ provider < MaxVersion
    /\ provider' = provider + 1
    /\ UNCHANGED <<secretVars, kind, row, fresh, request>>

Asked(r) == Deliver(r) \/ FailForNow(r) \/ FailForGood(r) \/ DeliverEmpty(r)
Begin(r) == Refuse(r) \/ ReadFails(r) \/ AnswerFresh(r) \/ AnswerKeyless(r) \/ Ask(r)
Persist(r) == Store(r) \/ StoreFails(r)

Startup == SecretsNext /\ UNCHANGED cacheVars

Next ==
    \/ Startup \/ Expire \/ ProviderMoves
    \/ \E r \in Requests : \/ \E force \in BOOLEAN : Arrive(r, force)
                           \/ Begin(r) \/ Asked(r) \/ Wake(r) \/ Persist(r)

Spec == Init /\ [][Next]_vars

\* The vault, the port and the providers answer, refuse or time out; the
\* server takes its own steps.
Fairness ==
    /\ WF_vars(UNCHANGED cacheVars /\ (LoginAnswers \/ LoginFails))
    /\ \A c \in Owners : WF_vars(UNCHANGED cacheVars /\ (FetchAnswers(c) \/ FetchFails(c)))
    /\ WF_vars(UNCHANGED cacheVars /\ LoadNext)
    /\ WF_vars(UNCHANGED cacheVars /\ Settle)
    /\ WF_vars(UNCHANGED cacheVars /\ (Bind("bound") \/ Bind("refused")))
    /\ \A r \in Requests : /\ WF_vars(Begin(r))
                           /\ WF_vars(Asked(r))
                           /\ WF_vars(Wake(r))
                           /\ WF_vars(Persist(r))

FairSpec == Spec /\ Fairness

-----------------------------------------------------------------------------
(* Properties.                                                             *)

\* Nobody is answered with data older than what the database held when the
\* request was let in, although another request may meanwhile have replaced
\* that row by older data.  And a provider that fails, after however many
\* attempts, is no error for a request that read a row: that is answered with an
\* error only by the catalog, when the provider's answer cannot be stored
\* (service.ts 185-235, module.ts 144-158).
AnswerIsNoOlder ==
    [][\A r \in Requests :
          At(r, "answered")' /\ request'[r] # request[r] =>
              LET answer == request'[r]
              IN  \/ answer.got # Error /\ answer.got >= answer.held
                  \/ answer.got = Error /\ answer.held = 0
                  \/ answer.got = Error /\ kind = "models" /\ At(r, "delivered")]_vars

\* Every request is answered: the retries end, and a startup that fails
\* fails the requests it holds back (service.ts fetchWithRetry,
\* middleware.ts).
RequestsEnd == \A r \in Requests : (request[r] # Idle) ~> At(r, "answered")

\* In production the first HTTP request passes only with every required secret
\* at hand, although the port may be bound before that and the agents' own
\* lookups, which may cache a miss, run next to the loading (secrets.ts
\* preloadServerSecretsOnce, middleware.ts).
StartsWithSecrets ==
    [][Production /\ ~Serving /\ Serving' => \A k \in Required : Found(k)']_vars

=============================================================================
