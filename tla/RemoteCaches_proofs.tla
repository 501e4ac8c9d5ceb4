-------------------------- MODULE RemoteCaches_proofs --------------------------
(* Proofs of the safety properties of RemoteCaches and of the startup it     *)
(* extends, for every set of requests, secrets and lookups and every bound.  *)
EXTENDS RemoteCaches, TLAPS

-----------------------------------------------------------------------------
(* The startup.                                                            *)

\* Until the port is bound only the loading looks up, a secret at a time, and
\* a verdict that was reached meanwhile still holds.
Undisturbed ==
    /\ verdict # "pending" => loaded = Len(Preloaded)
    /\ lookup[Loader] # NoLookup => loaded < Len(Preloaded)
    /\ port # "bound" => \A c \in Callers : lookup[c] = NoLookup
    /\ port # "bound" /\ verdict = "ok" /\ Production => \A k \in Required : Found(k)

StartupInv == SecretsTypeOK /\ Undisturbed

LEMMA LoadedType ==
    ASSUME SecretsTypeOK
    PROVE  /\ Len(Preloaded) \in Nat /\ loaded \in Nat /\ loaded <= Len(Preloaded)
           /\ Loader \in Owners /\ NoLookup \in Lookups
<1>1. Len(Preloaded) \in Nat
    BY SecretsAssumption
<1>2. loaded \in Nat /\ loaded <= Len(Preloaded)
    BY <1>1 DEF SecretsTypeOK
<1> QED  BY <1>1, <1>2 DEF Owners, Lookups

LEMMA StartupInit == SecretsInit => StartupInv
<1> SUFFICES ASSUME SecretsInit PROVE StartupInv
    OBVIOUS
<1>1. Len(Preloaded) \in Nat
    BY SecretsAssumption
<1>2. SecretsTypeOK
    BY <1>1 DEF SecretsInit, SecretsTypeOK, Lookups
<1>3. Undisturbed
    BY SecretsAssumption DEF SecretsInit, Undisturbed, Owners
<1> QED  BY <1>2, <1>3 DEF StartupInv

\* A lookup that begins: what it may change, and what it needs.
LEMMA GetStep ==
    ASSUME StartupInv, NEW c \in Owners, NEW k \in Keys, Get(c, k),
           c = Loader => loaded < Len(Preloaded) /\ verdict = "pending",
           c # Loader => port = "bound"
    PROVE  StartupInv' /\ UNCHANGED <<verdict, port>>
<1>0. SecretsTypeOK /\ Undisturbed /\ Loader \notin Callers
    BY SecretsAssumption DEF StartupInv
<1>1. /\ Len(Preloaded) \in Nat /\ loaded \in Nat /\ loaded <= Len(Preloaded)
      /\ NoLookup \in Lookups
    BY <1>0, LoadedType
<1>2. UNCHANGED <<hasVault, verdict, port>> /\ lookup[c] = NoLookup
    BY DEF Get
<1>3. CASE AnswersFromCache(c, k)
    <2>1. SecretsTypeOK'
        BY <1>0, <1>1, <1>2, <1>3 DEF SecretsTypeOK, AnswersFromCache
    <2>2. Undisturbed'
        BY <1>0, <1>1, <1>2, <1>3 DEF Undisturbed, AnswersFromCache, Found
    <2> QED  BY <1>2, <2>1, <2>2 DEF StartupInv
<1>4. CASE GoesToEnv(c, k)
    <2>1. SecretsTypeOK'
        BY <1>0, <1>1, <1>2, <1>4 DEF SecretsTypeOK, GoesToEnv, FromEnv
    <2>2. Undisturbed'
        <3>1. verdict' # "ok" \/ port' = "bound"
            BY <1>2
        <3> QED
            BY <1>0, <1>1, <1>2, <1>4, <3>1 DEF Undisturbed, GoesToEnv
    <2> QED  BY <1>2, <2>1, <2>2 DEF StartupInv
<1>5. CASE GoesToVault(c, k)
    <2> DEFINE l == [at |-> IF login = "ok" THEN "fetch" ELSE "login", key |-> k]
    <2>1. l \in Lookups /\ lookup' = [lookup EXCEPT ![c] = l]
          /\ UNCHANGED <<valueCache, loaded>> /\ login' \in {"ok", "pending"}
        BY <1>5 DEF GoesToVault, Lookups
    <2> HIDE DEF l
    <2>2. SecretsTypeOK'
        BY <1>0, <1>2, <2>1 DEF SecretsTypeOK
    <2>3. \A d \in Owners \ {c} : lookup'[d] = lookup[d]
        BY <1>0, <2>1 DEF SecretsTypeOK
    <2>4. Undisturbed'
        BY <1>0, <1>1, <1>2, <2>1, <2>3 DEF Undisturbed, Found, Owners
    <2> QED  BY <1>2, <2>2, <2>4 DEF StartupInv
<1> QED  BY <1>3, <1>4, <1>5 DEF Get

\* Lookups that end, with whatever result.
LEMMA EndStep ==
    ASSUME StartupInv, NEW cs \in SUBSET Owners,
           \A c \in cs : lookup[c] # NoLookup,
           lookup' = [c \in Owners |-> IF c \in cs THEN NoLookup ELSE lookup[c]],
           loaded' = IF Loader \in cs THEN loaded + 1 ELSE loaded,
           valueCache' \in [Keys -> {"absent", "miss", "env", "vault"}],
           cs = {} => valueCache' = valueCache,
           login' \in {"none", "pending", "ok"},
           UNCHANGED <<hasVault, verdict, port>>
    PROVE  StartupInv'
<1>0. SecretsTypeOK /\ Undisturbed /\ Loader \notin Callers
    BY SecretsAssumption DEF StartupInv
<1>1. /\ Len(Preloaded) \in Nat /\ loaded \in Nat /\ loaded <= Len(Preloaded)
      /\ NoLookup \in Lookups
    BY <1>0, LoadedType
<1>2. Loader \in cs => loaded < Len(Preloaded)
    BY <1>0 DEF Undisturbed
<1>3. SecretsTypeOK'
    BY <1>0, <1>1, <1>2 DEF SecretsTypeOK
<1>4. port # "bound" /\ verdict = "ok" => cs = {}
    BY <1>0, <1>1, <1>2 DEF Undisturbed, Owners
<1>5. Undisturbed'
    BY <1>0, <1>1, <1>2, <1>4 DEF Undisturbed, Found, Owners
<1> QED  BY <1>3, <1>5 DEF StartupInv

LEMMA WaitingHolds ==
    ASSUME NEW stage \in {"login", "fetch"}
    PROVE  Waiting(stage) \in SUBSET Owners
           /\ \A c \in Waiting(stage) : lookup[c] # NoLookup
BY DEF Waiting, NoLookup

LEMMA FetchStep ==
    ASSUME StartupInv, NEW c \in Owners, FetchAnswers(c) \/ FetchFails(c)
    PROVE  StartupInv' /\ UNCHANGED <<verdict, port>>
<1> DEFINE cs == {c}
<1>0. lookup[c].at = "fetch"
    BY DEF FetchAnswers, FetchFails, End
<1>1. cs \in SUBSET Owners /\ cs # {} /\ \A d \in cs : lookup[d] # NoLookup
    BY <1>0 DEF NoLookup
<1>2. /\ lookup' = [d \in Owners |-> IF d \in cs THEN NoLookup ELSE lookup[d]]
      /\ loaded' = IF Loader \in cs THEN loaded + 1 ELSE loaded
      /\ UNCHANGED <<hasVault, login, verdict, port>>
    BY DEF FetchAnswers, FetchFails, End
<1>3. valueCache' \in [Keys -> {"absent", "miss", "env", "vault"}]
    BY DEF FetchAnswers, FetchFails, End, FromEnv, StartupInv, SecretsTypeOK
<1>4. login' \in {"none", "pending", "ok"}
    BY <1>2 DEF StartupInv, SecretsTypeOK
<1> HIDE DEF cs
<1> QED  BY <1>1, <1>2, <1>3, <1>4, EndStep

LEMMA LoginFailsStep ==
    ASSUME StartupInv, LoginFails
    PROVE  StartupInv' /\ UNCHANGED <<verdict, port>>
<1> DEFINE cs == Waiting("login")
<1>1. cs \in SUBSET Owners /\ \A c \in cs : lookup[c] # NoLookup
    BY WaitingHolds
<1>2. /\ lookup' = [d \in Owners |-> IF d \in cs THEN NoLookup ELSE lookup[d]]
      /\ loaded' = IF Loader \in cs THEN loaded + 1 ELSE loaded
      /\ UNCHANGED <<hasVault, verdict, port>>
      /\ login' = "none"
    BY DEF LoginFails, End
<1>3. valueCache' \in [Keys -> {"absent", "miss", "env", "vault"}]
    BY DEF LoginFails, End, FromEnv, StartupInv, SecretsTypeOK
<1>4. cs = {} => valueCache' = valueCache
    BY DEF LoginFails, End, StartupInv, SecretsTypeOK
<1> HIDE DEF cs
<1> QED  BY <1>1, <1>2, <1>3, <1>4, EndStep

LEMMA LoginAnswersStep ==
    ASSUME StartupInv, LoginAnswers
    PROVE  StartupInv' /\ UNCHANGED <<verdict, port>>
<1>1. \A c \in Owners : lookup[c] \in Lookups
    BY DEF StartupInv, SecretsTypeOK
<1>2. \A c \in Owners : lookup'[c] \in Lookups /\ (lookup'[c] # NoLookup => lookup[c] # NoLookup)
    BY <1>1 DEF LoginAnswers, Waiting, Lookups, NoLookup
<1>3. lookup' \in [Owners -> Lookups]
    BY <1>2 DEF LoginAnswers
<1>4. SecretsTypeOK'
    BY <1>3 DEF StartupInv, SecretsTypeOK, LoginAnswers
<1>5. Undisturbed'
    BY <1>2, SecretsAssumption DEF StartupInv, Undisturbed, LoginAnswers, Found, Owners
<1> QED  BY <1>4, <1>5 DEF StartupInv, LoginAnswers

\* A server begins to serve in the step that reaches the verdict, or in the one
\* that binds the port; either way the secrets are there in that very step.
LEMMA ServesStep ==
    ASSUME StartupInv, Settle \/ Bind("bound") \/ Bind("refused")
    PROVE  /\ StartupInv'
           /\ Production /\ Serving' => \A k \in Required : Found(k)'
<1> USE DEF StartupInv
<1>1. CASE Settle
    <2>1. SecretsTypeOK'
        BY <1>1 DEF Settle, SecretsTypeOK
    <2>2. Production /\ verdict' = "ok" => \A k \in Required : Found(k)'
        BY <1>1 DEF Settle, Validates, Found
    <2>3. Undisturbed'
        BY <1>1, <2>2 DEF Settle, Undisturbed
    <2> QED  BY <2>1, <2>2, <2>3 DEF Serving
<1>2. CASE Bind("bound") \/ Bind("refused")
    <2>1. SecretsTypeOK'
        BY <1>2 DEF Bind, SecretsTypeOK
    <2>2. Undisturbed'
        BY <1>2 DEF Bind, Undisturbed, Found
    <2>3. Production /\ verdict = "ok" => \A k \in Required : Found(k)
        BY <1>2 DEF Bind, Undisturbed
    <2> QED  BY <1>2, <2>1, <2>2, <2>3 DEF Bind, Serving, Found
<1> QED  BY <1>1, <1>2

LEMMA LoadNextStep ==
    ASSUME StartupInv, LoadNext
    PROVE  StartupInv' /\ UNCHANGED <<verdict, port>>
<1>1. loaded < Len(Preloaded) /\ Get(Loader, Preloaded[loaded + 1])
    BY DEF LoadNext
<1>2. loaded \in Nat /\ Len(Preloaded) \in Nat /\ Loader \in Owners
    BY LoadedType DEF StartupInv
<1>3. Preloaded[loaded + 1] \in Keys
    BY <1>1, <1>2, SecretsAssumption
<1>4. verdict = "pending"
    BY <1>1, <1>2 DEF StartupInv, Undisturbed
<1> QED  BY <1>1, <1>2, <1>3, <1>4, GetStep

LEMMA AsksStep ==
    ASSUME StartupInv, NEW c \in Callers, NEW k \in Keys,
           AgentAsks(c, k) \/ HandlerAsks(c, k)
    PROVE  StartupInv' /\ UNCHANGED <<verdict, port>>
<1>1. Get(c, k) /\ port = "bound" /\ c \in Owners /\ c # Loader
    BY SecretsAssumption DEF AgentAsks, HandlerAsks, Serving, Owners
<1> QED  BY <1>1, GetStep

LEMMA StartupStep ==
    StartupInv /\ [Next]_vars =>
        /\ StartupInv'
        /\ Production /\ ~Serving /\ Serving' => \A k \in Required : Found(k)'
<1> SUFFICES ASSUME StartupInv, [Next]_vars
             PROVE  /\ StartupInv'
                    /\ Production /\ ~Serving /\ Serving' =>
                         \A k \in Required : Found(k)'
    OBVIOUS
<1>1. CASE Settle \/ Bind("bound") \/ Bind("refused")
    BY <1>1, ServesStep
<1>2. ASSUME SecretsNext, ~(Settle \/ Bind("bound") \/ Bind("refused"))
      PROVE  StartupInv' /\ UNCHANGED <<verdict, port>>
    BY <1>2, LoginAnswersStep, LoginFailsStep, LoadNextStep, FetchStep, AsksStep
    DEF SecretsNext
<1>3. ASSUME UNCHANGED secretVars
      PROVE  StartupInv' /\ UNCHANGED <<verdict, port>>
    BY <1>3 DEF secretVars, StartupInv, SecretsTypeOK, Undisturbed, Found
<1>4. SecretsNext \/ UNCHANGED secretVars
    BY DEF Next, Startup, Expire, ProviderMoves, Arrive, Begin, Refuse, ReadFails,
           AnswerFresh, AnswerKeyless, Ask, Reads, Asked, Deliver, FailForNow, FailForGood,
           DeliverEmpty, Wake, Persist, Store, StoreFails, Unstored, vars
<1>5. UNCHANGED <<verdict, port>> => Serving' = Serving
    BY DEF Serving
<1> QED  BY <1>1, <1>2, <1>3, <1>4, <1>5

\* Whatever the vault, the port and the agents that connect early do, and in
\* whatever order, a production server lets its first HTTP request pass only with
\* its secrets at hand.  The gRPC port may be bound, and agents connected, before
\* that: binding and loading run side by side (middleware.ts 5-13).
THEOREM StartsSafely == Spec => StartsWithSecrets
<1> DEFINE Starts == Production /\ ~Serving /\ Serving' => \A k \in Required : Found(k)'
<1>1. Init => StartupInv
    BY StartupInit DEF Init
<1>2. StartupInv /\ [Next]_vars => StartupInv' /\ [Starts]_vars
    BY StartupStep
<1> QED  BY <1>1, <1>2, PTL DEF Spec, StartsWithSecrets

-----------------------------------------------------------------------------
(* The copies.                                                             *)

\* What a request holds, and what it brings, is not newer than the provider;
\* what it brings is not older than what it holds; and it only sleeps before an
\* attempt that is left.
Ordered ==
    /\ row <= provider
    /\ \A r \in Requests :
         /\ At(r, "asking") \/ At(r, "sleeping") => request[r].held <= provider
         /\ At(r, "sleeping") => request[r].attempt < Retries
         /\ At(r, "delivered") =>
              request[r].got <= provider /\ request[r].held <= request[r].got

CacheTypeOK ==
    /\ kind \in {"models", "weather"}
    /\ row \in Versions
    /\ provider \in 1..MaxVersion
    /\ request \in [Requests -> RequestStates]

CacheInv == CacheTypeOK /\ fresh \in BOOLEAN /\ Ordered

\* What a step may answer request r with.
Fits(r, answer) ==
    \/ answer.got # Error /\ answer.got >= answer.held
    \/ answer.got = Error /\ answer.held = 0
    \/ answer.got = Error /\ kind = "models" /\ At(r, "delivered")

NoOlder == \A r \in Requests :
    At(r, "answered")' /\ request'[r] # request[r] => Fits(r, request'[r])

LEMMA CacheInit == Init => CacheInv
<1> SUFFICES ASSUME Init PROVE CacheInv
    OBVIOUS
<1>1. CacheTypeOK
    BY VersionAssumption DEF Init, CacheTypeOK, Versions, RequestStates
<1>2. fresh \in BOOLEAN
    BY DEF Init
<1>3. Ordered
    BY DEF Init, Ordered, At, Idle
<1> QED  BY <1>1, <1>2, <1>3 DEF CacheInv

\* One request moves on, and nothing else: its new state alone is to be judged.
Sound(r, q) ==
    /\ q.at \in {"asking", "sleeping"} => q.held <= provider
    /\ q.at = "sleeping" => q.attempt < Retries
    /\ q.at = "delivered" => q.got <= provider /\ q.held <= q.got
    /\ q.at = "answered" => Fits(r, q)

LEMMA GoesStep ==
    ASSUME CacheInv, NEW r \in Requests, NEW q \in RequestStates, Goes(r, q), Sound(r, q),
           UNCHANGED <<kind, provider, row>>, fresh' \in BOOLEAN
    PROVE  CacheInv' /\ NoOlder
<1>1. request' = [request EXCEPT ![r] = q] /\ request \in [Requests -> RequestStates]
    BY DEF Goes, CacheInv, CacheTypeOK
<1>2. CacheTypeOK'
    BY <1>1 DEF CacheInv, CacheTypeOK
<1>3. \A s \in Requests : request'[s] = IF s = r THEN q ELSE request[s]
    BY <1>1
<1>4. Ordered'
    BY <1>3 DEF CacheInv, Ordered, At, Sound
<1>5. NoOlder
    BY <1>3 DEF NoOlder, At, Sound
<1> QED  BY <1>2, <1>4, <1>5 DEF CacheInv

LEMMA AnswersSound ==
    ASSUME CacheInv, NEW r \in Requests,
           NEW held \in Versions, NEW got \in Versions \cup {Error},
           \/ got # Error /\ got >= held
           \/ got = Error /\ held = 0
           \/ got = Error /\ kind = "models" /\ At(r, "delivered")
    PROVE  LET q == [at |-> "answered", held |-> held, got |-> got]
           IN  q \in RequestStates /\ Sound(r, q)
BY DEF RequestStates, Answered, Sound, Fits

LEMMA VersionFacts ==
    /\ Versions \subseteq Nat /\ 0 \in Versions /\ Error \notin Versions
    /\ \A v \in Versions : v >= v /\ v >= 0
BY VersionAssumption DEF Versions

LEMMA HeldType ==
    ASSUME CacheTypeOK, NEW r \in Requests
    PROVE  /\ At(r, "asking") \/ At(r, "sleeping") =>
                request[r].held \in Versions /\ request[r].attempt \in 0..Retries
           /\ At(r, "delivered") =>
                request[r].held \in Versions /\ request[r].got \in Versions
BY DEF CacheTypeOK, RequestStates, Answered, Idle, At

LEMMA FallsBackStep ==
    ASSUME CacheInv, NEW r \in Requests, FallsBack(r), request[r].held \in Versions,
           UNCHANGED <<kind, provider, row, fresh>>
    PROVE  CacheInv' /\ NoOlder
<1> DEFINE held == request[r].held
           got == IF held = 0 THEN Error ELSE held
           q == [at |-> "answered", held |-> held, got |-> got]
<1>1. Goes(r, q)
    BY DEF FallsBack, Answers
<1>2. /\ got \in Versions \cup {Error}
      /\ (got # Error /\ got >= held) \/ (got = Error /\ held = 0)
    BY VersionFacts
<1>3. q \in RequestStates /\ Sound(r, q)
    BY <1>2, AnswersSound
<1>4. fresh' \in BOOLEAN
    BY DEF CacheInv
<1> HIDE DEF q
<1> QED  BY <1>1, <1>3, <1>4, GoesStep

\* What a request reads is the row, which is no newer than the provider.
LEMMA RowFacts ==
    ASSUME CacheInv
    PROVE  row \in Versions /\ provider \in Nat /\ row <= provider /\ fresh \in BOOLEAN
BY DEF CacheInv, CacheTypeOK, Ordered

LEMMA BeginStep ==
    ASSUME CacheInv, NEW r \in Requests, Begin(r)
    PROVE  CacheInv' /\ NoOlder
<1>0. UNCHANGED <<kind, row, fresh, provider>> /\ fresh' \in BOOLEAN
    BY RowFacts
    DEF Begin, Refuse, ReadFails, AnswerFresh, AnswerKeyless, Ask, Reads
<1>1. CASE Refuse(r) \/ ReadFails(r)
    <2> DEFINE q == [at |-> "answered", held |-> 0, got |-> Error]
    <2>1. Goes(r, q)
        BY <1>1 DEF Refuse, ReadFails, Answers
    <2>2. q \in RequestStates /\ Sound(r, q)
        BY VersionFacts, AnswersSound
    <2> HIDE DEF q
    <2> QED  BY <1>0, <2>1, <2>2, GoesStep
<1>2. CASE AnswerFresh(r) \/ AnswerKeyless(r)
    <2> DEFINE q == [at |-> "answered", held |-> row, got |-> row]
    <2>1. Goes(r, q)
        BY <1>2 DEF AnswerFresh, AnswerKeyless, Answers
    <2>2. row \in Versions /\ row # Error /\ row >= row
        BY RowFacts, VersionFacts
    <2>3. q \in RequestStates /\ Sound(r, q)
        BY <2>2, AnswersSound
    <2> HIDE DEF q
    <2> QED  BY <1>0, <2>1, <2>3, GoesStep
<1>3. CASE Ask(r)
    <2> DEFINE q == Asking(row, 0)
    <2>1. Goes(r, q)
        BY <1>3 DEF Ask
    <2>2. q \in RequestStates
        BY RowFacts, RetriesAssumption DEF Asking, RequestStates
    <2>3. Sound(r, q)
        BY RowFacts DEF Asking, Sound
    <2> HIDE DEF q
    <2> QED  BY <1>0, <2>1, <2>2, <2>3, GoesStep
<1> QED  BY <1>1, <1>2, <1>3 DEF Begin

LEMMA AskedStep ==
    ASSUME CacheInv, NEW r \in Requests, Asked(r) \/ Wake(r)
    PROVE  CacheInv' /\ NoOlder
<1>0. UNCHANGED <<kind, row, fresh, provider>> /\ fresh' \in BOOLEAN
    BY RowFacts
    DEF Asked, Deliver, FailForNow, FailForGood, DeliverEmpty, Wake, Unstored
<1>1. /\ request[r].held \in Versions /\ request[r].attempt \in 0..Retries
      /\ request[r].held <= provider
    BY HeldType
    DEF CacheInv, Ordered, Asked, Deliver, FailForNow, FailForGood, DeliverEmpty, Wake, At
<1>2. CASE Deliver(r)
    <2> DEFINE q == [at |-> "delivered", held |-> request[r].held, got |-> provider]
    <2>1. Goes(r, q)
        BY <1>2 DEF Deliver
    <2>2. provider \in Versions /\ provider <= provider
        BY VersionAssumption DEF CacheInv, CacheTypeOK, Versions
    <2>3. q \in RequestStates /\ Sound(r, q)
        BY <1>1, <2>2 DEF RequestStates, Sound
    <2> HIDE DEF q
    <2> QED  BY <1>0, <2>1, <2>3, GoesStep
<1>3. CASE FailForNow(r)
    <2> DEFINE q == [request[r] EXCEPT !.at = "sleeping"]
    <2>1. Goes(r, q)
        BY <1>3 DEF FailForNow
    <2>2. request[r] \in [at : {"asking", "sleeping"}, held : Versions,
                          attempt : 0..Retries]
        BY <1>3 DEF FailForNow, At, CacheInv, CacheTypeOK, RequestStates, Answered, Idle
    <2>3. q \in RequestStates /\ Sound(r, q)
        BY <1>1, <1>3, <2>2 DEF FailForNow, RequestStates, Sound
    <2> HIDE DEF q
    <2> QED  BY <1>0, <2>1, <2>3, GoesStep
<1>4. CASE Wake(r)
    <2> DEFINE q == Asking(request[r].held, request[r].attempt + 1)
    <2>1. Goes(r, q)
        BY <1>4 DEF Wake, Counted
    <2>2. request[r].attempt + 1 \in 0..Retries
        BY <1>1, <1>4, RetriesAssumption DEF Wake, CacheInv, Ordered
    <2>3. q \in RequestStates /\ Sound(r, q)
        BY <1>1, <2>2 DEF Asking, RequestStates, Sound
    <2> HIDE DEF q
    <2> QED  BY <1>0, <2>1, <2>3, GoesStep
<1>5. CASE FailForGood(r)
    BY <1>0, <1>1, <1>5, FallsBackStep DEF FailForGood
<1>6. CASE DeliverEmpty(r)
    <2> DEFINE held == request[r].held
               q == [at |-> "answered", held |-> held, got |-> held]
    <2>1. Goes(r, q)
        BY <1>6 DEF DeliverEmpty, Answers
    <2>2. held # Error /\ held >= held
        BY <1>1, VersionFacts
    <2>3. q \in RequestStates /\ Sound(r, q)
        BY <1>1, <2>2, AnswersSound
    <2> HIDE DEF q
    <2> QED  BY <1>0, <2>1, <2>3, GoesStep
<1> QED  BY <1>2, <1>3, <1>4, <1>5, <1>6 DEF Asked

LEMMA PersistStep ==
    ASSUME CacheInv, NEW r \in Requests, Persist(r)
    PROVE  CacheInv' /\ NoOlder
<1>1. /\ request[r].held \in Versions /\ request[r].got \in Versions
      /\ request[r].got <= provider /\ request[r].held <= request[r].got
    BY HeldType DEF CacheInv, Ordered, Persist, Store, StoreFails, At
<1> DEFINE held == request[r].held
           got == request[r].got
           q == [at |-> "answered", held |-> held, got |-> got]
           e == [at |-> "answered", held |-> held, got |-> Error]
<1>2. CASE Store(r)
    <2>1. got # Error /\ got >= held
        BY <1>1, VersionFacts
    <2>2. q \in RequestStates /\ Sound(r, q)
        BY <1>1, <2>1, AnswersSound
    <2>3. /\ request' = [request EXCEPT ![r] = q] /\ request \in [Requests -> RequestStates]
          /\ row' = got /\ fresh' = TRUE /\ UNCHANGED <<kind, provider>>
        BY <1>2 DEF Store, Answers, Goes, CacheInv, CacheTypeOK
    <2> HIDE DEF q
    <2>4. \A s \in Requests : request'[s] = IF s = r THEN q ELSE request[s]
        BY <2>3
    <2>5. CacheTypeOK'
        BY <1>1, <2>2, <2>3 DEF CacheInv, CacheTypeOK
    <2>6. Ordered' /\ NoOlder
        BY <1>1, <2>2, <2>3, <2>4 DEF CacheInv, Ordered, NoOlder, At, Sound
    <2>7. fresh' \in BOOLEAN
        BY <2>3
    <2> QED  BY <2>5, <2>6, <2>7 DEF CacheInv
<1>3. CASE StoreFails(r)
    <2>1. UNCHANGED <<kind, row, fresh, provider>> /\ fresh' \in BOOLEAN
        BY <1>3, RowFacts DEF StoreFails, Unstored
    <2>2. CASE kind = "models"
        <3>1. Goes(r, e)
            BY <1>3, <2>2 DEF StoreFails, Answers
        <3>3. At(r, "delivered")
            BY <1>3 DEF StoreFails
        <3>2. e \in RequestStates /\ Sound(r, e)
            BY <1>1, <2>2, <3>3, AnswersSound
        <3> HIDE DEF e
        <3> QED  BY <2>1, <3>1, <3>2, GoesStep
    <2>3. CASE kind # "models"
        BY <1>1, <1>3, <2>1, <2>3, FallsBackStep DEF StoreFails
    <2> QED  BY <2>2, <2>3
<1> QED  BY <1>2, <1>3 DEF Persist

LEMMA CacheStep == CacheInv /\ [Next]_vars => CacheInv' /\ NoOlder
<1> SUFFICES ASSUME CacheInv, [Next]_vars PROVE CacheInv' /\ NoOlder
    OBVIOUS
<1>1. CASE UNCHANGED cacheVars
    BY <1>1 DEF cacheVars, CacheInv, CacheTypeOK, Ordered, NoOlder, At
<1>2. CASE Expire
    <2>1. CacheTypeOK' /\ Ordered' /\ NoOlder
        BY <1>2 DEF Expire, CacheInv, CacheTypeOK, Ordered, NoOlder, At
    <2>2. fresh' \in BOOLEAN
        BY <1>2 DEF Expire
    <2> QED  BY <2>1, <2>2 DEF CacheInv
<1>3. CASE ProviderMoves
    <2>1. provider' = provider + 1 /\ provider' \in 1..MaxVersion /\ provider \in Nat
        BY <1>3, VersionAssumption DEF ProviderMoves, CacheInv, CacheTypeOK
    <2>2. CacheTypeOK' /\ NoOlder
        BY <1>3, <2>1 DEF ProviderMoves, CacheInv, CacheTypeOK, NoOlder, At
    <2>3. Ordered'
        <3>1. /\ row \in Nat
              /\ \A r \in Requests :
                   /\ At(r, "asking") \/ At(r, "sleeping") => request[r].held \in Nat
                   /\ At(r, "delivered") => request[r].got \in Nat
            BY HeldType, RowFacts, VersionFacts DEF CacheInv
        <3>2. UNCHANGED <<row, request>>
            BY <1>3 DEF ProviderMoves
        <3> QED
            BY <2>1, <3>1, <3>2 DEF CacheInv, Ordered, At
    <2>4. fresh' \in BOOLEAN
        BY <1>3, RowFacts DEF ProviderMoves
    <2> QED  BY <2>2, <2>3, <2>4 DEF CacheInv
<1>4. ASSUME NEW r \in Requests, NEW force \in BOOLEAN, Arrive(r, force)
      PROVE  CacheInv' /\ NoOlder
    <2> DEFINE q == [at |-> "startup", force |-> force]
    <2>1. q \in RequestStates
        BY DEF RequestStates
    <2>2. Goes(r, q) /\ UNCHANGED <<kind, row, fresh, provider>>
        BY <1>4 DEF Arrive
    <2>3. Sound(r, q)
        BY DEF Sound
    <2>4. fresh' \in BOOLEAN
        BY <2>2, RowFacts
    <2> HIDE DEF q
    <2> QED  BY <2>1, <2>2, <2>3, <2>4, GoesStep
<1>5. UNCHANGED vars => UNCHANGED cacheVars
    BY DEF vars
<1> QED
    BY <1>1, <1>2, <1>3, <1>4, <1>5, BeginStep, AskedStep, PersistStep
    DEF Next, Startup

\* For any number of requests, versions and retries, an answer is never older
\* than the row its request was let in with, although the stored row itself may
\* go back, and a failing provider is no error to a request that read a row.
THEOREM NoOlderAnswer == Spec => AnswerIsNoOlder
<1> DEFINE Step == \A r \in Requests :
              At(r, "answered")' /\ request'[r] # request[r] =>
                  LET answer == request'[r]
                  IN  \/ answer.got # Error /\ answer.got >= answer.held
                      \/ answer.got = Error /\ answer.held = 0
                      \/ answer.got = Error /\ kind = "models" /\ At(r, "delivered")
<1>1. NoOlder => Step
    BY DEF NoOlder, Fits
<1> HIDE DEF Step
<1>2. CacheInv /\ [Next]_vars => CacheInv' /\ [Step]_vars
    BY <1>1, CacheStep
<1> USE DEF Step
<1> QED  BY <1>2, CacheInit, PTL DEF Spec, AnswerIsNoOlder

\* Every cached secret, lookup and request stays in its type.
THEOREM TypeCorrect == Spec => []TypeOK
<1>1. Init => StartupInv
    BY StartupInit DEF Init
<1>2. StartupInv /\ [Next]_vars => StartupInv'
    BY StartupStep
<1>3. StartupInv /\ CacheInv => TypeOK
    BY DEF StartupInv, CacheInv, CacheTypeOK, TypeOK
<1>4. CacheInv /\ [Next]_vars => CacheInv'
    BY CacheStep
<1> QED  BY <1>1, <1>2, <1>3, <1>4, CacheInit, PTL DEF Spec

=============================================================================
