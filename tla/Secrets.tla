------------------------------- MODULE Secrets -------------------------------
(***************************************************************************)
(* The secrets of the server and its startup                               *)
(* (core/secrets/InfisicalSecrets.ts, core/secrets/secrets.ts,             *)
(* middleware.ts, passport/server/runtime/runtime.ts start).               *)
(*                                                                         *)
(* A secret is looked up in a cache, then in the vault behind one shared   *)
(* login, then in the environment; whatever comes out is cached, a miss    *)
(* too.  The middleware loads the startup secrets one after another and    *)
(* binds the gRPC port at the same time; every HTTP request waits for      *)
(* both.  Agents may connect as soon as the port is bound, so their        *)
(* lookups run next to the loading.                                        *)
(***************************************************************************)
EXTENDS Naturals, Sequences

CONSTANTS Keys,       \* the secrets looked up
          Preloaded,  \* the sequence STARTUP_SECRET_KEYS
          Required,   \* the set REQUIRED_SECRET_KEYS
          InEnv,      \* the secrets the process environment holds
          Production, \* NODE_ENV is "production"
          Callers,    \* slots for lookups outside the loading
          Loader      \* the loading itself, as the owner of a lookup

VARIABLES hasVault,    \* getInfisicalConfig() finds a configuration
          valueCache,  \* valueCache[k]: "absent", "miss", "env" or "vault"
          login,       \* clientPromise: "none", "pending" or "ok"
          lookup,      \* lookup[c]: the get() of c that waits, if any
          loaded,      \* how many startup secrets the loading went through
          verdict,     \* preloadPromise: "pending", "ok" or "missing"
          port         \* startPromise: "binding", "bound" or "refused"

secretVars == <<hasVault, valueCache, login, lookup, loaded, verdict, port>>

Owners == Callers \cup {Loader}
NoLookup == [at |-> "none"]
Lookups == {NoLookup} \cup [at : {"login", "fetch"}, key : Keys]

SecretsTypeOK ==
    /\ hasVault \in BOOLEAN
    /\ valueCache \in [Keys -> {"absent", "miss", "env", "vault"}]
    /\ login \in {"none", "pending", "ok"}
    /\ lookup \in [Owners -> Lookups]
    /\ loaded \in 0..Len(Preloaded)
    /\ verdict \in {"pending", "ok", "missing"}
    /\ port \in {"binding", "bound", "refused"}

SecretsInit ==
    /\ hasVault \in BOOLEAN
    /\ valueCache = [k \in Keys |-> "absent"]
    /\ login = "none"
    /\ lookup = [c \in Owners |-> NoLookup]
    /\ loaded = 0
    /\ verdict = "pending"
    /\ port = "binding"

-----------------------------------------------------------------------------
(* Requests pass the middleware when both promises resolved, and fail      *)
(* until the process ends once either is rejected.                         *)

Found(k) == valueCache[k] \in {"env", "vault"}

Serving == verdict = "ok" /\ port = "bound"

Refusing == verdict = "missing" \/ port = "refused"

FromEnv(k) == IF k \in InEnv THEN "env" ELSE "miss"

-----------------------------------------------------------------------------
(* One lookup.                                                             *)

Waiting(stage) == {c \in Owners : lookup[c].at = stage}

\* The end of get() for the owners cs: their results are cached, and the
\* loading goes on to its next secret.
End(cs, Result(_)) ==
    LET keys == {lookup[c].key : c \in cs}
    IN  /\ valueCache' = [k \in Keys |-> IF k \in keys THEN Result(k)
                                                       ELSE valueCache[k]]
        /\ lookup' = [c \in Owners |-> IF c \in cs THEN NoLookup ELSE lookup[c]]
        /\ loaded' = IF Loader \in cs THEN loaded + 1 ELSE loaded

\* get(key): a cached value, a miss included, answers at once.
AnswersFromCache(c, k) ==
    /\ valueCache[k] # "absent"
    /\ loaded' = IF c = Loader THEN loaded + 1 ELSE loaded
    /\ UNCHANGED <<valueCache, login, lookup>>

\* Anything else goes to the vault, behind the login when there is one.
GoesToVault(c, k) ==
    /\ valueCache[k] = "absent"
    /\ hasVault
    /\ lookup' = [lookup EXCEPT ![c] =
                    [at |-> IF login = "ok" THEN "fetch" ELSE "login", key |-> k]]
    /\ login' = IF login = "ok" THEN "ok" ELSE "pending"
    /\ UNCHANGED <<valueCache, loaded>>

\* Without a vault the environment answers at once.
GoesToEnv(c, k) ==
    /\ valueCache[k] = "absent"
    /\ ~hasVault
    /\ valueCache' = [valueCache EXCEPT ![k] = FromEnv(k)]
    /\ loaded' = IF c = Loader THEN loaded + 1 ELSE loaded
    /\ UNCHANGED <<login, lookup>>

Get(c, k) ==
    /\ lookup[c] = NoLookup
    /\ (AnswersFromCache(c, k) \/ GoesToVault(c, k) \/ GoesToEnv(c, k))
    /\ UNCHANGED <<hasVault, verdict, port>>

\* The shared login resolves for everyone who waits for it.
LoginAnswers ==
    /\ login = "pending"
    /\ login' = "ok"
    /\ lookup' = [c \in Owners |-> IF c \in Waiting("login")
                                     THEN [lookup[c] EXCEPT !.at = "fetch"]
                                     ELSE lookup[c]]
    /\ UNCHANGED <<hasVault, valueCache, loaded, verdict, port>>

\* It fails for everyone: the next lookup logs in anew, these fall back.
LoginFails ==
    /\ login = "pending"
    /\ login' = "none"
    /\ End(Waiting("login"), FromEnv)
    /\ UNCHANGED <<hasVault, verdict, port>>

\* getSecret answers with a value ...
FetchAnswers(c) ==
    /\ lookup[c].at = "fetch"
    /\ End({c}, LAMBDA k : "vault")
    /\ UNCHANGED <<hasVault, login, verdict, port>>

\* ... or fails, or answers with an empty value.
FetchFails(c) ==
    /\ lookup[c].at = "fetch"
    /\ End({c}, FromEnv)
    /\ UNCHANGED <<hasVault, login, verdict, port>>

-----------------------------------------------------------------------------
(* The startup.                                                            *)

\* The loading looks up its next secret when the last one is through.
LoadNext == loaded < Len(Preloaded) /\ Get(Loader, Preloaded[loaded + 1])

\* An agent's envelope needs a secret as soon as the port is bound.
AgentAsks(c, k) == port = "bound" /\ k \in Required /\ Get(c, k)

\* The HTTP handlers, which the middleware lets through once the server
\* serves, ask for any secret (resolveApiKeyState: for three in a row).
HandlerAsks(c, k) == Serving /\ Get(c, k)

\* mutant: the required secrets are not looked at once loaded
AcceptsAny == TRUE

\* validateRequiredSecret for each required secret, in production only.
Validates == Production => \A k \in Required : Found(k)

\* preloadPromise settles.
Settle ==
    /\ verdict = "pending"
    /\ loaded = Len(Preloaded)
    /\ verdict' = IF Validates THEN "ok" ELSE "missing"
    /\ UNCHANGED <<hasVault, valueCache, login, lookup, loaded, port>>

\* server.bindAsync succeeds or not.  startOnce keeps the promise, so a port
\* that was taken once stays refused.
Bind(outcome) ==
    /\ port = "binding"
    /\ port' = outcome
    /\ UNCHANGED <<hasVault, valueCache, login, lookup, loaded, verdict>>

SecretsNext ==
    \/ LoginAnswers \/ LoginFails \/ LoadNext \/ Settle
    \/ Bind("bound") \/ Bind("refused")
    \/ \E c \in Owners : FetchAnswers(c) \/ FetchFails(c)
    \/ \E c \in Callers, k \in Keys : AgentAsks(c, k) \/ HandlerAsks(c, k)

=============================================================================
