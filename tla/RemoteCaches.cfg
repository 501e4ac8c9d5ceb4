SPECIFICATION FairSpec
CONSTANTS
    ADMIN_TOKEN = ADMIN_TOKEN
    AGENT_JWT_SECRET = AGENT_JWT_SECRET
    Keys = {ADMIN_TOKEN, AGENT_JWT_SECRET}
    Preloaded <- StartupKeys
    Required = {AGENT_JWT_SECRET}
    InEnv = {ADMIN_TOKEN}
    Production = TRUE
    Callers = {e1, e2}
    Loader = loader
    Requests = {r1, r2}
    MaxVersion = 2
    Retries = 2
    Error = Error
PROPERTIES AnswerIsNoOlder StartsWithSecrets RequestsEnd
