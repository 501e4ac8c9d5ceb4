--------------------------- MODULE MCRemoteCaches ---------------------------
(* An instance of RemoteCaches: two startup secrets, the second required    *)
(* and only in the vault.                                                   *)
EXTENDS RemoteCaches

CONSTANTS ADMIN_TOKEN, AGENT_JWT_SECRET

StartupKeys == <<ADMIN_TOKEN, AGENT_JWT_SECRET>>

=============================================================================
