-------------------------- MODULE MCPassportRuntime --------------------------
(* Instances of PassportRuntime for TLC.                                   *)
EXTENDS PassportRuntime

\* Two calls of one agent: a reconnect, with the first call still around.
OneAgentOf == [s \in Streams |-> "a1"]

\* Every call carries a session id of its own, as the Rust agent's do.
OwnSession == [s \in Streams |-> {s}]

=============================================================================
