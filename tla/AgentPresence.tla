---------------------------- MODULE AgentPresence ----------------------------
(***************************************************************************)
(* What the passport runtime promises its callers about presence: an agent *)
(* is online from an envelope of it that the server authorised, an answer  *)
(* never counts an agent whose last such envelope is older than the        *)
(* heartbeat timeout, and presence may be lost at any time before that.    *)
(***************************************************************************)
EXTENDS Naturals

CONSTANTS Agents, Timeout

VARIABLES
  online,   \* agents the runtime would report now, before it reconciles
  heard,    \* ticks since an authorised envelope, up to Timeout + 1
  answer    \* agents reported online by the read this step served

vars == <<online, heard, answer>>

Init ==
  /\ online = {}
  /\ heard = [a \in Agents |-> Timeout + 1]
  /\ answer = {}

\* An envelope of a is authorised; the agent may or may not end up online.
Hear(a) ==
  /\ heard' = [heard EXCEPT ![a] = 0]
  /\ online' \in SUBSET (online \cup {a})
  /\ answer' = {}

\* Presence is lost without an answer being given.
Lose ==
  /\ online' \in SUBSET online
  /\ answer' = {}
  /\ UNCHANGED heard

Tick ==
  /\ heard' = [a \in Agents |->
                 IF heard[a] > Timeout THEN heard[a] ELSE heard[a] + 1]
  /\ answer' = {}
  /\ UNCHANGED online

\* A read: the answer holds online agents heard of within the timeout only.
Answer ==
  /\ answer' \in SUBSET {a \in online : heard[a] <= Timeout}
  /\ online' \in SUBSET online
  /\ UNCHANGED heard

Next == (\E a \in Agents : Hear(a)) \/ Lose \/ Tick \/ Answer

Spec == Init /\ [][Next]_vars

=============================================================================
