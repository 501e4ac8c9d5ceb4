----------------------- MODULE PassportRuntime_proofs -----------------------
(* Theorems about PassportRuntime, for every value of its constants.       *)
EXTENDS PassportRuntime, TLAPS

LEMMA UnusedType == Unused \in AgentConnection /\ Unused.age = Timeout + 1
<1>1. PICK x \in Sessions : TRUE  BY RuntimeAssumption
<1>2. (CHOOSE y \in Sessions : TRUE) \in Sessions  BY <1>1
<1> QED  BY <1>2, RuntimeAssumption DEF Unused, AgentConnection, Age

LEMMA OlderType == \A n \in Age : Older(n) \in Age /\ Older(n) >= n
BY RuntimeAssumption DEF Older, Age

LEMMA FreeRefIsRef ==
  ASSUME NEW s \in Streams, FreeRefs(s) # {}
  PROVE  (CHOOSE c \in FreeRefs(s) : TRUE) \in Ref
         /\ (CHOOSE c \in FreeRefs(s) : TRUE)[1] = s
BY DEF FreeRefs

LEMMA CollectedType ==
  ASSUME NEW objects \in [Ref -> AgentConnection]
  PROVE  Collected(objects) \in [Ref -> AgentConnection]
BY UnusedType DEF Collected

LEMMA SeenType ==
  ASSUME TypeOK, NEW c \in Ref, NEW x \in Sessions
  PROVE  Seen(c, x) \in [Ref -> AgentConnection]
BY RuntimeAssumption DEF TypeOK, Seen, AgentConnection, Age

\* Rows stay rows under every update the handlers make.
LEMMA RowTypes ==
  ASSUME NEW rows \in [Sessions -> Row], NEW x \in Sessions,
         NEW why \in {"none", "stream", "heartbeat_timeout"}
  PROVE  /\ UpsertOnline(rows, x) \in [Sessions -> Row]
         /\ UpsertDisconnected(rows, x, why) \in [Sessions -> Row]
BY DEF Row, UpsertOnline, UpsertDisconnected

LEMMA MarkRowType ==
  ASSUME TypeOK, NEW rows \in [Sessions -> Row], NEW c \in Ref \cup {None}
  PROVE  MarkRow(rows, c, "stream") \in [Sessions -> Row]
<1>1. CASE c = None  BY <1>1 DEF MarkRow
<1>2. CASE c \in Ref
  <2>1. conn[c].session \in Sessions  BY <1>2 DEF TypeOK, AgentConnection
  <2>2. UpsertDisconnected(rows, conn[c].session, "stream") \in [Sessions -> Row]
    BY <2>1, RowTypes
  <2> QED  BY <2>2 DEF MarkRow
<1> QED  BY <1>1, <1>2

LEMMA MapTypes ==
  ASSUME NEW m \in ConnectionMap, NEW c \in Ref \cup {None}
  PROVE  /\ MarkMap(m, c) \in ConnectionMap
         /\ c # None => PutBack(m, c) \in ConnectionMap
BY RuntimeAssumption DEF ConnectionMap, MarkMap, PutBack, Ref

LEMMA ReconciledTypes ==
  ASSUME TypeOK, NEW R \in SUBSET Stale
  PROVE  /\ ReconciledRows(R) \in [Sessions -> Row]
         /\ ReconciledClosed(R) \in SUBSET Streams
         /\ ReconciledMap(R) \in ConnectionMap
<1>1. ReconciledRows(R) \in [Sessions -> Row]
  BY DEF TypeOK, ReconciledRows, Row
<1>2. ReconciledClosed(R) \in SUBSET Streams
  <2>1. \A a \in R : connections[a] \in Ref
    BY DEF TypeOK, Stale, ConnectionMap
  <2> QED  BY <2>1 DEF TypeOK, ReconciledClosed, Ref
<1>3. ReconciledMap(R) \in ConnectionMap
  <2>1. \A a \in Agents : ReconciledMap(R)[a] \in {None, connections[a]}
    BY DEF ReconciledMap
  <2>2. connections \in ConnectionMap  BY DEF TypeOK
  <2>3. ReconciledMap(R) \in [Agents -> Ref \cup {None}]
    BY <2>2 DEF ReconciledMap, ConnectionMap
  <2> QED  BY <2>1, <2>2, <2>3 DEF ConnectionMap
<1> QED  BY <1>1, <1>2, <1>3

\* What every action that resumes a handler does to the handlers, and what the
\* ones that authorise an envelope do to the history.
LEMMA ResumedType ==
  ASSUME TypeOK, NEW s \in Streams, NEW h \in Handlers, Resumes(s, h)
  PROVE  /\ pending' \in [Streams -> [Handlers -> Ref \cup {None, Idle}]]
         /\ \A t \in Streams, g \in Handlers :
               pending'[t][g] \in Ref => pending'[t][g][1] = t
         /\ pending[s][h] \in Ref \cup {None}
BY RuntimeAssumption DEF TypeOK, Resumes

LEMMA HeardType ==
  ASSUME TypeOK, NEW a \in Agents, heard' = [heard EXCEPT ![a] = 0]
  PROVE  heard' \in [Agents -> Age]
BY RuntimeAssumption DEF TypeOK, Age

LEMMA LocalType ==
  ASSUME TypeOK, NEW s \in Streams, NEW c \in Ref \cup {None},
         c # None => c[1] = s, local' = [local EXCEPT ![s] = c]
  PROVE  /\ local' \in [Streams -> Ref \cup {None}]
         /\ \A t \in Streams : local'[t] # None => local'[t][1] = t
BY DEF TypeOK

LEMMA TypeInit == Init => TypeOK
<1> USE RuntimeAssumption
<1> SUFFICES ASSUME Init PROVE TypeOK  OBVIOUS
<1>1. NoRow \in Row  BY DEF NoRow, Row
<1>2. conn \in [Ref -> AgentConnection]  BY UnusedType DEF Init
<1>3. Timeout + 1 \in Age  BY DEF Age
<1>4. connections \in ConnectionMap  BY DEF Init, ConnectionMap
<1>5. faults \in 0 .. MaxFaults  BY DEF Init
<1>6. /\ transport \in [Streams -> Transports]
      /\ heard \in [Agents -> Age]
      /\ sessions \in [Sessions -> Row]
  BY <1>1, <1>3 DEF Init, Transports
<1> QED  BY <1>2, <1>4, <1>5, <1>6 DEF Init, TypeOK

LEMMA TypeStep == TypeOK /\ [Next]_vars => TypeOK'
<1> USE RuntimeAssumption
<1> SUFFICES ASSUME TypeOK, [Next]_vars PROVE TypeOK'
  OBVIOUS
<1> USE DEF TypeOK, NoAnswer, Fault
<1>0. /\ sessions \in [Sessions -> Row]
      /\ connections \in ConnectionMap
      /\ conn \in [Ref -> AgentConnection]
      /\ Collected(conn) \in [Ref -> AgentConnection]
  BY CollectedType
<1>1. ASSUME NEW s \in Streams, Connect(s) PROVE TypeOK'
  BY <1>1 DEF Connect, Transports
<1>2. ASSUME NEW s \in Streams, NEW h \in Handlers, Data(s, h) PROVE TypeOK'
  BY <1>0, <1>2 DEF Data
<1>3. ASSUME NEW s \in Streams, NEW h \in Handlers, ResumeUnauthorized(s, h)
      PROVE  TypeOK'
  <2> DEFINE c == pending[s][h]
  <2>1. c \in Ref \cup {None} /\ (c # None => c[1] = s)
    BY <1>3, ResumedType DEF ResumeUnauthorized
  <2>2. PICK marked \in {c, None} :
          /\ sessions' = MarkRow(sessions, marked, "stream")
          /\ connections' = MarkMap(connections, marked)
    BY <1>3 DEF ResumeUnauthorized
  <2>3. sessions' \in [Sessions -> Row] /\ connections' \in ConnectionMap
    BY <1>0, <2>1, <2>2, MarkRowType, MapTypes
  <2>4. /\ local' \in [Streams -> Ref \cup {None}]
        /\ \A t \in Streams : local'[t] # None => local'[t][1] = t
    BY <1>3, <2>1, LocalType DEF ResumeUnauthorized
  <2> QED
    BY <1>0, <1>3, <2>3, <2>4, ResumedType DEF ResumeUnauthorized
<1>4. ASSUME NEW s \in Streams, NEW h \in Handlers, ResumeFirst(s, h)
      PROVE  TypeOK'
  <2>1. PICK x \in SessionsOf[s], written \in {"ok", "error"} :
          LET c == CHOOSE c \in FreeRefs(s) : TRUE
              online == UpsertOnline(sessions, x)
          IN  /\ local' = [local EXCEPT ![s] = c]
              /\ connections' = [connections EXCEPT ![AgentOf[s]] =
                                   IF written = "error" THEN None ELSE c]
              /\ sessions' = IF written = "error"
                               THEN UpsertDisconnected(online, x, "stream")
                               ELSE online
              /\ conn' = Collected(Seen(c, x))
    BY <1>4 DEF ResumeFirst, WriteOutcomes
  <2> DEFINE c == CHOOSE c \in FreeRefs(s) : TRUE
  <2>2. c \in Ref /\ c[1] = s  BY <1>4, FreeRefIsRef DEF ResumeFirst
  <2>3. x \in Sessions  BY RuntimeAssumption
  <2>4. conn' \in [Ref -> AgentConnection]
    BY <2>1, <2>2, <2>3, SeenType, CollectedType
  <2>5. sessions' \in [Sessions -> Row]  BY <1>0, <2>1, <2>3, RowTypes
  <2>6. connections' \in ConnectionMap
    BY <1>0, <2>1, <2>2 DEF ConnectionMap
  <2>7. local' = [local EXCEPT ![s] = c]  BY <2>1
  <2> HIDE DEF c
  <2>8. /\ local' \in [Streams -> Ref \cup {None}]
        /\ \A t \in Streams : local'[t] # None => local'[t][1] = t
    BY <2>2, <2>7, LocalType
  <2>9. heard' \in [Agents -> Age]  BY <1>4, HeardType DEF ResumeFirst
  <2> QED
    BY <1>4, <2>4, <2>5, <2>6, <2>8, <2>9, ResumedType DEF ResumeFirst
<1>5. ASSUME NEW s \in Streams, NEW h \in Handlers, ResumeKnown(s, h)
      PROVE  TypeOK'
  <2> DEFINE c == pending[s][h]
  <2>1. PICK x \in SessionsOf[s] :
          /\ local' = [local EXCEPT ![s] = c]
          /\ connections' = PutBack(connections, c)
          /\ sessions' = IF conn[c].session = x THEN sessions
                                                ELSE UpsertOnline(sessions, x)
          /\ conn' = Collected(Seen(c, x))
    BY <1>5 DEF ResumeKnown
  <2>2. c \in Ref /\ c[1] = s  BY <1>5, ResumedType DEF ResumeKnown
  <2>3. x \in Sessions  BY RuntimeAssumption
  <2>4. conn' \in [Ref -> AgentConnection]
    BY <2>1, <2>2, <2>3, SeenType, CollectedType
  <2>5. sessions' \in [Sessions -> Row]  BY <1>0, <2>1, <2>3, RowTypes
  <2>6. connections' \in ConnectionMap
    BY <1>0, <2>1, <2>2, MapTypes, RuntimeAssumption
  <2> HIDE DEF c
  <2>8. /\ local' \in [Streams -> Ref \cup {None}]
        /\ \A t \in Streams : local'[t] # None => local'[t][1] = t
    BY <2>1, <2>2, LocalType
  <2>9. heard' \in [Agents -> Age]  BY <1>5, HeardType DEF ResumeKnown
  <2> QED
    BY <1>5, <2>4, <2>5, <2>6, <2>8, <2>9, ResumedType DEF ResumeKnown
<1>m. ASSUME NEW s \in Streams
      PROVE  /\ MarkRow(sessions, local[s], "stream") \in [Sessions -> Row]
             /\ MarkMap(connections, local[s]) \in ConnectionMap
  BY <1>0, MarkRowType, MapTypes
<1>6. ASSUME NEW s \in Streams, NEW h \in Handlers, ResumeNoSecret(s, h)
      PROVE  TypeOK'
  BY <1>0, <1>m, <1>6, ResumedType DEF ResumeNoSecret
<1>7. ASSUME NEW s \in Streams, NEW h \in Handlers, ResumeUpsertFails(s, h)
      PROVE  TypeOK'
  <2>1. PICK x \in SessionsOf[s], c \in Ref :
          /\ c[1] = s
          /\ connections' \in {MarkMap(PutBack(connections, c), local[s]),
                               MarkMap(connections, local[s])}
          /\ conn' = Collected(Seen(c, x))
          /\ sessions' \in {UpsertDisconnected(sessions, x, "stream"),
                            MarkRow(sessions, local[s], "stream")}
    <3>1. PICK x \in SessionsOf[s] :
            \/ /\ FreeRefs(s) # {}
               /\ LET c == CHOOSE c \in FreeRefs(s) : TRUE
                  IN  /\ connections' = MarkMap(
                           [connections EXCEPT ![AgentOf[s]] = c], local[s])
                      /\ conn' = Collected(Seen(c, x))
               /\ sessions' = MarkRow(sessions, local[s], "stream")
            \/ LET c == pending[s][h]
               IN  /\ c # None
                   /\ connections' = MarkMap(connections, local[s])
                   /\ conn' = Collected(Seen(c, x))
                   /\ sessions' =
                        IF local[s] = c
                          THEN UpsertDisconnected(sessions, x, "stream")
                          ELSE MarkRow(sessions, local[s], "stream")
      BY <1>7 DEF ResumeUpsertFails
    <3>2. CASE FreeRefs(s) # {}
               /\ LET c == CHOOSE c \in FreeRefs(s) : TRUE
                  IN  /\ connections' = MarkMap(
                           [connections EXCEPT ![AgentOf[s]] = c], local[s])
                      /\ conn' = Collected(Seen(c, x))
               /\ sessions' = MarkRow(sessions, local[s], "stream")
      <4> DEFINE c == CHOOSE c \in FreeRefs(s) : TRUE
      <4>1. c \in Ref /\ c[1] = s  BY <3>2, FreeRefIsRef
      <4>2. PutBack(connections, c) = [connections EXCEPT ![AgentOf[s]] = c]
        BY <4>1 DEF PutBack
      <4> QED  BY <3>2, <4>1, <4>2
    <3>3. CASE LET c == pending[s][h]
               IN  /\ c # None
                   /\ connections' = MarkMap(connections, local[s])
                   /\ conn' = Collected(Seen(c, x))
                   /\ sessions' =
                        IF local[s] = c
                          THEN UpsertDisconnected(sessions, x, "stream")
                          ELSE MarkRow(sessions, local[s], "stream")
      <4>1. pending[s][h] \in Ref /\ pending[s][h][1] = s
        BY <1>7, <3>3, ResumedType DEF ResumeUpsertFails
      <4> QED  BY <3>3, <4>1
    <3> QED  BY <3>1, <3>2, <3>3
  <2>2. x \in Sessions  BY RuntimeAssumption
  <2>3. conn' \in [Ref -> AgentConnection]
    BY <2>1, <2>2, SeenType, CollectedType
  <2>4. sessions' \in [Sessions -> Row]
    <3>1. UpsertDisconnected(sessions, x, "stream") \in [Sessions -> Row]
      BY <1>0, <2>2, RowTypes
    <3> QED  BY <1>m, <2>1, <3>1
  <2>5. PutBack(connections, c) \in ConnectionMap
    BY <1>0, <2>1, MapTypes, RuntimeAssumption
  <2>6. connections' \in ConnectionMap
    BY <1>m, <2>1, <2>5, MapTypes
  <2>7. heard' \in [Agents -> Age]  BY <1>7, HeardType DEF ResumeUpsertFails
  <2>8. /\ UNCHANGED <<transport, closed, local, expired>>
        /\ unauthorized' = FALSE /\ NoAnswer /\ Resumes(s, h) /\ Fault
    <3> HIDE DEF NoAnswer, Fault
    <3> QED  BY <1>7 DEF ResumeUpsertFails
  <2>a. faults' \in 0 .. MaxFaults  BY <2>8
  <2>b. /\ pending' \in [Streams -> [Handlers -> Ref \cup {None, Idle}]]
        /\ \A t \in Streams, g \in Handlers :
              pending'[t][g] \in Ref => pending'[t][g][1] = t
    BY <2>8, ResumedType
  <2> QED  BY <2>8, <2>3, <2>4, <2>6, <2>7, <2>a, <2>b
<1>8. ASSUME NEW s \in Streams, NEW h \in Handlers, ResumePublishFails(s, h)
      PROVE  TypeOK'
  <2> DEFINE first == pending[s][h] = None
             c == IF first THEN CHOOSE c \in FreeRefs(s) : TRUE
                           ELSE pending[s][h]
  <2>1. c \in Ref /\ c[1] = s
    BY <1>8, FreeRefIsRef, ResumedType DEF ResumePublishFails
  <2>2. PICK x \in SessionsOf[s] :
          LET touched == IF first \/ conn[c].session # x
                           THEN UpsertOnline(sessions, x) ELSE sessions
          IN  /\ connections' =
                   MarkMap([connections EXCEPT ![AgentOf[s]] = c], local[s])
              /\ sessions' = IF local[s] = c
                               THEN UpsertDisconnected(touched, x, "stream")
                               ELSE MarkRow(touched, local[s], "stream")
              /\ conn' = Collected(Seen(c, x))
    BY <1>8 DEF ResumePublishFails
  <2> HIDE DEF c, first
  <2>3. x \in Sessions  BY RuntimeAssumption
  <2>4. conn' \in [Ref -> AgentConnection]
    BY <2>1, <2>2, <2>3, SeenType, CollectedType
  <2>t. PICK touched \in [Sessions -> Row] :
          sessions' \in {UpsertDisconnected(touched, x, "stream"),
                         MarkRow(touched, local[s], "stream")}
    BY <1>0, <2>2, <2>3, RowTypes
  <2>5. sessions' \in [Sessions -> Row]
    <3>1. UpsertDisconnected(touched, x, "stream") \in [Sessions -> Row]
      BY <2>3, RowTypes
    <3>2. MarkRow(touched, local[s], "stream") \in [Sessions -> Row]
      BY MarkRowType
    <3> QED  BY <2>t, <3>1, <3>2
  <2>6. PutBack(connections, c) = [connections EXCEPT ![AgentOf[s]] = c]
    BY <2>1 DEF PutBack
  <2>7. connections' \in ConnectionMap
    BY <1>0, <2>1, <2>2, <2>6, MapTypes, RuntimeAssumption
  <2>8. heard' \in [Agents -> Age]
    BY <1>8, HeardType DEF ResumePublishFails
  <2>9. /\ UNCHANGED <<transport, closed, local, expired>>
        /\ unauthorized' = FALSE /\ NoAnswer /\ Resumes(s, h) /\ Fault
    <3> HIDE DEF NoAnswer, Fault
    <3> QED  BY <1>8 DEF ResumePublishFails
  <2>a. faults' \in 0 .. MaxFaults  BY <2>9
  <2>b. /\ pending' \in [Streams -> [Handlers -> Ref \cup {None, Idle}]]
        /\ \A t \in Streams, g \in Handlers :
              pending'[t][g] \in Ref => pending'[t][g][1] = t
    BY <2>9, ResumedType
  <2> QED  BY <2>9, <2>4, <2>5, <2>7, <2>8, <2>a, <2>b
<1>9. ASSUME NEW s \in Streams, StreamEnd(s) PROVE TypeOK'
  BY <1>0, <1>m, <1>9 DEF StreamEnd, Transports
<1>10. ASSUME NEW s \in Streams, StreamError(s) PROVE TypeOK'
  BY <1>0, <1>m, <1>10 DEF StreamError, Transports
<1>11. ASSUME NEW s \in Streams, StreamLost(s) PROVE TypeOK'
  BY <1>11 DEF StreamLost, Transports
<1>12. ASSUME NEW s \in Streams, Expire(s) PROVE TypeOK'
  BY <1>12 DEF Expire
<1>13. ASSUME NEW a \in Agents, Dispatch(a) PROVE TypeOK'
  <2> DEFINE s == ReconciledMap(Stale)[a][1]
  <2>1. PICK marked \in {local[s], None} :
          /\ sessions' = MarkRow(ReconciledRows(Stale), marked, "stream")
          /\ connections' = MarkMap(ReconciledMap(Stale), marked)
    BY <1>13 DEF Dispatch, Written
  <2>2. ReconciledMap(Stale)[a] # None  BY <1>13 DEF Dispatch, Written
  <2>3. s \in Streams  BY <2>2, ReconciledTypes DEF ConnectionMap, Ref
  <2>4. sessions' \in [Sessions -> Row] /\ connections' \in ConnectionMap
    BY <2>1, <2>3, ReconciledTypes, MarkRowType, MapTypes
  <2>5. closed' \in SUBSET Streams
    BY <1>13, ReconciledTypes DEF Dispatch, Written
  <2> QED  BY <1>0, <1>13, <2>4, <2>5 DEF Dispatch, Written
<1>14. ASSUME Poll PROVE TypeOK'
  BY <1>0, <1>14, ReconciledTypes DEF Poll, Online
<1>15. ASSUME PollFails PROVE TypeOK'
  <2>1. PICK R \in SUBSET Stale : /\ sessions' = ReconciledRows(R)
                                  /\ closed' = ReconciledClosed(R)
                                  /\ connections' = ReconciledMap(R)
    BY <1>15 DEF PollFails
  <2> QED  BY <1>0, <1>15, <2>1, ReconciledTypes DEF PollFails
<1>16. ASSUME Tick PROVE TypeOK'
  <2>1. [c \in Ref |-> [conn[c] EXCEPT !.age = Older(@)]]
          \in [Ref -> AgentConnection]
    BY OlderType DEF AgentConnection
  <2>2. conn' \in [Ref -> AgentConnection]
    BY <1>16, <2>1, CollectedType DEF Tick
  <2>3. heard' \in [Agents -> Age]  BY <1>16, OlderType DEF Tick
  <2> QED  BY <1>16, <2>2, <2>3 DEF Tick
<1>17. ASSUME ServerCrash PROVE TypeOK'
  <2>1. connections' \in ConnectionMap
    BY <1>17 DEF ServerCrash, ConnectionMap
  <2>2. conn' \in [Ref -> AgentConnection]  BY <1>17, UnusedType DEF ServerCrash
  <2>3. /\ local' \in [Streams -> Ref \cup {None}]
        /\ \A s \in Streams : local'[s] # None => local'[s][1] = s
    BY <1>17 DEF ServerCrash
  <2>4. /\ pending' \in [Streams -> [Handlers -> Ref \cup {None, Idle}]]
        /\ \A s \in Streams, h \in Handlers : pending'[s][h] \notin Ref
    BY <1>17 DEF ServerCrash
  <2>5. /\ transport' \in [Streams -> Transports]
        /\ faults' \in 0 .. MaxFaults
    BY <1>17 DEF ServerCrash, Transports
  <2> QED  BY <1>17, <2>1, <2>2, <2>3, <2>4, <2>5 DEF ServerCrash
<1>18. CASE UNCHANGED vars
  BY <1>18 DEF vars
<1> QED
  BY <1>1, <1>2, <1>3, <1>4, <1>5, <1>6, <1>7, <1>8, <1>9, <1>10, <1>11,
     <1>12, <1>13, <1>14, <1>15, <1>16, <1>17, <1>18
     DEF Next, Resume, ResumeThrows

\* Every reachable state is well typed: in particular a Map entry is an object
\* of a call of the agent it is listed under, and so is every captured one.
THEOREM TypeCorrect == Spec => []TypeOK
BY TypeInit, TypeStep, PTL DEF Spec

-----------------------------------------------------------------------------
(* What a step does to the Map, the objects and the history, in the terms   *)
(* that the other theorems need.                                            *)

Shrinks == \A a \in Agents : connections'[a] \in {connections[a], None}
Keeps == \A c \in Ref : Referenced(c)' => conn'[c] = conn[c]

\* Nothing is heard and no read is answered.
Quiet == Shrinks /\ Keeps /\ heard' = heard /\ answer' = {}

\* An envelope of the call s is authorised: only s can enter the Map and only
\* objects of s are seen.
Hears(s) ==
  /\ s \notin expired
  /\ heard' = [heard EXCEPT ![AgentOf[s]] = 0]
  /\ answer' = {}
  /\ \A a \in Agents : \/ connections'[a] \in {connections[a], None}
                       \/ a = AgentOf[s] /\ connections'[a][1] = s
  /\ \A c \in Ref : Referenced(c)' /\ c[1] # s => conn'[c] = conn[c]

\* A read: stale connections go first, the answer holds what is left.
Reads ==
  /\ Shrinks /\ Keeps /\ heard' = heard
  /\ answer' \subseteq Online(ReconciledMap(Stale))

Step == Quiet \/ (\E s \in Streams : Hears(s)) \/ Tick \/ Reads
           \/ UNCHANGED vars

LEMMA KeepsCollected == conn' = Collected(conn) => Keeps
BY DEF Keeps, Collected

LEMMA SeenOthers ==
  ASSUME TypeOK, NEW c \in Ref, NEW x, conn' = Collected(Seen(c, x))
  PROVE  \A d \in Ref : Referenced(d)' /\ d[1] # c[1] => conn'[d] = conn[d]
BY DEF TypeOK, Collected, Seen

LEMMA MarkShrinks ==
  ASSUME NEW m \in ConnectionMap, NEW c
  PROVE  \A a \in Agents : MarkMap(m, c)[a] \in {m[a], None}
BY DEF ConnectionMap, MarkMap

LEMMA ReconciledShrinks ==
  ASSUME NEW R
  PROVE  \A a \in Agents : ReconciledMap(R)[a] \in {connections[a], None}
BY DEF ReconciledMap

\* The Map when c is put back and the connection d of the call is then marked.
LEMMA PutBackOnly ==
  ASSUME TypeOK, NEW c \in Ref, NEW d,
         connections' \in {PutBack(connections, c),
                           MarkMap(PutBack(connections, c), d)}
  PROVE  \A a \in Agents : \/ connections'[a] \in {connections[a], None}
                           \/ a = AgentOf[c[1]] /\ connections'[a][1] = c[1]
<1> DEFINE m == PutBack(connections, c)
<1>1. m \in ConnectionMap  BY MapTypes, RuntimeAssumption DEF TypeOK
<1>2. \A a \in Agents : a # AgentOf[c[1]] => m[a] = connections[a]
  BY DEF TypeOK, ConnectionMap, PutBack
<1>3. AgentOf[c[1]] \in Agents => m[AgentOf[c[1]]] = c
  BY DEF TypeOK, ConnectionMap, PutBack
<1>4. \A a \in Agents : connections'[a] \in {m[a], None}
  <2>1. CASE connections' = m  BY <2>1
  <2>2. CASE connections' = MarkMap(m, d)  BY <1>1, <2>2, MarkShrinks
  <2> QED  BY <2>1, <2>2
<1> HIDE DEF m
<1> QED  BY <1>2, <1>3, <1>4

LEMMA StepCases == TypeOK /\ [Next]_vars => Step
<1> SUFFICES ASSUME TypeOK, [Next]_vars PROVE Step
  OBVIOUS
<1> USE RuntimeAssumption DEF NoAnswer
<1>m. connections \in ConnectionMap
  BY DEF TypeOK
<1>q. ASSUME Shrinks, conn' = Collected(conn), heard' = heard, answer' = {}
      PROVE  Step
  BY <1>q, KeepsCollected DEF Step, Quiet
<1>h. ASSUME NEW s \in Streams, NEW c \in Ref, NEW x, NEW d,
             c[1] = s, Accepts(s), heard' = [heard EXCEPT ![AgentOf[s]] = 0],
             answer' = {}, conn' = Collected(Seen(c, x)),
             connections' \in {PutBack(connections, c),
                               MarkMap(PutBack(connections, c), d),
                               MarkMap(connections, d)}
      PROVE  Hears(s)
  <2>1. \A a \in Agents : \/ connections'[a] \in {connections[a], None}
                          \/ a = AgentOf[s] /\ connections'[a][1] = s
    <3>1. CASE connections' = MarkMap(connections, d)
      BY <1>m, <3>1, MarkShrinks
    <3>2. CASE connections' # MarkMap(connections, d)
      BY <1>h, <3>2, PutBackOnly
    <3> QED  BY <3>1, <3>2
  <2>2. \A e \in Ref : Referenced(e)' /\ e[1] # s => conn'[e] = conn[e]
    BY <1>h, SeenOthers
  <2> QED  BY <1>h, <2>1, <2>2 DEF Hears, Accepts
<1>1. ASSUME NEW s \in Streams, Connect(s) \/ StreamLost(s) \/ Expire(s)
      PROVE  Step
  BY <1>1 DEF Connect, StreamLost, Expire, Step, Quiet, Shrinks, Keeps
<1>2. ASSUME NEW s \in Streams, NEW h \in Handlers, Data(s, h) PROVE Step
  BY <1>2, <1>q DEF Data, Shrinks
<1>3. ASSUME NEW s \in Streams, NEW h \in Handlers, ResumeUnauthorized(s, h)
      PROVE  Step
  <2>1. Shrinks
    BY <1>m, <1>3, MarkShrinks DEF ResumeUnauthorized, Shrinks
  <2> QED  BY <1>3, <1>q, <2>1 DEF ResumeUnauthorized
<1>4. ASSUME NEW s \in Streams, NEW h \in Handlers, ResumeFirst(s, h)
      PROVE  Hears(s)
  <2> DEFINE c == CHOOSE c \in FreeRefs(s) : TRUE
  <2>1. c \in Ref /\ c[1] = s  BY <1>4, FreeRefIsRef DEF ResumeFirst
  <2>2. PICK x \in SessionsOf[s], written \in {"ok", "error"} :
          /\ connections' = [connections EXCEPT ![AgentOf[s]] =
                               IF written = "error" THEN None ELSE c]
          /\ conn' = Collected(Seen(c, x))
    BY <1>4 DEF ResumeFirst, WriteOutcomes
  <2>3. connections' \in {PutBack(connections, c), MarkMap(connections, c)}
    BY <2>1, <2>2 DEF PutBack, MarkMap
  <2>4. /\ Accepts(s) /\ answer' = {}
        /\ heard' = [heard EXCEPT ![AgentOf[s]] = 0]
    BY <1>4 DEF ResumeFirst
  <2> HIDE DEF c
  <2> QED  BY <1>h, <2>1, <2>2, <2>3, <2>4
<1>5. ASSUME NEW s \in Streams, NEW h \in Handlers, ResumeKnown(s, h)
      PROVE  Hears(s)
  <2>1. pending[s][h] \in Ref /\ pending[s][h][1] = s
    BY <1>5, ResumedType DEF ResumeKnown, TypeOK
  <2>2. /\ Accepts(s) /\ answer' = {}
        /\ heard' = [heard EXCEPT ![AgentOf[s]] = 0]
    BY <1>5 DEF ResumeKnown
  <2>3. PICK x \in SessionsOf[s] :
          /\ connections' = PutBack(connections, pending[s][h])
          /\ conn' = Collected(Seen(pending[s][h], x))
    BY <1>5 DEF ResumeKnown
  <2> QED  BY <1>h, <2>1, <2>2, <2>3
<1>6. ASSUME NEW s \in Streams, NEW h \in Handlers, ResumeNoSecret(s, h)
      PROVE  Step
  <2>1. Shrinks  BY <1>m, <1>6, MarkShrinks DEF ResumeNoSecret, Shrinks
  <2> QED  BY <1>6, <1>q, <2>1 DEF ResumeNoSecret
<1>7. ASSUME NEW s \in Streams, NEW h \in Handlers, ResumeUpsertFails(s, h)
      PROVE  Hears(s)
  <2>1. /\ Accepts(s) /\ answer' = {} /\ Resumes(s, h)
        /\ heard' = [heard EXCEPT ![AgentOf[s]] = 0]
    BY <1>7 DEF ResumeUpsertFails
  <2>2. PICK x \in SessionsOf[s] :
          \/ /\ FreeRefs(s) # {}
             /\ LET c == CHOOSE c \in FreeRefs(s) : TRUE
                IN  /\ connections' = MarkMap(
                         [connections EXCEPT ![AgentOf[s]] = c], local[s])
                    /\ conn' = Collected(Seen(c, x))
          \/ /\ pending[s][h] # None
             /\ connections' = MarkMap(connections, local[s])
             /\ conn' = Collected(Seen(pending[s][h], x))
    BY <1>7 DEF ResumeUpsertFails
  <2>3. ASSUME FreeRefs(s) # {},
               LET c == CHOOSE c \in FreeRefs(s) : TRUE
               IN  /\ connections' = MarkMap(
                        [connections EXCEPT ![AgentOf[s]] = c], local[s])
                   /\ conn' = Collected(Seen(c, x))
        PROVE  Hears(s)
    <3> DEFINE c == CHOOSE c \in FreeRefs(s) : TRUE
    <3>1. c \in Ref /\ c[1] = s  BY <2>3, FreeRefIsRef
    <3>2. PutBack(connections, c) = [connections EXCEPT ![AgentOf[s]] = c]
      BY <3>1 DEF PutBack
    <3>3. /\ connections' = MarkMap(PutBack(connections, c), local[s])
          /\ conn' = Collected(Seen(c, x))
      BY <2>3, <3>2
    <3> HIDE DEF c
    <3> QED  BY <1>h, <2>1, <3>1, <3>3
  <2>4. ASSUME pending[s][h] # None,
               connections' = MarkMap(connections, local[s]),
               conn' = Collected(Seen(pending[s][h], x))
        PROVE  Hears(s)
    <3>1. pending[s][h] \in Ref /\ pending[s][h][1] = s
      BY <2>1, <2>4, ResumedType DEF TypeOK
    <3> QED  BY <1>h, <2>1, <2>4, <3>1
  <2> QED  BY <2>2, <2>3, <2>4
<1>8. ASSUME NEW s \in Streams, NEW h \in Handlers, ResumePublishFails(s, h)
      PROVE  Hears(s)
  <2> DEFINE c == IF pending[s][h] = None
                    THEN CHOOSE c \in FreeRefs(s) : TRUE ELSE pending[s][h]
  <2>1. c \in Ref /\ c[1] = s
    BY <1>8, FreeRefIsRef, ResumedType DEF ResumePublishFails, TypeOK
  <2>2. PICK x \in SessionsOf[s] :
          /\ connections' =
               MarkMap([connections EXCEPT ![AgentOf[s]] = c], local[s])
          /\ conn' = Collected(Seen(c, x))
    BY <1>8 DEF ResumePublishFails
  <2> HIDE DEF c
  <2>3. connections' = MarkMap(PutBack(connections, c), local[s])
    BY <2>1, <2>2 DEF PutBack
  <2>4. /\ Accepts(s) /\ answer' = {}
        /\ heard' = [heard EXCEPT ![AgentOf[s]] = 0]
    BY <1>8 DEF ResumePublishFails
  <2> QED  BY <1>h, <2>1, <2>2, <2>3, <2>4
<1>9. ASSUME NEW s \in Streams, StreamEnd(s) \/ StreamError(s) PROVE Step
  <2>1. Shrinks
    BY <1>m, <1>9, MarkShrinks DEF StreamEnd, StreamError, Shrinks
  <2> QED  BY <1>9, <1>q, <2>1 DEF StreamEnd, StreamError
<1>10. ASSUME NEW a \in Agents, Dispatch(a) PROVE Reads
  <2> DEFINE left == ReconciledMap(Stale)
  <2>1. left \in ConnectionMap  BY ReconciledTypes
  <2>2. PICK marked : connections' = MarkMap(left, marked)
    BY <1>10 DEF Dispatch, Written
  <2>3. Shrinks
    <3>1. \A b \in Agents : left[b] \in {connections[b], None}
      BY ReconciledShrinks
    <3>2. \A b \in Agents : connections'[b] \in {left[b], None}
      BY <2>1, <2>2, MarkShrinks
    <3> HIDE DEF left
    <3> QED  BY <3>1, <3>2 DEF Shrinks
  <2>4. answer' \subseteq Online(left)  BY <1>10 DEF Dispatch, Written, Online
  <2> QED  BY <1>10, <2>3, <2>4, KeepsCollected DEF Dispatch, Written, Reads
<1>11. ASSUME Poll PROVE Reads
  BY <1>11, ReconciledShrinks, KeepsCollected DEF Poll, Reads, Shrinks
<1>12. ASSUME PollFails PROVE Step
  <2>1. Shrinks  BY <1>12, ReconciledShrinks DEF PollFails, Shrinks
  <2> QED  BY <1>12, <1>q, <2>1 DEF PollFails
<1>13. ASSUME ServerCrash PROVE Step
  <2>1. Shrinks  BY <1>13 DEF ServerCrash, Shrinks
  <2>2. \A c \in Ref : ~Referenced(c)'
    BY <1>13 DEF ServerCrash, Referenced
  <2> QED  BY <1>13, <2>1, <2>2 DEF ServerCrash, Step, Quiet, Keeps
<1> QED
  BY <1>1, <1>2, <1>3, <1>4, <1>5, <1>6, <1>7, <1>8, <1>9, <1>10, <1>11,
     <1>12, <1>13 DEF Next, Resume, ResumeThrows, Step

-----------------------------------------------------------------------------
\* The inductive invariant of presence: what the Map believes is never fresher
\* than the history, so an answer filtered by age is filtered by the history.
Fresh == TypeOK /\ NoFresherThanHeard

\* An object the Map holds is referred to, so the collector leaves it alone.
LEMMA ListedIsReferenced ==
  \A a \in Agents, c \in Ref : connections'[a] = c => Referenced(c)'
BY DEF Referenced

LEMMA NotStale ==
  ASSUME Fresh, NEW a \in Online(ReconciledMap(Stale))
  PROVE  a \in Online(connections) /\ heard[a] <= Timeout
<1>1. a \in Agents /\ connections[a] # None /\ a \notin Stale
  BY DEF Online, ReconciledMap
<1>2. connections[a] \in Ref
  BY <1>1 DEF Fresh, TypeOK, ConnectionMap
<1>3. conn[connections[a]].age \in Age /\ heard[a] \in Age
  BY <1>1, <1>2 DEF Fresh, TypeOK, AgentConnection
<1>4. conn[connections[a]].age <= Timeout
  BY <1>1, <1>3, RuntimeAssumption DEF Stale, Age
<1> QED
  BY <1>1, <1>3, <1>4, RuntimeAssumption
     DEF Fresh, NoFresherThanHeard, Online, Age

LEMMA FreshStep == Fresh /\ [Next]_vars => Fresh'
<1> SUFFICES ASSUME Fresh, [Next]_vars PROVE Fresh'
  OBVIOUS
<1> USE RuntimeAssumption
<1>1. TypeOK /\ TypeOK' /\ Step
  BY TypeStep, StepCases DEF Fresh
<1>2. SUFFICES ASSUME NEW a \in Agents, connections'[a] # None
               PROVE  conn'[connections'[a]].age >= heard'[a]
  BY <1>1 DEF Fresh, NoFresherThanHeard
<1>3. PICK c \in Ref : connections'[a] = c /\ AgentOf[c[1]] = a
  BY <1>1, <1>2 DEF TypeOK, ConnectionMap
<1>4. Referenced(c)' /\ conn'[c].age \in Age /\ heard[a] \in Age
  BY <1>1, <1>3, ListedIsReferenced DEF TypeOK, AgentConnection
<1>5. connections[a] = c => conn[c].age >= heard[a] /\ conn[c].age \in Age
  BY <1>1, <1>2, <1>3 DEF Fresh, NoFresherThanHeard, TypeOK, AgentConnection
<1>6. CASE Quiet \/ Reads
  BY <1>2, <1>3, <1>4, <1>5, <1>6 DEF Quiet, Reads, Shrinks, Keeps
<1>7. ASSUME NEW s \in Streams, Hears(s) PROVE conn'[c].age >= heard'[a]
  <2>1. CASE a = AgentOf[s]
    <3>1. heard'[a] = 0  BY <1>1, <1>7, <2>1 DEF Hears, TypeOK
    <3> QED  BY <1>4, <3>1 DEF Age
  <2>2. CASE a # AgentOf[s]
    <3>1. heard'[a] = heard[a] /\ connections[a] = c /\ c[1] # s
      BY <1>1, <1>2, <1>3, <1>7, <2>2 DEF Hears, TypeOK
    <3>2. conn'[c] = conn[c]  BY <1>4, <1>7, <3>1 DEF Hears
    <3> QED  BY <1>5, <3>1, <3>2
  <2> QED  BY <2>1, <2>2
<1>8. CASE Tick
  <2>1. connections[a] = c  BY <1>3, <1>8 DEF Tick
  <2>2. conn'[c].age = Older(conn[c].age)
    BY <1>1, <1>4, <1>8 DEF Tick, Collected, TypeOK, AgentConnection
  <2>3. heard'[a] = Older(heard[a])  BY <1>8 DEF Tick
  <2> QED  BY <1>3, <1>4, <1>5, <2>1, <2>2, <2>3 DEF Older, Age
<1>9. CASE UNCHANGED vars
  BY <1>3, <1>5, <1>9 DEF vars
<1> QED  BY <1>1, <1>3, <1>6, <1>7, <1>8, <1>9 DEF Step

LEMMA FreshInit == Init => Fresh
BY TypeInit DEF Init, Fresh, NoFresherThanHeard

\* A read counts an agent online, and a command is dispatched to it, only if an
\* envelope of it was authorised within the heartbeat timeout: for every number
\* of agents, calls, suspended handlers, sessions and faults.
THEOREM AnswersAreRecent == Spec => []AnswerIsRecent
<1>1. Fresh /\ AnswerIsRecent /\ [Next]_vars => AnswerIsRecent'
  <2> SUFFICES ASSUME Fresh, AnswerIsRecent, [Next]_vars,
                      NEW a \in answer'
               PROVE  heard'[a] <= Timeout
    BY DEF AnswerIsRecent
  <2>1. Step  BY StepCases DEF Fresh
  <2>2. CASE Reads
    BY <2>2, NotStale DEF Reads
  <2>3. CASE Quiet \/ (\E s \in Streams : Hears(s)) \/ Tick
    BY <2>3 DEF Quiet, Hears, Tick, NoAnswer
  <2>4. CASE UNCHANGED vars
    BY <2>4 DEF vars, AnswerIsRecent
  <2> QED  BY <2>1, <2>2, <2>3, <2>4 DEF Step
<1>2. Init => AnswerIsRecent
  BY DEF Init, AnswerIsRecent
<1> QED  BY <1>1, <1>2, FreshInit, FreshStep, PTL DEF Spec

\* Once a token is rejected its call never enters the Map again, for every
\* interleaving of suspended handlers.
THEOREM ExpiredStaysOut == Spec => ExpiredNeverRelisted
<1>1. TypeOK /\ TypeOK' /\ [Next]_vars =>
        [\A s \in expired : ~Listed(s) => ~Listed(s)']_vars
  <2> SUFFICES ASSUME TypeOK, TypeOK', [Next]_vars,
                      NEW s \in expired, Listed(s)'
               PROVE  Listed(s)
    BY DEF TypeOK
  <2>1. Step  BY StepCases
  <2> DEFINE a == AgentOf[s]
  <2>2. s \in Streams /\ a \in Agents  BY RuntimeAssumption DEF TypeOK
  <2>3. connections'[a] # None /\ connections'[a][1] = s  BY DEF Listed
  <2>4. connections'[a] = connections[a] => Listed(s)  BY <2>3 DEF Listed
  <2> HIDE DEF a
  <2>5. CASE Quiet \/ Reads
    BY <2>2, <2>3, <2>4, <2>5 DEF Quiet, Reads, Shrinks
  <2>6. CASE \E t \in Streams : Hears(t)
    BY <2>2, <2>3, <2>4, <2>6 DEF Hears
  <2>7. CASE Tick \/ UNCHANGED vars
    BY <2>4, <2>7 DEF Tick, vars
  <2> QED  BY <2>1, <2>5, <2>6, <2>7 DEF Step
<1> QED  BY <1>1, TypeCorrect, PTL DEF Spec, ExpiredNeverRelisted

-----------------------------------------------------------------------------
LEMMA PresenceInit == Init => Presence!Init
BY DEF Init, Presence!Init, Online

LEMMA PresenceStep ==
  Fresh /\ TypeOK' /\ [Next]_vars => [Presence!Next]_(Presence!vars)
<1> SUFFICES ASSUME Fresh, TypeOK', [Next]_vars
             PROVE  [Presence!Next]_(Presence!vars)
  OBVIOUS
<1>1. Step  BY StepCases DEF Fresh
<1>2. Shrinks => Online(connections') \subseteq Online(connections)
  BY DEF Shrinks, Online
<1>3. CASE Quiet
  <2>1. Presence!Lose  BY <1>2, <1>3 DEF Quiet, Presence!Lose, Online
  <2> QED  BY <2>1 DEF Presence!Next
<1>4. ASSUME NEW s \in Streams, Hears(s) PROVE Presence!Next
  <2>1. AgentOf[s] \in Agents  BY RuntimeAssumption
  <2>2. Online(connections') \subseteq Online(connections) \cup {AgentOf[s]}
    BY <1>4 DEF Hears, Online
  <2>3. Presence!Hear(AgentOf[s])
    BY <1>4, <2>2 DEF Hears, Presence!Hear, Online
  <2> QED  BY <2>1, <2>3 DEF Presence!Next
<1>5. CASE Tick
  <2>1. heard' = [a \in Agents |-> IF heard[a] > Timeout THEN heard[a]
                                                         ELSE heard[a] + 1]
    BY <1>5 DEF Tick, Older
  <2>2. Presence!Tick  BY <1>5, <2>1 DEF Tick, NoAnswer, Presence!Tick, Online
  <2> QED  BY <2>2 DEF Presence!Next
<1>6. CASE Reads
  <2>1. \A a \in answer' : a \in Online(connections) /\ heard[a] <= Timeout
    BY <1>6, NotStale DEF Reads
  <2>2. Online(connections') \subseteq Online(connections)
    BY <1>2, <1>6 DEF Reads
  <2>3. heard' = heard  BY <1>6 DEF Reads
  <2>4. Presence!Answer  BY <2>1, <2>2, <2>3 DEF Presence!Answer, Online
  <2> QED  BY <2>4 DEF Presence!Next
<1>7. CASE UNCHANGED vars
  BY <1>7 DEF vars, Presence!vars, Online
<1> QED  BY <1>1, <1>3, <1>4, <1>5, <1>6, <1>7 DEF Step

\* The runtime implements the abstract presence of AgentPresence, with the
\* agents that have a Map entry as the ones online.
THEOREM ImplementsPresence == Spec => PresenceSpec
BY PresenceInit, PresenceStep, FreshInit, FreshStep, TypeCorrect, PTL
   DEF Spec, PresenceSpec, Presence!Spec

-----------------------------------------------------------------------------
(* Heartbeat timeouts.                                                     *)

\* An object in use holds a session id that its own call presented.
OwnSessions ==
  \A c \in Ref : Referenced(c) => conn[c].session \in SessionsOf[c[1]]

TimedOut == TypeOK /\ OwnSessions /\ TimedOutCallIsClosed

\* A step refers to no object that was not in use, other than one it touches.
NoNewRefs(c) == \A d \in Ref : Referenced(d)' => Referenced(d) \/ d = c

\* No row gets the reason heartbeat_timeout.
NoTimeout(rows, old) ==
  \A x \in Sessions : rows[x].reason = "heartbeat_timeout" =>
                        old[x].reason = "heartbeat_timeout"

LEMMA RowReasons ==
  ASSUME NEW rows \in [Sessions -> Row], NEW x \in Sessions
  PROVE  /\ NoTimeout(UpsertOnline(rows, x), rows)
         /\ NoTimeout(UpsertDisconnected(rows, x, "stream"), rows)
BY DEF Row, NoTimeout, UpsertOnline, UpsertDisconnected

LEMMA MarkReason ==
  ASSUME TypeOK, NEW rows \in [Sessions -> Row], NEW c \in Ref \cup {None}
  PROVE  NoTimeout(MarkRow(rows, c, "stream"), rows)
<1>1. CASE c = None  BY <1>1 DEF MarkRow, NoTimeout
<1>2. CASE c \in Ref
  <2>1. conn[c].session \in Sessions  BY <1>2 DEF TypeOK, AgentConnection
  <2>2. NoTimeout(UpsertDisconnected(rows, conn[c].session, "stream"), rows)
    BY <2>1, RowReasons
  <2> QED  BY <2>2 DEF MarkRow, NoTimeout
<1> QED  BY <1>1, <1>2

LEMMA NoTimeoutTrans ==
  ASSUME NEW r, NEW q, NEW p, NoTimeout(r, q), NoTimeout(q, p)
  PROVE  NoTimeout(r, p)
BY DEF NoTimeout

\* A reconciled row is the row of an object that was listed, on a closed call.
LEMMA ReconciledReasons ==
  ASSUME TimedOut, NEW R \in SUBSET Stale, NEW x \in Sessions,
         ReconciledRows(R)[x].reason = "heartbeat_timeout"
  PROVE  \E s \in ReconciledClosed(R) : x \in SessionsOf[s]
<1>1. CASE \E a \in R : conn[connections[a]].session = x
  <2>1. PICK a \in R : conn[connections[a]].session = x  BY <1>1
  <2>2. connections[a] \in Ref /\ a \in Agents
    BY <2>1 DEF TimedOut, TypeOK, ConnectionMap, Stale
  <2>3. Referenced(connections[a])  BY <2>2 DEF Referenced
  <2>4. x \in SessionsOf[connections[a][1]]
    BY <2>1, <2>2, <2>3 DEF TimedOut, OwnSessions
  <2> QED  BY <2>1, <2>4 DEF ReconciledClosed
<1>2. CASE ~\E a \in R : conn[connections[a]].session = x
  <2>1. sessions[x].reason = "heartbeat_timeout"  BY <1>2 DEF ReconciledRows
  <2>2. closed \subseteq ReconciledClosed(R)  BY DEF ReconciledClosed
  <2> QED  BY <2>1, <2>2 DEF TimedOut, TimedOutCallIsClosed
<1> QED  BY <1>1, <1>2

\* Objects keep their session, or take one that their call presents.
LEMMA OwnSessionsStep ==
  ASSUME TimedOut, NEW c \in Ref, NEW x \in SessionsOf[c[1]], NoNewRefs(c),
         conn' = Collected(Seen(c, x))
  PROVE  OwnSessions'
<1> SUFFICES ASSUME NEW d \in Ref, Referenced(d)'
             PROVE  conn'[d].session \in SessionsOf[d[1]]
  BY DEF OwnSessions
<1>1. conn'[d] = Seen(c, x)[d]  BY DEF Collected
<1>2. CASE d = c  BY <1>1, <1>2 DEF Seen, TimedOut, TypeOK
<1>3. CASE d # c
  <2>1. conn'[d] = conn[d]  BY <1>1, <1>3 DEF Seen, TimedOut, TypeOK
  <2>2. Referenced(d)  BY <1>3 DEF NoNewRefs
  <2> QED  BY <2>1, <2>2 DEF TimedOut, OwnSessions
<1> QED  BY <1>2, <1>3

LEMMA OwnSessionsKept ==
  ASSUME TimedOut, \A d \in Ref : Referenced(d)' => Referenced(d), Keeps
  PROVE  OwnSessions'
BY DEF TimedOut, OwnSessions, Keeps

LEMMA ClosedKept ==
  ASSUME TimedOut, NoTimeout(sessions', sessions), closed \subseteq closed'
  PROVE  TimedOutCallIsClosed'
BY DEF TimedOut, TimedOutCallIsClosed, NoTimeout

LEMMA TimedOutStep == TimedOut /\ [Next]_vars => TimedOut'
<1> SUFFICES ASSUME TimedOut, [Next]_vars PROVE OwnSessions' /\ TimedOutCallIsClosed'
  BY TypeStep DEF TimedOut
<1> USE RuntimeAssumption
<1>0. /\ TypeOK /\ sessions \in [Sessions -> Row] /\ connections \in ConnectionMap
      /\ \A s \in Streams : local[s] \in Ref \cup {None}
      /\ \A s \in Streams : NoTimeout(MarkRow(sessions, local[s], "stream"),
                                      sessions)
  BY MarkReason DEF TimedOut, TypeOK
\* The references of a handler's step.
<1>r. ASSUME NEW s \in Streams, NEW h \in Handlers, NEW c \in Ref, NEW d,
             Resumes(s, h), local' \in {local, [local EXCEPT ![s] = c]},
             connections' \in {PutBack(connections, c),
                               MarkMap(PutBack(connections, c), d),
                               MarkMap(connections, d), connections}
      PROVE  NoNewRefs(c)
  <2> SUFFICES ASSUME NEW e \in Ref, Referenced(e)', e # c
               PROVE  Referenced(e)
    BY DEF NoNewRefs
  <2>1. ASSUME NEW t \in Streams, local'[t] = e PROVE local[t] = e
    BY <1>0, <1>r, <2>1 DEF TypeOK
  <2>2. ASSUME NEW t \in Streams, NEW g \in Handlers, pending'[t][g] = e
        PROVE  pending[t][g] = e
    BY <1>0, <1>r, <2>2 DEF TypeOK, Resumes
  <2>3. ASSUME NEW a \in Agents, connections'[a] = e PROVE connections[a] = e
    <3>1. PutBack(connections, c) \in ConnectionMap  BY <1>0, MapTypes
    <3>2. PutBack(connections, c)[a] \in {connections[a], c}
      BY <1>0 DEF ConnectionMap, PutBack
    <3>3. /\ MarkMap(PutBack(connections, c), d)[a] \in {connections[a], c, None}
          /\ MarkMap(connections, d)[a] \in {connections[a], None}
      BY <1>0, <3>1, <3>2, MarkShrinks
    <3> QED  BY <1>r, <2>3, <3>2, <3>3
  <2> QED  BY <2>1, <2>2, <2>3 DEF Referenced
\* An accepted envelope touches an object of its own call.
<1>t. ASSUME NEW s \in Streams, NEW h \in Handlers, NEW c \in Ref, NEW d,
             NEW x \in SessionsOf[s], c[1] = s, Resumes(s, h),
             local' \in {local, [local EXCEPT ![s] = c]},
             connections' \in {PutBack(connections, c),
                               MarkMap(PutBack(connections, c), d),
                               MarkMap(connections, d), connections},
             conn' = Collected(Seen(c, x)), closed' = closed,
             NoTimeout(sessions', sessions)
      PROVE  OwnSessions' /\ TimedOutCallIsClosed'
  BY <1>t, <1>r, OwnSessionsStep, ClosedKept
\* A step that touches no object and refers to no new one.
<1>k. ASSUME \A d \in Ref : Referenced(d)' => Referenced(d), Keeps,
             closed \subseteq closed', NoTimeout(sessions', sessions)
      PROVE  OwnSessions' /\ TimedOutCallIsClosed'
  BY <1>k, OwnSessionsKept, ClosedKept
\* The references of a step that only takes entries out of the Map.
<1>s. ASSUME Shrinks, local' = local,
             pending' = pending \/ \E s \in Streams, h \in Handlers : Resumes(s, h)
      PROVE  \A d \in Ref : Referenced(d)' => Referenced(d)
  <2> SUFFICES ASSUME NEW d \in Ref, Referenced(d)' PROVE Referenced(d)
    OBVIOUS
  <2>1. ASSUME NEW t \in Streams, NEW g \in Handlers, pending'[t][g] = d
        PROVE  pending[t][g] = d
    <3>1. CASE pending' = pending  BY <2>1, <3>1
    <3>2. ASSUME NEW s \in Streams, NEW h \in Handlers, Resumes(s, h)
          PROVE  pending[t][g] = d
      BY <1>0, <2>1, <3>2 DEF TypeOK, Resumes
    <3> QED  BY <1>s, <3>1, <3>2
  <2> QED  BY <1>s, <2>1 DEF Shrinks, Referenced
<1>1. ASSUME NEW s \in Streams, Connect(s) \/ StreamLost(s) \/ Expire(s)
      PROVE  OwnSessions' /\ TimedOutCallIsClosed'
  <2>1. UNCHANGED <<local, pending, connections, conn, sessions, closed>>
    BY <1>1 DEF Connect, StreamLost, Expire
  <2> QED  BY <2>1, <1>k DEF Referenced, Keeps, NoTimeout
<1>2. ASSUME NEW s \in Streams, NEW h \in Handlers, Data(s, h)
      PROVE  OwnSessions' /\ TimedOutCallIsClosed'
  <2>1. \A d \in Ref : Referenced(d)' => Referenced(d)
    BY <1>0, <1>2 DEF Data, Referenced, TypeOK
  <2> QED  BY <2>1, <1>2, <1>k, KeepsCollected DEF Data, NoTimeout
<1>3. ASSUME NEW s \in Streams, NEW h \in Handlers, ResumeUnauthorized(s, h)
      PROVE  OwnSessions' /\ TimedOutCallIsClosed'
  <2>1. PICK marked \in {pending[s][h], None} :
          /\ sessions' = MarkRow(sessions, marked, "stream")
          /\ connections' = MarkMap(connections, marked)
    BY <1>3 DEF ResumeUnauthorized
  <2>2. marked \in Ref \cup {None}
    BY <1>0, <1>3, ResumedType DEF ResumeUnauthorized
  <2>3. NoTimeout(sessions', sessions)  BY <1>0, <2>1, <2>2, MarkReason
  <2>4. Shrinks  BY <1>0, <2>1, MarkShrinks DEF Shrinks
  <2>5. ASSUME NEW d \in Ref, Referenced(d)' PROVE Referenced(d)
    <3>1. ASSUME NEW t \in Streams, local'[t] = d
          PROVE  local[t] = d \/ pending[s][h] = d
      BY <1>0, <1>3, <3>1 DEF ResumeUnauthorized, TypeOK
    <3>2. ASSUME NEW t \in Streams, NEW g \in Handlers, pending'[t][g] = d
          PROVE  pending[t][g] = d
      BY <1>0, <1>3, <3>2 DEF ResumeUnauthorized, Resumes, TypeOK
    <3> QED  BY <2>4, <2>5, <3>1, <3>2 DEF Referenced, Shrinks
  <2>6. Keeps /\ closed' = closed
    BY <1>3, KeepsCollected DEF ResumeUnauthorized
  <2> QED  BY <1>k, <2>3, <2>5, <2>6
<1>4. ASSUME NEW s \in Streams, NEW h \in Handlers, ResumeFirst(s, h)
      PROVE  OwnSessions' /\ TimedOutCallIsClosed'
  <2> DEFINE c == CHOOSE c \in FreeRefs(s) : TRUE
  <2>1. c \in Ref /\ c[1] = s  BY <1>4, FreeRefIsRef DEF ResumeFirst
  <2>2. PICK x \in SessionsOf[s], written \in {"ok", "error"} :
          /\ local' = [local EXCEPT ![s] = c]
          /\ connections' = [connections EXCEPT ![AgentOf[s]] =
                               IF written = "error" THEN None ELSE c]
          /\ sessions' = IF written = "error"
                           THEN UpsertDisconnected(UpsertOnline(sessions, x),
                                                   x, "stream")
                           ELSE UpsertOnline(sessions, x)
          /\ conn' = Collected(Seen(c, x))
    BY <1>4 DEF ResumeFirst, WriteOutcomes
  <2>3. connections' \in {PutBack(connections, c), MarkMap(connections, c)}
    BY <2>1, <2>2 DEF PutBack, MarkMap
  <2>4. NoTimeout(sessions', sessions)
    <3>1. x \in Sessions  OBVIOUS
    <3>2. /\ UpsertOnline(sessions, x) \in [Sessions -> Row]
          /\ NoTimeout(UpsertOnline(sessions, x), sessions)
      BY <1>0, <3>1, RowTypes, RowReasons
    <3>3. NoTimeout(UpsertDisconnected(UpsertOnline(sessions, x), x, "stream"),
                    UpsertOnline(sessions, x))
      BY <3>1, <3>2, RowReasons
    <3> QED  BY <2>2, <3>2, <3>3, NoTimeoutTrans
  <2>5. Resumes(s, h) /\ closed' = closed  BY <1>4 DEF ResumeFirst
  <2> HIDE DEF c
  <2> QED  BY <1>t, <2>1, <2>2, <2>3, <2>4, <2>5
<1>5. ASSUME NEW s \in Streams, NEW h \in Handlers, ResumeKnown(s, h)
      PROVE  OwnSessions' /\ TimedOutCallIsClosed'
  <2> DEFINE c == pending[s][h]
  <2>1. c \in Ref /\ c[1] = s
    BY <1>0, <1>5, ResumedType DEF ResumeKnown, TypeOK
  <2>2. PICK x \in SessionsOf[s] :
          /\ local' = [local EXCEPT ![s] = c]
          /\ connections' = PutBack(connections, c)
          /\ sessions' = IF conn[c].session = x THEN sessions
                                                ELSE UpsertOnline(sessions, x)
          /\ conn' = Collected(Seen(c, x))
    BY <1>5 DEF ResumeKnown
  <2>3. NoTimeout(sessions', sessions)
    BY <1>0, <2>2, RowReasons DEF NoTimeout
  <2>4. Resumes(s, h) /\ closed' = closed  BY <1>5 DEF ResumeKnown
  <2> HIDE DEF c
  <2> QED  BY <1>t, <2>1, <2>2, <2>3, <2>4
<1>6. ASSUME NEW s \in Streams, NEW h \in Handlers, ResumeNoSecret(s, h)
      PROVE  OwnSessions' /\ TimedOutCallIsClosed'
  <2>1. Shrinks  BY <1>0, <1>6, MarkShrinks DEF ResumeNoSecret, Shrinks
  <2>2. \A d \in Ref : Referenced(d)' => Referenced(d)
    BY <1>6, <1>s, <2>1 DEF ResumeNoSecret
  <2> QED  BY <1>0, <1>6, <1>k, <2>2, KeepsCollected DEF ResumeNoSecret

<1>7. ASSUME NEW s \in Streams, NEW h \in Handlers, ResumeUpsertFails(s, h)
      PROVE  OwnSessions' /\ TimedOutCallIsClosed'
  <2>1. Resumes(s, h) /\ closed' = closed /\ local' = local
    BY <1>7 DEF ResumeUpsertFails
  <2>2. PICK x \in SessionsOf[s] :
          \/ /\ FreeRefs(s) # {}
             /\ LET c == CHOOSE c \in FreeRefs(s) : TRUE
                IN  /\ connections' = MarkMap(
                         [connections EXCEPT ![AgentOf[s]] = c], local[s])
                    /\ conn' = Collected(Seen(c, x))
             /\ sessions' = MarkRow(sessions, local[s], "stream")
          \/ /\ pending[s][h] # None
             /\ connections' = MarkMap(connections, local[s])
             /\ conn' = Collected(Seen(pending[s][h], x))
             /\ sessions' \in {UpsertDisconnected(sessions, x, "stream"),
                               MarkRow(sessions, local[s], "stream")}
    BY <1>7 DEF ResumeUpsertFails
  <2>3. NoTimeout(sessions', sessions)
    BY <1>0, <2>2, RowReasons
  <2>4. ASSUME FreeRefs(s) # {},
               LET c == CHOOSE c \in FreeRefs(s) : TRUE
               IN  /\ connections' = MarkMap(
                        [connections EXCEPT ![AgentOf[s]] = c], local[s])
                   /\ conn' = Collected(Seen(c, x))
        PROVE  OwnSessions' /\ TimedOutCallIsClosed'
    <3> DEFINE c == CHOOSE c \in FreeRefs(s) : TRUE
    <3>1. c \in Ref /\ c[1] = s  BY <2>4, FreeRefIsRef
    <3>2. PutBack(connections, c) = [connections EXCEPT ![AgentOf[s]] = c]
      BY <3>1 DEF PutBack
    <3>3. /\ connections' = MarkMap(PutBack(connections, c), local[s])
          /\ conn' = Collected(Seen(c, x))
      BY <2>4, <3>2
    <3> HIDE DEF c
    <3> QED  BY <1>t, <2>1, <2>3, <3>1, <3>3
  <2>5. ASSUME pending[s][h] # None,
               connections' = MarkMap(connections, local[s]),
               conn' = Collected(Seen(pending[s][h], x))
        PROVE  OwnSessions' /\ TimedOutCallIsClosed'
    <3>1. pending[s][h] \in Ref /\ pending[s][h][1] = s
      BY <1>0, <2>1, <2>5, ResumedType DEF TypeOK
    <3> QED  BY <1>t, <2>1, <2>3, <2>5, <3>1
  <2> QED  BY <2>2, <2>4, <2>5
<1>8. ASSUME NEW s \in Streams, NEW h \in Handlers, ResumePublishFails(s, h)
      PROVE  OwnSessions' /\ TimedOutCallIsClosed'
  <2> DEFINE c == IF pending[s][h] = None
                    THEN CHOOSE c \in FreeRefs(s) : TRUE ELSE pending[s][h]
  <2>1. c \in Ref /\ c[1] = s
    BY <1>0, <1>8, FreeRefIsRef, ResumedType DEF ResumePublishFails, TypeOK
  <2>x. PICK x \in SessionsOf[s] :
         \E touched \in {UpsertOnline(sessions, x), sessions} :
          /\ connections' =
               MarkMap([connections EXCEPT ![AgentOf[s]] = c], local[s])
          /\ sessions' \in {UpsertDisconnected(touched, x, "stream"),
                            MarkRow(touched, local[s], "stream")}
          /\ conn' = Collected(Seen(c, x))
    BY <1>8 DEF ResumePublishFails
  <2>2. PICK touched \in {UpsertOnline(sessions, x), sessions} :
          /\ connections' =
               MarkMap([connections EXCEPT ![AgentOf[s]] = c], local[s])
          /\ sessions' \in {UpsertDisconnected(touched, x, "stream"),
                            MarkRow(touched, local[s], "stream")}
          /\ conn' = Collected(Seen(c, x))
    BY <2>x
  <2> HIDE DEF c
  <2>3. connections' = MarkMap(PutBack(connections, c), local[s])
    BY <2>1, <2>2 DEF PutBack
  <2>4. NoTimeout(sessions', sessions)
    <3>1. x \in Sessions  OBVIOUS
    <3>2. touched \in [Sessions -> Row] /\ NoTimeout(touched, sessions)
      BY <1>0, <2>2, <3>1, RowTypes, RowReasons DEF NoTimeout
    <3>3. /\ NoTimeout(UpsertDisconnected(touched, x, "stream"), touched)
          /\ NoTimeout(MarkRow(touched, local[s], "stream"), touched)
      BY <1>0, <3>1, <3>2, RowReasons, MarkReason
    <3> QED  BY <2>2, <3>2, <3>3, NoTimeoutTrans
  <2>5. Resumes(s, h) /\ closed' = closed /\ local' = local
    BY <1>8 DEF ResumePublishFails
  <2> QED  BY <1>t, <2>1, <2>2, <2>3, <2>4, <2>5
<1>9. ASSUME NEW s \in Streams, StreamEnd(s) \/ StreamError(s)
      PROVE  OwnSessions' /\ TimedOutCallIsClosed'
  <2>1. Shrinks
    BY <1>0, <1>9, MarkShrinks DEF StreamEnd, StreamError, Shrinks
  <2>2. \A d \in Ref : Referenced(d)' => Referenced(d)
    BY <1>9, <1>s, <2>1 DEF StreamEnd, StreamError
  <2>3. closed \subseteq closed' /\ NoTimeout(sessions', sessions)
    BY <1>0, <1>9 DEF StreamEnd, StreamError
  <2> QED  BY <1>9, <1>k, <2>2, <2>3, KeepsCollected DEF StreamEnd, StreamError
\* Reads: rows get the reason together with the call being ended.
<1>p. ASSUME NEW R \in SUBSET Stale, Shrinks, closed' = ReconciledClosed(R),
             NoTimeout(sessions', ReconciledRows(R)), Keeps,
             local' = local, pending' = pending
      PROVE  OwnSessions' /\ TimedOutCallIsClosed'
  <2>1. OwnSessions'  BY <1>p, <1>s, OwnSessionsKept
  <2>2. TimedOutCallIsClosed'
    BY <1>p, ReconciledReasons DEF TimedOutCallIsClosed, NoTimeout
  <2> QED  BY <2>1, <2>2
<1>10. ASSUME NEW a \in Agents, Dispatch(a)
       PROVE  OwnSessions' /\ TimedOutCallIsClosed'
  <2> DEFINE s == ReconciledMap(Stale)[a][1]
  <2>1. PICK marked \in {local[s], None} :
          /\ sessions' = MarkRow(ReconciledRows(Stale), marked, "stream")
          /\ connections' = MarkMap(ReconciledMap(Stale), marked)
    BY <1>10 DEF Dispatch, Written
  <2>2. ReconciledMap(Stale)[a] # None  BY <1>10 DEF Dispatch, Written
  <2>3. s \in Streams  BY <1>0, <2>2, ReconciledTypes DEF ConnectionMap, Ref
  <2>4. NoTimeout(sessions', ReconciledRows(Stale))
    BY <1>0, <2>1, <2>3, ReconciledTypes, MarkReason
  <2>5. Shrinks
    <3>1. ReconciledMap(Stale) \in ConnectionMap  BY <1>0, ReconciledTypes
    <3> QED  BY <2>1, <3>1, MarkShrinks, ReconciledShrinks DEF Shrinks
  <2>6. /\ closed' = ReconciledClosed(Stale) /\ Keeps
        /\ local' = local /\ pending' = pending
    BY <1>10, KeepsCollected DEF Dispatch, Written
  <2> QED  BY <1>p, <2>4, <2>5, <2>6
<1>11. ASSUME Poll \/ PollFails PROVE OwnSessions' /\ TimedOutCallIsClosed'
  <2>1. PICK R \in SUBSET Stale : /\ sessions' = ReconciledRows(R)
                                  /\ closed' = ReconciledClosed(R)
                                  /\ connections' = ReconciledMap(R)
    BY <1>11 DEF Poll, PollFails
  <2>2. Shrinks  BY <2>1, ReconciledShrinks DEF Shrinks
  <2>3. NoTimeout(sessions', ReconciledRows(R))  BY <2>1 DEF NoTimeout
  <2>4. Keeps /\ local' = local /\ pending' = pending
    BY <1>11, KeepsCollected DEF Poll, PollFails
  <2> QED  BY <1>p, <2>1, <2>2, <2>3, <2>4
<1>12. CASE Tick
  <2>1. UNCHANGED <<local, pending, connections, sessions, closed>>
    BY <1>12 DEF Tick
  <2>2. \A d \in Ref : Referenced(d)' => Referenced(d)
    BY <2>1 DEF Referenced
  <2>3. \A d \in Ref : Referenced(d)' => conn'[d].session = conn[d].session
    BY <1>0, <1>12 DEF Tick, Collected, TypeOK, AgentConnection
  <2> QED
    BY <2>1, <2>2, <2>3 DEF TimedOut, OwnSessions, TimedOutCallIsClosed
<1>13. CASE ServerCrash
  <2>1. \A d \in Ref : ~Referenced(d)'
    BY <1>13 DEF ServerCrash, Referenced
  <2>2. UNCHANGED <<sessions, closed>>  BY <1>13 DEF ServerCrash
  <2> QED  BY <2>1, <2>2 DEF TimedOut, OwnSessions, TimedOutCallIsClosed
<1>14. CASE UNCHANGED vars
  BY <1>14 DEF vars, TimedOut, OwnSessions, TimedOutCallIsClosed, Referenced
<1> QED
  BY <1>1, <1>2, <1>3, <1>4, <1>5, <1>6, <1>7, <1>8, <1>9, <1>10, <1>11,
     <1>12, <1>13, <1>14 DEF Next, Resume, ResumeThrows

LEMMA TimedOutInit == Init => TimedOut
BY TypeInit, RuntimeAssumption
   DEF Init, TimedOut, OwnSessions, TimedOutCallIsClosed, Referenced, NoRow

\* A row marked heartbeat_timeout belongs to a call the server has ended, for
\* all interleavings and also when a reconciliation stops half way.
THEOREM TimedOutIsClosed == Spec => []TimedOutCallIsClosed
BY TimedOutInit, TimedOutStep, PTL DEF Spec, TimedOut

=============================================================================
