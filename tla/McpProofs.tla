----------------------------- MODULE McpProofs -----------------------------
(***************************************************************************)
(* The MCP client and the manager above it.                                *)
(*                                                                         *)
(* A request on the pipes of a server gets its own answer, for any number  *)
(* of requests and of frames the server sends on its own: an id is taken   *)
(* once, so that a pending id, a frame that carries it and the request     *)
(* that took it belong together wherever the frame travels.                *)
(*                                                                         *)
(* The tools shown to models count as trusted only while the manager has   *)
(* their server down as trusted and enabled, for any set of servers and    *)
(* of tasks: whoever changes a handle is about to rebuild the snapshot, or *)
(* gives no trust that was not there.                                      *)
(***************************************************************************)
EXTENDS McpClient, McpManager, FiniteSetTheorems, TLAPS

Begun == {r \in RpcRequests : rpcPc[r] # "idle"}

RpcShape ==
    /\ rpcPc \in [RpcRequests -> {"idle", "write", "wait"} \cup RpcEnds]
    /\ rpcId \in [RpcRequests -> Nat \cup {NoId}] /\ nextId \in Nat
    /\ answeredBy \in [RpcRequests -> RpcRequests \cup {NoId}]
    /\ toServer \subseteq Frames /\ fromServer \in Seq(Frames)

\* Ids come from a counter.
IdsUnique ==
    /\ \A r \in Begun : rpcId[r] \in Nat /\ rpcId[r] < nextId
    /\ \A r, q \in Begun : rpcId[r] = rpcId[q] => r = q

\* The pending map knows a request by the id it took.
PendingOwn ==
    \A id \in DOMAIN pending : pending[id] \in Begun /\ rpcId[pending[id]] = id

\* A frame that belongs to a request carries its id; an answer belongs to one.
Owned(frame) == frame.of # NoId => frame.of \in Begun /\ frame.id = rpcId[frame.of]
FramesOwn ==
    /\ \A frame \in toServer : frame.of # NoId /\ Owned(frame)
    /\ \A i \in 1..Len(fromServer) :
          /\ Owned(fromServer[i])
          /\ KindOf(fromServer[i]) = "response" => fromServer[i].of # NoId

\* The reader ends after the server only.
ReaderLast == reader = "ended" => server = "gone"

RpcInv == RpcShape /\ IdsUnique /\ PendingOwn /\ FramesOwn /\ ReaderLast /\ RequestsAnswered

LEMMA InitRpcInv == RpcInit => RpcInv
<1> SUFFICES ASSUME RpcInit PROVE RpcInv
  OBVIOUS
<1> USE RpcAssumption DEF RpcInit
<1>1. RpcShape
  BY DEF RpcShape, Frames
<1>2. IdsUnique /\ PendingOwn
  BY DEF IdsUnique, PendingOwn, Begun
<1>3. FramesOwn
  BY DEF FramesOwn
<1>4. ReaderLast /\ RequestsAnswered
  BY DEF ReaderLast, RequestsAnswered, ReplyMatches, NoWaiterStranded
<1> QED BY <1>1, <1>2, <1>3, <1>4 DEF RpcInv

\* A step in which a request that has begun stays begun, and no id changes hands.
LEMMA IdsStay ==
  ASSUME RpcInv, RpcShape', UNCHANGED <<rpcId, nextId>>, Begun' = Begun
  PROVE  IdsUnique'
BY DEF RpcInv, IdsUnique

LEMMA FramesStay ==
  ASSUME RpcInv, UNCHANGED <<rpcId, toServer, fromServer>>, Begun' = Begun
  PROVE  FramesOwn'
BY DEF RpcInv, FramesOwn, Owned

\* The end of a request: it leaves the map, with a verdict that is no answer.
LEMMA EndStep ==
  ASSUME RpcInv, NEW r \in RpcRequests, NEW verdict \in {"failed", "timeout"}, rpcPc[r] \in {"write", "wait"},
         pending' = Without(pending, {rpcId[r]}), RpcAt(r, verdict),
         UNCHANGED <<rpcId, nextId, toServer, fromServer, server, reader, answeredBy>>
  PROVE  RpcInv'
<1>1. rpcPc' \in [RpcRequests -> {"idle", "write", "wait"} \cup RpcEnds] /\ Begun' = Begun
  BY DEF RpcInv, RpcShape, RpcAt, Begun, RpcEnds
<1>2. RpcShape'
  BY <1>1 DEF RpcInv, RpcShape
<1>3. PendingOwn'
  BY <1>1 DEF RpcInv, PendingOwn, Without
<1>4. RequestsAnswered'
  BY DEF RpcInv, RpcShape, RequestsAnswered, ReplyMatches, NoWaiterStranded, RpcAt
<1> QED BY <1>1, <1>2, <1>3, <1>4, IdsStay, FramesStay DEF RpcInv, ReaderLast

LEMMA BeginStep ==
  ASSUME RpcInv, NEW r \in RpcRequests, Begin(r)
  PROVE  RpcInv'
<1> USE RpcAssumption
<1>1. /\ rpcPc' \in [RpcRequests -> {"idle", "write", "wait"} \cup RpcEnds]
      /\ Begun' = Begun \cup {r} /\ r \notin Begun
      /\ rpcId' \in [RpcRequests -> Nat \cup {NoId}]
      /\ rpcId'[r] = nextId /\ \A q \in Begun : rpcId'[q] = rpcId[q]
  BY DEF Begin, TakeId, RpcAt, RpcInv, RpcShape, Begun
<1>2. RpcShape'
  BY <1>1 DEF Begin, TakeId, RpcInv, RpcShape
<1>3. IdsUnique'
  BY <1>1 DEF Begin, TakeId, RpcInv, RpcShape, IdsUnique
<1>4. PendingOwn'
  BY <1>1 DEF Begin, With, RpcInv, PendingOwn
<1>5. FramesOwn'
  BY <1>1 DEF Begin, RpcInv, FramesOwn, Owned
<1>6. ReaderLast' /\ RequestsAnswered'
  BY DEF Begin, RpcAt, RpcInv, RpcShape, ReaderLast, RequestsAnswered, ReplyMatches, NoWaiterStranded
<1> QED BY <1>2, <1>3, <1>4, <1>5, <1>6 DEF RpcInv

LEMMA WriteOkStep ==
  ASSUME RpcInv, NEW r \in RpcRequests, WriteOk(r)
  PROVE  RpcInv'
<1> USE RpcAssumption
<1>1. /\ rpcPc' \in [RpcRequests -> {"idle", "write", "wait"} \cup RpcEnds]
      /\ Begun' = Begun /\ r \in Begun
  BY DEF WriteOk, RpcAt, RpcInv, RpcShape, Begun
<1>2. [method |-> TRUE, id |-> rpcId[r], of |-> r] \in Frames
  BY DEF RpcInv, RpcShape, Frames
<1>3. RpcShape'
  BY <1>1, <1>2 DEF WriteOk, RpcInv, RpcShape
<1>4. PendingOwn'
  BY <1>1 DEF WriteOk, RpcInv, PendingOwn
<1>5. FramesOwn'
  BY <1>1 DEF WriteOk, RpcInv, FramesOwn, Owned
<1>6. ReaderLast' /\ RequestsAnswered'
  BY DEF WriteOk, RpcAt, RpcInv, RpcShape, ReaderLast, RequestsAnswered, ReplyMatches, NoWaiterStranded
<1> QED BY <1>1, <1>3, <1>4, <1>5, <1>6, IdsStay DEF WriteOk, RpcInv

\* The heart: the request that waits under the id of an answer is the one it belongs to.
LEMMA ReadFrameStep ==
  ASSUME RpcInv, ReadFrame
  PROVE  RpcInv'
<1> USE RpcAssumption
<1> DEFINE frame == Head(fromServer)
<1>1. /\ fromServer \in Seq(Frames) /\ fromServer # <<>> /\ fromServer' = Tail(fromServer)
      /\ UNCHANGED <<rpcId, nextId, server, reader>>
  BY DEF ReadFrame, RpcInv, RpcShape
<1>2. /\ frame = fromServer[1] /\ 1 \in 1..Len(fromServer) /\ frame \in Frames
      /\ fromServer' \in Seq(Frames)
      /\ \A i \in 1..Len(fromServer') : i + 1 \in 1..Len(fromServer) /\ fromServer'[i] = fromServer[i + 1]
  BY <1>1
<1>3. ASSUME UNCHANGED <<pending, answeredBy, rpcPc, toServer>>
      PROVE  RpcInv'
  <2>1. Begun' = Begun /\ RpcShape'
    BY <1>1, <1>2, <1>3 DEF RpcInv, RpcShape, Begun
  <2>2. FramesOwn'
    BY <1>1, <1>2, <1>3, <2>1 DEF RpcInv, FramesOwn, Owned
  <2>3. PendingOwn' /\ ReaderLast' /\ RequestsAnswered'
    BY <1>1, <1>3, <2>1 DEF RpcInv, PendingOwn, ReaderLast, RequestsAnswered, ReplyMatches, NoWaiterStranded
  <2> QED BY <1>1, <2>1, <2>2, <2>3, IdsStay DEF RpcInv
<1>4. CASE KindOf(frame) = "response" /\ frame.id \in DOMAIN pending
  <2> DEFINE r == pending[frame.id]
  <2>1. /\ pending' = Without(pending, {frame.id})
        /\ answeredBy' = [answeredBy EXCEPT ![r] = frame.of]
        /\ rpcPc' = [rpcPc EXCEPT ![r] = "answered"]
        /\ UNCHANGED toServer
    BY <1>4 DEF ReadFrame, ReadResponse, RpcAt
  <2>2. r \in Begun /\ rpcId[r] = frame.id
    BY <1>4 DEF RpcInv, PendingOwn
  <2>3. frame.of \in Begun /\ rpcId[frame.of] = frame.id
    BY <1>2, <1>4 DEF RpcInv, FramesOwn, Owned
  <2>4. frame.of = r
    BY <2>2, <2>3 DEF RpcInv, IdsUnique
  <2>5. r \in RpcRequests /\ Begun' = Begun
    BY <2>1, <2>2 DEF RpcInv, RpcShape, Begun
  <2>6. RpcShape'
    BY <1>1, <1>2, <2>1, <2>4, <2>5 DEF RpcInv, RpcShape, RpcEnds
  <2>7. PendingOwn'
    BY <1>1, <2>1, <2>5 DEF RpcInv, PendingOwn, Without
  <2>8. FramesOwn'
    BY <1>1, <1>2, <2>1, <2>5 DEF RpcInv, FramesOwn, Owned
  <2>9. ReaderLast' /\ RequestsAnswered'
    BY <1>1, <2>1, <2>4, <2>5
    DEF RpcInv, RpcShape, ReaderLast, RequestsAnswered, ReplyMatches, NoWaiterStranded
  <2> QED BY <1>1, <2>5, <2>6, <2>7, <2>8, <2>9, IdsStay DEF RpcInv
<1>5. CASE ~(KindOf(frame) = "response" /\ frame.id \in DOMAIN pending)
  <2>1. UNCHANGED <<pending, answeredBy, rpcPc, toServer>>
    BY <1>5 DEF ReadFrame, ReadResponse, ReadNotification, ReadRequest, KindOf
  <2> QED BY <1>3, <2>1
<1> QED BY <1>4, <1>5

LEMMA ReaderEndsStep ==
  ASSUME RpcInv, ReaderEnds
  PROVE  RpcInv'
<1>1. /\ rpcPc' \in [RpcRequests -> {"idle", "write", "wait"} \cup RpcEnds] /\ Begun' = Begun
      /\ \A r \in RpcRequests : rpcPc'[r] # "wait" /\ (rpcPc'[r] = "answered" => rpcPc[r] = "answered")
  BY DEF ReaderEnds, RpcInv, RpcShape, Begun, RpcEnds
<1>2. RpcShape' /\ PendingOwn' /\ ReaderLast'
  BY <1>1 DEF ReaderEnds, RpcInv, RpcShape, PendingOwn, ReaderLast
<1>3. RequestsAnswered'
  BY <1>1 DEF ReaderEnds, RpcInv, RequestsAnswered, ReplyMatches, NoWaiterStranded
<1> QED BY <1>1, <1>2, <1>3, IdsStay, FramesStay DEF ReaderEnds, RpcInv

\* A step of the server touches frames only.
LEMMA ServerStep ==
  ASSUME RpcInv, toServer' \subseteq toServer, fromServer' \in Seq(Frames), FramesOwn', ReaderLast',
         UNCHANGED <<rpcPc, rpcId, nextId, pending, reader, answeredBy>>
  PROVE  RpcInv'
<1>1. Begun' = Begun /\ RpcShape'
  BY DEF RpcInv, RpcShape, Begun
<1>2. PendingOwn' /\ RequestsAnswered'
  BY <1>1 DEF RpcInv, PendingOwn, RequestsAnswered, ReplyMatches, NoWaiterStranded
<1> QED BY <1>1, <1>2, IdsStay DEF RpcInv

\* A frame at the end of the pipe.
LEMMA SentFrame ==
  ASSUME RpcInv, NEW frame \in Frames, Owned(frame), KindOf(frame) = "response" => frame.of # NoId,
         fromServer' = Append(fromServer, frame), toServer' \subseteq toServer,
         UNCHANGED <<rpcPc, rpcId, nextId, pending, server, reader, answeredBy>>
  PROVE  RpcInv'
<1>1. /\ fromServer' \in Seq(Frames)
      /\ \A i \in 1..Len(fromServer') :
            fromServer'[i] = frame \/ (i \in 1..Len(fromServer) /\ fromServer'[i] = fromServer[i])
  BY DEF RpcInv, RpcShape
<1>2. Begun' = Begun
  BY DEF Begun
<1>3. FramesOwn'
  BY <1>1, <1>2 DEF RpcInv, FramesOwn, Owned
<1> QED BY <1>1, <1>3, ServerStep DEF RpcInv, ReaderLast

LEMMA ServerAnswersStep ==
  ASSUME RpcInv, ServerAnswers
  PROVE  RpcInv'
<1>1. PICK frame \in toServer :
          /\ toServer' = toServer \ {frame}
          /\ fromServer' = Append(fromServer, [frame EXCEPT !.method = FALSE])
  BY DEF ServerAnswers
<1> DEFINE answer == [frame EXCEPT !.method = FALSE]
<1>2. frame \in Frames /\ frame.of # NoId /\ Owned(frame)
  BY DEF RpcInv, RpcShape, FramesOwn
<1>3. answer \in Frames /\ answer.of = frame.of /\ answer.id = frame.id
  BY <1>2 DEF Frames
<1>4. Owned(answer)
  BY <1>2, <1>3 DEF Owned
<1> QED BY <1>1, <1>2, <1>3, <1>4, SentFrame DEF ServerAnswers

LEMMA ServerSendsStep ==
  ASSUME RpcInv, ServerSends
  PROVE  RpcInv'
<1>1. PICK method \in BOOLEAN, id \in {NoId, 1} :
          /\ id # NoId => method
          /\ fromServer' = Append(fromServer, [method |-> method, id |-> id, of |-> NoId])
  BY DEF ServerSends
<1> DEFINE frame == [method |-> method, id |-> id, of |-> NoId]
<1>2. frame \in Frames /\ Owned(frame)
  BY DEF Frames, Owned
<1>3. KindOf(frame) # "response"
  BY <1>1 DEF KindOf
<1> QED BY <1>1, <1>2, <1>3, SentFrame DEF ServerSends

LEMMA ServerGoneStep ==
  ASSUME RpcInv, ServerGone
  PROVE  RpcInv'
<1>1. Begun' = Begun
  BY DEF ServerGone, Begun
<1>2. FramesOwn' /\ ReaderLast'
  BY <1>1 DEF ServerGone, RpcInv, FramesOwn, Owned, ReaderLast
<1>3. toServer' \subseteq toServer /\ fromServer' \in Seq(Frames)
  BY DEF ServerGone, RpcInv, RpcShape
<1> QED BY <1>2, <1>3, ServerStep DEF ServerGone

LEMMA NextRpcInv == RpcInv /\ [RpcNext]_rpcVars => RpcInv'
<1> SUFFICES ASSUME RpcInv, [RpcNext]_rpcVars PROVE RpcInv'
  OBVIOUS
<1>1. ASSUME NEW r \in RpcRequests, Begin(r) PROVE RpcInv'
  BY <1>1, BeginStep
<1>2. ASSUME NEW r \in RpcRequests, WriteOk(r) PROVE RpcInv'
  BY <1>2, WriteOkStep
<1>3. ASSUME NEW r \in RpcRequests, WriteFails(r) PROVE RpcInv'
  BY <1>3, EndStep DEF WriteFails
<1>4. ASSUME NEW r \in RpcRequests, TimesOut(r) PROVE RpcInv'
  BY <1>4, EndStep DEF TimesOut
<1>5. CASE ReadFrame
  BY <1>5, ReadFrameStep
<1>6. CASE ReaderEnds
  BY <1>6, ReaderEndsStep
<1>7. CASE TakeToolsChanged
  <2>1. UNCHANGED <<rpcPc, rpcId, nextId, pending, toServer, fromServer, server, reader, answeredBy>>
    BY <1>7 DEF TakeToolsChanged
  <2>2. Begun' = Begun
    BY <2>1 DEF Begun
  <2> QED BY <2>1, <2>2, FramesStay, ServerStep DEF RpcInv, RpcShape, ReaderLast
<1>8. CASE ServerAnswers
  BY <1>8, ServerAnswersStep
<1>9. CASE ServerSends
  BY <1>9, ServerSendsStep
<1>10. CASE ServerGone
  BY <1>10, ServerGoneStep
<1>11. CASE UNCHANGED rpcVars
  <2>1. UNCHANGED <<rpcPc, rpcId, nextId, pending, toServer, fromServer, server, reader, answeredBy>>
    BY <1>11 DEF rpcVars
  <2>2. Begun' = Begun
    BY <2>1 DEF Begun
  <2> QED BY <2>1, <2>2, FramesStay, ServerStep DEF RpcInv, RpcShape, ReaderLast
<1> QED BY <1>1, <1>2, <1>3, <1>4, <1>5, <1>6, <1>7, <1>8, <1>9, <1>10, <1>11 DEF RpcNext

\* A request gets its own answer or an error and never waits for a reader that has
\* ended (mcp/stdio.rs), whatever number of requests share the pipes.
THEOREM AnswersFindTheirRequests == RpcSpec => []RequestsAnswered
<1>1. RpcInv => RequestsAnswered
  BY DEF RpcInv
<1> QED BY <1>1, InitRpcInv, NextRpcInv, PTL DEF RpcSpec

-----------------------------------------------------------------------------
(* The bounds of the client: ids are as many as the requests that began,   *)
(* and a request of the server is refused once.                            *)

RequestsIn(q) == {i \in 1..Len(q) : KindOf(q[i]) = "request"}

RpcBounds ==
    /\ nextId = Cardinality(Begun) + 1 /\ rpcId \in [RpcRequests -> RpcIds \cup {NoId}]
    /\ server \in {"up", "gone"} /\ reader \in {"reading", "ended"} /\ toolsChanged \in BOOLEAN
    /\ refused \in Nat /\ extras \in 0..RpcExtras
    /\ refused + Cardinality(RequestsIn(fromServer)) <= extras

LEMMA RequestsFinite ==
  ASSUME NEW q \in Seq(Frames)
  PROVE  IsFiniteSet(RequestsIn(q)) /\ Cardinality(RequestsIn(q)) \in Nat
<1>1. RequestsIn(q) \in SUBSET (1..Len(q)) /\ 1 \in Int /\ Len(q) \in Int
  BY DEF RequestsIn
<1> QED BY <1>1, FS_Interval, FS_Subset, FS_CardinalityType

LEMMA RequestsRead ==
  ASSUME NEW q \in Seq(Frames), q # <<>>
  PROVE  Cardinality(RequestsIn(Tail(q))) <=
             IF KindOf(Head(q)) = "request" THEN Cardinality(RequestsIn(q)) - 1 ELSE Cardinality(RequestsIn(q))
<1> DEFINE S == RequestsIn(q) \ {1}
           T == RequestsIn(Tail(q))
           f == [i \in S |-> i - 1]
<1>1. /\ Head(q) = q[1] /\ Tail(q) \in Seq(Frames) /\ Len(Tail(q)) = Len(q) - 1 /\ Len(q) \in Nat \ {0}
      /\ \A i \in 1..Len(Tail(q)) : Tail(q)[i] = q[i + 1]
  OBVIOUS
<1>2. \A i \in S : i - 1 \in T
  BY <1>1 DEF RequestsIn
<1>3. \A j \in T : j + 1 \in S /\ f[j + 1] = j
  BY <1>1 DEF RequestsIn
<1>4. f \in Surjection(S, T)
  BY <1>2, <1>3 DEF Surjection
<1>5. /\ IsFiniteSet(S)
      /\ Cardinality(S) = IF 1 \in RequestsIn(q) THEN Cardinality(RequestsIn(q)) - 1 ELSE Cardinality(RequestsIn(q))
  BY RequestsFinite, FS_RemoveElement
<1>6. 1 \in RequestsIn(q) <=> KindOf(Head(q)) = "request"
  BY <1>1 DEF RequestsIn
<1> HIDE DEF S, T, f
<1>7. Cardinality(T) <= Cardinality(S)
  BY <1>4, <1>5, FS_Surjection
<1> QED BY <1>5, <1>6, <1>7 DEF T

LEMMA RequestsSent ==
  ASSUME NEW q \in Seq(Frames), NEW frame \in Frames
  PROVE  Cardinality(RequestsIn(Append(q, frame))) <=
             IF KindOf(frame) = "request" THEN Cardinality(RequestsIn(q)) + 1 ELSE Cardinality(RequestsIn(q))
<1> DEFINE R == RequestsIn(q)
           n == Len(q) + 1
<1>1. \A i \in 1..n : Append(q, frame)[i] = IF i = n THEN frame ELSE q[i]
  OBVIOUS
<1>2. Len(Append(q, frame)) = n /\ n \notin R /\ n \in Nat
  BY DEF RequestsIn
<1>3. RequestsIn(Append(q, frame)) = IF KindOf(frame) = "request" THEN R \cup {n} ELSE R
  BY <1>1, <1>2 DEF RequestsIn
<1>4. IsFiniteSet(R)
  BY RequestsFinite
<1> HIDE DEF R, n
<1>5. Cardinality(R \cup {n}) = Cardinality(R) + 1
  BY <1>2, <1>4, FS_AddElement
<1>6. Cardinality(R) \in Nat
  BY <1>4, FS_CardinalityType
<1> QED BY <1>3, <1>5, <1>6 DEF R

LEMMA InitBounds == RpcInit => RpcBounds
<1> SUFFICES ASSUME RpcInit PROVE RpcBounds
  OBVIOUS
<1>1. Begun = {} /\ RequestsIn(fromServer) = {}
  BY DEF RpcInit, Begun, RequestsIn
<1>2. Cardinality(Begun) = 0 /\ Cardinality(RequestsIn(fromServer)) = 0
  BY <1>1, FS_EmptySet
<1>3. rpcId \in [RpcRequests -> RpcIds \cup {NoId}]
  BY DEF RpcInit
<1>4. /\ nextId = 1 /\ server = "up" /\ reader = "reading" /\ toolsChanged = FALSE
      /\ refused = 0 /\ extras = 0 /\ RpcExtras \in Nat
  BY RpcAssumption DEF RpcInit
<1>5. nextId = Cardinality(Begun) + 1 /\ refused + Cardinality(RequestsIn(fromServer)) <= extras
  BY <1>2, <1>4
<1>6. server \in {"up", "gone"} /\ reader \in {"reading", "ended"} /\ toolsChanged \in BOOLEAN
  BY <1>4
<1>7. refused \in Nat /\ extras \in 0..RpcExtras
  BY <1>4
<1> QED BY <1>3, <1>5, <1>6, <1>7 DEF RpcBounds

LEMMA NextBounds ==
  ASSUME RpcInv, RpcBounds, [RpcNext]_rpcVars
  PROVE  RpcBounds'
<1> USE RpcAssumption
<1>0. fromServer \in Seq(Frames) /\ Cardinality(RequestsIn(fromServer)) \in Nat
  BY RequestsFinite DEF RpcInv, RpcShape
<1> DEFINE Ids == /\ nextId' = Cardinality(Begun') + 1
                  /\ rpcId' \in [RpcRequests -> RpcIds \cup {NoId}]
           Frames1 == /\ server' \in {"up", "gone"} /\ reader' \in {"reading", "ended"}
                      /\ toolsChanged' \in BOOLEAN /\ refused' \in Nat /\ extras' \in 0..RpcExtras
                      /\ refused' + Cardinality(RequestsIn(fromServer')) <= extras'
<1>1. Ids
  <2>1. ASSUME NEW r \in RpcRequests, Begin(r)
        PROVE  Ids
    <3>1. r \notin Begun /\ Begun' = Begun \cup {r} /\ rpcId' = [rpcId EXCEPT ![r] = nextId] /\ nextId' = nextId + 1
      BY <2>1 DEF Begin, TakeId, RpcAt, RpcInv, RpcShape, Begun
    <3>2. Begun \in SUBSET RpcRequests /\ Begun' \in SUBSET RpcRequests
      BY <3>1 DEF Begun
    <3>3. IsFiniteSet(Begun) /\ IsFiniteSet(Begun') /\ Cardinality(Begun') <= Cardinality(RpcRequests)
      BY <3>2, FS_Subset
    <3>4. Cardinality(Begun') = Cardinality(Begun) + 1
      BY <3>1, <3>3, FS_AddElement
    <3>5. Cardinality(Begun) \in Nat /\ Cardinality(RpcRequests) \in Nat
      BY <3>3, FS_CardinalityType
    <3>6. nextId \in RpcIds
      BY <3>3, <3>4, <3>5 DEF RpcBounds, RpcIds
    <3> QED BY <3>1, <3>4, <3>6 DEF RpcBounds
  <2>2. CASE \A r \in RpcRequests : ~Begin(r)
    <3>1. UNCHANGED <<rpcId, nextId>>
      BY <2>2 DEF RpcNext, rpcVars, WriteOk, WriteFails, TimesOut, ReadFrame, ReaderEnds, TakeToolsChanged,
                  ServerAnswers, ServerSends, ServerGone
    <3>2. Begun' = Begun
      <4>1. ASSUME NEW r \in RpcRequests, WriteOk(r) \/ WriteFails(r) \/ TimesOut(r)
            PROVE  Begun' = Begun
        BY <4>1 DEF WriteOk, WriteFails, TimesOut, RpcAt, Begun, RpcInv, RpcShape
      <4>2. CASE ReadFrame
        <5>1. rpcPc' = rpcPc \/ \E r \in Begun : rpcPc' = [rpcPc EXCEPT ![r] = "answered"]
          BY <4>2 DEF ReadFrame, ReadResponse, ReadNotification, ReadRequest, RpcAt, RpcInv, PendingOwn
        <5> QED BY <5>1 DEF Begun, RpcInv, RpcShape
      <4>3. CASE ReaderEnds
        BY <4>3 DEF ReaderEnds, Begun
      <4>4. CASE TakeToolsChanged \/ ServerAnswers \/ ServerSends \/ ServerGone \/ UNCHANGED rpcVars
        BY <4>4 DEF TakeToolsChanged, ServerAnswers, ServerSends, ServerGone, rpcVars, Begun
      <4> QED BY <2>2, <4>1, <4>2, <4>3, <4>4 DEF RpcNext
    <3> QED BY <3>1, <3>2 DEF RpcBounds
  <2> QED BY <2>1, <2>2
<1>2. Frames1
  <2>1. ASSUME UNCHANGED <<server, reader, refused, extras, fromServer>>, toolsChanged' \in BOOLEAN
        PROVE  Frames1
    BY <2>1 DEF RpcBounds
  <2>2. ASSUME NEW r \in RpcRequests, Begin(r) \/ WriteOk(r) \/ WriteFails(r) \/ TimesOut(r)
        PROVE  Frames1
    BY <2>1, <2>2 DEF Begin, WriteOk, WriteFails, TimesOut, RpcBounds
  <2>3. CASE ReadFrame
    <3>1. /\ fromServer # <<>> /\ fromServer' = Tail(fromServer) /\ UNCHANGED <<server, reader, extras>>
          /\ toolsChanged' \in BOOLEAN
          /\ refused' = IF KindOf(Head(fromServer)) = "request" THEN refused + 1 ELSE refused
      BY <2>3 DEF ReadFrame, ReadResponse, ReadNotification, ReadRequest, KindOf, RpcBounds
    <3>2. fromServer' \in Seq(Frames)
      BY <1>0, <3>1
    <3>3. Cardinality(RequestsIn(fromServer')) \in Nat
      BY <3>2, RequestsFinite
    <3> QED BY <1>0, <3>1, <3>3, RequestsRead DEF RpcBounds
  <2>4. CASE ReaderEnds
    BY <2>4 DEF ReaderEnds, RpcBounds
  <2>5. CASE TakeToolsChanged
    BY <2>1, <2>5 DEF TakeToolsChanged
  <2>6. CASE ServerAnswers
    <3>1. PICK frame \in toServer : fromServer' = Append(fromServer, [frame EXCEPT !.method = FALSE])
      BY <2>6 DEF ServerAnswers
    <3> DEFINE answer == [frame EXCEPT !.method = FALSE]
    <3>2. answer \in Frames /\ KindOf(answer) # "request"
      BY DEF RpcInv, RpcShape, Frames, KindOf
    <3>3. Cardinality(RequestsIn(fromServer')) <= Cardinality(RequestsIn(fromServer)) /\ fromServer' \in Seq(Frames)
      BY <1>0, <3>1, <3>2, RequestsSent
    <3>4. Cardinality(RequestsIn(fromServer')) \in Nat
      BY <3>3, RequestsFinite
    <3> QED BY <1>0, <2>6, <3>3, <3>4 DEF ServerAnswers, RpcBounds
  <2>7. CASE ServerSends
    <3>1. PICK method \in BOOLEAN, id \in {NoId, 1} :
              fromServer' = Append(fromServer, [method |-> method, id |-> id, of |-> NoId])
      BY <2>7 DEF ServerSends
    <3> DEFINE sent == [method |-> method, id |-> id, of |-> NoId]
    <3>2. sent \in Frames /\ fromServer' = Append(fromServer, sent)
      BY <3>1 DEF Frames
    <3>3. fromServer' \in Seq(Frames)
      BY <1>0, <3>2
    <3> HIDE DEF sent
    <3>4. Cardinality(RequestsIn(fromServer')) <= Cardinality(RequestsIn(fromServer)) + 1
      <4>1. Cardinality(RequestsIn(Append(fromServer, sent))) <=
                IF KindOf(sent) = "request" THEN Cardinality(RequestsIn(fromServer)) + 1
                ELSE Cardinality(RequestsIn(fromServer))
        BY <1>0, <3>2, RequestsSent
      <4>2. Cardinality(RequestsIn(Append(fromServer, sent))) \in Nat
        BY <3>2, <3>3, RequestsFinite
      <4> QED BY <1>0, <3>2, <4>1, <4>2
    <3>5. Cardinality(RequestsIn(fromServer')) \in Nat
      BY <3>3, RequestsFinite
    <3> QED BY <1>0, <2>7, <3>4, <3>5 DEF ServerSends, RpcBounds
  <2>8. CASE ServerGone
    BY <2>8 DEF ServerGone, RpcBounds
  <2>9. CASE UNCHANGED rpcVars
    BY <2>1, <2>9 DEF rpcVars, RpcBounds
  <2> QED BY <2>2, <2>3, <2>4, <2>5, <2>6, <2>7, <2>8, <2>9 DEF RpcNext
<1> QED BY <1>1, <1>2 DEF RpcBounds

\* The client's bookkeeping is sound, and no id exceeds the number of the requests.
THEOREM RpcTypesOK == RpcSpec => []RpcTypeOK
<1>1. RpcInv /\ RpcBounds => RpcTypeOK
  <2> SUFFICES ASSUME RpcInv, RpcBounds PROVE RpcTypeOK
    OBVIOUS
  <2>1. Begun \in SUBSET RpcRequests
    BY DEF Begun
  <2>2. Cardinality(Begun) \in Nat /\ Cardinality(Begun) <= Cardinality(RpcRequests)
    BY <2>1, RpcAssumption, FS_Subset, FS_CardinalityType
  <2>3. nextId \in 1..Cardinality(RpcRequests) + 1
    BY <2>2, RpcAssumption, FS_CardinalityType DEF RpcBounds
  <2>4. DOMAIN pending \subseteq RpcIds /\ \A id \in DOMAIN pending : pending[id] \in RpcRequests
    BY RpcAssumption DEF RpcInv, RpcBounds, PendingOwn, IdsUnique, Begun
  <2>5. refused \in 0..RpcExtras
    BY RequestsFinite, RpcAssumption DEF RpcInv, RpcShape, RpcBounds
  <2>6. \A i \in DOMAIN fromServer : fromServer[i] \in Frames
    BY DEF RpcInv, RpcShape
  <2> QED BY <2>3, <2>4, <2>5, <2>6 DEF RpcTypeOK, RpcInv, RpcShape, RpcBounds
<1> QED BY <1>1, InitRpcInv, NextRpcInv, InitBounds, NextBounds, PTL DEF RpcSpec

-----------------------------------------------------------------------------
(* The manager.                                                            *)

\* The tasks between their steps: who edits or reconciles holds a list, who spawns
\* holds the client it spawns.
TasksInv ==
    \A t \in McpTasks :
        /\ mcpPc[t] \in {"edit", "deleting", "deleted"} => mcpOp[t] = "edit"
        /\ mcpPc[t] \in {"current", "write"} => mcpOp[t] = "reconcile"
        /\ mcpPc[t] = "apply" => mcpOp[t] \in {"edit", "reconcile"}
        /\ (mcpOp[t] \in {"edit", "reconcile"} /\ mcpPc[t] \notin {"idle", "ended"}) => list[t] \in Lists
        /\ mcpPc[t] \in {"spawn", "list"} => spawned[t] \in Clients

McpInv == McpTypeOK /\ TasksInv

\* What the manager believes of a server's trust does not change.
BeliefKept ==
    /\ handle' \in [McpServers -> Handles \cup {Absent}]
    /\ \A s \in McpServers : handle[s] # Absent =>
          /\ handle'[s] # Absent
          /\ handle'[s].trusted = handle[s].trusted /\ handle'[s].enabled = handle[s].enabled

LEMMA InitMcp == McpInit => McpInv /\ TrustInForce
<1> SUFFICES ASSUME McpInit PROVE McpInv /\ TrustInForce
  OBVIOUS
<1> USE McpAssumption, AbsentAssumption
<1>1. PICK cloud \in [McpServers -> BOOLEAN] :
          /\ mcpConfig = [s \in McpServers |-> [FromCloud(0) EXCEPT !.cloud = cloud[s]]]
          /\ desired = [s \in McpServers |-> IF cloud[s] THEN 0 ELSE Absent]
  BY DEF McpInit
<1>2. mcpConfig \in [McpServers -> Configs] /\ \A s \in McpServers : mcpConfig[s].version = 0
  BY <1>1 DEF FromCloud, Configs
<1>3. handle \in [McpServers -> Handles]
  BY <1>2 DEF McpInit, StoppedHandle, Handles, Configs
<1>4. \A v \in {secrets, desired, appliedVersion} : v \in [McpServers -> Versions \cup {Absent}]
  BY <1>1 DEF McpInit
<1>5. McpTypeOK
  BY <1>2, <1>3, <1>4 DEF McpInit, McpTypeOK, Lists
<1> QED BY <1>5 DEF McpInit, McpInv, TasksInv, TrustInForce

\* One field of a handle, or some of them, none of which is about trust.
LEMMA HandleEdited ==
  ASSUME McpTypeOK, NEW s \in McpServers, handle[s] # Absent,
         NEW client \in Clients \cup {Absent}, NEW tools \in BOOLEAN, NEW backoff \in BOOLEAN,
         NEW status \in {"stopped", "starting", "running", "failed"},
         handle' = [handle EXCEPT ![s] = [handle[s] EXCEPT !.client = client, !.tools = tools,
                                                           !.backoff = backoff, !.status = status]]
  PROVE  BeliefKept
<1> DEFINE h == [handle[s] EXCEPT !.client = client, !.tools = tools, !.backoff = backoff, !.status = status]
<1>1. handle[s] \in Handles
  BY DEF McpTypeOK
<1>2. h \in Handles /\ h.trusted = handle[s].trusted /\ h.enabled = handle[s].enabled
  BY <1>1 DEF Handles
<1>3. h # Absent
  BY <1>2, AbsentAssumption
<1> QED BY <1>2, <1>3 DEF McpTypeOK, BeliefKept

\* What McpInv says of the tasks.
TaskTypes ==
    /\ appliedLock \in McpTasks \cup {Absent}
    /\ mcpPc \in [McpTasks -> {"idle", "edit", "deleting", "deleted", "current", "write", "apply", "rebuild",
                               "connect", "spawn", "list", "finish", "ended"}]
    /\ mcpOp \in [McpTasks -> {"none", "edit", "start", "stop", "ensure", "call", "reconcile"}]
    /\ todo \in [McpTasks -> SUBSET McpServers] /\ changed \in [McpTasks -> BOOLEAN]
    /\ list \in [McpTasks -> Lists \cup {Absent}] /\ spawned \in [McpTasks -> Clients \cup {Absent}]
    /\ TasksInv
StoreTypes ==
    /\ mcpConfig \in Lists
    /\ secrets \in [McpServers -> Versions \cup {Absent}] /\ desired \in [McpServers -> Versions \cup {Absent}]
    /\ appliedVersion \in [McpServers -> Versions \cup {Absent}]
ManagerTypes ==
    handle \in [McpServers -> Handles \cup {Absent}] /\ snap \in [McpServers -> {"none", "read", "write"}]

LEMMA McpParts == McpInv <=> TaskTypes /\ StoreTypes /\ ManagerTypes
<1>1. (\A v \in {secrets, desired, appliedVersion} : v \in [McpServers -> Versions \cup {Absent}])
      <=> /\ secrets \in [McpServers -> Versions \cup {Absent}]
          /\ desired \in [McpServers -> Versions \cup {Absent}]
          /\ appliedVersion \in [McpServers -> Versions \cup {Absent}]
  OBVIOUS
<1> QED BY <1>1, Zenon DEF McpInv, McpTypeOK, TaskTypes, StoreTypes, ManagerTypes

Editing(t) == EditRead(t) \/ DeleteWrite(t) \/ \E s \in McpServers :
    AddWrite(t, s) \/ \E enabled, trusted \in BOOLEAN : EditWrite(t, s, enabled, trusted)

LEMMA EditingTasks ==
  ASSUME TaskTypes, StoreTypes, NEW t \in McpTasks, Editing(t)
  PROVE  TaskTypes' /\ StoreTypes' /\ UNCHANGED <<handle, snap>> /\ mcpPc[t] # "rebuild"
<1> USE McpAssumption DEF mcpShared, McpAt, Begins
<1>1. CASE EditRead(t)
  <2>1. mcpConfig \in Lists
    BY DEF StoreTypes, Lists
  <2>2. TaskTypes'
    BY <1>1, <2>1 DEF EditRead, TaskTypes, TasksInv
  <2> QED BY <1>1, <2>2 DEF EditRead, StoreTypes
<1>2. CASE DeleteWrite(t)
  <2>1. list[t] \in Lists
    BY <1>2 DEF DeleteWrite, TaskTypes, TasksInv
  <2>2. TaskTypes'
    BY <1>2 DEF DeleteWrite, TaskTypes, TasksInv
  <2> QED BY <1>2, <2>1, <2>2 DEF DeleteWrite, StoreTypes, Lists
<1>3. ASSUME NEW s \in McpServers, AddWrite(t, s)
      PROVE  TaskTypes' /\ StoreTypes' /\ UNCHANGED <<handle, snap>> /\ mcpPc[t] # "rebuild"
  <2> DEFINE new == [FromCloud(0) EXCEPT !.cloud = FALSE]
  <2>1. list[t] \in Lists /\ new \in Configs
    BY <1>3 DEF AddWrite, TaskTypes, TasksInv, FromCloud, Configs
  <2>2. [list[t] EXCEPT ![s] = new] \in Lists
    BY <2>1 DEF Lists
  <2>3. list' = [list EXCEPT ![t] = [list[t] EXCEPT ![s] = new]]
    BY <1>3 DEF AddWrite
  <2> HIDE DEF new
  <2> DEFINE l == [list[t] EXCEPT ![s] = new]
  <2>4. /\ mcpPc[t] = "edit" /\ mcpPc' = [mcpPc EXCEPT ![t] = "apply"] /\ list' = [list EXCEPT ![t] = l]
        /\ l \in Lists /\ UNCHANGED <<appliedLock, mcpOp, todo, changed, spawned>>
    BY <1>3, <2>2, <2>3 DEF AddWrite
  <2> HIDE DEF l
  <2>5. TaskTypes'
    BY <2>4 DEF TaskTypes, TasksInv
  <2>6. mcpConfig' \in Lists
    BY <1>3, <2>2, <2>3 DEF AddWrite, TaskTypes
  <2> QED BY <1>3, <2>5, <2>6 DEF AddWrite, StoreTypes, Lists
<1>4. ASSUME NEW s \in McpServers, NEW enabled \in BOOLEAN, NEW trusted_ \in BOOLEAN,
             EditWrite(t, s, enabled, trusted_)
      PROVE  TaskTypes' /\ StoreTypes' /\ UNCHANGED <<handle, snap>> /\ mcpPc[t] # "rebuild"
  <2> DEFINE new == [list[t][s] EXCEPT !.enabled = enabled, !.trusted = trusted_]
  <2>1. list[t] \in Lists /\ list[t][s] # Absent
    BY <1>4 DEF EditWrite, TaskTypes, TasksInv
  <2>2. new \in Configs
    BY <2>1 DEF Lists, Configs
  <2>3. [list[t] EXCEPT ![s] = new] \in Lists
    BY <2>1, <2>2 DEF Lists
  <2>4. list' = [list EXCEPT ![t] = [list[t] EXCEPT ![s] = new]]
    BY <1>4 DEF EditWrite
  <2> HIDE DEF new
  <2> DEFINE l == [list[t] EXCEPT ![s] = new]
  <2>5. /\ mcpPc[t] = "edit" /\ mcpPc' = [mcpPc EXCEPT ![t] = "apply"] /\ list' = [list EXCEPT ![t] = l]
        /\ l \in Lists /\ UNCHANGED <<appliedLock, mcpOp, changed, spawned>>
        /\ todo' = [todo EXCEPT ![t] = {s}]
    BY <1>4, <2>3, <2>4 DEF EditWrite
  <2> HIDE DEF l
  <2>6. TaskTypes'
    BY <2>5 DEF TaskTypes, TasksInv
  <2>7. mcpConfig' \in Lists
    BY <1>4, <2>3, <2>4 DEF EditWrite, TaskTypes
  <2> QED BY <1>4, <2>6, <2>7 DEF EditWrite, StoreTypes, Lists
<1> QED BY <1>1, <1>2, <1>3, <1>4 DEF Editing

Reconciling(t) == ReconcileFetch(t) \/ ReconcileCurrent(t) \/ ReconcileWrite(t) \/ Finish(t)

LEMMA ReconcilingTasks ==
  ASSUME TaskTypes, StoreTypes, NEW t \in McpTasks, Reconciling(t)
  PROVE  TaskTypes' /\ StoreTypes' /\ UNCHANGED <<handle, snap>> /\ mcpPc[t] # "rebuild"
<1> USE McpAssumption DEF mcpShared, McpAt, Begins
<1>1. CASE ReconcileFetch(t)
  <2> DEFINE new == [s \in McpServers |-> IF desired[s] = Absent THEN Absent ELSE FromCloud(desired[s])]
  <2>1. new \in Lists
    BY DEF StoreTypes, Lists, FromCloud, Configs
  <2>2. list' = [list EXCEPT ![t] = new]
    BY <1>1 DEF ReconcileFetch
  <2> HIDE DEF new
  <2>3. TaskTypes'
    BY <1>1, <2>1, <2>2 DEF ReconcileFetch, TaskTypes, TasksInv
  <2> QED BY <1>1, <2>3 DEF ReconcileFetch, StoreTypes
<1>2. CASE ReconcileCurrent(t)
  <2>1. list[t] \in Lists /\ mcpPc[t] = "current"
    BY <1>2 DEF ReconcileCurrent, TaskTypes, TasksInv
  <2> DEFINE new == {s \in McpServers : list[t][s] # Absent /\ list[t][s].version # appliedVersion[s]}
             gone == {s \in McpServers : /\ mcpConfig[s] # Absent /\ mcpConfig[s].cloud
                                         /\ list[t][s] = Absent}
             merged == [s \in McpServers |-> IF list[t][s] # Absent \/ s \in gone THEN list[t][s]
                                             ELSE mcpConfig[s]]
             stored == [s \in McpServers |-> CASE s \in new  -> list[t][s].version
                                              [] s \in gone -> Absent
                                              [] OTHER      -> secrets[s]]
  <2>2. merged \in Lists
    BY <2>1 DEF Lists, StoreTypes
  <2>3. stored \in [McpServers -> Versions \cup {Absent}]
    BY <2>1 DEF Lists, StoreTypes, Configs
  <2>4. \/ McpAt(t, "ended") /\ UNCHANGED <<secrets, appliedLock, todo, list>>
        \/ /\ secrets' = stored /\ appliedLock' = t /\ todo' = [todo EXCEPT ![t] = new]
           /\ list' = [list EXCEPT ![t] = merged] /\ McpAt(t, "write")
    BY <1>2 DEF ReconcileCurrent
  <2>5. new \in SUBSET McpServers
    OBVIOUS
  <2>6. /\ UNCHANGED <<mcpConfig, desired, appliedVersion, handle, snap>>
        /\ UNCHANGED <<mcpOp, changed, spawned>>
    BY <1>2 DEF ReconcileCurrent
  <2> HIDE DEF new, gone, merged, stored
  <2>7. TaskTypes'
    BY <2>1, <2>2, <2>4, <2>5, <2>6 DEF TaskTypes, TasksInv
  <2>8. StoreTypes'
    BY <2>3, <2>4, <2>6 DEF StoreTypes
  <2> QED BY <2>1, <2>6, <2>7, <2>8
<1>3. CASE ReconcileWrite(t)
  <2>1. list[t] \in Lists
    BY <1>3 DEF ReconcileWrite, TaskTypes, TasksInv
  <2>2. TaskTypes'
    BY <1>3 DEF ReconcileWrite, TaskTypes, TasksInv
  <2> QED BY <1>3, <2>1, <2>2 DEF ReconcileWrite, StoreTypes, Lists
<1>4. CASE Finish(t)
  <2>1. mcpPc[t] = "finish" /\ UNCHANGED <<mcpConfig, secrets, desired, handle, snap, mcpOp, todo, changed, spawned>>
    BY <1>4 DEF Finish
  <2>2. TaskTypes'
    BY <1>4 DEF Finish, TaskTypes, TasksInv
  <2>3. CASE mcpOp[t] = "reconcile"
    <3>1. list[t] \in Lists
      BY <2>1, <2>3 DEF TaskTypes, TasksInv
    <3>2. appliedVersion' = [s \in McpServers |-> IF list[t][s] # Absent /\ list[t][s].cloud
                                                  THEN list[t][s].version ELSE Absent]
      BY <1>4, <2>3 DEF Finish
    <3>3. appliedVersion' \in [McpServers -> Versions \cup {Absent}]
      BY <3>1, <3>2 DEF Lists, Configs
    <3> QED BY <2>1, <2>2, <3>3 DEF StoreTypes
  <2>4. CASE mcpOp[t] # "reconcile"
    BY <1>4, <2>1, <2>2, <2>4 DEF Finish, StoreTypes
  <2> QED BY <2>3, <2>4
<1> QED BY <1>1, <1>2, <1>3, <1>4 DEF Reconciling

Starting(t) ==
    \/ TurnEnsures(t) \/ ConnectEnd(t) \/ Spawn(t)
    \/ \E s \in McpServers : UserStart(t, s) \/ TurnCallsTool(t, s)

LEMMA StartingTasks ==
  ASSUME TaskTypes, StoreTypes, NEW t \in McpTasks, Starting(t)
  PROVE  TaskTypes' /\ UNCHANGED <<mcpShared, handle, snap>> /\ mcpPc[t] # "rebuild"
<1> USE DEF McpAt, Begins
<1>1. CASE TurnEnsures(t)
  <2> DEFINE new == {s \in McpServers : /\ handle[s] # Absent /\ handle[s].enabled
                                        /\ handle[s].status # "running"}
  <2>1. /\ mcpPc[t] = "idle" /\ mcpOp' = [mcpOp EXCEPT ![t] = "ensure"] /\ mcpPc' = [mcpPc EXCEPT ![t] = "connect"]
        /\ todo' = [todo EXCEPT ![t] = new] /\ new \in SUBSET McpServers
        /\ UNCHANGED <<mcpShared, handle, snap, changed, list, spawned>>
    BY <1>1 DEF TurnEnsures
  <2> HIDE DEF new
  <2> QED BY <2>1 DEF TaskTypes, TasksInv, mcpShared
<1>2. CASE ConnectEnd(t)
  BY <1>2 DEF ConnectEnd, TaskTypes, TasksInv, mcpShared
<1>3. CASE Spawn(t)
  <2> DEFINE client == [spawned[t] EXCEPT !.secret = secrets[spawned[t].srv], !.alive = TRUE]
  <2>1. mcpPc[t] = "spawn" /\ spawned[t] \in Clients
    BY <1>3 DEF Spawn, TaskTypes, TasksInv
  <2>2. client \in Clients
    BY <2>1 DEF Clients, StoreTypes
  <2>3. /\ mcpPc' = [mcpPc EXCEPT ![t] = "list"] /\ spawned' = [spawned EXCEPT ![t] = client]
        /\ UNCHANGED <<mcpShared, handle, snap, mcpOp, todo, changed, list>>
    BY <1>3 DEF Spawn
  <2> HIDE DEF client
  <2> QED BY <2>1, <2>2, <2>3 DEF TaskTypes, TasksInv, mcpShared
<1>4. ASSUME NEW s \in McpServers, UserStart(t, s) \/ TurnCallsTool(t, s)
      PROVE  TaskTypes' /\ UNCHANGED <<mcpShared, handle, snap>> /\ mcpPc[t] # "rebuild"
  BY <1>4 DEF UserStart, TurnCallsTool, TaskTypes, TasksInv, mcpShared
<1> QED BY <1>1, <1>2, <1>3, <1>4 DEF Starting

Handling(t) ==
    \/ SpawnFails(t) \/ Install(t)
    \/ \E s \in McpServers :
          DeleteStop(t, s) \/ UserStop(t, s) \/ ConnectNot(t, s) \/ ConnectBegin(t, s) \/ Relist(t, s)

\* A snapshot that offers no more reads than before.
NoNewReads ==
    /\ snap' \in [McpServers -> {"none", "read", "write"}]
    /\ \A s \in McpServers : snap'[s] = "read" => snap[s] = "read"

LEMMA BeliefStays ==
  ASSUME ManagerTypes, UNCHANGED handle
  PROVE  BeliefKept
BY DEF ManagerTypes, BeliefKept

LEMMA SnapStays ==
  ASSUME ManagerTypes, UNCHANGED snap
  PROVE  NoNewReads
BY DEF ManagerTypes, NoNewReads

\* The end of a connect: the task goes on with the next server.
LEMMA ConnectNextTasks ==
  ASSUME TaskTypes, NEW t \in McpTasks, NEW s, NEW ok \in BOOLEAN, mcpPc[t] \in {"connect", "spawn", "list"},
         ConnectNext(t, s, ok), spawned' \in {spawned, [spawned EXCEPT ![t] = Absent]},
         UNCHANGED <<appliedLock, mcpOp, list>>
  PROVE  TaskTypes'
<1> DEFINE more == todo[t] \ {s}
           news == changed[t] \/ (ok /\ mcpOp[t] # "call")
<1>1. /\ mcpPc' = [mcpPc EXCEPT ![t] = "connect"] /\ todo' = [todo EXCEPT ![t] = more]
      /\ changed' = [changed EXCEPT ![t] = news]
  BY DEF ConnectNext, McpAt
<1>2. more \in SUBSET McpServers /\ news \in BOOLEAN
  BY DEF TaskTypes
<1> HIDE DEF more, news
<1>3. todo' \in [McpTasks -> SUBSET McpServers] /\ changed' \in [McpTasks -> BOOLEAN]
  BY <1>1, <1>2 DEF TaskTypes
<1> QED BY <1>1, <1>3 DEF TaskTypes, TasksInv

LEMMA HandlingTasks ==
  ASSUME TaskTypes, StoreTypes, ManagerTypes, NEW t \in McpTasks, Handling(t)
  PROVE  TaskTypes' /\ UNCHANGED mcpShared /\ BeliefKept /\ NoNewReads /\ mcpPc[t] # "rebuild"
<1> USE DEF McpAt, Begins
<1>0. McpTypeOK
  BY McpParts DEF McpInv
<1>1. CASE SpawnFails(t)
  <2> DEFINE s == spawned[t].srv
  <2>1. mcpPc[t] = "spawn" /\ s \in McpServers
    BY <1>1 DEF SpawnFails, TaskTypes, TasksInv, Clients
  <2>2. /\ ConnectNext(t, s, FALSE) /\ spawned' = [spawned EXCEPT ![t] = Absent]
        /\ UNCHANGED <<mcpShared, snap, mcpOp, list>>
        /\ handle' = IF handle[s] = Absent THEN handle
                     ELSE [handle EXCEPT ![s].status = "failed", ![s].backoff = TRUE]
    BY <1>1 DEF SpawnFails
  <2>3. TaskTypes'
    BY <2>1, <2>2, ConnectNextTasks DEF mcpShared
  <2>4. BeliefKept
    <3>1. CASE handle[s] # Absent
      <4>1. handle[s] \in Handles
        BY <2>1, <3>1 DEF ManagerTypes
      <4>2. handle' = [handle EXCEPT ![s] = [handle[s] EXCEPT !.client = handle[s].client,
                           !.tools = handle[s].tools, !.backoff = TRUE, !.status = "failed"]]
        BY <2>1, <2>2, <3>1, <4>1 DEF Handles, ManagerTypes
      <4> QED BY <1>0, <2>1, <3>1, <4>1, <4>2, HandleEdited DEF Handles
    <3> QED BY <2>2, <3>1, BeliefStays
  <2> QED BY <2>1, <2>2, <2>3, <2>4, SnapStays
<1>2. CASE Install(t)
  <2> DEFINE s == spawned[t].srv
  <2>1. mcpPc[t] = "list" /\ s \in McpServers /\ spawned[t] \in Clients
    BY <1>2 DEF Install, TaskTypes, TasksInv, Clients
  <2>2. PICK known \in BOOLEAN :
           /\ ConnectNext(t, s, TRUE) /\ spawned' = [spawned EXCEPT ![t] = Absent]
           /\ UNCHANGED <<mcpShared, snap, mcpOp, list>>
           /\ handle' = IF handle[s] = Absent THEN handle
                        ELSE [handle EXCEPT ![s].client = spawned[t], ![s].tools = known,
                                            ![s].status = "running", ![s].backoff = FALSE]
    BY <1>2 DEF Install
  <2>3. TaskTypes'
    BY <2>1, <2>2, ConnectNextTasks DEF mcpShared
  <2>4. BeliefKept
    <3>1. CASE handle[s] # Absent
      <4>1. handle[s] \in Handles
        BY <2>1, <3>1 DEF ManagerTypes
      <4>2. handle' = [handle EXCEPT ![s] = [handle[s] EXCEPT !.client = spawned[t], !.tools = known,
                                                              !.backoff = FALSE, !.status = "running"]]
        BY <2>1, <2>2, <3>1, <4>1 DEF Handles, ManagerTypes
      <4> QED BY <1>0, <2>1, <3>1, <4>2, HandleEdited
    <3> QED BY <2>2, <3>1, BeliefStays
  <2> QED BY <2>1, <2>2, <2>3, <2>4, SnapStays
<1>3. ASSUME NEW s \in McpServers, StopHandle(s), handle[s] # Absent
      PROVE  BeliefKept
  <2>1. handle[s] \in Handles
    BY <1>3 DEF ManagerTypes
  <2>2. handle' = [handle EXCEPT ![s] = [handle[s] EXCEPT !.client = Absent, !.tools = FALSE,
                                                          !.backoff = FALSE, !.status = "stopped"]]
    BY <1>3, <2>1 DEF StopHandle, ManagerTypes, Handles
  <2> QED BY <1>0, <1>3, <2>2, HandleEdited
<1>4. ASSUME NEW s \in McpServers, DeleteStop(t, s)
      PROVE  TaskTypes' /\ UNCHANGED mcpShared /\ BeliefKept /\ NoNewReads /\ mcpPc[t] # "rebuild"
  <2> DEFINE l == [list[t] EXCEPT ![s] = Absent]
  <2>1. mcpPc[t] = "edit" /\ list[t] \in Lists
    BY <1>4 DEF DeleteStop, TaskTypes, TasksInv
  <2>2. /\ list' = [list EXCEPT ![t] = l] /\ mcpPc' = [mcpPc EXCEPT ![t] = "deleting"]
        /\ todo' = [todo EXCEPT ![t] = {s}] /\ changed' = [changed EXCEPT ![t] = handle[s] # Absent]
        /\ UNCHANGED <<mcpShared, snap, mcpOp, spawned>>
    BY <1>4 DEF DeleteStop
  <2>3. l \in Lists
    BY <2>1 DEF Lists
  <2> HIDE DEF l
  <2>4. TaskTypes'
    BY <2>1, <2>2, <2>3 DEF TaskTypes, TasksInv, mcpShared
  <2>5. NoNewReads
    BY <2>2, SnapStays
  <2>6. BeliefKept
    BY <1>3, <1>4, BeliefStays DEF DeleteStop
  <2> QED BY <2>1, <2>2, <2>4, <2>5, <2>6
<1>5. ASSUME NEW s \in McpServers, UserStop(t, s)
      PROVE  TaskTypes' /\ UNCHANGED mcpShared /\ BeliefKept /\ NoNewReads /\ mcpPc[t] # "rebuild"
  <2>1. TaskTypes' /\ UNCHANGED mcpShared /\ mcpPc[t] # "rebuild"
    BY <1>5 DEF UserStop, TaskTypes, TasksInv, mcpShared
  <2>2. BeliefKept
    BY <1>3, <1>5 DEF UserStop
  <2> QED BY <1>5, <2>1, <2>2, SnapStays DEF UserStop
<1>6. ASSUME NEW s \in McpServers, ConnectNot(t, s)
      PROVE  TaskTypes' /\ UNCHANGED mcpShared /\ BeliefKept /\ NoNewReads /\ mcpPc[t] # "rebuild"
  <2>1. /\ mcpPc[t] = "connect" /\ ConnectNext(t, s, Alive(s))
        /\ UNCHANGED <<mcpShared, snap, mcpOp, list, spawned>>
        /\ handle' = IF handle[s] = Absent \/ Alive(s) THEN handle ELSE [handle EXCEPT ![s].client = Absent]
    BY <1>6 DEF ConnectNot
  <2>2. Alive(s) \in BOOLEAN
    BY DEF Alive, ManagerTypes, Handles, Clients
  <2>3. TaskTypes'
    BY <2>1, <2>2, ConnectNextTasks DEF mcpShared
  <2>4. CASE handle' # handle
    <3>1. handle[s] # Absent /\ handle[s] \in Handles /\ handle' = [handle EXCEPT ![s].client = Absent]
      BY <2>1, <2>4 DEF ManagerTypes
    <3>2. handle' = [handle EXCEPT ![s] = [handle[s] EXCEPT !.client = Absent, !.tools = handle[s].tools,
                         !.backoff = handle[s].backoff, !.status = handle[s].status]]
      BY <3>1 DEF Handles, ManagerTypes
    <3>3. BeliefKept
      <4> DEFINE tools == handle[s].tools
                 backoff == handle[s].backoff
                 status == handle[s].status
      <4>1. /\ tools \in BOOLEAN /\ backoff \in BOOLEAN
            /\ status \in {"stopped", "starting", "running", "failed"}
        BY <3>1 DEF Handles
      <4>2. handle' = [handle EXCEPT ![s] = [handle[s] EXCEPT !.client = Absent, !.tools = tools,
                           !.backoff = backoff, !.status = status]]
        BY <3>2
      <4>3. handle[s] # Absent
        BY <3>1
      <4> HIDE DEF tools, backoff, status
      <4> QED BY <1>0, <4>1, <4>2, <4>3, HandleEdited
    <3> QED BY <2>1, <2>3, <3>3, SnapStays
  <2> QED BY <2>1, <2>3, <2>4, BeliefStays, SnapStays
<1>7. ASSUME NEW s \in McpServers, ConnectBegin(t, s)
      PROVE  TaskTypes' /\ UNCHANGED mcpShared /\ BeliefKept /\ NoNewReads /\ mcpPc[t] # "rebuild"
  <2> DEFINE client == [srv |-> s, version |-> handle[s].version, secret |-> Absent, alive |-> FALSE]
  <2>1. /\ mcpPc[t] = "connect" /\ mcpPc' = [mcpPc EXCEPT ![t] = "spawn"] /\ handle[s] # Absent
        /\ spawned' = [spawned EXCEPT ![t] = client]
        /\ handle' = [handle EXCEPT ![s].client = Absent, ![s].status = "starting"]
        /\ UNCHANGED <<mcpShared, snap, mcpOp, todo, changed, list>>
    BY <1>7 DEF ConnectBegin
  <2>2. handle[s] \in Handles
    BY <2>1 DEF ManagerTypes
  <2>3. client \in Clients
    BY <2>2 DEF Handles, Clients
  <2> HIDE DEF client
  <2>4. TaskTypes'
    BY <2>1, <2>3 DEF TaskTypes, TasksInv, mcpShared
  <2>5. handle' = [handle EXCEPT ![s] = [handle[s] EXCEPT !.client = Absent, !.tools = handle[s].tools,
                       !.backoff = handle[s].backoff, !.status = "starting"]]
    BY <2>1, <2>2 DEF Handles, ManagerTypes
  <2>6. BeliefKept
    <3> DEFINE tools == handle[s].tools
               backoff == handle[s].backoff
    <3>1. tools \in BOOLEAN /\ backoff \in BOOLEAN
      BY <2>2 DEF Handles
    <3>2. handle' = [handle EXCEPT ![s] = [handle[s] EXCEPT !.client = Absent, !.tools = tools,
                         !.backoff = backoff, !.status = "starting"]]
      BY <2>5
    <3>3. handle[s] # Absent
      BY <2>1
    <3> HIDE DEF tools, backoff
    <3> QED BY <1>0, <3>1, <3>2, <3>3, HandleEdited
  <2> QED BY <2>1, <2>4, <2>6, SnapStays
<1>8. ASSUME NEW s \in McpServers, Relist(t, s)
      PROVE  TaskTypes' /\ UNCHANGED mcpShared /\ BeliefKept /\ NoNewReads /\ mcpPc[t] # "rebuild"
  <2>1. PICK known \in BOOLEAN : handle' = [handle EXCEPT ![s].tools = known]
    BY <1>8 DEF Relist
  <2>2. /\ handle[s] # Absent /\ mcpPc[t] = "connect" /\ changed' = [changed EXCEPT ![t] = TRUE]
        /\ UNCHANGED <<mcpShared, snap, mcpPc, mcpOp, todo, list, spawned>>
    BY <1>8 DEF Relist
  <2>3. TaskTypes'
    BY <2>2 DEF TaskTypes, TasksInv, mcpShared
  <2>4. handle[s] \in Handles
    BY <2>2 DEF ManagerTypes
  <2>5. handle' = [handle EXCEPT ![s] = [handle[s] EXCEPT !.client = handle[s].client, !.tools = known,
                       !.backoff = handle[s].backoff, !.status = handle[s].status]]
    BY <2>1, <2>4 DEF Handles, ManagerTypes
  <2>6. BeliefKept
    BY <1>0, <2>2, <2>4, <2>5, HandleEdited DEF Handles
  <2> QED BY <2>2, <2>3, <2>6, SnapStays
<1> QED BY <1>1, <1>2, <1>4, <1>5, <1>6, <1>7, <1>8 DEF Handling

\* set_configs: every handle is what the new list makes of it.
LEMMA ApplyTasks ==
  ASSUME TaskTypes, StoreTypes, ManagerTypes, NEW t \in McpTasks, Apply(t)
  PROVE  TaskTypes' /\ UNCHANGED mcpShared /\ ManagerTypes' /\ mcpPc'[t] = "rebuild"
<1>1. /\ mcpPc[t] = "apply" /\ mcpPc' = [mcpPc EXCEPT ![t] = "rebuild"]
      /\ handle' = [s \in McpServers |-> Configured(handle[s], list[t][s])]
      /\ UNCHANGED <<mcpShared, snap, mcpOp, todo, changed, list, spawned>>
  BY DEF Apply, McpAt
<1>2. list[t] \in Lists
  BY <1>1 DEF TaskTypes, TasksInv
<1>3. ASSUME NEW s \in McpServers
      PROVE  Configured(handle[s], list[t][s]) \in Handles \cup {Absent}
  <2> DEFINE h == handle[s]
             c == list[t][s]
             fresh == StoppedHandle(c)
  <2>1. (h = Absent \/ h \in Handles) /\ (c = Absent \/ c \in Configs)
    BY <1>2 DEF ManagerTypes, Lists
  <2>2. CASE c = Absent
    BY <2>2 DEF Configured
  <2>3. CASE c # Absent
    <3>1. c \in Configs
      BY <2>1, <2>3
    <3>2. fresh \in Handles
      BY <3>1 DEF StoppedHandle, Handles, Configs
    <3>3. CASE h = Absent
      BY <2>3, <3>2, <3>3 DEF Configured
    <3>4. CASE h # Absent
      <4> DEFINE kept == IF Transport(h.version) = Transport(c.version) THEN h
                         ELSE [fresh EXCEPT !.backoff = h.backoff]
                 new == [kept EXCEPT !.enabled = c.enabled, !.trusted = c.trusted, !.version = c.version]
      <4>1. h \in Handles
        BY <2>1, <3>4
      <4>2. [fresh EXCEPT !.backoff = h.backoff] \in Handles
        BY <3>2, <4>1 DEF Handles
      <4>3. kept \in Handles
        BY <4>1, <4>2
      <4> HIDE DEF kept
      <4>4. new \in Handles
        BY <3>1, <4>3 DEF Handles, Configs
      <4>5. Configured(h, c) = new
        BY <2>3, <3>4 DEF Configured, kept
      <4> QED BY <4>4, <4>5
    <3> QED BY <3>3, <3>4
  <2> QED BY <2>2, <2>3
<1>4. TaskTypes'
  BY <1>1 DEF TaskTypes, TasksInv, mcpShared
<1>5. ManagerTypes'
  BY <1>1, <1>3 DEF ManagerTypes
<1> QED BY <1>1, <1>4, <1>5 DEF TaskTypes

\* rebuild_snapshot: from the handles as they are.
\* What a rebuild offers as read only is trusted and enabled.
LEMMA OffersTrusted ==
  ASSUME NEW s \in McpServers
  PROVE  /\ Offers[s] \in {"none", "read", "write"}
         /\ Offers[s] = "read" => handle[s] # Absent /\ handle[s].trusted /\ handle[s].enabled
BY DEF Offers, Offer

LEMMA SecretsTasks ==
  ASSUME TaskTypes, StoreTypes, ManagerTypes, NEW t \in McpTasks, DeleteSecrets(t)
  PROVE  /\ TaskTypes' /\ StoreTypes' /\ ManagerTypes' /\ UNCHANGED handle /\ mcpPc[t] # "rebuild"
         /\ snap' = snap \/ snap' = Offers
<1>1. /\ mcpPc[t] = "deleting" /\ mcpPc' = [mcpPc EXCEPT ![t] = "deleted"]
      /\ todo' = [todo EXCEPT ![t] = {}] /\ changed' = [changed EXCEPT ![t] = FALSE]
      /\ secrets' = [s \in McpServers |-> IF s \in todo[t] THEN Absent ELSE secrets[s]]
      /\ UNCHANGED <<mcpConfig, desired, appliedVersion, appliedLock, handle, mcpOp, list, spawned>>
  BY DEF DeleteSecrets, McpAt
<1>2. snap' = snap \/ snap' = Offers
  BY DEF DeleteSecrets
<1>3. TaskTypes'
  BY <1>1 DEF TaskTypes, TasksInv
<1>4. StoreTypes'
  BY <1>1 DEF StoreTypes
<1>5. Offers \in [McpServers -> {"none", "read", "write"}]
  BY OffersTrusted DEF Offers
<1>6. ManagerTypes'
  BY <1>1, <1>2, <1>5 DEF ManagerTypes
<1> QED BY <1>1, <1>2, <1>3, <1>4, <1>6

LEMMA RebuildTasks ==
  ASSUME TaskTypes, ManagerTypes, NEW t \in McpTasks, Rebuild(t)
  PROVE  /\ TaskTypes' /\ UNCHANGED mcpShared /\ ManagerTypes'
         /\ \A s \in McpServers : snap'[s] = "read" => handle'[s] # Absent /\ handle'[s].trusted /\ handle'[s].enabled
<1> DEFINE more == IF changed[t] THEN {} ELSE StartsAfter(t)
           next == IF changed[t] THEN "finish" ELSE "connect"
<1>1. /\ mcpPc[t] = "rebuild" /\ mcpPc' = [mcpPc EXCEPT ![t] = next]
      /\ snap' = Offers /\ todo' = [todo EXCEPT ![t] = more]
      /\ UNCHANGED <<mcpShared, handle, mcpOp, changed, list, spawned>>
  BY DEF Rebuild, McpAt
<1>2. more \in SUBSET McpServers /\ next \in {"finish", "connect"}
  BY DEF StartsAfter, TaskTypes
<1>3. Offers \in [McpServers -> {"none", "read", "write"}]
  BY OffersTrusted DEF Offers
<1> HIDE DEF more, next
<1>4. TaskTypes'
  BY <1>1, <1>2 DEF TaskTypes, TasksInv, mcpShared
<1> QED BY <1>1, <1>3, <1>4, OffersTrusted DEF ManagerTypes

LEMMA EnvironmentTypes ==
  ASSUME TaskTypes, StoreTypes, ManagerTypes, McpEnvironment
  PROVE  TaskTypes' /\ StoreTypes' /\ BeliefKept /\ UNCHANGED <<snap, mcpPc>>
<1>0. McpTypeOK
  BY McpParts DEF McpInv
<1>1. UNCHANGED <<snap, mcpPc>> /\ TaskTypes'
  <2>1. UNCHANGED <<snap, mcpTask, appliedLock>>
    BY DEF McpEnvironment, ServerDies, BackoffOver, OwnerAuthors, mcpShared
  <2> QED BY <2>1 DEF mcpTask, TaskTypes, TasksInv
<1>2. ASSUME NEW s \in McpServers, ServerDies(s)
      PROVE  StoreTypes' /\ BeliefKept
  <2> DEFINE client == [handle[s].client EXCEPT !.alive = FALSE]
  <2>1. handle[s] \in Handles /\ handle[s] # Absent /\ handle[s].client # Absent
    BY <1>2 DEF ServerDies, Alive, ManagerTypes
  <2>2. handle[s].client \in Clients
    BY <2>1 DEF Handles
  <2>3. client \in Clients
    BY <2>2 DEF Clients
  <2>4. handle' = [handle EXCEPT ![s] = [handle[s] EXCEPT !.client = client]]
    BY <1>2 DEF ServerDies
  <2> HIDE DEF client
  <2>5. handle' = [handle EXCEPT ![s] = [handle[s] EXCEPT !.client = client, !.tools = handle[s].tools,
                       !.backoff = handle[s].backoff, !.status = handle[s].status]]
    BY <2>1, <2>4 DEF Handles, ManagerTypes
  <2>6. /\ handle[s].tools \in BOOLEAN /\ handle[s].backoff \in BOOLEAN
        /\ handle[s].status \in {"stopped", "starting", "running", "failed"}
    BY <2>1 DEF Handles
  <2>7. BeliefKept
    BY <1>0, <2>1, <2>3, <2>5, <2>6, HandleEdited
  <2> QED BY <1>2, <2>7 DEF ServerDies, StoreTypes, mcpShared
<1>3. ASSUME NEW s \in McpServers, BackoffOver(s)
      PROVE  StoreTypes' /\ BeliefKept
  <2>1. handle[s] \in Handles /\ handle[s] # Absent
    BY <1>3 DEF BackoffOver, ManagerTypes
  <2>2. handle' = [handle EXCEPT ![s] = [handle[s] EXCEPT !.client = handle[s].client, !.tools = handle[s].tools,
                       !.backoff = FALSE, !.status = handle[s].status]]
    BY <1>3, <2>1 DEF BackoffOver, Handles, ManagerTypes
  <2>3. /\ handle[s].tools \in BOOLEAN /\ handle[s].client \in Clients \cup {Absent}
        /\ handle[s].status \in {"stopped", "starting", "running", "failed"}
    BY <2>1 DEF Handles
  <2>4. BeliefKept
    BY <1>0, <2>1, <2>2, <2>3, HandleEdited
  <2> QED BY <1>3, <2>4 DEF BackoffOver, StoreTypes, mcpShared
<1>4. ASSUME NEW s \in McpServers, NEW version \in Versions \cup {Absent}, OwnerAuthors(s, version)
      PROVE  StoreTypes' /\ BeliefKept
  BY <1>4, BeliefStays DEF OwnerAuthors, StoreTypes
<1> QED BY <1>1, <1>2, <1>3, <1>4 DEF McpEnvironment

McpTypes == TaskTypes /\ StoreTypes /\ ManagerTypes

\* Every step, by what it does to the manager's belief: it is kept and no read is added,
\* or the list has changed and a rebuild is due, or the snapshot has been rebuilt.
LEMMA McpSteps ==
  ASSUME McpTypes, [McpNext]_mcpVars
  PROVE  /\ McpTypes'
         /\ \/ /\ BeliefKept /\ NoNewReads
               /\ \A t \in McpTasks : mcpPc[t] = "rebuild" => mcpPc'[t] = "rebuild"
            \/ \E t \in McpTasks : mcpPc'[t] = "rebuild"
            \/ \A s \in McpServers :
                  snap'[s] = "read" => handle'[s] # Absent /\ handle'[s].trusted /\ handle'[s].enabled
<1> DEFINE Keep == BeliefKept /\ NoNewReads
           Due(t) == mcpPc[t] = "rebuild" => mcpPc'[t] = "rebuild"
<1>0. Keep => ManagerTypes'
  BY DEF BeliefKept, NoNewReads, ManagerTypes
<1>1. CASE McpEnvironment
  BY <1>0, <1>1, EnvironmentTypes, SnapStays DEF McpTypes
<1>2. CASE UNCHANGED mcpVars
  <2>1. UNCHANGED <<mcpShared, handle, snap, mcpTask>>
    BY <1>2 DEF mcpVars
  <2> QED BY <2>1, <1>0, BeliefStays, SnapStays DEF McpTypes, TaskTypes, TasksInv, StoreTypes, mcpShared, mcpTask
<1>3. ASSUME NEW t \in McpTasks, McpStep(t)
      PROVE  /\ McpTypes'
             /\ \/ Keep /\ \A q \in McpTasks : Due(q)
                \/ mcpPc'[t] = "rebuild"
                \/ \A s \in McpServers :
                      snap'[s] = "read" => handle'[s] # Absent /\ handle'[s].trusted /\ handle'[s].enabled
  <2>0. mcpPc[t] # "rebuild" => \A q \in McpTasks : Due(q)
    <3> SUFFICES ASSUME NEW q \in McpTasks, q # t PROVE mcpPc'[q] = mcpPc[q]
      OBVIOUS
    <3>1. mcpPc' = mcpPc \/ \E at : mcpPc' = [mcpPc EXCEPT ![t] = at]
      BY <1>3 DEF McpStep, EditRead, DeleteSecrets, DeleteWrite, ReconcileFetch, ReconcileCurrent, ReconcileWrite, Apply,
         Rebuild, Finish, TurnEnsures, Spawn, SpawnFails, Install, ConnectEnd, EditWrite, AddWrite, DeleteStop,
         UserStart, UserStop, TurnCallsTool, ConnectNot, ConnectBegin, Relist, ConnectNext, McpAt
    <3> QED BY <3>1 DEF McpTypes, TaskTypes
  <2>1. CASE Editing(t)
    BY <2>0, <2>1, <1>0, EditingTasks, BeliefStays, SnapStays DEF McpTypes
  <2>2. CASE Reconciling(t)
    BY <2>0, <2>2, <1>0, ReconcilingTasks, BeliefStays, SnapStays DEF McpTypes
  <2>3. CASE Starting(t)
    <3>1. TaskTypes' /\ UNCHANGED <<mcpShared, handle, snap>> /\ mcpPc[t] # "rebuild"
      BY <2>3, StartingTasks DEF McpTypes
    <3>2. StoreTypes'
      BY <3>1 DEF StoreTypes, mcpShared, McpTypes
    <3> QED BY <2>0, <1>0, <3>1, <3>2, BeliefStays, SnapStays DEF McpTypes
  <2>4. CASE Handling(t)
    <3>1. TaskTypes' /\ UNCHANGED mcpShared /\ BeliefKept /\ NoNewReads /\ mcpPc[t] # "rebuild"
      BY <2>4, HandlingTasks DEF McpTypes
    <3>2. StoreTypes'
      BY <3>1 DEF StoreTypes, mcpShared, McpTypes
    <3> QED BY <2>0, <1>0, <3>1, <3>2 DEF McpTypes
  <2>5. CASE Apply(t)
    <3>1. TaskTypes' /\ UNCHANGED mcpShared /\ ManagerTypes' /\ mcpPc'[t] = "rebuild"
      BY <2>5, ApplyTasks DEF McpTypes
    <3>2. StoreTypes'
      BY <3>1 DEF StoreTypes, mcpShared, McpTypes
    <3> QED BY <3>1, <3>2 DEF McpTypes
  <2>6. CASE Rebuild(t)
    <3>1. TaskTypes' /\ UNCHANGED mcpShared /\ ManagerTypes'
      BY <2>6, RebuildTasks DEF McpTypes
    <3>2. StoreTypes'
      BY <3>1 DEF StoreTypes, mcpShared, McpTypes
    <3> QED BY <2>6, <3>1, <3>2, RebuildTasks DEF McpTypes
  <2>7. CASE DeleteSecrets(t)
    <3>1. McpTypes' /\ UNCHANGED handle /\ mcpPc[t] # "rebuild"
      BY <2>7, SecretsTasks DEF McpTypes
    <3>2. CASE snap' = snap
      BY <2>0, <3>1, <3>2, BeliefStays, SnapStays DEF McpTypes
    <3>3. CASE snap' = Offers
      BY <3>1, <3>3, OffersTrusted
    <3> QED BY <2>7, <3>2, <3>3, SecretsTasks DEF McpTypes
  <2> QED BY <1>3, <2>1, <2>2, <2>3, <2>4, <2>5, <2>6, <2>7 DEF McpStep, Editing, Reconciling, Starting, Handling
<1> QED BY <1>1, <1>2, <1>3 DEF McpNext

\* The bookkeeping of the MCP manager is sound for any number of servers and tasks.
THEOREM McpTypesOK == McpSpec => []McpTypeOK
<1>1. McpInit => McpTypes
  BY InitMcp, McpParts DEF McpTypes
<1>2. McpTypes /\ [McpNext]_mcpVars => McpTypes'
  BY McpSteps
<1>3. McpTypes => McpTypeOK
  BY McpParts DEF McpTypes, McpInv
<1> QED BY <1>1, <1>2, <1>3, PTL DEF McpSpec

\* The snapshot offers a tool as read-only, which spares it the approval, only while the
\* manager has its server down as trusted and enabled, whatever edits, reconciliations
\* and connects overlap (mcp/mod.rs).
THEOREM TrustIsInForce == McpSpec => []TrustInForce
<1>1. McpInit => McpTypes /\ TrustInForce
  BY InitMcp, McpParts DEF McpTypes
<1>2. McpTypes /\ TrustInForce /\ [McpNext]_mcpVars => McpTypes' /\ TrustInForce'
  <2> SUFFICES ASSUME McpTypes, TrustInForce, [McpNext]_mcpVars PROVE TrustInForce'
    BY McpSteps
  <2>1. CASE \E t \in McpTasks : mcpPc'[t] = "rebuild"
    BY <2>1 DEF TrustInForce
  <2>2. CASE \A s \in McpServers :
                snap'[s] = "read" => handle'[s] # Absent /\ handle'[s].trusted /\ handle'[s].enabled
    BY <2>2 DEF TrustInForce
  <2>3. CASE /\ BeliefKept /\ NoNewReads
             /\ \A t \in McpTasks : mcpPc[t] = "rebuild" => mcpPc'[t] = "rebuild"
    BY <2>3 DEF TrustInForce, BeliefKept, NoNewReads
  <2> QED BY <2>1, <2>2, <2>3, McpSteps
<1> QED BY <1>1, <1>2, PTL DEF McpSpec
=============================================================================
