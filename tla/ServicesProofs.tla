--------------------------- MODULE ServicesProofs ---------------------------
(***************************************************************************)
(* The services: a join succeeds only if the server let it in, for any     *)
(* number of joins, connections and heartbeats; an update leaves a whole   *)
(* executable and a download whole files, for any number of runs that do   *)
(* not overlap; and no development server is left behind by any tools and  *)
(* closes that overlap as they please.                                     *)
(***************************************************************************)
EXTENDS Services, FiniteSetTheorems, TLAPS

-----------------------------------------------------------------------------
(* The realtime handle: its refs are used once, so that a reply with a ref *)
(* above every heartbeat speaks of the one join that took it.              *)

JoinPcs == {"idle", "inserted", "waiting", "joined", "sent", "failed", "left"}
AnyFrame == [ref : Nat, kind : {"heartbeat", "join", "broadcast", "leave"}, by : Joins \cup {NoJoin}]

RtShape ==
    /\ refs \in Nat /\ refs >= JoinBase /\ beats \in Nat /\ longest \in Nat
    /\ joinPc \in [Joins -> JoinPcs]
    /\ joinRef \in [Joins -> Nat] /\ joinAck \in [Joins -> {"none", "ok", "denied"}]
    /\ pendingJoins \subseteq Nat \X Joins
    /\ outFrames \in Seq(AnyFrame) /\ atServer \subseteq AnyFrame
    /\ replies \subseteq [ref : Nat, ok : BOOLEAN] /\ admitted \subseteq Joins

\* The joins that have taken a ref.
Started == {j \in Joins : joinPc[j] # "idle"}

RefsUnique ==
    /\ \A j \in Started : JoinBase <= joinRef[j] /\ joinRef[j] < refs
    /\ \A j, k \in Started : joinRef[j] = joinRef[k] => j = k

\* What a frame's ref says of it, wherever it is.
FrameFits(f) ==
    /\ f.kind = "heartbeat" => f.ref <= longest
    /\ f.kind = "join" => f.by \in Started /\ f.ref = joinRef[f.by]
    /\ f.kind \in {"broadcast", "leave"} => f.ref < refs /\ \A j \in Started : joinRef[j] # f.ref
FramesFit ==
    /\ \A f \in atServer : FrameFits(f)
    /\ \A i \in 1..Len(outFrames) : FrameFits(outFrames[i])

\* A positive reply is to a heartbeat, or the join that has its ref was let in.
ReplyFits(m) ==
    m.ok => \/ m.ref <= longest
            \/ m.ref < refs /\ \A j \in Started : joinRef[j] = m.ref => j \in admitted
RepliesFit == \A m \in replies : ReplyFits(m)

AcksFit == longest < JoinBase => \A j \in Joins : joinAck[j] = "ok" => j \in admitted

\* The map and the joins that listen, told or not.
Listening ==
    /\ \A j \in Joins : joinPc[j] = "idle" => joinAck[j] = "none"
    /\ \A p \in pendingJoins : joinAck[p[2]] = "none"
    /\ \A j \in Joins : joinPc[j] = "inserted" /\ joinAck[j] = "none" => <<joinRef[j], j>> \in pendingJoins

RtInv == RtShape /\ RefsUnique /\ FramesFit /\ RepliesFit /\ AcksFit /\ Listening /\ JoinsSound

LEMMA InitRtInv == RtInit => RtInv
<1> SUFFICES ASSUME RtInit PROVE RtInv
  OBVIOUS
<1> USE RealtimeAssumption DEF RtInit
<1>1. RtShape
  BY DEF RtShape, JoinPcs
<1>2. RefsUnique /\ FramesFit /\ RepliesFit /\ AcksFit /\ Listening
  BY DEF RefsUnique, FramesFit, RepliesFit, AcksFit, Listening, Started
<1>3. JoinsSound
  BY DEF JoinsSound, JoinAdmitted, PendingListen
<1> QED BY <1>1, <1>2, <1>3 DEF RtInv

\* Steps that leave the joins and their refs alone: what fits goes on fitting.
LEMMA StillFits ==
  ASSUME RtInv, UNCHANGED <<refs, joinRef>>, Started' = Started, longest' \in Nat, longest' >= longest,
         admitted \subseteq admitted'
  PROVE  /\ RefsUnique'
         /\ \A f \in AnyFrame : FrameFits(f) => FrameFits(f)'
         /\ \A m \in [ref : Nat, ok : BOOLEAN] : ReplyFits(m) => ReplyFits(m)'
<1>1. RefsUnique'
  BY DEF RtInv, RefsUnique
<1>2. \A f \in AnyFrame : FrameFits(f) => FrameFits(f)'
  BY DEF RtInv, RtShape, FrameFits, AnyFrame
<1>3. \A m \in [ref : Nat, ok : BOOLEAN] : ReplyFits(m) => ReplyFits(m)'
  BY DEF RtInv, RtShape, ReplyFits
<1> QED BY <1>1, <1>2, <1>3

\* The joins are as they were: the properties of the map hold on.
LEMMA JoinsStay ==
  ASSUME RtInv, UNCHANGED <<pendingJoins, joinPc, joinRef, joinAck>>, longest' \in Nat, longest' >= longest,
         admitted \subseteq admitted'
  PROVE  AcksFit' /\ Listening' /\ JoinsSound'
<1>1. AcksFit' /\ Listening'
  BY RealtimeAssumption DEF RtInv, RtShape, AcksFit, Listening
<1>2. JoinAdmitted'
  BY RealtimeAssumption DEF RtInv, RtShape, JoinsSound, JoinAdmitted
<1>3. PendingListen'
  BY DEF RtInv, JoinsSound, PendingListen
<1> QED BY <1>1, <1>2, <1>3 DEF JoinsSound

\* The socket comes, goes, beats, and is written to.
LEMMA SocketStep ==
  ASSUME RtInv, UNCHANGED <<refs, pendingJoins, joinPc, joinRef, joinAck, admitted>>,
         beats' \in Nat, longest' \in Nat, longest' >= longest,
         outFrames' \in Seq(AnyFrame), atServer' \subseteq AnyFrame, replies' \subseteq replies, FramesFit'
  PROVE  RtInv'
<1>1. Started' = Started
  BY DEF Started
<1>2. RtShape'
  BY DEF RtInv, RtShape
<1>3. RefsUnique' /\ RepliesFit'
  BY <1>1, StillFits DEF RtInv, RtShape, RepliesFit
<1> QED BY <1>2, <1>3, JoinsStay DEF RtInv

LEMMA LoopStep ==
  ASSUME RtInv, Connect \/ Beat \/ WriteNext \/ SocketLost \/ ResetSender
  PROVE  RtInv'
<1> USE RealtimeAssumption
<1>1. /\ refs \in Nat /\ beats \in Nat /\ longest \in Nat
      /\ outFrames \in Seq(AnyFrame) /\ atServer \subseteq AnyFrame
      /\ \A f \in atServer : f \in AnyFrame /\ FrameFits(f)
      /\ \A i \in 1..Len(outFrames) : outFrames[i] \in AnyFrame /\ FrameFits(outFrames[i])
  BY DEF RtInv, RtShape, FramesFit
<1>2. CASE Connect \/ ResetSender
  <2>1. /\ UNCHANGED <<refs, pendingJoins, joinPc, joinRef, joinAck, admitted, longest, outFrames,
                       atServer, replies>>
        /\ beats' \in Nat
    BY <1>1, <1>2 DEF Connect, ResetSender
  <2>2. Started' = Started
    BY <2>1 DEF Started
  <2>3. \A f \in AnyFrame : FrameFits(f) => FrameFits(f)'
    BY <1>1, <2>1, <2>2, StillFits
  <2>4. FramesFit'
    BY <1>1, <2>1, <2>3 DEF FramesFit
  <2> QED BY <1>1, <2>1, <2>4, SocketStep
<1>3. CASE Beat
  <2>1. /\ UNCHANGED <<refs, pendingJoins, joinPc, joinRef, joinAck, admitted, outFrames, replies>>
        /\ beats' = beats + 1 /\ longest' = IF beats' > longest THEN beats' ELSE longest
        /\ atServer' = atServer \cup {Frame(beats + 1, "heartbeat", NoJoin)}
    BY <1>3 DEF Beat
  <2>2. Started' = Started
    BY <2>1 DEF Started
  <2>3. longest' \in Nat /\ longest' >= longest /\ longest' >= beats + 1 /\ beats' \in Nat
    BY <1>1, <2>1
  <2>4. \A f \in AnyFrame : FrameFits(f) => FrameFits(f)'
    BY <2>1, <2>2, <2>3, StillFits
  <2> DEFINE h == Frame(beats + 1, "heartbeat", NoJoin)
  <2>5. h \in AnyFrame
    BY <1>1 DEF Frame, AnyFrame
  <2> HIDE DEF h
  <2>6. PICK g \in AnyFrame : g = h
    BY <2>5
  <2>7. FrameFits(g)'
    BY <1>1, <2>1, <2>3, <2>6 DEF Frame, FrameFits, h
  <2>8. FramesFit' /\ atServer' \subseteq AnyFrame
    BY <1>1, <2>1, <2>4, <2>6, <2>7 DEF FramesFit, h
  <2> QED BY <1>1, <2>1, <2>3, <2>8, SocketStep
<1>4. CASE WriteNext
  <2>1. /\ UNCHANGED <<refs, beats, longest, pendingJoins, joinPc, joinRef, joinAck, admitted, replies>>
        /\ outFrames # <<>> /\ outFrames' = Tail(outFrames)
        /\ atServer' = atServer \cup {Head(outFrames)}
    BY <1>4 DEF WriteNext
  <2>2. Started' = Started
    BY <2>1 DEF Started
  <2>3. \A f \in AnyFrame : FrameFits(f) => FrameFits(f)'
    BY <1>1, <2>1, <2>2, StillFits
  <2>4. /\ outFrames' \in Seq(AnyFrame) /\ Head(outFrames) = outFrames[1] /\ 1 \in 1..Len(outFrames)
        /\ \A i \in 1..Len(outFrames') : i + 1 \in 1..Len(outFrames) /\ outFrames'[i] = outFrames[i + 1]
    BY <1>1, <2>1
  <2>5. FramesFit'
    BY <1>1, <2>1, <2>3, <2>4 DEF FramesFit
  <2> QED BY <1>1, <2>1, <2>4, <2>5, SocketStep
<1>5. CASE SocketLost
  <2>1. /\ UNCHANGED <<refs, beats, longest, pendingJoins, joinPc, joinRef, joinAck, admitted>>
        /\ outFrames' = <<>> /\ atServer' = {} /\ replies' = {}
    BY <1>5 DEF SocketLost
  <2>2. FramesFit' /\ outFrames' \in Seq(AnyFrame)
    BY <2>1 DEF FramesFit
  <2> QED BY <1>1, <2>1, <2>2, SocketStep
<1> QED BY <1>2, <1>3, <1>4, <1>5

LEMMA RouteStep ==
  ASSUME RtInv, NEW m \in replies, Route(m)
  PROVE  RtInv'
<1> USE RealtimeAssumption
<1> DEFINE hit == {p \in pendingJoins : p[1] = m.ref}
<1>1. /\ replies' = replies \ {m} /\ pendingJoins' = pendingJoins \ hit
      /\ joinAck' = [j \in Joins |-> IF <<m.ref, j>> \in hit THEN IF m.ok THEN "ok" ELSE "denied" ELSE joinAck[j]]
      /\ UNCHANGED <<refs, beats, longest, joinPc, joinRef, outFrames, atServer, admitted>>
  BY DEF Route, OnReply
<1>2. Started' = Started /\ RtShape'
  BY <1>1 DEF RtInv, RtShape, Started
<1>3. RefsUnique' /\ FramesFit' /\ RepliesFit'
  BY <1>1, <1>2, StillFits DEF RtInv, RtShape, FramesFit, RepliesFit
<1>4. \A j \in Joins : <<m.ref, j>> \in hit => j \in Started /\ joinRef[j] = m.ref /\ joinPc[j] \in {"inserted", "waiting"}
  BY DEF RtInv, RtShape, JoinsSound, PendingListen, Started
<1>5. ASSUME longest < JoinBase, NEW j \in Joins, <<m.ref, j>> \in hit, m.ok PROVE j \in admitted
  <2>1. JoinBase <= m.ref /\ m.ref \in Nat
    BY <1>4, <1>5 DEF RtInv, RtShape, RefsUnique
  <2>2. longest \in Nat /\ ~(m.ref <= longest)
    BY <1>5, <2>1 DEF RtInv, RtShape
  <2>3. j \in Started /\ joinRef[j] = m.ref
    BY <1>4, <1>5
  <2>4. ReplyFits(m)
    BY DEF RtInv, RepliesFit
  <2> QED BY <1>5, <2>2, <2>3, <2>4 DEF ReplyFits
<1>6. AcksFit'
  BY <1>1, <1>5 DEF RtInv, AcksFit
<1>7. /\ pendingJoins \subseteq Nat \X Joins
      /\ \A p \in pendingJoins : p = <<p[1], p[2]>> /\ (p[1] = m.ref <=> p \in hit)
      /\ \A j \in Joins : <<joinRef[j], j>> \in hit <=> (<<joinRef[j], j>> \in pendingJoins /\ joinRef[j] = m.ref)
  BY DEF RtInv, RtShape
<1>8. Listening'
  <2>1. \A p \in pendingJoins' : joinAck'[p[2]] = "none"
    BY <1>1, <1>4, <1>7 DEF RtInv, Listening, JoinsSound, PendingListen
  <2>2. \A j \in Joins : joinPc[j] = "idle" => joinAck'[j] = "none"
    BY <1>1, <1>4, <1>7 DEF RtInv, Listening
  <2>3. \A j \in Joins : joinPc[j] = "inserted" /\ joinAck'[j] = "none" => <<joinRef[j], j>> \in pendingJoins'
    BY <1>1, <1>7 DEF RtInv, Listening
  <2> QED BY <1>1, <2>1, <2>2, <2>3 DEF Listening
<1>9. JoinsSound'
  BY <1>1, <1>7 DEF RtInv, JoinsSound, JoinAdmitted, PendingListen
<1> QED BY <1>2, <1>3, <1>6, <1>8, <1>9 DEF RtInv

LEMMA ResetPendingStep ==
  ASSUME RtInv, ResetPending
  PROVE  RtInv'
<1>1. /\ pendingJoins' = {}
      /\ joinAck' = [j \in Joins |-> IF \E p \in pendingJoins : p[2] = j THEN "denied" ELSE joinAck[j]]
      /\ UNCHANGED <<refs, beats, longest, joinPc, joinRef, outFrames, atServer, replies, admitted>>
  BY DEF ResetPending
<1>2. Started' = Started /\ RtShape'
  BY <1>1 DEF RtInv, RtShape, Started
<1>3. RefsUnique' /\ FramesFit' /\ RepliesFit'
  BY <1>1, <1>2, StillFits DEF RtInv, RtShape, FramesFit, RepliesFit
<1>4. AcksFit'
  BY <1>1 DEF RtInv, AcksFit
<1>5. \A j \in Joins : joinPc[j] \in {"inserted", "waiting"} => joinAck'[j] # "none"
  <2> SUFFICES ASSUME NEW j \in Joins, joinPc[j] \in {"inserted", "waiting"}, joinAck[j] = "none"
               PROVE  \E p \in pendingJoins : p[2] = j
    BY <1>1
  <2>1. <<joinRef[j], j>> \in pendingJoins
    BY DEF RtInv, Listening, JoinsSound, PendingListen
  <2> QED BY <2>1
<1>6. \A j \in Joins : joinPc[j] = "idle" => joinAck'[j] = "none"
  BY <1>1 DEF RtInv, Listening, JoinsSound, PendingListen
<1>7. Listening' /\ JoinsSound'
  BY <1>1, <1>5, <1>6 DEF RtInv, Listening, JoinsSound, JoinAdmitted, PendingListen
<1> QED BY <1>2, <1>3, <1>4, <1>7 DEF RtInv

LEMMA AnswerStep ==
  ASSUME RtInv, NEW f \in atServer, Answer(f)
  PROVE  RtInv'
<1>1. PICK ok \in BOOLEAN :
          /\ atServer' = atServer \ {f}
          /\ replies' = IF f.kind = "broadcast" THEN replies ELSE replies \cup {[ref |-> f.ref, ok |-> ok]}
          /\ admitted' = IF f.kind = "join" /\ ok THEN admitted \cup {f.by} ELSE admitted
  BY DEF Answer
<1>2. UNCHANGED <<refs, beats, longest, pendingJoins, joinPc, joinRef, joinAck, outFrames>>
  BY DEF Answer
<1>3. f \in AnyFrame /\ FrameFits(f)
  BY DEF RtInv, RtShape, FramesFit
<1>4. Started' = Started
  BY <1>2 DEF Started
<1>5. f.kind = "join" => f.by \in Started /\ f.by \in Joins /\ f.ref = joinRef[f.by] /\ f.ref < refs
  BY <1>3 DEF FrameFits, RtInv, RefsUnique, Started
<1>6. RtShape' /\ admitted \subseteq admitted'
  BY <1>1, <1>2, <1>3, <1>5 DEF RtInv, RtShape, AnyFrame
<1>7. ReplyFits([ref |-> f.ref, ok |-> ok])' \/ f.kind = "broadcast"
  <2>1. CASE f.kind = "heartbeat"
    BY <1>2, <1>3, <2>1 DEF FrameFits, ReplyFits
  <2>2. CASE f.kind = "join"
    BY <1>1, <1>2, <1>4, <1>5, <2>2 DEF ReplyFits, RtInv, RefsUnique
  <2>3. CASE f.kind = "leave"
    BY <1>2, <1>3, <1>4, <2>3 DEF FrameFits, ReplyFits
  <2> QED BY <1>3, <2>1, <2>2, <2>3 DEF AnyFrame
<1>8. longest' \in Nat /\ longest' >= longest
  BY <1>2 DEF RtInv, RtShape
<1>9. RefsUnique' /\ FramesFit'
  <2>1. RefsUnique' /\ \A g \in AnyFrame : FrameFits(g) => FrameFits(g)'
    BY <1>2, <1>4, <1>6, <1>8, StillFits
  <2>2. /\ \A g \in atServer' : g \in AnyFrame /\ FrameFits(g)
        /\ \A i \in 1..Len(outFrames') : outFrames'[i] \in AnyFrame /\ FrameFits(outFrames'[i])
    BY <1>1, <1>2 DEF RtInv, RtShape, FramesFit
  <2> QED BY <2>1, <2>2 DEF FramesFit
<1>10. RepliesFit'
  BY <1>1, <1>2, <1>4, <1>6, <1>7, <1>8, StillFits DEF RtInv, RtShape, RepliesFit
<1>11. AcksFit' /\ Listening' /\ JoinsSound'
  BY <1>2, <1>6, <1>8, JoinsStay
<1> QED BY <1>6, <1>9, <1>10, <1>11 DEF RtInv

\* What SendFrame does to the outbound channel.
LEMMA Sent ==
  ASSUME RtShape, NEW f \in AnyFrame, SendFrame(f)
  PROVE  /\ outFrames' \in Seq(AnyFrame)
         /\ \A i \in 1..Len(outFrames') :
               outFrames'[i] = f \/ (i \in 1..Len(outFrames) /\ outFrames'[i] = outFrames[i])
BY DEF RtShape, SendFrame

LEMMA InsertJoinStep ==
  ASSUME RtInv, NEW j \in Joins, InsertJoin(j)
  PROVE  RtInv'
<1> USE RealtimeAssumption
<1>1. /\ joinPc[j] = "idle" /\ joinPc' = [joinPc EXCEPT ![j] = "inserted"]
      /\ joinRef' = [joinRef EXCEPT ![j] = refs] /\ refs' = refs + 1
      /\ pendingJoins' = pendingJoins \cup {<<refs, j>>}
      /\ UNCHANGED <<beats, longest, joinAck, outFrames, atServer, replies, admitted>>
  BY DEF InsertJoin
<1>2. RtShape'
  BY <1>1 DEF RtInv, RtShape, JoinPcs
<1>3. /\ Started' = Started \cup {j} /\ j \notin Started
      /\ joinRef'[j] = refs /\ \A k \in Started : joinRef'[k] = joinRef[k]
  BY <1>1 DEF RtInv, RtShape, Started
<1>4. RefsUnique'
  <2>1. refs \in Nat /\ JoinBase <= refs /\ JoinBase \in Nat
    BY DEF RtInv, RtShape
  <2>2. \A k \in Started : joinRef[k] \in Nat /\ JoinBase <= joinRef[k] /\ joinRef[k] < refs
    BY DEF RtInv, RtShape, RefsUnique, Started
  <2>3. \A k \in Started' : JoinBase <= joinRef'[k] /\ joinRef'[k] < refs'
    BY <1>1, <1>3, <2>1, <2>2
  <2>4. \A k, q \in Started' : joinRef'[k] = joinRef'[q] => k = q
    BY <1>3, <2>1, <2>2 DEF RtInv, RefsUnique
  <2> QED BY <2>3, <2>4 DEF RefsUnique
<1>5. longest' = longest /\ refs \in Nat /\ longest \in Nat
  BY <1>1 DEF RtInv, RtShape
<1>6. ASSUME NEW f \in AnyFrame, FrameFits(f) PROVE FrameFits(f)'
  BY <1>1, <1>3, <1>5, <1>6 DEF FrameFits, AnyFrame
<1>7. ASSUME NEW m \in [ref : Nat, ok : BOOLEAN], ReplyFits(m) PROVE ReplyFits(m)'
  BY <1>1, <1>3, <1>5, <1>7 DEF ReplyFits
<1>8. FramesFit' /\ RepliesFit'
  BY <1>1, <1>6, <1>7 DEF RtInv, RtShape, FramesFit, RepliesFit
<1>9. AcksFit' /\ Listening'
  BY <1>1 DEF RtInv, RtShape, AcksFit, Listening, JoinsSound, PendingListen
<1>10. JoinsSound'
  BY <1>1 DEF RtInv, RtShape, JoinsSound, JoinAdmitted, PendingListen
<1> QED BY <1>2, <1>4, <1>8, <1>9, <1>10 DEF RtInv

LEMMA SendJoinStep ==
  ASSUME RtInv, NEW j \in Joins, SendJoin(j)
  PROVE  RtInv'
<1> USE RealtimeAssumption
<1> DEFINE f == Frame(joinRef[j], "join", j)
<1>1. /\ joinPc[j] = "inserted"
      /\ joinPc' = [joinPc EXCEPT ![j] = IF socket = "up" THEN "waiting" ELSE "failed"]
      /\ SendFrame(f)
      /\ pendingJoins' = IF socket = "up" THEN pendingJoins ELSE pendingJoins \ {<<joinRef[j], j>>}
      /\ UNCHANGED <<refs, beats, longest, joinRef, joinAck, atServer, replies, admitted>>
  BY DEF SendJoin
<1>2. f \in AnyFrame /\ f.kind = "join" /\ f.by = j /\ f.ref = joinRef[j] /\ j \in Started
  BY <1>1 DEF Frame, AnyFrame, RtInv, RtShape, Started
<1>3. Started' = Started
  BY <1>1 DEF RtInv, RtShape, Started
<1>4. /\ outFrames' \in Seq(AnyFrame)
      /\ \A i \in 1..Len(outFrames') :
            outFrames'[i] = f \/ (i \in 1..Len(outFrames) /\ outFrames'[i] = outFrames[i])
  BY <1>1, <1>2, Sent DEF RtInv
<1>5. RtShape'
  BY <1>1, <1>4 DEF RtInv, RtShape, JoinPcs
<1>6. FrameFits(f)'
  BY <1>1, <1>2, <1>3 DEF FrameFits
<1>7. RefsUnique' /\ RepliesFit'
  BY <1>1, <1>3, <1>5, StillFits DEF RtInv, RtShape, RepliesFit
<1>8. FramesFit'
  BY <1>1, <1>3, <1>4, <1>5, <1>6, StillFits DEF RtInv, RtShape, FramesFit
<1>9. AcksFit' /\ Listening' /\ JoinsSound'
  <2>1. AcksFit' /\ JoinAdmitted'
    BY <1>1 DEF RtInv, RtShape, AcksFit, JoinsSound, JoinAdmitted
  <2>2. pendingJoins' \subseteq pendingJoins /\ \A k \in Joins \ {j} : joinPc'[k] = joinPc[k]
    BY <1>1 DEF RtInv, RtShape
  <2>3. \A p \in pendingJoins : p = <<p[1], p[2]>> /\ p[1] = joinRef[p[2]] /\ p[2] \in Joins
    BY DEF RtInv, RtShape, JoinsSound, PendingListen
  <2>4. \A p \in pendingJoins' : joinPc'[p[2]] \in {"inserted", "waiting"}
    BY <1>1, <2>2, <2>3 DEF RtInv, RtShape, JoinsSound, PendingListen
  <2>5. \A k \in Joins : joinPc'[k] \in {"inserted", "waiting"} /\ joinAck[k] = "none" => <<joinRef[k], k>> \in pendingJoins'
    BY <1>1, <2>2 DEF RtInv, RtShape, Listening, JoinsSound, PendingListen
  <2>6. \A k \in Joins : joinPc'[k] = "idle" => joinPc[k] = "idle"
    BY <1>1 DEF RtInv, RtShape
  <2> QED BY <1>1, <2>1, <2>2, <2>3, <2>4, <2>5, <2>6 DEF RtInv, Listening, JoinsSound, PendingListen
<1> QED BY <1>5, <1>7, <1>8, <1>9 DEF RtInv

\* A join returns: it is not in the map any more, and a success has its answer.
LEMMA ReturnStep ==
  ASSUME RtInv, NEW j \in Joins, NEW to \in {"joined", "failed"}, joinPc[j] = "waiting",
         joinPc' = [joinPc EXCEPT ![j] = to], to = "joined" => joinAck[j] = "ok",
         pendingJoins' = pendingJoins \ {<<joinRef[j], j>>},
         UNCHANGED <<refs, beats, longest, joinRef, joinAck, outFrames, atServer, replies, admitted>>
  PROVE  RtInv'
<1>1. Started' = Started /\ RtShape'
  BY DEF RtInv, RtShape, Started, JoinPcs
<1>2. RefsUnique' /\ FramesFit' /\ RepliesFit'
  BY <1>1, StillFits DEF RtInv, RtShape, FramesFit, RepliesFit
<1>3. AcksFit' /\ JoinAdmitted'
  BY DEF RtInv, RtShape, AcksFit, JoinsSound, JoinAdmitted
<1>4. \A p \in pendingJoins : p = <<p[1], p[2]>> /\ p[1] = joinRef[p[2]] /\ p[2] \in Joins
  BY DEF RtInv, RtShape, JoinsSound, PendingListen
<1>5. Listening' /\ PendingListen'
  BY <1>4 DEF RtInv, RtShape, Listening, JoinsSound, PendingListen
<1> QED BY <1>1, <1>2, <1>3, <1>5 DEF RtInv, JoinsSound

LEMMA JoinReturnsStep ==
  ASSUME RtInv, NEW j \in Joins, JoinReturns(j)
  PROVE  RtInv'
<1>1. <<joinRef[j], j>> \notin pendingJoins
  BY DEF JoinReturns, RtInv, Listening
<1> DEFINE to == IF joinAck[j] = "ok" THEN "joined" ELSE "failed"
<1>2. to \in {"joined", "failed"} /\ (to = "joined" => joinAck[j] = "ok")
  OBVIOUS
<1>3. /\ joinPc[j] = "waiting" /\ joinPc' = [joinPc EXCEPT ![j] = to]
      /\ pendingJoins' = pendingJoins \ {<<joinRef[j], j>>}
      /\ UNCHANGED <<refs, beats, longest, joinRef, joinAck, outFrames, atServer, replies, admitted>>
  BY <1>1 DEF JoinReturns
<1> HIDE DEF to
<1> QED BY <1>2, <1>3, ReturnStep

\* A turn that has joined sends, under a ref no join has.
LEMMA TurnSendsStep ==
  ASSUME RtInv, NEW j \in Joins, NEW kind \in {"broadcast", "leave"}, NEW to \in {"sent", "left"},
         joinPc[j] \in {"joined", "sent"}, joinPc' = [joinPc EXCEPT ![j] = to],
         refs' = refs + 1, SendFrame(Frame(refs, kind, NoJoin)),
         UNCHANGED <<beats, longest, pendingJoins, joinRef, joinAck, atServer, replies, admitted>>
  PROVE  RtInv'
<1> USE RealtimeAssumption
<1> DEFINE h == Frame(refs, kind, NoJoin)
<1>1. h \in AnyFrame /\ h.kind = kind /\ h.ref = refs
  BY DEF Frame, AnyFrame, RtInv, RtShape
<1>2. SendFrame(h)
  OBVIOUS
<1> HIDE DEF h
<1>3. PICK f \in AnyFrame : f = h /\ f.kind = kind /\ f.ref = refs
  BY <1>1
<1>4. /\ outFrames' \in Seq(AnyFrame)
      /\ \A i \in 1..Len(outFrames') :
            outFrames'[i] = f \/ (i \in 1..Len(outFrames) /\ outFrames'[i] = outFrames[i])
  BY <1>3, <1>2, Sent DEF RtInv
<1>5. Started' = Started /\ RtShape'
  BY <1>4 DEF RtInv, RtShape, Started, JoinPcs
<1>6. \A k \in Started : joinRef[k] \in Nat /\ joinRef[k] < refs /\ k \in Joins
  BY DEF RtInv, RtShape, RefsUnique, Started
<1>7. refs \in Nat /\ longest' = longest
  BY DEF RtInv, RtShape
<1>8. RefsUnique' /\ FrameFits(f)'
  <2>1. RefsUnique'
    BY <1>5, <1>6, <1>7 DEF RtInv, RefsUnique
  <2>2. FrameFits(f)'
    BY <1>3, <1>5, <1>6, <1>7 DEF FrameFits
  <2> QED BY <2>1, <2>2
<1>9. ASSUME NEW g \in AnyFrame, FrameFits(g) PROVE FrameFits(g)'
  BY <1>5, <1>7, <1>9 DEF FrameFits, AnyFrame
<1>10. ASSUME NEW m \in [ref : Nat, ok : BOOLEAN], ReplyFits(m) PROVE ReplyFits(m)'
  BY <1>5, <1>7, <1>10 DEF ReplyFits
<1>11. FramesFit'
  <2>1. /\ \A g \in atServer : g \in AnyFrame /\ FrameFits(g)
        /\ \A i \in 1..Len(outFrames) : outFrames[i] \in AnyFrame /\ FrameFits(outFrames[i])
    BY DEF RtInv, RtShape, FramesFit
  <2> QED BY <1>4, <1>8, <1>9, <2>1 DEF FramesFit
<1>12. RepliesFit'
  BY <1>10 DEF RtInv, RtShape, RepliesFit
<1>13. AcksFit' /\ Listening' /\ JoinsSound'
  BY DEF RtInv, RtShape, AcksFit, Listening, JoinsSound, JoinAdmitted, PendingListen
<1> QED BY <1>5, <1>8, <1>11, <1>12, <1>13 DEF RtInv

LEMMA NextRtInv == RtInv /\ [RtNext]_rtVars => RtInv'
<1> SUFFICES ASSUME RtInv, [RtNext]_rtVars PROVE RtInv'
  OBVIOUS
<1>1. CASE Connect \/ Beat \/ WriteNext \/ SocketLost \/ ResetSender
  BY <1>1, LoopStep
<1>2. CASE ResetPending
  BY <1>2, ResetPendingStep
<1>3. ASSUME NEW m \in replies, Route(m) PROVE RtInv'
  BY <1>3, RouteStep
<1>4. ASSUME NEW f \in atServer, Answer(f) PROVE RtInv'
  BY <1>4, AnswerStep
<1>5. ASSUME NEW j \in Joins, InsertJoin(j) PROVE RtInv'
  BY <1>5, InsertJoinStep
<1>6. ASSUME NEW j \in Joins, SendJoin(j) PROVE RtInv'
  BY <1>6, SendJoinStep
<1>7. ASSUME NEW j \in Joins, JoinReturns(j) PROVE RtInv'
  BY <1>7, JoinReturnsStep
<1>8. ASSUME NEW j \in Joins, JoinTimesOut(j) PROVE RtInv'
  BY <1>8, ReturnStep DEF JoinTimesOut
<1>9. ASSUME NEW j \in Joins, BroadcastFrame(j) PROVE RtInv'
  BY <1>9, TurnSendsStep DEF BroadcastFrame
<1>10. ASSUME NEW j \in Joins, LeaveChannel(j) PROVE RtInv'
  BY <1>10, TurnSendsStep DEF LeaveChannel
<1>11. CASE UNCHANGED rtVars
  <2>1. /\ UNCHANGED <<refs, beats, longest, pendingJoins, joinPc, joinRef, joinAck, outFrames, atServer,
                       replies, admitted>>
        /\ Started' = Started
    BY <1>11 DEF rtVars, Started
  <2>2. RtShape'
    BY <2>1 DEF RtInv, RtShape
  <2>3. RefsUnique' /\ FramesFit' /\ RepliesFit'
    BY <2>1, <2>2, StillFits DEF RtInv, RtShape, FramesFit, RepliesFit
  <2> QED BY <2>1, <2>2, <2>3, JoinsStay DEF RtInv, RtShape
<1> QED BY <1>1, <1>2, <1>3, <1>4, <1>5, <1>6, <1>7, <1>8, <1>9, <1>10, <1>11 DEF RtNext

-----------------------------------------------------------------------------
(* The bounds of the realtime handle.  A join takes a ref when it enters   *)
(* the map, one when its turn broadcasts and one when it leaves.           *)

PcIn(places) == {j \in Joins : joinPc[j] \in places}
TookRef == JoinPcs \ {"idle"}

RefsBounded ==
    refs <= JoinBase + Cardinality(PcIn(TookRef)) + Cardinality(PcIn({"sent", "left"})) + Cardinality(PcIn({"left"}))

RtTypes == RtTypeOK /\ RefsBounded /\ \A j \in Joins : joinPc[j] = "idle" => joinRef[j] = 0

LEMMA PcInSize == \A places : Cardinality(PcIn(places)) \in Nat /\ Cardinality(PcIn(places)) <= Cardinality(Joins)
<1> SUFFICES ASSUME NEW places
             PROVE  Cardinality(PcIn(places)) \in Nat /\ Cardinality(PcIn(places)) <= Cardinality(Joins)
  OBVIOUS
<1> DEFINE S == PcIn(places)
<1>1. S \subseteq Joins
  BY DEF PcIn
<1> HIDE DEF S
<1>2. IsFiniteSet(S) /\ Cardinality(S) <= Cardinality(Joins)
  BY <1>1, RealtimeAssumption, FS_Subset
<1>3. Cardinality(S) \in Nat
  BY <1>2, FS_CardinalityType
<1> QED BY <1>2, <1>3 DEF S

\* A join that goes from one place to another is counted where it comes in.
LEMMA PcInMoves ==
  ASSUME RtShape, NEW j \in Joins, NEW to, joinPc' = [joinPc EXCEPT ![j] = to],
         NEW places, joinPc[j] \in places => to \in places
  PROVE  Cardinality(PcIn(places)') =
             Cardinality(PcIn(places)) + IF joinPc[j] \notin places /\ to \in places THEN 1 ELSE 0
<1> DEFINE S == PcIn(places)
           T == PcIn(places)'
<1>1. joinPc'[j] = to /\ \A k \in Joins \ {j} : joinPc'[k] = joinPc[k]
  BY DEF RtShape
<1>2. Cardinality(S) \in Nat /\ IsFiniteSet(S)
  <2>1. PcIn(places) \subseteq Joins
    BY DEF PcIn
  <2> QED BY <2>1, PcInSize, RealtimeAssumption, FS_Subset
<1>3. CASE joinPc[j] \notin places /\ to \in places
  <2>1. T = S \cup {j} /\ j \notin S
    BY <1>1, <1>3 DEF PcIn
  <2> HIDE DEF S, T
  <2>2. Cardinality(T) = Cardinality(S) + 1
    BY <1>2, <2>1, FS_AddElement
  <2> QED BY <1>3, <2>2 DEF S, T
<1>4. CASE ~(joinPc[j] \notin places /\ to \in places)
  <2>1. T = S
    BY <1>1, <1>4 DEF PcIn
  <2> HIDE DEF S, T
  <2>2. Cardinality(T) = Cardinality(S) + 0
    BY <1>2, <2>1
  <2> QED BY <1>4, <2>2 DEF S, T
<1> QED BY <1>3, <1>4

LEMMA JoinRange == Cardinality(Joins) \in Nat /\ JoinBase \in Nat /\ MaxRef \in Nat /\ MaxRef >= JoinBase /\ JoinBase >= 2
<1>1. Cardinality(Joins) \in Nat
  BY RealtimeAssumption, FS_CardinalityType
<1> QED BY <1>1, RealtimeAssumption DEF MaxRef

LEMMA RefsInRange == RtShape /\ RefsBounded => refs \in JoinBase..MaxRef
<1> SUFFICES ASSUME RtShape, RefsBounded PROVE refs \in JoinBase..MaxRef
  OBVIOUS
<1> DEFINE A == Cardinality(PcIn(TookRef))
           B == Cardinality(PcIn({"sent", "left"}))
           C == Cardinality(PcIn({"left"}))
<1>1. A \in Nat /\ A <= Cardinality(Joins) /\ B \in Nat /\ B <= Cardinality(Joins) /\ C \in Nat /\ C <= Cardinality(Joins)
  BY PcInSize
<1>2. refs <= JoinBase + A + B + C
  BY DEF RefsBounded
<1> HIDE DEF A, B, C
<1> QED BY <1>1, <1>2, JoinRange DEF RtShape, MaxRef

LEMMA InitRtTypes == RtInit => RtTypes
<1> SUFFICES ASSUME RtInit PROVE RtTypes
  OBVIOUS
<1> USE RealtimeAssumption, JoinRange DEF RtInit
<1>1. refs \in JoinBase..MaxRef /\ 0 \in 0..MaxRef /\ 0 \in 0..MaxBeats /\ 0 \in 0..MaxSockets
  OBVIOUS
<1>2. RtTypeOK
  BY <1>1 DEF RtTypeOK
<1>3. RefsBounded
  BY PcInSize DEF RefsBounded
<1> QED BY <1>2, <1>3 DEF RtTypes

\* The counts move with the step of the one join that takes a ref.
LEMMA NextRefsBounded ==
  ASSUME RtShape, RefsBounded, [RtNext]_rtVars
  PROVE  RefsBounded'
<1> DEFINE A == Cardinality(PcIn(TookRef))
           B == Cardinality(PcIn({"sent", "left"}))
           C == Cardinality(PcIn({"left"}))
<1>1. A \in Nat /\ B \in Nat /\ C \in Nat
  BY PcInSize
<1>2. refs \in Nat /\ refs <= JoinBase + A + B + C /\ JoinBase \in Nat
  BY JoinRange DEF RtShape, RefsBounded
<1>3. SUFFICES refs' <= JoinBase + A' + B' + C'
  BY DEF RefsBounded
<1>4. ASSUME UNCHANGED <<joinPc, refs>> PROVE refs' <= JoinBase + A' + B' + C'
  BY <1>2, <1>4 DEF PcIn
<1> HIDE DEF A, B, C
<1>5. ASSUME NEW j \in Joins, NEW to, joinPc' = [joinPc EXCEPT ![j] = to], to \in JoinPcs \ {"idle"},
             joinPc[j] # "left", joinPc[j] = "sent" => to = "left"
      PROVE  /\ joinPc'[j] = to
             /\ A' = A + IF joinPc[j] = "idle" THEN 1 ELSE 0
             /\ B' = B + IF joinPc[j] # "sent" /\ to \in {"sent", "left"} THEN 1 ELSE 0
             /\ C' = C + IF to = "left" THEN 1 ELSE 0
  <2>1. joinPc[j] \in JoinPcs /\ joinPc'[j] = to
    BY <1>5 DEF RtShape
  <2>2. A' = A + IF joinPc[j] \notin TookRef /\ to \in TookRef THEN 1 ELSE 0
    BY <1>5, PcInMoves DEF A, TookRef
  <2>3. B' = B + IF joinPc[j] \notin {"sent", "left"} /\ to \in {"sent", "left"} THEN 1 ELSE 0
    BY <1>5, PcInMoves DEF B
  <2>4. C' = C + IF joinPc[j] \notin {"left"} /\ to \in {"left"} THEN 1 ELSE 0
    BY <1>5, PcInMoves DEF C
  <2> QED BY <1>5, <2>1, <2>2, <2>3, <2>4 DEF TookRef
<1>6. ASSUME NEW j \in Joins, InsertJoin(j) PROVE refs' <= JoinBase + A' + B' + C'
  <2>1. joinPc[j] = "idle" /\ joinPc' = [joinPc EXCEPT ![j] = "inserted"] /\ refs' = refs + 1
    BY <1>6 DEF InsertJoin
  <2>2. PICK to \in {"inserted"} : joinPc' = [joinPc EXCEPT ![j] = to]
    BY <2>1
  <2>3. to \in JoinPcs \ {"idle"}
    BY DEF JoinPcs
  <2>4. A' = A + 1 /\ B' = B + 0 /\ C' = C + 0
    BY <1>5, <2>1, <2>2, <2>3
  <2> QED BY <1>1, <1>2, <2>1, <2>4
<1>7. ASSUME NEW j \in Joins, SendJoin(j) \/ JoinReturns(j) \/ JoinTimesOut(j)
      PROVE  refs' <= JoinBase + A' + B' + C'
  <2>1. PICK to \in {"waiting", "failed", "joined"} : joinPc' = [joinPc EXCEPT ![j] = to]
    BY <1>7 DEF SendJoin, JoinReturns, JoinTimesOut
  <2>2. joinPc[j] \in {"inserted", "waiting"} /\ refs' = refs
    BY <1>7 DEF SendJoin, JoinReturns, JoinTimesOut
  <2>3. to \in JoinPcs \ {"idle"}
    BY DEF JoinPcs
  <2>4. A' = A + 0 /\ B' = B + 0 /\ C' = C + 0
    BY <1>5, <2>1, <2>2, <2>3
  <2> QED BY <1>1, <1>2, <2>2, <2>4
<1>8. ASSUME NEW j \in Joins, BroadcastFrame(j) PROVE refs' <= JoinBase + A' + B' + C'
  <2>1. joinPc[j] = "joined" /\ joinPc' = [joinPc EXCEPT ![j] = "sent"] /\ refs' = refs + 1
    BY <1>8 DEF BroadcastFrame
  <2>2. PICK to \in {"sent"} : joinPc' = [joinPc EXCEPT ![j] = to]
    BY <2>1
  <2>3. to \in JoinPcs \ {"idle"}
    BY DEF JoinPcs
  <2>4. A' = A + 0 /\ B' = B + 1 /\ C' = C + 0
    BY <1>5, <2>1, <2>2, <2>3
  <2> QED BY <1>1, <1>2, <2>1, <2>4
<1>9. ASSUME NEW j \in Joins, LeaveChannel(j) PROVE refs' <= JoinBase + A' + B' + C'
  <2>1. joinPc[j] \in {"joined", "sent"} /\ joinPc' = [joinPc EXCEPT ![j] = "left"] /\ refs' = refs + 1
    BY <1>9 DEF LeaveChannel
  <2>2. PICK to \in {"left"} : joinPc' = [joinPc EXCEPT ![j] = to]
    BY <2>1
  <2>3. to \in JoinPcs \ {"idle"}
    BY DEF JoinPcs
  <2>4. A' = A + 0 /\ (B' = B + 0 \/ B' = B + 1) /\ C' = C + 1
    BY <1>5, <2>1, <2>2, <2>3
  <2>5. B' >= B
    BY <1>1, <2>4
  <2>6. refs' = refs + 1
    BY <2>1
  <2> QED BY <1>1, <1>2, <2>4, <2>5, <2>6
<1>10. \/ UNCHANGED <<joinPc, refs>>
       \/ \E j \in Joins : \/ InsertJoin(j) \/ SendJoin(j) \/ JoinReturns(j) \/ JoinTimesOut(j)
                           \/ BroadcastFrame(j) \/ LeaveChannel(j)
  BY DEF RtNext, rtVars, Connect, Beat, WriteNext, SocketLost, ResetSender, ResetPending, Route, Answer
<1> QED BY <1>4, <1>6, <1>7, <1>8, <1>9, <1>10

\* The loop and the server: what they pass on is bounded as it was.
LEMMA FramesBounded ==
  ASSUME RtInv, RtTypeOK, refs' \in JoinBase..MaxRef, [RtNext]_rtVars
  PROVE  /\ socket' \in {"down", "up", "dropped", "cleared"} /\ sockets' \in 0..MaxSockets
         /\ beats' \in 0..MaxBeats /\ longest' \in 0..MaxBeats
         /\ \A i \in DOMAIN outFrames' : outFrames'[i] \in RtFrames
         /\ atServer' \subseteq RtFrames /\ replies' \subseteq [ref : 1..MaxRef + MaxBeats, ok : BOOLEAN]
<1> USE RealtimeAssumption, JoinRange
<1>1. /\ socket \in {"down", "up", "dropped", "cleared"} /\ sockets \in 0..MaxSockets
      /\ beats \in 0..MaxBeats /\ longest \in 0..MaxBeats /\ outFrames \in Seq(AnyFrame)
      /\ \A i \in DOMAIN outFrames : outFrames[i] \in RtFrames
      /\ atServer \subseteq RtFrames /\ replies \subseteq [ref : 1..MaxRef + MaxBeats, ok : BOOLEAN]
  BY DEF RtInv, RtShape, RtTypeOK
<1>2. CASE Connect \/ ResetSender \/ ResetPending
  BY <1>1, <1>2 DEF Connect, ResetSender, ResetPending
<1>3. CASE Beat
  <2>1. Frame(beats + 1, "heartbeat", NoJoin) \in RtFrames
    BY <1>1, <1>3 DEF Beat, Frame, RtFrames
  <2>2. beats' \in 0..MaxBeats
    BY <1>1, <1>3 DEF Beat
  <2> QED BY <1>1, <1>3, <2>1, <2>2 DEF Beat
<1>4. CASE WriteNext
  <2>1. Head(outFrames) = outFrames[1] /\ 1 \in DOMAIN outFrames
    BY <1>1, <1>4 DEF WriteNext
  <2>2. \A i \in DOMAIN Tail(outFrames) : i + 1 \in DOMAIN outFrames /\ Tail(outFrames)[i] = outFrames[i + 1]
    BY <1>1, <1>4 DEF WriteNext
  <2> QED BY <1>1, <1>4, <2>1, <2>2 DEF WriteNext
<1>5. CASE SocketLost
  BY <1>1, <1>5 DEF SocketLost
<1>6. ASSUME NEW m \in replies, Route(m)
      PROVE  /\ replies' \subseteq replies
             /\ UNCHANGED <<socket, sockets, beats, longest, outFrames, atServer>>
  BY <1>6 DEF Route
<1>7. ASSUME NEW f \in atServer, Answer(f)
      PROVE  /\ replies' \subseteq [ref : 1..MaxRef + MaxBeats, ok : BOOLEAN] /\ atServer' \subseteq RtFrames
             /\ UNCHANGED <<socket, sockets, beats, longest, outFrames>>
  <2>1. f.ref \in 1..MaxRef + MaxBeats
    BY <1>1 DEF RtFrames
  <2>2. PICK ok \in BOOLEAN :
            replies' = IF f.kind = "broadcast" THEN replies ELSE replies \cup {[ref |-> f.ref, ok |-> ok]}
    BY <1>7 DEF Answer
  <2>3. [ref |-> f.ref, ok |-> ok] \in [ref : 1..MaxRef + MaxBeats, ok : BOOLEAN]
    BY <2>1
  <2>4. replies' \subseteq [ref : 1..MaxRef + MaxBeats, ok : BOOLEAN]
    BY <1>1, <2>2, <2>3
  <2>5. atServer' \subseteq RtFrames /\ UNCHANGED <<socket, sockets, beats, longest, outFrames>>
    BY <1>1, <1>7 DEF Answer
  <2> QED BY <2>4, <2>5
<1>8. ASSUME NEW f \in RtFrames, SendFrame(f) PROVE \A i \in DOMAIN outFrames' : outFrames'[i] \in RtFrames
  BY <1>1, <1>8 DEF SendFrame
<1>9. ASSUME NEW j \in Joins,
             \/ InsertJoin(j) \/ SendJoin(j) \/ JoinReturns(j) \/ JoinTimesOut(j)
             \/ BroadcastFrame(j) \/ LeaveChannel(j)
      PROVE  /\ UNCHANGED <<socket, sockets, beats, longest, atServer, replies>>
             /\ \A i \in DOMAIN outFrames' : outFrames'[i] \in RtFrames
  <2>1. UNCHANGED <<socket, sockets, beats, longest, atServer, replies>>
    BY <1>9 DEF InsertJoin, SendJoin, JoinReturns, JoinTimesOut, BroadcastFrame, LeaveChannel
  <2>2. CASE InsertJoin(j) \/ JoinReturns(j) \/ JoinTimesOut(j)
    BY <1>1, <2>1, <2>2 DEF InsertJoin, JoinReturns, JoinTimesOut
  <2>3. CASE SendJoin(j)
    <3>1. j \in Started /\ joinRef[j] \in Nat
      BY <2>3 DEF SendJoin, Started, RtInv, RtShape
    <3>2. joinRef[j] \in 1..MaxRef + MaxBeats
      BY <3>1 DEF RtInv, RefsUnique, RtTypeOK
    <3>3. Frame(joinRef[j], "join", j) \in RtFrames
      BY <3>2 DEF Frame, RtFrames
    <3> QED BY <1>8, <2>1, <2>3, <3>3 DEF SendJoin
  <2>4. ASSUME NEW kind \in {"broadcast", "leave"}, SendFrame(Frame(refs, kind, NoJoin))
        PROVE  \A i \in DOMAIN outFrames' : outFrames'[i] \in RtFrames
    <3>1. Frame(refs, kind, NoJoin) \in RtFrames
      BY DEF Frame, RtFrames, RtTypeOK
    <3> QED BY <1>8, <2>4, <3>1
  <2>5. CASE BroadcastFrame(j) \/ LeaveChannel(j)
    BY <2>4, <2>5 DEF BroadcastFrame, LeaveChannel
  <2> QED BY <1>9, <2>1, <2>2, <2>3, <2>5
<1>10. CASE UNCHANGED rtVars
  BY <1>1, <1>10 DEF rtVars
<1> QED BY <1>1, <1>2, <1>3, <1>4, <1>5, <1>6, <1>7, <1>9, <1>10 DEF RtNext

LEMMA NextRtTypes == RtInv /\ RtInv' /\ RtTypes /\ [RtNext]_rtVars => RtTypes'
<1> SUFFICES ASSUME RtInv, RtInv', RtTypes, [RtNext]_rtVars PROVE RtTypes'
  OBVIOUS
<1> USE RealtimeAssumption, JoinRange
<1>1. RtShape /\ RtShape' /\ RtTypeOK
  BY DEF RtInv, RtTypes
<1>2. RefsBounded'
  BY <1>1, NextRefsBounded DEF RtTypes
<1>3. refs' \in JoinBase..MaxRef
  <2>1. (RtShape /\ RefsBounded => refs \in JoinBase..MaxRef)'
    BY RefsInRange, PTL
  <2> QED BY <1>1, <1>2, <2>1
<1>4. \A j \in Joins : joinPc'[j] = "idle" => joinPc[j] = "idle" /\ joinRef'[j] = joinRef[j]
  BY <1>1 DEF RtNext, rtVars, RtShape, Connect, Beat, WriteNext, SocketLost, ResetSender, ResetPending, Route,
              Answer, InsertJoin, SendJoin, JoinReturns, JoinTimesOut, BroadcastFrame, LeaveChannel
<1>5. \A j \in Joins : joinPc'[j] = "idle" => joinRef'[j] = 0
  BY <1>4 DEF RtTypes
<1>6. \A j \in Joins : joinPc'[j] # "idle" => joinRef'[j] \in JoinBase..MaxRef
  BY <1>1, <1>3 DEF RtInv, RtShape, RefsUnique, Started
<1>7. joinRef' \in [Joins -> 0..MaxRef]
  <2>1. \A j \in Joins : joinRef'[j] \in 0..MaxRef
    BY <1>5, <1>6
  <2> QED BY <1>1, <2>1 DEF RtShape
<1>8. pendingJoins' \subseteq ((JoinBase..MaxRef) \X Joins)
  BY <1>1, <1>6 DEF RtInv, RtShape, JoinsSound, PendingListen
<1>9. RtTypeOK'
  BY <1>1, <1>3, <1>7, <1>8, FramesBounded DEF RtShape, RtTypeOK, JoinPcs
<1> QED BY <1>2, <1>5, <1>9 DEF RtTypes

LEMMA RtInvariant == RtSpec => [](RtInv /\ RtTypes)
BY InitRtInv, NextRtInv, InitRtTypes, NextRtTypes, PTL DEF RtSpec

\* A join of realtime.rs that returns success was let in by the answer to it, unless a
\* connection has beaten up to the refs of joins; and no join waits outside the map.
THEOREM JoinsAreSound == RtSpec => []JoinsSound
<1>1. RtInv => JoinsSound
  BY DEF RtInv
<1> QED BY <1>1, RtInvariant, PTL

-----------------------------------------------------------------------------
(* The self-update.                                                        *)

\* A run past its resolution has resolved a release.
ReleasesFit ==
    \A t \in Updates : updatePc[t] \notin {"idle", "over"} => updateTo[t] \in AgentVersions

\* One run in swap_binary, and what it finds under the names it shares is its own.
SwapOwned ==
    ~overlapped =>
        /\ \A t, u \in Updates : updatePc[t] \in Swapping /\ updatePc[u] \in Swapping => t = u
        /\ \A t \in Updates :
              /\ updatePc[t] = "writing" => staged.by = t /\ staged # NoStaged
              /\ updatePc[t] = "written" => staged.whole
              /\ updatePc[t] = "copied" => copied[t].whole

UpInv == UpdateTypeOK /\ ReleasesFit /\ SwapOwned /\ ExecutableWhole

LEMMA InitUpInv == UpdateInit => UpInv
<1> SUFFICES ASSUME UpdateInit PROVE UpInv
  OBVIOUS
<1> USE UpdateAssumption DEF UpdateInit
<1>1. settled \in BOOLEAN /\ restartDue \in BOOLEAN /\ overlapped \in BOOLEAN
  BY Zenon
<1>2. 1 \in AgentVersions /\ NoStaged \in StagedFiles
  BY DEF AgentVersions, StagedFiles
<1>3. UpdateTypeOK
  BY <1>1, <1>2 DEF UpdateTypeOK
<1>4. ReleasesFit /\ SwapOwned /\ ExecutableWhole
  BY DEF ReleasesFit, SwapOwned, ExecutableWhole, Swapping, TornExe
<1> QED BY <1>3, <1>4 DEF UpInv

\* A whole staged file is of a release.
LEMMA WholeIsRelease ==
  ASSUME NEW f \in StagedFiles, f.whole
  PROVE  f \in [to : AgentVersions, by : Updates, whole : BOOLEAN] /\ f.to \in AgentVersions
BY DEF StagedFiles, NoStaged

\* The steps outside swap_binary: the run goes from one place outside to another.
LEMMA OutsideStep ==
  ASSUME UpInv, NEW t \in Updates, NEW to \in {"resolved", "download", "verified", "over"},
         updatePc[t] \notin Swapping, updatePc' = [updatePc EXCEPT ![t] = to],
         updateTo' \in [Updates -> AgentVersions \cup {0}],
         \A u \in Updates \ {t} : updateTo'[u] = updateTo[u],
         to # "over" => updateTo'[t] \in AgentVersions,
         updateStatus' \in {"idle", "downloading", "installing", "failed"}, restartDue' \in BOOLEAN,
         UNCHANGED <<published, exe, running, staged, copied, settled, overlapped>>
  PROVE  UpInv'
<1>1. UpdateTypeOK'
  BY DEF UpInv, UpdateTypeOK
<1>2. ReleasesFit'
  BY DEF UpInv, UpdateTypeOK, ReleasesFit
<1>3. SwapOwned'
  BY DEF UpInv, UpdateTypeOK, SwapOwned, Swapping
<1>4. ExecutableWhole'
  BY DEF UpInv, ExecutableWhole
<1> QED BY <1>1, <1>2, <1>3, <1>4 DEF UpInv

LEMMA ResolveStep ==
  ASSUME UpInv, NEW t \in Updates,
         \/ CommandResolves(t) \/ AutoResolves(t) \/ UpToDate(t) \/ NoArtifact(t) \/ DownloadStarts(t)
         \/ Verified(t) \/ UpdateFails(t) \/ ScheduleRestart(t)
  PROVE  UpInv'
<1> USE UpdateAssumption
<1>1. UpdateTypeOK /\ ReleasesFit
  BY DEF UpInv
<1>2. UNCHANGED <<published, exe, running, staged, copied, settled, overlapped>>
  BY DEF CommandResolves, AutoResolves, UpToDate, NoArtifact, DownloadStarts, Verified, UpdateFails, ScheduleRestart
<1>3. updateStatus' \in {"idle", "downloading", "installing", "failed"}
  BY <1>1 DEF CommandResolves, AutoResolves, UpToDate, NoArtifact, DownloadStarts, Verified, UpdateFails,
              ScheduleRestart, Report, UpdateTypeOK
<1>4. restartDue' = restartDue \/ restartDue' = TRUE
  BY DEF CommandResolves, AutoResolves, UpToDate, NoArtifact, DownloadStarts, Verified, UpdateFails, ScheduleRestart
<1>5. restartDue' \in BOOLEAN
  BY <1>1, <1>4, Zenon DEF UpdateTypeOK
<1>6. CASE CommandResolves(t) \/ AutoResolves(t)
  <2>1. PICK v \in AgentVersions : updateTo' = [updateTo EXCEPT ![t] = v]
    BY <1>1, <1>6 DEF CommandResolves, AutoResolves, UpdateTypeOK, ReleasesOf, LatestRelease, AgentVersions
  <2>2. updatePc[t] = "idle" /\ updatePc' = [updatePc EXCEPT ![t] = "resolved"]
    BY <1>6 DEF CommandResolves, AutoResolves, Step
  <2>3. /\ updateTo' \in [Updates -> AgentVersions \cup {0}] /\ updateTo'[t] \in AgentVersions
        /\ \A u \in Updates \ {t} : updateTo'[u] = updateTo[u]
    BY <1>1, <2>1 DEF UpdateTypeOK
  <2> QED BY <1>2, <1>3, <1>5, <2>2, <2>3, OutsideStep DEF Swapping
<1>7. ASSUME UNCHANGED updateTo,
             NEW from \in {"resolved", "download", "failed", "swapped"},
             NEW to \in {"download", "verified", "over"}, Step(t, from, to)
      PROVE  UpInv'
  <2>1. updatePc[t] = from /\ updatePc' = [updatePc EXCEPT ![t] = to]
    BY <1>7 DEF Step
  <2>2. updateTo' \in [Updates -> AgentVersions \cup {0}] /\ updateTo'[t] \in AgentVersions
    BY <1>1, <1>7, <2>1 DEF UpdateTypeOK, ReleasesFit
  <2>3. updatePc[t] \notin Swapping
    BY <2>1 DEF Swapping
  <2> QED BY <1>2, <1>3, <1>5, <1>7, <2>1, <2>2, <2>3, OutsideStep
<1>8. CASE UpToDate(t) \/ NoArtifact(t)
  BY <1>7, <1>8 DEF UpToDate, NoArtifact
<1>9. CASE DownloadStarts(t)
  BY <1>7, <1>9 DEF DownloadStarts
<1>10. CASE Verified(t)
  BY <1>7, <1>10 DEF Verified
<1>11. CASE UpdateFails(t)
  BY <1>7, <1>11 DEF UpdateFails
<1>12. CASE ScheduleRestart(t)
  BY <1>7, <1>12 DEF ScheduleRestart
<1> QED BY <1>6, <1>8, <1>9, <1>10, <1>11, <1>12

\* A step of swap_binary: what it leaves is of its run, when it is alone.
LEMMA SwapStep ==
  ASSUME UpInv, NEW t \in Updates,
         CreateStaged(t) \/ WriteStaged(t) \/ CopyStaged(t) \/ SwapRefused(t) \/ RenameOver(t) \/ RemoveStaged(t)
  PROVE  UpInv'
<1> USE UpdateAssumption
<1>1. UpdateTypeOK /\ ReleasesFit /\ SwapOwned /\ ExecutableWhole
  BY DEF UpInv
<1>2. UNCHANGED <<published, running, updateTo, updateStatus, settled, restartDue>>
  BY DEF CreateStaged, WriteStaged, CopyStaged, SwapRefused, RenameOver, RemoveStaged
<1>3. PICK from \in {"verified"} \cup Swapping, to \in {"failed", "swapped"} \cup Swapping :
          Step(t, from, to)
  BY DEF CreateStaged, WriteStaged, CopyStaged, SwapRefused, RenameOver, RemoveStaged, Swapping
<1>4. /\ updatePc[t] = from /\ from \in {"verified"} \cup Swapping
      /\ updatePc' \in [Updates -> {"idle", "resolved", "download", "verified", "swapped", "failed", "over"} \cup Swapping]
      /\ updatePc'[t] = to /\ \A u \in Updates \ {t} : updatePc'[u] = updatePc[u]
  BY <1>1, <1>3 DEF Step, UpdateTypeOK
<1>5. ReleasesFit'
  BY <1>1, <1>2, <1>4 DEF ReleasesFit, UpdateTypeOK, Swapping
<1>6. SUFFICES /\ exe' \in AgentVersions \cup {TornExe} /\ staged' \in StagedFiles
               /\ copied' \in [Updates -> StagedFiles] /\ overlapped' \in BOOLEAN
               /\ SwapOwned' /\ ExecutableWhole'
  BY <1>1, <1>2, <1>4, <1>5 DEF UpInv, UpdateTypeOK
<1>7. ASSUME ~overlapped, from \in Swapping
      PROVE  \A u \in Updates \ {t} : updatePc[u] \notin Swapping /\ updatePc'[u] \notin Swapping
  BY <1>1, <1>4, <1>7 DEF SwapOwned
<1>8. CASE CreateStaged(t)
  <2>1. /\ staged' = [to |-> updateTo[t], by |-> t, whole |-> FALSE] /\ UNCHANGED <<exe, copied>>
        /\ overlapped' = (overlapped \/ \E u \in Updates \ {t} : updatePc[u] \in Swapping)
        /\ updatePc[t] = "verified" /\ updatePc'[t] = "writing"
    BY <1>1, <1>8 DEF CreateStaged, Step, UpdateTypeOK
  <2>2. updateTo[t] \in AgentVersions
    BY <1>1, <2>1 DEF ReleasesFit
  <2>3. staged' \in StagedFiles /\ staged' # NoStaged /\ staged'.by = t
    BY <2>1, <2>2 DEF StagedFiles, NoStaged, AgentVersions
  <2>4. overlapped' \in BOOLEAN
    BY <1>1, <2>1, Zenon DEF UpdateTypeOK
  <2>5. SwapOwned'
    <3> SUFFICES ASSUME ~overlapped'
                 PROVE  /\ \A q, u \in Updates : updatePc'[q] \in Swapping /\ updatePc'[u] \in Swapping => q = u
                        /\ \A q \in Updates :
                              /\ updatePc'[q] = "writing" => staged'.by = q /\ staged' # NoStaged
                              /\ updatePc'[q] = "written" => staged'.whole
                              /\ updatePc'[q] = "copied" => copied'[q].whole
      BY DEF SwapOwned
    <3>1. \A u \in Updates \ {t} : updatePc'[u] \notin Swapping
      BY <1>4, <2>1
    <3>2. \A u \in Updates \ {t} : updatePc'[u] \notin {"writing", "written", "copied"}
      BY <3>1 DEF Swapping
    <3> QED BY <2>1, <2>3, <3>1, <3>2
  <2>6. ExecutableWhole'
    BY <1>1, <2>1 DEF ExecutableWhole
  <2> QED BY <1>1, <2>1, <2>3, <2>4, <2>5, <2>6 DEF UpdateTypeOK
<1>9. CASE WriteStaged(t)
  <2>1. /\ updatePc[t] = "writing" /\ updatePc'[t] = "written" /\ UNCHANGED <<exe, copied, overlapped>>
        /\ staged' \in IF staged = NoStaged THEN {NoStaged}
                       ELSE IF staged.by = t THEN {[staged EXCEPT !.whole = TRUE]}
                       ELSE {staged, [staged EXCEPT !.whole = FALSE]}
    BY <1>1, <1>9 DEF WriteStaged, Step, UpdateTypeOK
  <2>2. staged' \in StagedFiles
    BY <1>1, <2>1 DEF UpdateTypeOK, StagedFiles
  <2>3. ~overlapped => staged'.whole
    <3> SUFFICES ASSUME ~overlapped PROVE staged'.whole
      OBVIOUS
    <3>1. staged.by = t /\ staged # NoStaged
      BY <1>1, <2>1 DEF SwapOwned
    <3> QED BY <1>1, <2>1, <3>1 DEF UpdateTypeOK, StagedFiles
  <2>4. SwapOwned' /\ ExecutableWhole'
    BY <1>1, <1>4, <1>7, <2>1, <2>3 DEF SwapOwned, Swapping, ExecutableWhole
  <2> QED BY <1>1, <2>1, <2>2, <2>4 DEF UpdateTypeOK
<1>10. CASE CopyStaged(t)
  <2>1. /\ updatePc[t] = "written" /\ updatePc'[t] \in {"refused", "copied"}
        /\ copied' = [copied EXCEPT ![t] = staged] /\ UNCHANGED <<exe, staged, overlapped>>
    BY <1>1, <1>10 DEF CopyStaged, Step, UpdateTypeOK
  <2>2. copied' \in [Updates -> StagedFiles] /\ copied'[t] = staged
    BY <1>1, <2>1 DEF UpdateTypeOK
  <2>3. SwapOwned' /\ ExecutableWhole'
    BY <1>1, <1>4, <1>7, <2>1, <2>2 DEF SwapOwned, Swapping, ExecutableWhole
  <2> QED BY <1>1, <2>1, <2>2, <2>3 DEF UpdateTypeOK
<1>11. CASE SwapRefused(t)
  <2>1. from \in Swapping /\ updatePc'[t] \in {"failed", "refused"} /\ UNCHANGED <<exe, staged, copied, overlapped>>
    BY <1>1, <1>4, <1>11 DEF SwapRefused, Step, UpdateTypeOK, Swapping
  <2>2. SwapOwned' /\ ExecutableWhole'
    BY <1>1, <1>4, <1>7, <2>1 DEF SwapOwned, Swapping, ExecutableWhole
  <2> QED BY <1>1, <2>1, <2>2 DEF UpdateTypeOK
<1>12. CASE RenameOver(t)
  <2>1. /\ updatePc[t] = "copied" /\ updatePc'[t] = "replaced" /\ UNCHANGED <<staged, copied, overlapped>>
        /\ exe' = IF copied[t].whole THEN copied[t].to ELSE TornExe
    BY <1>1, <1>12 DEF RenameOver, Step, UpdateTypeOK
  <2>2. copied[t] \in StagedFiles
    BY <1>1 DEF UpdateTypeOK
  <2>3. exe' \in AgentVersions \cup {TornExe} /\ (copied[t].whole => exe' \in AgentVersions)
    BY <2>1, <2>2, WholeIsRelease
  <2>4. ~overlapped => copied[t].whole
    BY <1>1, <2>1 DEF SwapOwned
  <2>5. ExecutableWhole'
    BY <2>1, <2>3, <2>4 DEF ExecutableWhole, AgentVersions, TornExe
  <2>6. SwapOwned'
    BY <1>1, <1>4, <1>7, <2>1 DEF SwapOwned, Swapping
  <2> QED BY <1>1, <2>1, <2>3, <2>5, <2>6 DEF UpdateTypeOK
<1>13. CASE RemoveStaged(t)
  <2>1. /\ from \in Swapping /\ updatePc'[t] \in {"failed", "swapped"} /\ staged' = NoStaged
        /\ UNCHANGED <<exe, copied, overlapped>>
    BY <1>1, <1>4, <1>13 DEF RemoveStaged, Step, UpdateTypeOK, Swapping
  <2>2. SwapOwned' /\ ExecutableWhole'
    BY <1>1, <1>4, <1>7, <2>1 DEF SwapOwned, Swapping, ExecutableWhole
  <2> QED BY <1>1, <2>1, <2>2 DEF UpdateTypeOK, StagedFiles
<1> QED BY <1>8, <1>9, <1>10, <1>11, <1>12, <1>13

\* The process ends, and the next one settles the column; releases are published.
LEMMA ProcessStep ==
  ASSUME UpInv, ProcessEnds \/ ClearUpdateStatus \/ Publish
  PROVE  UpInv'
<1> USE UpdateAssumption
<1>1. UpdateTypeOK /\ ReleasesFit /\ SwapOwned /\ ExecutableWhole
  BY DEF UpInv
<1>2. CASE ProcessEnds
  <2>1. UpdateTypeOK' /\ ReleasesFit'
    BY <1>1, <1>2 DEF ProcessEnds, UpdateTypeOK, ReleasesFit, StagedFiles, AgentVersions
  <2>2. SwapOwned' /\ ExecutableWhole'
    BY <1>2 DEF ProcessEnds, SwapOwned, ExecutableWhole, Swapping
  <2> QED BY <2>1, <2>2 DEF UpInv
<1>3. CASE ClearUpdateStatus \/ Publish
  <2>1. UNCHANGED <<exe, running, staged, copied, updatePc, updateTo, restartDue, overlapped>>
    BY <1>3 DEF ClearUpdateStatus, Publish
  <2>2. published' \in AgentVersions /\ updateStatus' \in {"idle", "downloading", "installing", "failed"}
    BY <1>1, <1>3 DEF ClearUpdateStatus, Publish, Report, UpdateTypeOK, AgentVersions
  <2>3. settled' = settled \/ settled' = TRUE
    BY <1>3 DEF ClearUpdateStatus, Publish
  <2>4. settled' \in BOOLEAN
    BY <1>1, <2>3, Zenon DEF UpdateTypeOK
  <2>5. UpdateTypeOK'
    BY <1>1, <2>1, <2>2, <2>4 DEF UpdateTypeOK
  <2>6. ReleasesFit' /\ SwapOwned' /\ ExecutableWhole'
    BY <1>1, <2>1 DEF ReleasesFit, SwapOwned, ExecutableWhole
  <2> QED BY <2>5, <2>6 DEF UpInv
<1> QED BY <1>2, <1>3

LEMMA NextUpInv == UpInv /\ [UpdateNext]_auVars => UpInv'
<1> SUFFICES ASSUME UpInv, [UpdateNext]_auVars PROVE UpInv'
  OBVIOUS
<1>1. CASE UpdateNext
  BY <1>1, ResolveStep, SwapStep, ProcessStep DEF UpdateNext
<1>2. CASE UNCHANGED auVars
  BY <1>2 DEF auVars, UpInv, UpdateTypeOK, ReleasesFit, SwapOwned, ExecutableWhole
<1> QED BY <1>1, <1>2

-----------------------------------------------------------------------------
(* The downloads.                                                          *)

\* What the types of the tasks do not say of them.
HubShape ==
    /\ HubTypeOK
    /\ written \in [HubDownloads -> [Shards -> Nat]]
    /\ \A d \in HubDownloads :
          /\ dlPc[d] # "idle" => dlRev[d] \in Revisions
          /\ dlPc[d] \in {"next", "stream"} => dlShard[d] >= 1
          /\ dlPc[d] = "stream" => dlShard[d] \in Shards
          /\ dlPc[d] \in {"idle", "queued"} => dlCreated[d] = {}
          /\ dlStatus[d] = "cancelled" => dlPc[d] = "over"

Unlinked(d) == \A s \in Shards : part[s] # d /\ target[s] # d

\* A download that is alone owns the .part it streams, has passed only shards that
\* are there, and finds the files it may have to remove in its own list; once there
\* is a manifest it finds every shard and creates none.
TaskAlone(d) ==
    /\ dlPc[d] = "stream" => part[dlShard[d]] = d /\ target[dlShard[d]] = NoDownload
    /\ dlPc[d] \in {"next", "stream"} =>
          /\ \A s \in Shards : s < dlShard[d] => target[s] # NoDownload
          /\ \A s \in Shards : target[s] = d => s \in dlCreated[d]
          /\ \A s \in Shards : part[s] = d => dlPc[d] = "stream" /\ s = dlShard[d]
          /\ manifest # 0 => dlPc[d] = "next" /\ dlCreated[d] = {}
    /\ dlPc[d] \in {"idle", "queued", "cancelled"} \/ dlStatus[d] = "cancelled" => Unlinked(d)

OneActive == \A d, e \in HubDownloads : dlPc[d] \notin Ended /\ dlPc[e] \notin Ended => d = e
TargetsWhole == \A s \in Shards : target[s] # NoDownload => hubSize[dlRev[target[s]]][s] \in {0, FileLength(s)}
ManifestBacked == manifest # 0 => \A s \in Shards : target[s] # NoDownload

HubAlone == ~shared => OneActive /\ (\A d \in HubDownloads : TaskAlone(d)) /\ TargetsWhole /\ ManifestBacked

HubInv == HubShape /\ HubAlone

\* group_variants numbers the shards from 1.
LEMMA ShardsCounted == Cardinality(Shards) \in Nat /\ Shards = 1..Cardinality(Shards)
<1> DEFINE G == {f \in Siblings : f.kind = "gguf" /\ f.base = HubVariant}
           number == [s \in G |-> s.shard]
<1>1. IsFiniteSet(G)
  BY HubAssumption, FS_Subset
<1>2. number \in Surjection(G, VariantShards)
  BY DEF Surjection, VariantShards
<1> HIDE DEF G, number
<1>3. IsFiniteSet(VariantShards)
  BY <1>1, <1>2, FS_Surjection
<1>4. Cardinality(VariantShards) \in Nat
  BY <1>3, FS_CardinalityType
<1>5. Cardinality(1..Cardinality(VariantShards)) = Cardinality(VariantShards)
  BY <1>4, FS_Interval
<1> QED BY <1>4, <1>5 DEF Shards

LEMMA HubIsSafe == HubInv => ManifestWhole /\ CancelLeavesNothing
<1> SUFFICES ASSUME HubInv PROVE ManifestWhole /\ CancelLeavesNothing
  OBVIOUS
<1>1. ManifestWhole
  BY DEF HubInv, HubAlone, TargetsWhole, ManifestBacked, ManifestWhole
<1>2. CancelLeavesNothing
  BY DEF HubInv, HubAlone, TaskAlone, Unlinked, CancelLeavesNothing
<1> QED BY <1>1, <1>2

LEMMA InitHubInv == HubInit => HubInv
<1> SUFFICES ASSUME HubInit PROVE HubInv
  OBVIOUS
<1> USE HubAssumption DEF HubInit
<1>1. 1 \in Revisions /\ 0 \in 0..Cardinality(Shards) + 1 /\ 0 \in 0..HubCrashes
  BY ShardsCounted DEF Revisions
<1>2. part \in [Shards -> Links] /\ target \in [Shards -> Links]
  BY DEF Links
<1>3. shared \in BOOLEAN
  BY Zenon
<1>4. written \in [HubDownloads -> [Shards -> Nat]]
  OBVIOUS
<1>5. HubTypeOK
  BY <1>1, <1>2, <1>3, <1>4 DEF HubTypeOK
<1>6. HubShape
  BY <1>4, <1>5 DEF HubShape
<1>7. HubAlone
  BY DEF HubAlone, OneActive, TaskAlone, Unlinked, TargetsWhole, ManifestBacked, Ended
<1> QED BY <1>6, <1>7 DEF HubInv

\* The repository, a cancel and an exit leave the files alone.
LEMMA RepoStep ==
  ASSUME HubInv, RepoMoves
  PROVE  HubInv'
<1>1. repoRev' = repoRev + 1 /\ repoRev < HubRevisions
  BY DEF RepoMoves
<1>2. UNCHANGED <<hubSize, detail, dlPc, dlRev, dlStatus, dlShard, dlCreated, written, part, target,
                  manifest, cancelled, cancelPc, shared, hubCrashes>>
  BY DEF RepoMoves, taskVars
<1>3. repoRev' \in Revisions
  BY <1>1, HubAssumption DEF HubInv, HubShape, HubTypeOK, Revisions
<1>4. HubShape'
  BY <1>2, <1>3 DEF HubInv, HubShape, HubTypeOK
<1>5. HubAlone'
  BY <1>2 DEF HubInv, HubAlone, OneActive, TaskAlone, Unlinked, TargetsWhole, FileLength, ManifestBacked
<1> QED BY <1>4, <1>5 DEF HubInv

LEMMA CancelStep ==
  ASSUME HubInv, NEW d \in HubDownloads, CancelDownload(d) \/ ShowCanceling(d)
  PROVE  HubInv'
<1>1. UNCHANGED <<hubSize, repoRev, detail, dlPc, dlRev, dlShard, dlCreated, written, part, target,
                  manifest, shared, hubCrashes>>
  BY DEF CancelDownload, ShowCanceling, taskVars, repoVars
<1>2. cancelled' \subseteq HubDownloads /\ cancelPc' \in [HubDownloads -> {"idle", "stored", "done"}]
  BY DEF HubInv, HubShape, HubTypeOK, CancelDownload, ShowCanceling
<1>3. dlStatus' = dlStatus \/ dlStatus' = [dlStatus EXCEPT ![d] = "canceling"]
  BY DEF CancelDownload, ShowCanceling, taskVars
<1>4. /\ dlStatus' \in [HubDownloads -> {"none", "queued", "downloading", "canceling", "cancelled", "error",
                                         "complete"}]
      /\ \A e \in HubDownloads : dlStatus'[e] = "cancelled" => dlStatus[e] = "cancelled"
  BY <1>3 DEF HubInv, HubShape, HubTypeOK
<1>5. HubShape'
  BY <1>1, <1>2, <1>4 DEF HubInv, HubShape, HubTypeOK
<1>6. HubAlone'
  <2>1. OneActive' = OneActive /\ TargetsWhole' = TargetsWhole /\ ManifestBacked' = ManifestBacked
    BY <1>1 DEF OneActive, TargetsWhole, FileLength, ManifestBacked
  <2>2. \A e \in HubDownloads : TaskAlone(e) => TaskAlone(e)'
    BY <1>1, <1>4 DEF TaskAlone, Unlinked
  <2> QED BY <1>1, <2>1, <2>2 DEF HubInv, HubAlone
<1> QED BY <1>5, <1>6 DEF HubInv

LEMMA ExitStep ==
  ASSUME HubInv, HubExit
  PROVE  HubInv'
<1>1. /\ hubCrashes < HubCrashes /\ hubCrashes' = hubCrashes + 1
      /\ dlPc' = [d \in HubDownloads |-> IF dlPc[d] = "idle" THEN "idle" ELSE "over"]
      /\ dlStatus' = [d \in HubDownloads |-> "none"] /\ dlCreated' = [d \in HubDownloads |-> {}]
      /\ detail' = 0 /\ cancelPc' = [d \in HubDownloads |-> IF cancelPc[d] = "idle" THEN "idle" ELSE "done"]
      /\ UNCHANGED <<hubSize, repoRev, dlRev, dlShard, written, part, target, manifest, cancelled, shared>>
  BY DEF HubExit
<1>2. hubCrashes' \in 0..HubCrashes
  BY <1>1, HubAssumption DEF HubInv, HubShape, HubTypeOK
<1>3. HubShape'
  BY <1>1, <1>2 DEF HubInv, HubShape, HubTypeOK
<1>4. HubAlone'
  <2>1. TargetsWhole' = TargetsWhole /\ ManifestBacked' = ManifestBacked
    BY <1>1 DEF TargetsWhole, FileLength, ManifestBacked
  <2>2. OneActive'
    BY <1>1 DEF OneActive, Ended
  <2>3. \A e \in HubDownloads : TaskAlone(e) => TaskAlone(e)'
    BY <1>1 DEF TaskAlone, Unlinked
  <2> QED BY <1>1, <2>1, <2>2, <2>3 DEF HubInv, HubAlone
<1> QED BY <1>3, <1>4 DEF HubInv

LEMMA BeginStep ==
  ASSUME HubInv, NEW d \in HubDownloads, StartDownload(d) \/ BeginDownload(d)
  PROVE  HubInv'
<1> USE HubAssumption
<1>1. HubShape /\ HubAlone
  BY DEF HubInv
<1>2. UNCHANGED <<hubSize, repoRev, dlCreated, written, part, target, manifest, cancelled, cancelPc, hubCrashes>>
  BY DEF StartDownload, BeginDownload, repoVars
<1>3. CASE StartDownload(d)
  <2>1. /\ dlPc[d] = "idle" /\ dlPc' = [dlPc EXCEPT ![d] = "queued"]
        /\ dlRev' = [dlRev EXCEPT ![d] = detail'] /\ dlStatus' = [dlStatus EXCEPT ![d] = "queued"]
        /\ UNCHANGED dlShard /\ detail' \in {repoRev, detail} \ {0}
        /\ shared' = (shared \/ \E e \in HubDownloads \ {d} : dlPc[e] \notin Ended)
    BY <1>3 DEF StartDownload
  <2>2. detail' \in Revisions
    BY <1>1, <2>1 DEF HubShape, HubTypeOK
  <2>3. shared' \in BOOLEAN
    BY <1>1, <2>1, Zenon DEF HubShape, HubTypeOK
  <2>4. HubTypeOK'
    BY <1>1, <1>2, <2>1, <2>2, <2>3 DEF HubShape, HubTypeOK
  <2>5. HubShape'
    BY <1>1, <1>2, <2>1, <2>2, <2>4 DEF HubShape, HubTypeOK
  <2>6. ASSUME ~shared' PROVE OneActive' /\ (\A e \in HubDownloads : TaskAlone(e)') /\ TargetsWhole' /\ ManifestBacked'
    <3>1. ~shared /\ \A e \in HubDownloads \ {d} : dlPc[e] \in Ended
      BY <2>1, <2>6
    <3>2. OneActive /\ (\A e \in HubDownloads : TaskAlone(e)) /\ TargetsWhole /\ ManifestBacked
      BY <1>1, <3>1 DEF HubAlone
    <3>3. OneActive'
      BY <1>1, <2>1, <3>1 DEF OneActive, HubShape, HubTypeOK
    <3>4. Unlinked(d)
      BY <2>1, <3>2 DEF TaskAlone
    <3>5. TargetsWhole' /\ ManifestBacked'
      <4>1. \A s \in Shards : target[s] # d /\ target[s] \in Links
        BY <1>1, <3>4 DEF Unlinked, HubShape, HubTypeOK
      <4>2. \A s \in Shards : target[s] # NoDownload => dlRev'[target[s]] = dlRev[target[s]]
        BY <1>1, <2>1, <4>1 DEF Links, HubShape, HubTypeOK
      <4> QED BY <1>2, <3>2, <4>2 DEF TargetsWhole, FileLength, ManifestBacked
    <3>6. ASSUME NEW e \in HubDownloads PROVE TaskAlone(e)'
      <4>1. TaskAlone(e)
        BY <3>2
      <4>2. CASE e = d
        BY <1>1, <1>2, <2>1, <3>4, <4>2 DEF TaskAlone, Unlinked, HubShape, HubTypeOK
      <4>3. CASE e # d
        BY <1>1, <1>2, <2>1, <4>1, <4>3 DEF TaskAlone, Unlinked, HubShape, HubTypeOK
      <4> QED BY <4>2, <4>3
    <3> QED BY <3>3, <3>5, <3>6
  <2> QED BY <2>5, <2>6 DEF HubInv, HubAlone
<1>4. CASE BeginDownload(d)
  <2>1. /\ dlPc[d] = "queued" /\ dlPc' = [dlPc EXCEPT ![d] = "next"]
        /\ dlShard' = [dlShard EXCEPT ![d] = 1] /\ dlStatus' = [dlStatus EXCEPT ![d] = "downloading"]
        /\ UNCHANGED <<detail, dlRev, shared>>
    BY <1>4 DEF BeginDownload, repoVars
  <2>2. 1 \in 0..Cardinality(Shards) + 1
    BY ShardsCounted
  <2>3. HubTypeOK'
    BY <1>1, <1>2, <2>1, <2>2 DEF HubShape, HubTypeOK
  <2>4. HubShape'
    BY <1>1, <1>2, <2>1, <2>3 DEF HubShape, HubTypeOK
  <2>5. ASSUME ~shared PROVE OneActive' /\ (\A e \in HubDownloads : TaskAlone(e)') /\ TargetsWhole' /\ ManifestBacked'
    <3>1. OneActive /\ (\A e \in HubDownloads : TaskAlone(e)) /\ TargetsWhole /\ ManifestBacked
      BY <1>1, <2>5 DEF HubAlone
    <3>2. OneActive' /\ TargetsWhole' /\ ManifestBacked'
      BY <1>1, <1>2, <2>1, <3>1
         DEF OneActive, TargetsWhole, FileLength, ManifestBacked, Ended, HubShape, HubTypeOK
    <3>3. dlCreated[d] = {} /\ \A s \in Shards : s \in Nat /\ ~(s < 1)
      BY <1>1, <2>1, ShardsCounted DEF HubShape
    <3>4. Unlinked(d)
      BY <2>1, <3>1 DEF TaskAlone
    <3>5. ASSUME NEW e \in HubDownloads PROVE TaskAlone(e)'
      <4>1. TaskAlone(e)
        BY <3>1
      <4>2. CASE e = d
        BY <1>1, <1>2, <2>1, <3>3, <3>4, <4>2 DEF TaskAlone, Unlinked, HubShape, HubTypeOK
      <4>3. CASE e # d
        BY <1>1, <1>2, <2>1, <4>1, <4>3 DEF TaskAlone, Unlinked, HubShape, HubTypeOK
      <4> QED BY <4>2, <4>3
    <3> QED BY <3>2, <3>5
  <2> QED BY <2>1, <2>4, <2>5 DEF HubInv, HubAlone
<1> QED BY <1>3, <1>4

\* What a download that is alone does leaves the others, which have ended, without links.
LEMMA OthersStay ==
  ASSUME HubInv, ~shared, NEW d \in HubDownloads, dlPc[d] \notin Ended,
         \A e \in HubDownloads \ {d} : dlPc'[e] = dlPc[e] /\ dlStatus'[e] = dlStatus[e],
         \A s \in Shards : part'[s] \in {part[s], d, NoDownload} /\ target'[s] \in {target[s], d, NoDownload}
  PROVE  OneActive' /\ \A e \in HubDownloads \ {d} : TaskAlone(e)'
<1>1. OneActive /\ \A e \in HubDownloads : TaskAlone(e)
  BY DEF HubInv, HubAlone
<1>2. \A e \in HubDownloads \ {d} : dlPc[e] \in Ended
  BY <1>1 DEF OneActive
<1>3. OneActive'
  BY <1>2 DEF OneActive
<1>4. ASSUME NEW e \in HubDownloads \ {d} PROVE TaskAlone(e)'
  <2>1. dlPc'[e] = dlPc[e] /\ dlPc[e] \in {"idle", "over"} /\ dlStatus'[e] = dlStatus[e] /\ e # NoDownload
    BY <1>2, HubAssumption DEF Ended
  <2>2. Unlinked(e) => Unlinked(e)'
    BY <2>1 DEF Unlinked
  <2>3. TaskAlone(e)
    BY <1>1
  <2> QED BY <2>1, <2>2, <2>3 DEF TaskAlone
<1> QED BY <1>3, <1>4

\* A step that creates no file, renames none and removes none; the downloads move on.
LEMMA FilesStay ==
  ASSUME HubInv, NEW d \in HubDownloads, dlPc[d] \notin Ended, HubShape',
         UNCHANGED <<hubSize, dlRev, dlCreated, written, part, target, shared>>,
         \A e \in HubDownloads \ {d} : dlPc'[e] = dlPc[e] /\ dlStatus'[e] = dlStatus[e],
         ~shared => TaskAlone(d)' /\ ManifestBacked'
  PROVE  HubInv'
<1> SUFFICES ASSUME ~shared
             PROVE  OneActive' /\ (\A e \in HubDownloads : TaskAlone(e)') /\ TargetsWhole' /\ ManifestBacked'
  BY DEF HubInv, HubAlone
<1>1. OneActive' /\ \A e \in HubDownloads \ {d} : TaskAlone(e)'
  BY OthersStay
<1>2. TargetsWhole'
  BY DEF HubInv, HubAlone, TargetsWhole, FileLength
<1> QED BY <1>1, <1>2

LEMMA PassStep ==
  ASSUME HubInv, NEW d \in HubDownloads,
         SkipShard(d) \/ DownloadFails(d) \/ WriteManifest(d) \/ Outcome(d)
  PROVE  HubInv'
<1> USE HubAssumption
<1>1. HubShape /\ HubAlone
  BY DEF HubInv
<1>2. UNCHANGED <<hubSize, repoRev, detail, dlRev, dlCreated, written, part, target, cancelled, cancelPc,
                  shared, hubCrashes>>
  BY DEF SkipShard, DownloadFails, WriteManifest, Outcome, repoVars
<1>3. CASE SkipShard(d)
  <2>1. /\ dlPc[d] = "next" /\ dlShard[d] \in Shards /\ target[dlShard[d]] # NoDownload
        /\ dlShard' = [dlShard EXCEPT ![d] = @ + 1] /\ UNCHANGED <<dlPc, dlStatus, manifest>>
    BY <1>3 DEF SkipShard
  <2>2. dlShard[d] + 1 \in 0..Cardinality(Shards) + 1 /\ dlShard[d] \in Nat
    BY <2>1, ShardsCounted
  <2>3. HubTypeOK'
    BY <1>1, <1>2, <2>1, <2>2 DEF HubShape, HubTypeOK
  <2>4. HubShape'
    BY <1>1, <1>2, <2>1, <2>2, <2>3 DEF HubShape, HubTypeOK
  <2>5. ASSUME ~shared PROVE TaskAlone(d)' /\ ManifestBacked'
    <3>1. TaskAlone(d) /\ ManifestBacked
      BY <1>1, <2>5 DEF HubAlone
    <3>2. dlShard'[d] = dlShard[d] + 1
      BY <1>1, <2>1 DEF HubShape, HubTypeOK
    <3>3. \A s \in Shards : s \in Nat /\ (s < dlShard'[d] => s < dlShard[d] \/ s = dlShard[d])
      BY <2>2, <3>2, ShardsCounted
    <3>4. \A s \in Shards : s < dlShard'[d] => target[s] # NoDownload
      BY <2>1, <3>1, <3>3 DEF TaskAlone
    <3> QED BY <1>2, <2>1, <3>1, <3>4 DEF TaskAlone, Unlinked, ManifestBacked
  <2> QED BY <1>2, <2>1, <2>4, <2>5, FilesStay DEF Ended
<1>4. CASE DownloadFails(d)
  <2>1. /\ dlPc[d] \in {"next", "stream"} /\ dlPc' = [dlPc EXCEPT ![d] = "error"]
        /\ UNCHANGED <<dlStatus, dlShard, manifest>>
    BY <1>4 DEF DownloadFails, Goes
  <2>2. HubTypeOK'
    BY <1>1, <1>2, <2>1 DEF HubShape, HubTypeOK
  <2>3. HubShape'
    BY <1>1, <1>2, <2>1, <2>2 DEF HubShape, HubTypeOK
  <2>4. dlPc'[d] = "error" /\ \A e \in HubDownloads \ {d} : dlPc'[e] = dlPc[e]
    BY <1>1, <2>1 DEF HubShape, HubTypeOK
  <2>5. ASSUME ~shared PROVE TaskAlone(d)' /\ ManifestBacked'
    <3>1. dlStatus'[d] # "cancelled"
      BY <1>1, <2>1 DEF HubShape
    <3>2. ManifestBacked
      BY <1>1, <2>5 DEF HubAlone
    <3> QED BY <1>2, <2>1, <2>4, <3>1, <3>2 DEF TaskAlone, ManifestBacked
  <2> QED BY <1>2, <2>1, <2>3, <2>4, <2>5, FilesStay DEF Ended
<1>5. CASE WriteManifest(d)
  <2>1. /\ dlPc[d] = "next" /\ dlShard[d] \notin Shards /\ dlPc' = [dlPc EXCEPT ![d] = "manifest"]
        /\ manifest' = dlRev[d] /\ UNCHANGED <<dlStatus, dlShard>>
    BY <1>5 DEF WriteManifest, Goes
  <2>2. HubTypeOK'
    BY <1>1, <1>2, <2>1 DEF HubShape, HubTypeOK
  <2>3. HubShape'
    BY <1>1, <1>2, <2>1, <2>2 DEF HubShape, HubTypeOK
  <2>4. dlPc'[d] = "manifest" /\ \A e \in HubDownloads \ {d} : dlPc'[e] = dlPc[e]
    BY <1>1, <2>1 DEF HubShape, HubTypeOK
  <2>5. ASSUME ~shared PROVE (\A e \in HubDownloads \ {d} : TaskAlone(e)') /\ TaskAlone(d)' /\ ManifestBacked'
    <3>1. TaskAlone(d) /\ \A s \in Shards : s < dlShard[d]
      <4>1. dlShard[d] \in 0..Cardinality(Shards) + 1 /\ dlShard[d] >= 1
        BY <1>1, <2>1 DEF HubShape, HubTypeOK
      <4>2. \A s \in Shards : s < dlShard[d]
        BY <2>1, <4>1, ShardsCounted
      <4> QED BY <1>1, <2>5, <4>2 DEF HubAlone
    <3>2. ManifestBacked'
      BY <1>2, <2>1, <3>1 DEF TaskAlone, ManifestBacked
    <3>3. dlStatus'[d] # "cancelled"
      BY <1>1, <2>1 DEF HubShape
    <3>4. TaskAlone(d)'
      BY <2>4, <3>3 DEF TaskAlone
    <3>5. \A e \in HubDownloads \ {d} : TaskAlone(e)'
      <4>1. dlPc[d] \notin Ended /\ UNCHANGED <<dlStatus, part, target>>
        BY <1>2, <2>1 DEF Ended
      <4> QED BY <2>4, <2>5, <4>1, OthersStay
    <3> QED BY <3>2, <3>4, <3>5
  <2> QED BY <1>2, <2>1, <2>3, <2>4, <2>5, FilesStay DEF Ended
<1>6. CASE Outcome(d)
  <2>1. dlPc[d] \in {"manifest", "cancelled", "error"} /\ dlPc' = [dlPc EXCEPT ![d] = "over"]
        /\ UNCHANGED <<dlShard, manifest>>
    BY <1>6 DEF Outcome, Goes
  <2>2. PICK st \in {"complete", "cancelled", "error"} :
            dlStatus' = [dlStatus EXCEPT ![d] = st] /\ (st = "cancelled" => dlPc[d] = "cancelled")
    BY <1>6 DEF Outcome
  <2>3. HubTypeOK'
    BY <1>1, <1>2, <2>1, <2>2 DEF HubShape, HubTypeOK
  <2>4. HubShape'
    BY <1>1, <1>2, <2>1, <2>2, <2>3 DEF HubShape, HubTypeOK
  <2>5. /\ dlPc'[d] = "over" /\ dlStatus'[d] = st
        /\ \A e \in HubDownloads \ {d} : dlPc'[e] = dlPc[e] /\ dlStatus'[e] = dlStatus[e]
    BY <1>1, <2>1, <2>2 DEF HubShape, HubTypeOK
  <2>6. ASSUME ~shared PROVE TaskAlone(d)' /\ ManifestBacked'
    <3>1. TaskAlone(d) /\ ManifestBacked
      BY <1>1, <2>6 DEF HubAlone
    <3> QED BY <1>2, <2>1, <2>2, <2>5, <3>1 DEF TaskAlone, Unlinked, ManifestBacked
  <2> QED BY <1>2, <2>1, <2>4, <2>5, <2>6, FilesStay DEF Ended
<1> QED BY <1>3, <1>4, <1>5, <1>6

LEMMA StreamStep ==
  ASSUME HubInv, NEW d \in HubDownloads, CreatePart(d) \/ WriteChunk(d) \/ StreamEnds(d)
  PROVE  HubInv'
<1> USE HubAssumption
<1>1. HubShape /\ HubAlone
  BY DEF HubInv
<1>2. UNCHANGED <<hubSize, repoRev, detail, dlRev, dlStatus, manifest, cancelled, cancelPc, shared, hubCrashes>>
  BY DEF CreatePart, WriteChunk, StreamEnds, repoVars, taskVars
<1>3. dlPc[d] \in {"next", "stream"} /\ dlShard[d] \in Shards /\ dlPc[d] \notin Ended
  BY <1>1 DEF CreatePart, WriteChunk, StreamEnds, HubShape, Ended
<1>4. dlRev[d] \in Revisions /\ d \in Links
  BY <1>1, <1>3 DEF HubShape, Links
<1>5. dlShard[d] \in Nat /\ dlShard[d] + 1 \in 0..Cardinality(Shards) + 1
  BY <1>3, ShardsCounted
<1>6. dlStatus[d] # "cancelled"
  BY <1>1, <1>3 DEF HubShape
<1>7. ASSUME ~shared
      PROVE  /\ OneActive /\ TaskAlone(d) /\ TargetsWhole /\ ManifestBacked
             /\ \A e \in HubDownloads : TaskAlone(e)
  BY <1>1, <1>7 DEF HubAlone
<1>8. CASE CreatePart(d)
  <2>1. /\ dlPc[d] = "next" /\ target[dlShard[d]] = NoDownload /\ dlPc' = [dlPc EXCEPT ![d] = "stream"]
        /\ part' = [part EXCEPT ![dlShard[d]] = d] /\ UNCHANGED <<dlShard, dlCreated, written, target>>
    BY <1>8 DEF CreatePart, Goes
  <2>2. HubTypeOK'
    BY <1>1, <1>2, <1>3, <1>4, <2>1 DEF HubShape, HubTypeOK
  <2>3. HubShape'
    BY <1>1, <1>2, <1>3, <2>1, <2>2 DEF HubShape, HubTypeOK
  <2>4. /\ dlPc'[d] = "stream" /\ \A e \in HubDownloads \ {d} : dlPc'[e] = dlPc[e]
        /\ part'[dlShard[d]] = d /\ \A s \in Shards \ {dlShard[d]} : part'[s] = part[s]
    BY <1>1, <1>3, <2>1 DEF HubShape, HubTypeOK
  <2>5. ASSUME ~shared PROVE OneActive' /\ (\A e \in HubDownloads : TaskAlone(e)') /\ TargetsWhole' /\ ManifestBacked'
    <3>1. OneActive' /\ \A e \in HubDownloads \ {d} : TaskAlone(e)'
      BY <1>2, <1>3, <2>1, <2>4, <2>5, OthersStay
    <3>2. manifest = 0
      BY <1>3, <1>7, <2>1, <2>5 DEF ManifestBacked
    <3>3. TaskAlone(d)'
      BY <1>2, <1>6, <1>7, <2>1, <2>4, <2>5, <3>2 DEF TaskAlone
    <3>4. TargetsWhole' /\ ManifestBacked'
      BY <1>2, <1>7, <2>1, <2>5 DEF TargetsWhole, FileLength, ManifestBacked
    <3> QED BY <3>1, <3>3, <3>4
  <2> QED BY <1>2, <2>3, <2>5 DEF HubInv, HubAlone
<1>9. CASE WriteChunk(d)
  <2>1. /\ dlPc[d] = "stream" /\ written' = [written EXCEPT ![d][dlShard[d]] = @ + 1]
        /\ UNCHANGED <<dlPc, dlShard, dlCreated, part, target>>
    BY <1>9 DEF WriteChunk, taskVars
  <2>2. /\ written' \in [HubDownloads -> [Shards -> Nat]]
        /\ \A e \in HubDownloads, s \in Shards : e # d \/ s # dlShard[d] => written'[e][s] = written[e][s]
    BY <1>1, <1>3, <2>1 DEF HubShape
  <2>3. HubTypeOK'
    BY <1>1, <1>2, <2>1, <2>2 DEF HubShape, HubTypeOK
  <2>4. HubShape'
    BY <1>1, <1>2, <2>1, <2>2, <2>3 DEF HubShape, HubTypeOK
  <2>5. ASSUME ~shared PROVE OneActive' /\ (\A e \in HubDownloads : TaskAlone(e)') /\ TargetsWhole' /\ ManifestBacked'
    <3>1. OneActive' /\ ManifestBacked' /\ \A e \in HubDownloads : TaskAlone(e)'
      BY <1>2, <1>7, <2>1, <2>5 DEF OneActive, TaskAlone, Unlinked, ManifestBacked
    <3>2. target[dlShard[d]] = NoDownload
      BY <1>7, <2>1, <2>5 DEF TaskAlone
    <3>3. \A s \in Shards : target[s] # NoDownload => target[s] \in HubDownloads /\ s # dlShard[d]
      BY <1>1, <3>2 DEF HubShape, HubTypeOK, Links
    <3>4. TargetsWhole'
      BY <1>2, <1>7, <2>1, <2>2, <2>5, <3>3 DEF TargetsWhole, FileLength
    <3> QED BY <3>1, <3>4
  <2> QED BY <1>2, <2>4, <2>5 DEF HubInv, HubAlone
<1>10. CASE StreamEnds(d)
  <2> DEFINE s == dlShard[d]
  <2>1. /\ dlPc[d] = "stream" /\ hubSize[dlRev[d]][s] \in {0, written[d][s]}
        /\ target' = [target EXCEPT ![s] = part[s]] /\ part' = [part EXCEPT ![s] = NoDownload]
        /\ dlCreated' = [dlCreated EXCEPT ![d] = @ \cup {s}]
        /\ dlShard' = [dlShard EXCEPT ![d] = s + 1] /\ dlPc' = [dlPc EXCEPT ![d] = "next"]
        /\ UNCHANGED written
    BY <1>10 DEF StreamEnds, RenamePart, Goes, Size
  <2>2. s \in Shards /\ s \in Nat /\ s + 1 \in 0..Cardinality(Shards) + 1
    BY <1>3, <1>5
  <2> HIDE DEF s
  <2>3. /\ part' \in [Shards -> Links] /\ target' \in [Shards -> Links]
        /\ dlCreated' \in [HubDownloads -> SUBSET Shards]
        /\ dlShard' \in [HubDownloads -> 0..Cardinality(Shards) + 1]
    BY <1>1, <2>1, <2>2 DEF HubShape, HubTypeOK, Links
  <2>4. /\ dlPc'[d] = "next" /\ \A e \in HubDownloads \ {d} : dlPc'[e] = dlPc[e]
        /\ dlShard'[d] = s + 1 /\ dlCreated'[d] = dlCreated[d] \cup {s}
        /\ \A e \in HubDownloads \ {d} : dlShard'[e] = dlShard[e] /\ dlCreated'[e] = dlCreated[e]
        /\ part'[s] = NoDownload /\ target'[s] = part[s]
        /\ \A r \in Shards \ {s} : part'[r] = part[r] /\ target'[r] = target[r]
    BY <1>1, <2>1, <2>2 DEF HubShape, HubTypeOK
  <2>5. HubTypeOK'
    BY <1>1, <1>2, <2>1, <2>3 DEF HubShape, HubTypeOK
  <2>6. HubShape'
    BY <1>1, <1>2, <2>1, <2>2, <2>4, <2>5 DEF HubShape
  <2>7. ASSUME ~shared PROVE OneActive' /\ (\A e \in HubDownloads : TaskAlone(e)') /\ TargetsWhole' /\ ManifestBacked'
    <3>1. part[s] = d /\ target[s] = NoDownload
      BY <1>7, <2>1, <2>7 DEF TaskAlone, s
    <3>2. OneActive' /\ \A e \in HubDownloads \ {d} : TaskAlone(e)'
      <4>1. \A r \in Shards : part'[r] \in {part[r], d, NoDownload} /\ target'[r] \in {target[r], d, NoDownload}
        BY <2>4, <3>1
      <4> QED BY <1>2, <1>3, <2>4, <2>7, <4>1, OthersStay
    <3>3. manifest = 0
      BY <1>7, <2>2, <2>7, <3>1 DEF ManifestBacked
    <3>4. TaskAlone(d)'
      <4>1. \A r \in Shards : r < s + 1 => r < s \/ r = s
        BY <2>2, ShardsCounted
      <4>2. \A r \in Shards : r < s + 1 => target'[r] # NoDownload
        BY <1>7, <2>1, <2>4, <2>7, <3>1, <4>1 DEF TaskAlone, s
      <4>3. \A r \in Shards : (target'[r] = d => r \in dlCreated'[d]) /\ part'[r] # d
        BY <1>7, <2>1, <2>4, <2>7, <3>1 DEF TaskAlone, s
      <4> QED BY <1>2, <1>6, <2>4, <3>3, <4>2, <4>3 DEF TaskAlone
    <3>5. TargetsWhole' /\ ManifestBacked'
      BY <1>2, <1>7, <2>1, <2>4, <2>7, <3>1, <3>3 DEF TargetsWhole, FileLength, ManifestBacked
    <3> QED BY <3>2, <3>4, <3>5
  <2> QED BY <1>2, <2>6, <2>7 DEF HubInv, HubAlone
<1> QED BY <1>8, <1>9, <1>10

\* A cancelled download that is alone takes all it has linked with it.
LEMMA CancelledStep ==
  ASSUME HubInv, NEW d \in HubDownloads, Cancelled(d)
  PROVE  HubInv'
<1> USE HubAssumption
<1>1. HubShape /\ HubAlone
  BY DEF HubInv
<1>2. /\ UNCHANGED <<hubSize, repoRev, detail, dlRev, dlStatus, dlShard, dlCreated, written, manifest,
                     cancelled, cancelPc, shared, hubCrashes>>
      /\ dlPc[d] \in {"next", "stream"} /\ dlPc' = [dlPc EXCEPT ![d] = "cancelled"]
      /\ part' = IF dlPc[d] = "stream" THEN [part EXCEPT ![dlShard[d]] = NoDownload] ELSE part
      /\ target' = [s \in Shards |-> IF s \in dlCreated[d] THEN NoDownload ELSE target[s]]
  BY DEF Cancelled, Goes, repoVars
<1>3. part' \in [Shards -> Links] /\ target' \in [Shards -> Links]
  BY <1>1, <1>2 DEF HubShape, HubTypeOK, Links
<1>4. HubTypeOK'
  BY <1>1, <1>2, <1>3 DEF HubShape, HubTypeOK
<1>5. HubShape'
  BY <1>1, <1>2, <1>4 DEF HubShape, HubTypeOK
<1>6. /\ dlPc'[d] = "cancelled" /\ \A e \in HubDownloads \ {d} : dlPc'[e] = dlPc[e]
      /\ \A s \in Shards : part'[s] = IF dlPc[d] = "stream" /\ s = dlShard[d] THEN NoDownload ELSE part[s]
  BY <1>1, <1>2 DEF HubShape, HubTypeOK
<1>7. ASSUME ~shared PROVE OneActive' /\ (\A e \in HubDownloads : TaskAlone(e)') /\ TargetsWhole' /\ ManifestBacked'
  <2>1. TaskAlone(d) /\ TargetsWhole /\ ManifestBacked
    BY <1>1, <1>7 DEF HubAlone
  <2>2. OneActive' /\ \A e \in HubDownloads \ {d} : TaskAlone(e)'
    BY <1>2, <1>6, <1>7, OthersStay DEF Ended
  <2>3. Unlinked(d)'
    BY <1>2, <1>6, <2>1 DEF TaskAlone, Unlinked
  <2>4. TaskAlone(d)'
    BY <1>6, <2>3 DEF TaskAlone
  <2>5. TargetsWhole'
    BY <1>2, <2>1 DEF TargetsWhole, FileLength
  <2>6. ManifestBacked'
    BY <1>2, <2>1 DEF TaskAlone, ManifestBacked
  <2> QED BY <2>2, <2>4, <2>5, <2>6
<1> QED BY <1>2, <1>5, <1>7 DEF HubInv, HubAlone

LEMMA NextHubInv == HubInv /\ [HubNext]_hubVars => HubInv'
<1> SUFFICES ASSUME HubInv, [HubNext]_hubVars PROVE HubInv'
  OBVIOUS
<1>1. CASE HubNext
  BY <1>1, RepoStep, ExitStep, BeginStep, CancelStep, PassStep, StreamStep, CancelledStep DEF HubNext
<1>2. CASE UNCHANGED hubVars
  <2>1. HubShape'
    BY <1>2 DEF hubVars, HubInv, HubShape, HubTypeOK
  <2>2. HubAlone'
    BY <1>2 DEF hubVars, HubInv, HubAlone, OneActive, TaskAlone, Unlinked, TargetsWhole, FileLength, ManifestBacked
  <2> QED BY <2>1, <2>2 DEF HubInv
<1> QED BY <1>1, <1>2

-----------------------------------------------------------------------------
(* The preview.                                                            *)

\* A task holds a server only while it is about to kill it.
HandsFit ==
    /\ \A t \in PvStarts : hand[t] # NoProc => startPc[t] \in {"stopping", "giving_up"}
    /\ \A x \in PvClosers : hand[x] # NoProc => closerPc[x] \in {"killing", "closing"}

\* An open call has an origin from its gate on, and an entry when it builds.
OpensFit ==
    \A o \in PvOpens :
        /\ openPc[o] \in {"gate", "open", "window", "build"} => openAt[o] \in Origins
        /\ openPc[o] = "build" => openEntry[o] \in EntryIds

\* Every entry there has been authorizes what the user has approved.
AllowedApproved == \A e \in EntryIds : allowed[e] \subseteq approved

\* Starts that have not overlapped yet are alone with the entry, which has no server meanwhile.
StartsApart ==
    ~startsOverlapped => \A t \in PvStarts : startPc[t] \in Starting =>
        slot = NoProc /\ \A u \in PvStarts \ {t} : startPc[u] \notin Starting

PvInv ==
    /\ PreviewTypeOK /\ HandsFit /\ OpensFit /\ AllowedApproved
    /\ StartsApart /\ ServersOwned /\ PageApproved

LEMMA InitPvInv == PreviewInit => PvInv
<1> SUFFICES ASSUME PreviewInit PROVE PvInv
  OBVIOUS
<1> USE PreviewAssumption DEF PreviewInit, NoPage
<1>1. allowed \in [EntryIds -> SUBSET Origins] /\ 0 \in 0..MaxEntries
  OBVIOUS
<1>2. PreviewTypeOK
  BY <1>1 DEF PreviewTypeOK
<1>3. HandsFit /\ OpensFit /\ StartsApart
  BY DEF HandsFit, OpensFit, StartsApart, Starting
<1>4. AllowedApproved /\ ServersOwned /\ PageApproved
  BY DEF AllowedApproved, ServersOwned, PageApproved
<1> QED BY <1>2, <1>3, <1>4 DEF PvInv

\* The entry that is there after Ensure.
LEMMA Ensured ==
  ASSUME PreviewTypeOK, NEW more \in SUBSET Origins, Ensure(more)
  PROVE  /\ entry' \in EntryIds /\ entries' \in 0..MaxEntries /\ allowed' \in [EntryIds -> SUBSET Origins]
         /\ \A e \in EntryIds : allowed'[e] \subseteq allowed[e] \cup more
BY PreviewAssumption DEF PreviewTypeOK, Ensure, EntryIds

\* What kill_process_tree does to the server in a task's hands.
LEMMA Killed ==
  ASSUME PreviewTypeOK, NEW x \in PvStarts \cup PvClosers, Kill(x)
  PROVE  /\ proc' \in [PvStarts -> {"none", "running", "left", "replaced", "exited"}]
         /\ hand' \in [PvStarts \cup PvClosers -> PvStarts \cup {NoProc}]
         /\ hand'[x] = NoProc /\ \A y \in (PvStarts \cup PvClosers) \ {x} : hand'[y] = hand[y]
         /\ \A q \in PvStarts : proc'[q] # "exited" => proc'[q] = proc[q] /\ hand[x] # q
BY DEF PreviewTypeOK, Kill

LEMMA Taken ==
  ASSUME PreviewTypeOK, NEW x \in PvStarts \cup PvClosers, Take(x)
  PROVE  /\ hand' \in [PvStarts \cup PvClosers -> PvStarts \cup {NoProc}]
         /\ slot' = NoProc /\ ready' \in BOOLEAN
         /\ hand'[x] = slot /\ \A y \in (PvStarts \cup PvClosers) \ {x} : hand'[y] = hand[y]
BY DEF PreviewTypeOK, Take

\* Servers that nobody starts stay owned while one task takes the server or kills its own.
LEMMA OwnedStay ==
  ASSUME PreviewTypeOK, ServersOwned, NEW x \in PvStarts \cup PvClosers,
         \/ Take(x) /\ hand[x] = NoProc /\ UNCHANGED proc
         \/ Kill(x) /\ UNCHANGED slot,
         startsOverlapped => startsOverlapped',
         \A t \in PvStarts : startPc[t] = "spawned" => startPc'[t] = "spawned"
  PROVE  ServersOwned'
<1>3. ASSUME NEW t \in PvStarts, proc'[t] = "replaced" PROVE startsOverlapped'
  BY <1>3, Killed DEF ServersOwned
<1> SUFFICES ASSUME NEW t \in PvStarts, proc'[t] = "running"
             PROVE  \/ slot' = t \/ startPc'[t] = "spawned"
                    \/ \E y \in PvStarts \cup PvClosers : hand'[y] = t
  BY <1>3 DEF ServersOwned
<1>1. CASE Take(x) /\ hand[x] = NoProc /\ UNCHANGED proc
  BY <1>1, Taken, PreviewAssumption DEF ServersOwned
<1>2. CASE Kill(x) /\ UNCHANGED slot
  BY <1>2, Killed DEF ServersOwned
<1> QED BY <1>1, <1>2

\* Starts stay apart while none begins, and none but one that leaves puts a server there.
LEMMA ApartStay ==
  ASSUME StartsApart, UNCHANGED startsOverlapped, NEW t \in PvStarts,
         \A u \in PvStarts : startPc'[u] \in Starting => startPc[u] \in Starting,
         slot' \in {slot, NoProc} \/ (startPc'[t] \notin Starting /\ startPc[t] \in Starting)
  PROVE  StartsApart'
BY DEF StartsApart

\* A step of a start.
LEMMA StartStep ==
  ASSUME PvInv, NEW t \in PvStarts,
         \/ ProcessExits(t) \/ StartStops(t) \/ StartKilled(t) \/ SpawnServer(t) \/ StoreServer(t)
         \/ ProbeAnswered(t) \/ GiveUp(t) \/ GivenUp(t) \/ MonitorEnds(t)
  PROVE  PvInv'
<1> USE PreviewAssumption
<1>1. PreviewTypeOK /\ HandsFit /\ OpensFit /\ AllowedApproved /\ StartsApart /\ ServersOwned /\ PageApproved
  BY DEF PvInv
<1>2. UNCHANGED <<openVars, closerPc, windowVars>>
  BY DEF ProcessExits, StartStops, StartKilled, SpawnServer, StoreServer, ProbeAnswered, GiveUp, GivenUp, MonitorEnds
<1>3. OpensFit' /\ PageApproved'
  BY <1>1, <1>2 DEF OpensFit, PageApproved, openVars, windowVars
<1>4. SUFFICES PreviewTypeOK' /\ HandsFit' /\ AllowedApproved' /\ StartsApart' /\ ServersOwned'
  BY <1>3 DEF PvInv
<1>5. ASSUME UNCHANGED entryVars PROVE AllowedApproved'
  BY <1>1, <1>2, <1>5 DEF AllowedApproved, entryVars, openVars
<1>6. ASSUME Ensure({}) PROVE AllowedApproved'
  <2>1. \A e \in EntryIds : allowed'[e] \subseteq allowed[e]
    BY <1>1, <1>6, Ensured
  <2> QED BY <1>1, <1>2, <2>1 DEF AllowedApproved, openVars
<1>7. CASE ProcessExits(t)
  <2>1. PreviewTypeOK' /\ HandsFit'
    BY <1>1, <1>2, <1>7 DEF ProcessExits, PreviewTypeOK, HandsFit, openVars, windowVars, entryVars
  <2>3. StartsApart'
    BY <1>1, <1>7 DEF ProcessExits, StartsApart
  <2>2. ServersOwned'
    BY <1>1, <1>7 DEF ProcessExits, PreviewTypeOK, ServersOwned
  <2> QED BY <1>5, <1>7, <2>1, <2>2, <2>3 DEF ProcessExits
<1>8. CASE StartStops(t) \/ GiveUp(t)
  <2>1. Take(t) /\ UNCHANGED <<entryVars, proc>> /\ startPc[t] \in {"idle", "polling"}
    BY <1>8 DEF StartStops, GiveUp, At
  <2>2. startPc' = [startPc EXCEPT ![t] = IF startPc[t] = "idle" THEN "stopping" ELSE "giving_up"]
    BY <1>8 DEF StartStops, GiveUp, At
  <2>3. hand[t] = NoProc
    BY <1>1, <2>1 DEF HandsFit
  <2>7. startsOverlapped' \in BOOLEAN /\ (startsOverlapped => startsOverlapped')
    BY <1>1, <1>8, Zenon DEF StartStops, GiveUp, PreviewTypeOK
  <2>4. PreviewTypeOK'
    BY <1>1, <1>2, <2>1, <2>2, <2>7, Taken DEF PreviewTypeOK, openVars, windowVars, entryVars
  <2>5. HandsFit'
    BY <1>1, <1>2, <2>1, <2>2, Taken DEF PreviewTypeOK, HandsFit
  <2>6. ServersOwned'
    <3>1. \A q \in PvStarts : startPc[q] = "spawned" => startPc'[q] = "spawned"
      BY <1>1, <2>1, <2>2 DEF PreviewTypeOK
    <3> QED BY <1>1, <2>1, <2>3, <2>7, <3>1, OwnedStay
  <2>8. StartsApart'
    <3>1. slot' = NoProc /\ \A u \in PvStarts \ {t} : startPc'[u] = startPc[u]
      BY <1>1, <2>1, <2>2, Taken DEF PreviewTypeOK
    <3>2. CASE StartStops(t)
      <4>1. ~startsOverlapped' => ~startsOverlapped /\ \A u \in PvStarts : startPc[u] \notin Starting
        BY <3>2 DEF StartStops
      <4> QED BY <3>1, <4>1 DEF StartsApart
    <3>3. CASE GiveUp(t)
      <4>1. startPc'[t] \notin Starting /\ UNCHANGED startsOverlapped
        BY <1>1, <3>3 DEF GiveUp, At, PreviewTypeOK, Starting
      <4> QED BY <1>1, <3>1, <4>1 DEF StartsApart
    <3> QED BY <1>8, <3>2, <3>3
  <2> QED BY <1>5, <2>1, <2>4, <2>5, <2>6, <2>8
<1>9. CASE StartKilled(t) \/ GivenUp(t)
  <2>1. Kill(t) /\ UNCHANGED <<entryVars, slot, ready, startsOverlapped>> /\ startPc[t] \in {"stopping", "giving_up"}
    BY <1>9 DEF StartKilled, GivenUp, At
  <2>2. startPc' = [startPc EXCEPT ![t] = IF startPc[t] = "stopping" THEN "spawn" ELSE "over"]
    BY <1>9 DEF StartKilled, GivenUp, At
  <2>4. PreviewTypeOK'
    BY <1>1, <1>2, <2>1, <2>2, Killed DEF PreviewTypeOK, openVars, windowVars, entryVars
  <2>5. HandsFit'
    BY <1>1, <1>2, <2>1, <2>2, Killed DEF PreviewTypeOK, HandsFit
  <2>6. ServersOwned'
    <3>1. \A q \in PvStarts : startPc[q] = "spawned" => startPc'[q] = "spawned"
      BY <1>1, <2>1, <2>2 DEF PreviewTypeOK
    <3> QED BY <1>1, <2>1, <3>1, OwnedStay
  <2>7. StartsApart'
    <3>1. \A u \in PvStarts : startPc'[u] \in Starting => startPc[u] \in Starting
      BY <1>1, <2>1, <2>2 DEF PreviewTypeOK, Starting
    <3> QED BY <1>1, <2>1, <3>1, ApartStay
  <2> QED BY <1>5, <2>1, <2>4, <2>5, <2>6, <2>7
<1>10. CASE SpawnServer(t)
  <2>1. CASE At(t, "spawn", "over") /\ UNCHANGED <<proc, entryVars>>
    <3>1. UNCHANGED <<slot, ready, hand, startsOverlapped>>
      BY <1>10 DEF SpawnServer
    <3>4. StartsApart'
      <4>1. \A u \in PvStarts : startPc'[u] \in Starting => startPc[u] \in Starting
        BY <1>1, <2>1 DEF At, PreviewTypeOK, Starting
      <4> QED BY <1>1, <3>1, <4>1, ApartStay
    <3>2. PreviewTypeOK' /\ HandsFit'
      BY <1>1, <1>2, <2>1, <3>1 DEF At, PreviewTypeOK, HandsFit, openVars, windowVars, entryVars
    <3>3. ServersOwned'
      BY <1>1, <2>1, <3>1 DEF At, PreviewTypeOK, ServersOwned
    <3> QED BY <1>5, <2>1, <3>2, <3>3, <3>4
  <2>2. CASE At(t, "spawn", "spawned") /\ proc' = [proc EXCEPT ![t] = "running"] /\ Ensure({})
    <3>1. UNCHANGED <<slot, ready, hand, startsOverlapped>>
      BY <1>10 DEF SpawnServer
    <3>5. StartsApart'
      <4>1. \A u \in PvStarts : startPc'[u] \in Starting => startPc[u] \in Starting
        BY <1>1, <2>2 DEF At, PreviewTypeOK, Starting
      <4> QED BY <1>1, <3>1, <4>1, ApartStay
    <3>2. PreviewTypeOK'
      <4>1. entry' \in EntryIds /\ entries' \in 0..MaxEntries /\ allowed' \in [EntryIds -> SUBSET Origins]
        BY <1>1, <2>2, Ensured
      <4>2. entry' \in 0..MaxEntries /\ entry' # 0
        BY <4>1 DEF EntryIds
      <4> QED BY <1>1, <1>2, <2>2, <3>1, <4>1, <4>2 DEF At, PreviewTypeOK, openVars, windowVars
    <3>3. HandsFit'
      BY <1>1, <1>2, <2>2, <3>1 DEF At, PreviewTypeOK, HandsFit
    <3>4. ServersOwned'
      BY <1>1, <2>2, <3>1 DEF At, PreviewTypeOK, ServersOwned
    <3> QED BY <1>6, <2>2, <3>2, <3>3, <3>4, <3>5
  <2> QED BY <1>10, <2>1, <2>2 DEF SpawnServer
<1>11. CASE StoreServer(t)
  <2>1. /\ At(t, "spawned", "polling") /\ Ensure({}) /\ slot' = t /\ ready' = FALSE
        /\ UNCHANGED <<hand, startsOverlapped>>
    BY <1>11 DEF StoreServer
  <2>5. PICK fate \in {"exited", "replaced"} :
          proc' = [q \in PvStarts |-> IF q = slot /\ proc[q] = "running" THEN fate ELSE proc[q]]
    BY <1>11 DEF StoreServer
  <2>6. ~startsOverlapped => slot = NoProc
    BY <1>1, <2>1 DEF At, StartsApart, Starting
  <2>7. StartsApart'
    <3>1. /\ startPc'[t] \notin Starting /\ startPc[t] \in Starting
          /\ \A u \in PvStarts : startPc'[u] \in Starting => startPc[u] \in Starting
      BY <1>1, <2>1 DEF At, PreviewTypeOK, Starting
    <3> QED BY <1>1, <2>1, <3>1, ApartStay
  <2>2. PreviewTypeOK'
    <3>1. entry' \in EntryIds /\ entries' \in 0..MaxEntries /\ allowed' \in [EntryIds -> SUBSET Origins]
      BY <1>1, <2>1, Ensured
    <3>2. entry' \in 0..MaxEntries /\ entry' # 0
      BY <3>1 DEF EntryIds
    <3>3. proc' \in [PvStarts -> {"none", "running", "left", "replaced", "exited"}]
      BY <1>1, <2>5 DEF PreviewTypeOK
    <3> QED BY <1>1, <1>2, <2>1, <3>1, <3>2, <3>3 DEF At, PreviewTypeOK, openVars, windowVars
  <2>3. HandsFit'
    BY <1>1, <1>2, <2>1 DEF At, PreviewTypeOK, HandsFit
  <2>4. ServersOwned'
    <3>1. ASSUME NEW q \in PvStarts, proc'[q] = "replaced" PROVE startsOverlapped'
      BY <1>1, <2>1, <2>5, <2>6, <3>1 DEF ServersOwned
    <3>2. ASSUME NEW q \in PvStarts, proc'[q] = "running"
          PROVE  proc[q] = "running" /\ q # slot
      BY <2>5, <3>2
    <3>3. \A q \in PvStarts : q # t => startPc'[q] = startPc[q]
      BY <1>1, <2>1 DEF At, PreviewTypeOK
    <3> QED BY <1>1, <2>1, <3>1, <3>2, <3>3 DEF ServersOwned
  <2> QED BY <1>6, <2>1, <2>2, <2>3, <2>4, <2>7
<1>12. CASE ProbeAnswered(t)
  <2>1. PreviewTypeOK' /\ HandsFit'
    BY <1>1, <1>2, <1>12 DEF ProbeAnswered, At, PreviewTypeOK, HandsFit, openVars, windowVars, entryVars
  <2>2. ServersOwned'
    BY <1>1, <1>12 DEF ProbeAnswered, At, PreviewTypeOK, ServersOwned
  <2>3. StartsApart'
    <3>1. /\ UNCHANGED <<startsOverlapped, slot>>
          /\ \A u \in PvStarts : startPc'[u] \in Starting => startPc[u] \in Starting
      BY <1>1, <1>12 DEF ProbeAnswered, At, PreviewTypeOK, Starting
    <3> QED BY <1>1, <3>1, ApartStay
  <2> QED BY <1>5, <1>12, <2>1, <2>2, <2>3 DEF ProbeAnswered
<1>13. CASE MonitorEnds(t)
  <2>1. PreviewTypeOK' /\ HandsFit'
    BY <1>1, <1>2, <1>13 DEF MonitorEnds, At, PreviewTypeOK, HandsFit, openVars, windowVars, entryVars
  <2>2. ServersOwned'
    BY <1>1, <1>13 DEF MonitorEnds, At, PreviewTypeOK, ServersOwned
  <2>3. StartsApart'
    <3>1. /\ UNCHANGED startsOverlapped /\ slot' = NoProc
          /\ \A u \in PvStarts : startPc'[u] \in Starting => startPc[u] \in Starting
      BY <1>1, <1>13 DEF MonitorEnds, At, PreviewTypeOK, Starting
    <3> QED BY <1>1, <3>1, ApartStay
  <2> QED BY <1>5, <1>13, <2>1, <2>2, <2>3 DEF MonitorEnds
<1> QED BY <1>7, <1>8, <1>9, <1>10, <1>11, <1>12, <1>13

\* A step of an open call: the servers are as they were.
LEMMA OpenStep ==
  ASSUME PvInv, NEW o \in PvOpens,
         AskOrigin(o) \/ Authorize(o) \/ OriginDenied(o) \/ OpenLooks(o) \/ OpenFinds(o) \/ OpenBuilds(o)
  PROVE  PvInv'
<1> USE PreviewAssumption
<1>1. PreviewTypeOK /\ HandsFit /\ OpensFit /\ AllowedApproved /\ StartsApart /\ ServersOwned /\ PageApproved
  BY DEF PvInv
<1>2. UNCHANGED <<serverVars, closerPc>>
  BY DEF AskOrigin, Authorize, OriginDenied, OpenLooks, OpenFinds, OpenBuilds
<1>3. HandsFit' /\ StartsApart' /\ ServersOwned'
  BY <1>1, <1>2 DEF HandsFit, StartsApart, ServersOwned, serverVars
<1>4. SUFFICES PreviewTypeOK' /\ OpensFit' /\ AllowedApproved' /\ PageApproved'
  BY <1>3 DEF PvInv
<1>5. CASE AskOrigin(o)
  <2>1. PICK a \in Origins : openAt' = [openAt EXCEPT ![o] = a]
    BY <1>5 DEF AskOrigin
  <2>2. PICK pc \in {"open", "gate"} : openPc' = [openPc EXCEPT ![o] = pc]
    BY <1>5 DEF AskOrigin
  <2>3. UNCHANGED <<entryVars, openEntry, approved, windowVars>>
    BY <1>5 DEF AskOrigin
  <2>4. PreviewTypeOK'
    BY <1>1, <1>2, <2>1, <2>2, <2>3 DEF PreviewTypeOK, entryVars, serverVars, windowVars
  <2>5. OpensFit' /\ AllowedApproved' /\ PageApproved'
    BY <1>1, <2>1, <2>2, <2>3 DEF PreviewTypeOK, OpensFit, AllowedApproved, PageApproved, entryVars, windowVars
  <2> QED BY <2>4, <2>5
<1>6. CASE Authorize(o)
  <2>1. /\ openPc[o] = "gate" /\ openPc' = [openPc EXCEPT ![o] = "open"]
        /\ approved' = approved \cup {openAt[o]} /\ Ensure({openAt[o]})
        /\ UNCHANGED <<openAt, openEntry, windowVars>>
    BY <1>6 DEF Authorize
  <2>2. openAt[o] \in Origins
    BY <1>1, <2>1 DEF OpensFit
  <2>3. /\ entry' \in EntryIds /\ entries' \in 0..MaxEntries /\ allowed' \in [EntryIds -> SUBSET Origins]
        /\ \A e \in EntryIds : allowed'[e] \subseteq allowed[e] \cup {openAt[o]}
    BY <1>1, <2>1, <2>2, Ensured
  <2>4. entry' \in 0..MaxEntries /\ entry' # 0
    BY <2>3 DEF EntryIds
  <2>5. PreviewTypeOK'
    BY <1>1, <1>2, <2>1, <2>2, <2>3, <2>4 DEF PreviewTypeOK, serverVars, windowVars
  <2>6. OpensFit' /\ AllowedApproved' /\ PageApproved'
    BY <1>1, <2>1, <2>3 DEF PreviewTypeOK, OpensFit, AllowedApproved, PageApproved, windowVars
  <2> QED BY <2>5, <2>6
<1>7. CASE OriginDenied(o)
  <2>1. PreviewTypeOK'
    BY <1>1, <1>2, <1>7 DEF OriginDenied, PreviewTypeOK, entryVars, serverVars, windowVars
  <2>2. OpensFit' /\ AllowedApproved' /\ PageApproved'
    BY <1>1, <1>7 DEF OriginDenied, PreviewTypeOK, OpensFit, AllowedApproved, PageApproved, entryVars, windowVars
  <2> QED BY <2>1, <2>2
<1>8. CASE OpenLooks(o)
  <2>1. /\ openPc[o] = "open" /\ Ensure({})
        /\ UNCHANGED <<openAt, openEntry, approved, windowVars>>
    BY <1>8 DEF OpenLooks
  <2>2. PICK pc \in {"window", "over"} : openPc' = [openPc EXCEPT ![o] = pc]
    BY <1>8 DEF OpenLooks
  <2>3. /\ entry' \in EntryIds /\ entries' \in 0..MaxEntries /\ allowed' \in [EntryIds -> SUBSET Origins]
        /\ \A e \in EntryIds : allowed'[e] \subseteq allowed[e]
    BY <1>1, <2>1, Ensured
  <2>4. entry' \in 0..MaxEntries /\ entry' # 0
    BY <2>3 DEF EntryIds
  <2>5. PreviewTypeOK'
    BY <1>1, <1>2, <2>1, <2>2, <2>3, <2>4 DEF PreviewTypeOK, serverVars, windowVars
  <2>6. OpensFit' /\ AllowedApproved' /\ PageApproved'
    BY <1>1, <2>1, <2>2, <2>3 DEF PreviewTypeOK, OpensFit, AllowedApproved, PageApproved, windowVars
  <2> QED BY <2>5, <2>6
<1>9. CASE OpenFinds(o)
  <2>1. PICK pc \in {"over", "panicked", "build"} :
          /\ openPc' = [openPc EXCEPT ![o] = pc]
          /\ pc = "build" => pvWindow = 0 /\ entry # 0
    BY <1>9 DEF OpenFinds
  <2>2. PICK e \in {entry, 0} : openEntry' = [openEntry EXCEPT ![o] = e] /\ (pvWindow = 0 => e = entry)
    BY <1>9 DEF OpenFinds
  <2>3. page' = page \/ (pvWindow # 0 /\ page' \in allowed[pvWindow])
    BY <1>9 DEF OpenFinds, Visit
  <2>4. UNCHANGED <<entryVars, openAt, approved, pvWindow, closeDue>> /\ openPc[o] = "window"
    BY <1>9 DEF OpenFinds
  <2>5. pvWindow # 0 => pvWindow \in EntryIds
    BY <1>1 DEF PreviewTypeOK, EntryIds
  <2>6. entry \in 0..MaxEntries /\ (entry # 0 => entry \in EntryIds)
    BY <1>1 DEF PreviewTypeOK, EntryIds
  <2>7. page' = page \/ (page' \in Origins /\ page' \in approved)
    BY <1>1, <2>3, <2>5 DEF PreviewTypeOK, AllowedApproved
  <2>8. PreviewTypeOK'
    BY <1>1, <1>2, <2>1, <2>2, <2>4, <2>6, <2>7 DEF PreviewTypeOK, entryVars, serverVars
  <2>9. OpensFit'
    BY <1>1, <2>1, <2>2, <2>4, <2>6 DEF PreviewTypeOK, OpensFit
  <2>10. AllowedApproved' /\ PageApproved'
    BY <1>1, <2>4, <2>7 DEF AllowedApproved, PageApproved, entryVars
  <2> QED BY <2>8, <2>9, <2>10
<1>10. CASE OpenBuilds(o)
  <2>1. /\ openPc[o] = "build" /\ openPc' = [openPc EXCEPT ![o] = "over"]
        /\ UNCHANGED <<entryVars, openAt, openEntry, approved, closeDue>>
    BY <1>10 DEF OpenBuilds
  <2>2. openEntry[o] \in EntryIds
    BY <1>1, <2>1 DEF OpensFit
  <2>3. pvWindow' \in {pvWindow, openEntry[o]} /\ (page' = page \/ page' \in allowed[openEntry[o]])
    BY <1>10 DEF OpenBuilds, Visit
  <2>4. pvWindow' \in 0..MaxEntries
    BY <1>1, <2>2, <2>3 DEF PreviewTypeOK, EntryIds
  <2>5. page' = page \/ (page' \in Origins /\ page' \in approved)
    BY <1>1, <2>2, <2>3 DEF PreviewTypeOK, AllowedApproved
  <2>6. PreviewTypeOK'
    BY <1>1, <1>2, <2>1, <2>4, <2>5 DEF PreviewTypeOK, entryVars, serverVars
  <2>7. OpensFit' /\ AllowedApproved' /\ PageApproved'
    BY <1>1, <2>1, <2>5 DEF PreviewTypeOK, OpensFit, AllowedApproved, PageApproved, entryVars
  <2> QED BY <2>6, <2>7
<1> QED BY <1>5, <1>6, <1>7, <1>8, <1>9, <1>10

\* A stop, a close, a close handler; the page and the user.
LEMMA CloserStep ==
  ASSUME PvInv, NEW x \in PvClosers,
         StopServer(x) \/ StopKilled(x) \/ CloseSession(x) \/ CloseKilled(x) \/ WindowHandler(x)
  PROVE  PvInv'
<1> USE PreviewAssumption
<1>1. PreviewTypeOK /\ HandsFit /\ OpensFit /\ AllowedApproved /\ StartsApart /\ ServersOwned /\ PageApproved
  BY DEF PvInv
<1>2. UNCHANGED <<entries, allowed, startPc, startsOverlapped, openVars>>
  BY DEF StopServer, StopKilled, CloseSession, CloseKilled, WindowHandler, entryVars
<1>3. OpensFit' /\ AllowedApproved'
  BY <1>1, <1>2 DEF OpensFit, AllowedApproved, openVars
<1>7. slot' \in {slot, NoProc}
  BY DEF StopServer, StopKilled, CloseSession, CloseKilled, WindowHandler, Take
<1>8. StartsApart'
  BY <1>1, <1>2, <1>7 DEF StartsApart
<1>4. SUFFICES PreviewTypeOK' /\ HandsFit' /\ ServersOwned' /\ PageApproved'
  BY <1>3, <1>8 DEF PvInv
<1>5. CASE StopServer(x) \/ CloseSession(x) \/ WindowHandler(x)
  <2>1. Take(x) /\ closerPc[x] = "idle" /\ UNCHANGED <<proc, pvWindow, page>>
    BY <1>5 DEF StopServer, CloseSession, WindowHandler, windowVars
  <2>2. PICK pc \in {"killing", "closing"} : closerPc' = [closerPc EXCEPT ![x] = pc]
    BY <1>5 DEF StopServer, CloseSession, WindowHandler
  <2>3. entry' \in {entry, 0} /\ closeDue' \in {closeDue, FALSE}
    BY <1>5 DEF StopServer, CloseSession, WindowHandler, entryVars, windowVars
  <2>4. hand[x] = NoProc
    BY <1>1, <2>1 DEF HandsFit
  <2>5. entry' \in 0..MaxEntries
    BY <1>1, <2>3 DEF PreviewTypeOK
  <2>6. closeDue' \in BOOLEAN
    BY <1>1, <2>3, Zenon DEF PreviewTypeOK
  <2>7. PreviewTypeOK'
    BY <1>1, <1>2, <2>1, <2>2, <2>5, <2>6, Taken DEF PreviewTypeOK, openVars
  <2>8. HandsFit'
    BY <1>1, <1>2, <2>1, <2>2, Taken DEF PreviewTypeOK, HandsFit
  <2>9. ServersOwned'
    BY <1>1, <1>2, <2>1, <2>4, OwnedStay
  <2> QED BY <1>1, <1>2, <2>1, <2>7, <2>8, <2>9 DEF PageApproved, openVars
<1>6. CASE StopKilled(x) \/ CloseKilled(x)
  <2>1. Kill(x) /\ closerPc' = [closerPc EXCEPT ![x] = "over"] /\ UNCHANGED <<entry, slot, ready>>
    BY <1>6 DEF StopKilled, CloseKilled, entryVars
  <2>2. /\ pvWindow' \in {pvWindow, 0} /\ page' \in {page, NoPage}
        /\ (closeDue' = closeDue \/ closeDue' = (closeDue \/ pvWindow # 0))
    BY <1>6 DEF StopKilled, CloseKilled, windowVars
  <2>3. pvWindow' \in 0..MaxEntries /\ page' \in Origins \cup {NoPage}
    BY <1>1, <2>2 DEF PreviewTypeOK
  <2>4. closeDue' \in BOOLEAN
    BY <1>1, <2>2, Zenon DEF PreviewTypeOK
  <2>5. PreviewTypeOK'
    BY <1>1, <1>2, <2>1, <2>3, <2>4, Killed DEF PreviewTypeOK, openVars
  <2>6. HandsFit'
    BY <1>1, <1>2, <2>1, Killed DEF PreviewTypeOK, HandsFit
  <2>7. ServersOwned'
    BY <1>1, <1>2, <2>1, OwnedStay
  <2>8. PageApproved'
    BY <1>1, <1>2, <2>2 DEF PageApproved, openVars
  <2> QED BY <2>5, <2>6, <2>7, <2>8
<1> QED BY <1>5, <1>6

LEMMA PageStep ==
  ASSUME PvInv, PageNavigates \/ UserCloses
  PROVE  PvInv'
<1>1. PreviewTypeOK /\ HandsFit /\ OpensFit /\ AllowedApproved /\ StartsApart /\ ServersOwned /\ PageApproved
  BY DEF PvInv
<1>2. UNCHANGED <<entryVars, serverVars, openVars, closerPc>>
  BY DEF PageNavigates, UserCloses
<1>3. HandsFit' /\ OpensFit' /\ AllowedApproved' /\ StartsApart' /\ ServersOwned'
  BY <1>1, <1>2 DEF HandsFit, OpensFit, AllowedApproved, StartsApart, ServersOwned, entryVars, serverVars, openVars
<1>4. pvWindow # 0 /\ pvWindow' \in {pvWindow, 0} /\ closeDue' \in {closeDue, TRUE}
  BY DEF PageNavigates, UserCloses
<1>5. page' \in {page, NoPage} \cup allowed[pvWindow]
  BY DEF PageNavigates, UserCloses, Visit
<1>6. page' \in {page, NoPage} \cup (Origins \cap approved)
  BY <1>1, <1>4, <1>5, PreviewAssumption DEF PreviewTypeOK, AllowedApproved, EntryIds
<1>7. pvWindow' \in 0..MaxEntries
  BY <1>1, <1>4, PreviewAssumption DEF PreviewTypeOK
<1>8. closeDue' \in BOOLEAN
  BY <1>1, <1>4, Zenon DEF PreviewTypeOK
<1>9. PreviewTypeOK'
  BY <1>1, <1>2, <1>6, <1>7, <1>8 DEF PreviewTypeOK, entryVars, serverVars, openVars
<1>10. PageApproved'
  BY <1>1, <1>2, <1>6 DEF PageApproved, openVars
<1> QED BY <1>3, <1>9, <1>10 DEF PvInv

LEMMA NextPvInv == PvInv /\ [PreviewNext]_pvVars => PvInv'
<1> SUFFICES ASSUME PvInv, [PreviewNext]_pvVars PROVE PvInv'
  OBVIOUS
<1>1. CASE PreviewNext
  BY <1>1, StartStep, OpenStep, CloserStep, PageStep DEF PreviewNext
<1>2. CASE UNCHANGED pvVars
  BY <1>2
     DEF pvVars, PvInv, PreviewTypeOK, HandsFit, OpensFit, AllowedApproved, StartsApart, ServersOwned, PageApproved
<1> QED BY <1>1, <1>2

-----------------------------------------------------------------------------
(* The services together: a behaviour of them is one of each part.         *)

LEMMA ServicesSteps ==
  ASSUME [ServicesNext]_services
  PROVE  [RtNext]_rtVars /\ [UpdateNext]_auVars /\ [HubNext]_hubVars /\ [PreviewNext]_pvVars
BY DEF ServicesNext, RealtimeService, UpdateService, HubService, PreviewService, services

LEMMA ServicesBehave == ServicesSpec => RtSpec /\ UpdateSpec /\ HubSpec /\ PreviewSpec
<1>1. ServicesInit => RtInit /\ UpdateInit /\ HubInit /\ PreviewInit
  BY DEF ServicesInit
<1> QED BY <1>1, ServicesSteps, PTL DEF ServicesSpec, RtSpec, UpdateSpec, HubSpec, PreviewSpec

LEMMA UpInvariant == UpdateSpec => []UpInv
BY InitUpInv, NextUpInv, PTL DEF UpdateSpec

LEMMA HubInvariant == HubSpec => []HubInv
BY InitHubInv, NextHubInv, PTL DEF HubSpec

LEMMA PvInvariant == PreviewSpec => []PvInv
BY InitPvInv, NextPvInv, PTL DEF PreviewSpec

\* The bookkeeping of the four services is sound, for any joins, updates, downloads,
\* revisions, shards, tools and closes.
THEOREM ServicesTypesOK == ServicesSpec => []ServicesTypeOK
<1>1. RtTypes /\ UpInv /\ HubInv /\ PvInv => ServicesTypeOK
  BY DEF RtTypes, UpInv, HubInv, HubShape, PvInv, ServicesTypeOK
<1> QED BY <1>1, ServicesBehave, RtInvariant, UpInvariant, HubInvariant, PvInvariant, PTL

\* The executable is whole; the files of a model with a manifest are there, and whole
\* where the repository gave their sizes, known or not for any of them; and a cancelled
\* download leaves nothing, whatever failed, was cancelled or was cut off before, unless
\* two updates or two downloads ran at once (updater.rs, hub.rs).
THEOREM FilesAreWhole == ServicesSpec => []FilesWhole
<1>1. UpInv /\ HubInv => FilesWhole
  BY HubIsSafe DEF UpInv, FilesWhole
<1> QED BY <1>1, ServicesBehave, UpInvariant, HubInvariant, PTL

\* No development server whose shell runs outlives its owner, none is replaced while it
\* runs unless two starts overlapped, and the window shows only origins the user has
\* approved, however starts, opens, stops, closes and handlers overlap (preview.rs).
THEOREM PreviewsAreKept == ServicesSpec => []PreviewsKept
<1>1. PvInv => PreviewsKept
  BY DEF PvInv, PreviewsKept
<1> QED BY <1>1, ServicesBehave, PvInvariant, PTL

\* What holds of the realtime handle holds of it among the services.
THEOREM ServicesJoinsAreSound == ServicesSpec => []JoinsSound
BY ServicesBehave, JoinsAreSound, PTL
=============================================================================
