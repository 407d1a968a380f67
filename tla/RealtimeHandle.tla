--------------------------- MODULE RealtimeHandle ---------------------------
(***************************************************************************)
(* RealtimeHandle: the turns that join, broadcast on and leave channels    *)
(* share one websocket with the loop that listens on it.  A join puts a    *)
(* sender into the pending map under its ref, queues its frame and waits   *)
(* five seconds; the loop writes the queue, beats, and resolves pending    *)
(* joins from the replies it reads.  When the socket is lost the handle is *)
(* reset: first its sender, then, under another lock, the pending joins.   *)
(* Frames wait at the server, which answers them in any order.             *)
(***************************************************************************)
EXTENDS Naturals, Sequences, FiniteSets

CONSTANTS Joins,         \* each joins, broadcasts and leaves once
          JoinBase,      \* the first ref of the handle: 100 in the code
          MaxBeats,      \* bound: refs of heartbeats on one socket
          MaxSockets     \* bound: connections

ASSUME RealtimeAssumption ==
    /\ IsFiniteSet(Joins)
    /\ JoinBase \in Nat \ {0, 1} /\ MaxBeats \in Nat \ {0} /\ MaxSockets \in Nat \ {0}

VARIABLES socket, sockets,     \* the socket as the handle sees it; connections so far
          refs, beats,         \* the handle's refs; ref_counter of the connection
          longest,             \* the largest ref_counter of any connection (history)
          pendingJoins,        \* <<ref, join>> pairs
          joinPc, joinRef, joinAck,
          outFrames,           \* the outbound channel
          atServer, replies,   \* frames the server has, replies on their way
          admitted             \* joins the server has said yes to (history)

rtVars == <<socket, sockets, refs, beats, longest, pendingJoins, joinPc, joinRef, joinAck,
            outFrames, atServer, replies, admitted>>

NoJoin == "none"
MaxRef == JoinBase + 3 * Cardinality(Joins)
RtFrames == [ref : 1..MaxRef + MaxBeats, kind : {"heartbeat", "join", "broadcast", "leave"},
             by : Joins \cup {NoJoin}]

RtTypeOK ==
    /\ socket \in {"down", "up", "dropped", "cleared"} /\ sockets \in 0..MaxSockets
    /\ refs \in JoinBase..MaxRef /\ beats \in 0..MaxBeats /\ longest \in 0..MaxBeats
    /\ pendingJoins \subseteq ((JoinBase..MaxRef) \X Joins)
    /\ joinPc \in [Joins -> {"idle", "inserted", "waiting", "joined", "sent", "failed", "left"}]
    /\ joinRef \in [Joins -> 0..MaxRef] /\ joinAck \in [Joins -> {"none", "ok", "denied"}]
    /\ \A i \in DOMAIN outFrames : outFrames[i] \in RtFrames
    /\ atServer \subseteq RtFrames
    /\ replies \subseteq [ref : 1..MaxRef + MaxBeats, ok : BOOLEAN]
    /\ admitted \subseteq Joins

RtInit ==
    /\ socket = "down" /\ sockets = 0 /\ refs = JoinBase /\ beats = 0 /\ longest = 0
    /\ pendingJoins = {} /\ joinPc = [j \in Joins |-> "idle"]
    /\ joinRef = [j \in Joins |-> 0] /\ joinAck = [j \in Joins |-> "none"]
    /\ outFrames = <<>> /\ atServer = {} /\ replies = {} /\ admitted = {}

----------------------------------------------------------------------------
(* The loop.                                                               *)

Frame(r, k, j) == [ref |-> r, kind |-> k, by |-> j]

\* The subscription's frame, ref 1, answers no join: refs start above it.
Connect ==
    /\ socket = "down" /\ sockets < MaxSockets
    /\ socket' = "up" /\ sockets' = sockets + 1 /\ beats' = 1
    /\ UNCHANGED <<refs, longest, pendingJoins, joinPc, joinRef, joinAck, outFrames, atServer, replies, admitted>>

Beat ==
    /\ socket = "up" /\ beats < MaxBeats
    /\ beats' = beats + 1 /\ longest' = IF beats' > longest THEN beats' ELSE longest
    /\ atServer' = atServer \cup {Frame(beats + 1, "heartbeat", NoJoin)}
    /\ UNCHANGED <<socket, sockets, refs, pendingJoins, joinPc, joinRef, joinAck, outFrames, replies, admitted>>

WriteNext ==
    /\ socket = "up" /\ outFrames # <<>>
    /\ outFrames' = Tail(outFrames)
    /\ atServer' = atServer \cup {Head(outFrames)}
    /\ UNCHANGED <<socket, sockets, refs, beats, longest, pendingJoins, joinPc, joinRef, joinAck, replies, admitted>>

\* on_reply: the sender leaves the map and is told under one lock.
OnReply(r, ok) ==
    LET hit == {p \in pendingJoins : p[1] = r}
    IN  /\ pendingJoins' = pendingJoins \ hit
        /\ joinAck' = [j \in Joins |-> IF <<r, j>> \in hit THEN IF ok THEN "ok" ELSE "denied" ELSE joinAck[j]]

Route(m) ==
    /\ socket = "up"
    /\ replies' = replies \ {m}
    /\ OnReply(m.ref, m.ok)
    /\ UNCHANGED <<socket, sockets, refs, beats, longest, joinPc, joinRef, outFrames, atServer, admitted>>

\* The socket closes or a write on it fails: the loop returns, and the
\* receiver of the outbound channel goes with it.
SocketLost ==
    /\ socket = "up" /\ socket' = "dropped"
    /\ outFrames' = <<>> /\ atServer' = {} /\ replies' = {}
    /\ UNCHANGED <<sockets, refs, beats, longest, pendingJoins, joinPc, joinRef, joinAck, admitted>>

ResetSender ==
    /\ socket = "dropped" /\ socket' = "cleared"
    /\ UNCHANGED <<sockets, refs, beats, longest, pendingJoins, joinPc, joinRef, joinAck, outFrames, atServer,
                   replies, admitted>>

ResetPending ==
    /\ socket = "cleared" /\ socket' = "down"
    /\ joinAck' = [j \in Joins |-> IF \E p \in pendingJoins : p[2] = j THEN "denied" ELSE joinAck[j]]
    /\ pendingJoins' = {}
    /\ UNCHANGED <<sockets, refs, beats, longest, joinPc, joinRef, outFrames, atServer, replies, admitted>>

----------------------------------------------------------------------------
(* The server: it does not answer a broadcast, and may refuse a join.      *)

Answer(f) ==
    /\ atServer' = atServer \ {f}
    /\ \E ok \in {TRUE} \cup {b \in BOOLEAN : f.kind = "join"} :
          /\ replies' = IF f.kind = "broadcast" THEN replies ELSE replies \cup {[ref |-> f.ref, ok |-> ok]}
          /\ admitted' = IF f.kind = "join" /\ ok THEN admitted \cup {f.by} ELSE admitted
    /\ UNCHANGED <<socket, sockets, refs, beats, longest, pendingJoins, joinPc, joinRef, joinAck, outFrames>>

----------------------------------------------------------------------------
(* A turn.                                                                 *)

\* send_frame fails without a sender and with one whose receiver is gone.
SendFrame(f) == outFrames' = IF socket = "up" THEN Append(outFrames, f) ELSE outFrames

InsertJoin(j) ==
    /\ joinPc[j] = "idle" /\ joinPc' = [joinPc EXCEPT ![j] = "inserted"]
    /\ joinRef' = [joinRef EXCEPT ![j] = refs] /\ refs' = refs + 1
    /\ pendingJoins' = pendingJoins \cup {<<refs, j>>}
    /\ UNCHANGED <<socket, sockets, beats, longest, joinAck, outFrames, atServer, replies, admitted>>

SendJoin(j) ==
    /\ joinPc[j] = "inserted"
    /\ joinPc' = [joinPc EXCEPT ![j] = IF socket = "up" THEN "waiting" ELSE "failed"]
    /\ SendFrame(Frame(joinRef[j], "join", j))
    /\ pendingJoins' = IF socket = "up" THEN pendingJoins ELSE pendingJoins \ {<<joinRef[j], j>>}
    /\ UNCHANGED <<socket, sockets, refs, beats, longest, joinRef, joinAck, atServer, replies, admitted>>

\* The timeout looks at the answer first.
JoinReturns(j) ==
    /\ joinPc[j] = "waiting" /\ joinAck[j] # "none"
    /\ joinPc' = [joinPc EXCEPT ![j] = IF joinAck[j] = "ok" THEN "joined" ELSE "failed"]
    /\ UNCHANGED <<socket, sockets, refs, beats, longest, pendingJoins, joinRef, joinAck, outFrames, atServer,
                   replies, admitted>>

\* A mutation: the entry stays in the map.
JoinTimesOut_Leaves(j) ==
    /\ joinPc[j] = "waiting" /\ joinAck[j] = "none"
    /\ joinPc' = [joinPc EXCEPT ![j] = "failed"]
    /\ UNCHANGED <<socket, sockets, refs, beats, longest, pendingJoins, joinRef, joinAck, outFrames, atServer,
                   replies, admitted>>
JoinTimesOut(j) ==
    /\ joinPc[j] = "waiting" /\ joinAck[j] = "none"
    /\ joinPc' = [joinPc EXCEPT ![j] = "failed"]
    /\ pendingJoins' = pendingJoins \ {<<joinRef[j], j>>}
    /\ UNCHANGED <<socket, sockets, refs, beats, longest, joinRef, joinAck, outFrames, atServer, replies, admitted>>

BroadcastFrame(j) ==
    /\ joinPc[j] = "joined" /\ joinPc' = [joinPc EXCEPT ![j] = "sent"]
    /\ refs' = refs + 1 /\ SendFrame(Frame(refs, "broadcast", NoJoin))
    /\ UNCHANGED <<socket, sockets, beats, longest, pendingJoins, joinRef, joinAck, atServer, replies, admitted>>

LeaveChannel(j) ==
    /\ joinPc[j] \in {"joined", "sent"} /\ joinPc' = [joinPc EXCEPT ![j] = "left"]
    /\ refs' = refs + 1 /\ SendFrame(Frame(refs, "leave", NoJoin))
    /\ UNCHANGED <<socket, sockets, beats, longest, pendingJoins, joinRef, joinAck, atServer, replies, admitted>>

RtNext ==
    \/ Connect \/ Beat \/ WriteNext \/ SocketLost \/ ResetSender \/ ResetPending
    \/ \E m \in replies : Route(m)
    \/ \E f \in atServer : Answer(f)
    \/ \E j \in Joins :
          InsertJoin(j) \/ SendJoin(j) \/ JoinReturns(j) \/ JoinTimesOut(j) \/ BroadcastFrame(j) \/ LeaveChannel(j)

RtSpec == RtInit /\ [][RtNext]_rtVars

----------------------------------------------------------------------------
\* A turn whose join returned Ok was let in by the server's answer to that
\* join (realtime.rs:70), as long as no socket has beaten up to the refs the
\* handle started from: from then on the reply to a heartbeat may answer a
\* join that is waiting under the same ref.
JoinAdmitted ==
    longest < JoinBase => \A j \in Joins : joinPc[j] \in {"joined", "sent", "left"} => j \in admitted

\* The pending map holds exactly the joins that still listen: a join that has
\* returned left nothing behind, and no reset of the socket, whatever it runs
\* into, strands one that waits.
PendingListen ==
    /\ \A p \in pendingJoins : joinPc[p[2]] \in {"inserted", "waiting"} /\ joinRef[p[2]] = p[1]
    /\ \A j \in Joins : joinPc[j] = "waiting" /\ joinAck[j] = "none" => <<joinRef[j], j>> \in pendingJoins

JoinsSound == JoinAdmitted /\ PendingListen
=============================================================================
