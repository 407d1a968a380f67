------------------------------ MODULE McpClient ------------------------------
(***************************************************************************)
(* StdioClient: requests of several tasks over the pipes of one MCP        *)
(* server.  A request puts a sender into the pending map under its id,     *)
(* writes its frame and waits for the answer, for its timeout or for the   *)
(* reader task, which ends all that wait when the server's output ends.    *)
(* The server answers what it has read in any order, announces changes of  *)
(* its tools and sends requests of its own.                                *)
(***************************************************************************)
EXTENDS Naturals, Sequences, FiniteSets, SequencesExt

CONSTANTS RpcRequests,   \* each is made once
          RpcExtras,     \* bound: frames the server sends on its own
          NoId

ASSUME RpcAssumption ==
    RpcExtras \in Nat /\ NoId \notin Nat \cup RpcRequests /\ IsFiniteSet(RpcRequests)

VARIABLES rpcPc, rpcId, nextId,     \* requests: where they are, their ids; next_id
          pending,                  \* id -> the request whose sender is there
          toServer, fromServer,     \* frames in the pipes
          server, reader,           \* the process; the task on its output
          answeredBy,               \* the request whose answer a request returned
          toolsChanged, refused, extras

rpcVars == <<rpcPc, rpcId, nextId, pending, toServer, fromServer, server, reader, answeredBy,
             toolsChanged, refused, extras>>

RpcIds == 1..Cardinality(RpcRequests)
RpcEnds == {"answered", "timeout", "closed", "failed"}
\* "of" is the request a frame belongs to, which no frame carries.
Frames == [method : BOOLEAN, id : Nat \cup {NoId}, of : RpcRequests \cup {NoId}]

RpcTypeOK ==
    /\ rpcPc \in [RpcRequests -> {"idle", "write", "wait"} \cup RpcEnds]
    /\ rpcId \in [RpcRequests -> RpcIds \cup {NoId}] /\ nextId \in 1..Cardinality(RpcRequests) + 1
    /\ DOMAIN pending \subseteq RpcIds /\ \A id \in DOMAIN pending : pending[id] \in RpcRequests
    /\ toServer \subseteq Frames /\ \A i \in DOMAIN fromServer : fromServer[i] \in Frames
    /\ server \in {"up", "gone"} /\ reader \in {"reading", "ended"}
    /\ answeredBy \in [RpcRequests -> RpcRequests \cup {NoId}]
    /\ toolsChanged \in BOOLEAN /\ refused \in 0..RpcExtras /\ extras \in 0..RpcExtras

RpcInit ==
    /\ rpcPc = [r \in RpcRequests |-> "idle"] /\ rpcId = [r \in RpcRequests |-> NoId] /\ nextId = 1
    /\ pending = <<>> /\ toServer = {} /\ fromServer = <<>>
    /\ server = "up" /\ reader = "reading"
    /\ answeredBy = [r \in RpcRequests |-> NoId]
    /\ toolsChanged = FALSE /\ refused = 0 /\ extras = 0

With(p, id, r) == [i \in DOMAIN p \cup {id} |-> IF i = id THEN r ELSE p[i]]
Without(p, ids) == [i \in DOMAIN p \ ids |-> p[i]]
RpcAt(r, at) == rpcPc' = [rpcPc EXCEPT ![r] = at]

-----------------------------------------------------------------------------
(* request.                                                                *)

\* Mutant: the id is the number of requests that wait.
TakeId_Reuse(r) == rpcId' = [rpcId EXCEPT ![r] = Cardinality(DOMAIN pending) + 1] /\ UNCHANGED nextId
TakeId(r) == rpcId' = [rpcId EXCEPT ![r] = nextId] /\ nextId' = nextId + 1

Begin(r) ==
    /\ rpcPc[r] = "idle" /\ TakeId(r) /\ RpcAt(r, "write")
    /\ pending' = With(pending, rpcId'[r], r)
    /\ UNCHANGED <<toServer, fromServer, server, reader, answeredBy, toolsChanged, refused, extras>>

WriteOk(r) ==
    /\ rpcPc[r] = "write" /\ server = "up"
    /\ toServer' = toServer \cup {[method |-> TRUE, id |-> rpcId[r], of |-> r]}
    /\ RpcAt(r, "wait")
    /\ UNCHANGED <<rpcId, nextId, pending, fromServer, server, reader, answeredBy, toolsChanged, refused, extras>>

WriteFails(r) ==
    /\ rpcPc[r] = "write" /\ server = "gone"
    /\ pending' = Without(pending, {rpcId[r]}) /\ RpcAt(r, "failed")
    /\ UNCHANGED <<rpcId, nextId, toServer, fromServer, server, reader, answeredBy, toolsChanged, refused,
                   extras>>

TimesOut(r) ==
    /\ rpcPc[r] = "wait"
    /\ pending' = Without(pending, {rpcId[r]}) /\ RpcAt(r, "timeout")
    /\ UNCHANGED <<rpcId, nextId, toServer, fromServer, server, reader, answeredBy, toolsChanged, refused,
                   extras>>

-----------------------------------------------------------------------------
(* The reader task.                                                        *)

\* parse_incoming.
KindOf(frame) ==
    IF frame.method THEN IF frame.id = NoId THEN "notification" ELSE "request"
    ELSE IF frame.id = NoId THEN "malformed" ELSE "response"

\* The sender hands the value over; whoever waits for it returns it.
ReadResponse ==
    /\ LET id == Head(fromServer).id IN
       IF id \in DOMAIN pending
       THEN /\ pending' = Without(pending, {id})
            /\ answeredBy' = [answeredBy EXCEPT ![pending[id]] = Head(fromServer).of]
            /\ RpcAt(pending[id], "answered")
       ELSE UNCHANGED <<pending, answeredBy, rpcPc>>
    /\ UNCHANGED <<toServer, toolsChanged, refused>>

ReadNotification ==
    /\ toolsChanged' = TRUE
    /\ UNCHANGED <<pending, answeredBy, rpcPc, toServer, refused>>

\* No capability was advertised: method not found, if the pipe still takes it.
ReadRequest ==
    /\ refused' = refused + 1
    /\ UNCHANGED <<pending, answeredBy, rpcPc, toServer, toolsChanged>>

ReadFrame ==
    /\ reader = "reading" /\ fromServer # <<>> /\ fromServer' = Tail(fromServer)
    /\ CASE KindOf(Head(fromServer)) = "response"     -> ReadResponse
         [] KindOf(Head(fromServer)) = "notification" -> ReadNotification
         [] KindOf(Head(fromServer)) = "request"      -> ReadRequest
         [] OTHER -> UNCHANGED <<pending, answeredBy, rpcPc, toServer, toolsChanged, refused>>
    /\ UNCHANGED <<rpcId, nextId, server, reader, extras>>

\* The output ended: every request that waits fails now.
ReaderEnds ==
    /\ reader = "reading" /\ fromServer = <<>> /\ server = "gone" /\ reader' = "ended"
    /\ pending' = <<>>
    /\ rpcPc' = [r \in RpcRequests |-> IF rpcPc[r] = "wait" THEN "closed" ELSE rpcPc[r]]
    /\ UNCHANGED <<rpcId, nextId, toServer, fromServer, server, answeredBy, toolsChanged, refused, extras>>

\* take_tools_changed.
TakeToolsChanged ==
    /\ toolsChanged /\ toolsChanged' = FALSE
    /\ UNCHANGED <<rpcPc, rpcId, nextId, pending, toServer, fromServer, server, reader, answeredBy, refused,
                   extras>>

-----------------------------------------------------------------------------
(* The server.                                                             *)

ServerAnswers ==
    /\ server = "up"
    /\ \E frame \in toServer :
          /\ toServer' = toServer \ {frame}
          /\ fromServer' = Append(fromServer, [frame EXCEPT !.method = FALSE])
    /\ UNCHANGED <<rpcPc, rpcId, nextId, pending, server, reader, answeredBy, toolsChanged, refused, extras>>

\* A notification, a request under an id of the server's own counting, or a line that
\* is no frame.
ServerSends ==
    /\ server = "up" /\ extras < RpcExtras /\ extras' = extras + 1
    /\ \E method \in BOOLEAN, id \in {NoId, 1} :
          /\ id # NoId => method
          /\ fromServer' = Append(fromServer, [method |-> method, id |-> id, of |-> NoId])
    /\ UNCHANGED <<rpcPc, rpcId, nextId, pending, toServer, server, reader, answeredBy, toolsChanged, refused>>

\* It exits or is shut down: what it wrote can still be read.
ServerGone ==
    /\ server = "up" /\ server' = "gone" /\ toServer' = {}
    /\ UNCHANGED <<rpcPc, rpcId, nextId, pending, fromServer, reader, answeredBy, toolsChanged, refused, extras>>

-----------------------------------------------------------------------------

RpcNext ==
    \/ \E r \in RpcRequests : Begin(r) \/ WriteOk(r) \/ WriteFails(r) \/ TimesOut(r)
    \/ ReadFrame \/ ReaderEnds \/ TakeToolsChanged \/ ServerAnswers \/ ServerSends \/ ServerGone

RpcSpec == RpcInit /\ [][RpcNext]_rpcVars

-----------------------------------------------------------------------------
(* Properties.                                                             *)

\* A request returns its own answer or none: an answer that comes after the timeout of
\* its request, in whatever order, is dropped and never taken for another's; nor is a
\* request of the server, whose ids come from a counter of its own.
ReplyMatches == \A r \in RpcRequests : rpcPc[r] = "answered" => answeredBy[r] = r

\* The comment at the end of the reader: once it has ended no request is left to burn
\* its timeout, not even one that registered while the server was going down.
NoWaiterStranded == reader = "ended" => \A r \in RpcRequests : rpcPc[r] # "wait"

\* A request on the pipe of an MCP server gets its own answer or an error, and none
\* waits for a reader that has gone.
RequestsAnswered == ReplyMatches /\ NoWaiterStranded
=============================================================================
