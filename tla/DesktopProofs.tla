-------------------------- MODULE DesktopProofs --------------------------
(***************************************************************************)
(* The safety of a desktop coding turn, for any calls, tools, policies and *)
(* bounds: what its sub-agents leave behind in the table of jobs, and what *)
(* may run when.                                                           *)
(***************************************************************************)
EXTENDS Desktop, McpProofs, NaturalsInduction, TLAPS

\* The steps of the turn, of the user and of the sub-agents, by what they touch.
Alone ==
    \/ \E size \in 0..Window : TurnPreflight(size)
    \/ \E updating \in BOOLEAN : TurnRegister(updating)
    \/ Measure \/ Shrink \/ StreamLast \/ TurnNextRound
ACall == TakeCall \/ OriginInvalid \/ GateStopped \/ GateAnswered \/ Execute \/ PushResult

LEMMA TurnSteps ==
  ASSUME [TurnNext]_turnVars
  PROVE  \/ Alone \/ \E calls \in Orders(Fresh) : StreamRound(calls)
         \/ AgentsDone \/ ACall \/ TurnUser
         \/ \E c \in AgentCalls : AgentStep(c) \/ PeerAnswers(c)
         \/ UNCHANGED turnVars
BY DEF TurnNext, TurnStep, Alone, ACall

-----------------------------------------------------------------------------
(* The jobs.                                                               *)

\* A job that somebody may still pick up or has answered belongs to a sub-agent that
\* waits for it or deletes it; sub-agents work between a round and its calls only; and a
\* row that is left behind has cost a lost call.
JobsInv ==
    /\ agent \in [TurnCalls -> {"none", "picking", "round", "relay", "sweep", "local", "done"}]
    /\ job \in [TurnCalls -> {"none", "pending", "answered", "left", "stray"}]
    /\ turnFaults \in Nat
    /\ \A c \in AgentCalls :
          /\ job[c] \in {"pending", "answered"} => agent[c] \in {"relay", "sweep"}
          /\ job[c] \in {"left", "stray"} => turnFaults > 0
          /\ agent[c] \notin {"none", "done"} => turnPc = "agents"

LEMMA InitJobs == TurnInit => JobsInv
BY DEF TurnInit, JobsInv, AgentCalls

LEMMA NextJobs ==
  ASSUME JobsInv, [TurnNext]_turnVars
  PROVE  JobsInv'
<1> USE DEF agents, gating, turnHistory, turnFixed, TurnAt, TurnOver
<1>1. AgentCalls \subseteq TurnCalls /\ AgentCalls' = AgentCalls
  BY DEF AgentCalls, IsAgent
<1>2. CASE Alone
  <2>1. UNCHANGED <<agents, turnFaults>> /\ turnPc # "agents"
    BY <1>2 DEF Alone, TurnPreflight, TurnRegister, Measure, Shrink, StreamLast, TurnNextRound
  <2> QED BY <1>1, <2>1 DEF JobsInv
<1>3. CASE \E calls \in Orders(Fresh) : StreamRound(calls)
  <2>1. PICK calls \in Orders(Fresh) : StreamRound(calls)
    BY <1>3
  <2>2. /\ turnPc = "stream" /\ turnPc' = "agents" /\ UNCHANGED <<job, turnFaults>>
        /\ agent' \in [TurnCalls -> {"none", "picking", "round", "relay", "sweep", "local", "done"}]
    BY <2>1 DEF JobsInv, StreamRound
  <2>3. \A c \in AgentCalls : job[c] \notin {"pending", "answered"}
    BY <2>2 DEF JobsInv
  <2> QED BY <1>1, <2>2, <2>3 DEF JobsInv
<1>4. CASE AgentsDone
  <2>1. UNCHANGED <<agents, turnFaults>> /\ \A c \in AgentCalls : agent[c] \in {"none", "done"}
    BY <1>4 DEF AgentsDone
  <2> QED BY <1>1, <2>1 DEF JobsInv
<1>5. CASE ACall
  <2>1. UNCHANGED <<agents, turnFaults>> /\ turnPc # "agents"
    BY <1>5 DEF ACall, TakeCall, OriginInvalid, GateStopped, GateAnswered, Execute, PushResult
  <2> QED BY <1>1, <2>1 DEF JobsInv
<1>6. CASE TurnUser
  <2>1. UNCHANGED <<agents, turnPc, turnFaults>>
    BY <1>6 DEF TurnUser, TurnStops, TurnDecides
  <2> QED BY <1>1, <2>1 DEF JobsInv
<1>7. CASE \E c \in AgentCalls : AgentStep(c) \/ PeerAnswers(c)
  <2>1. PICK c \in AgentCalls : AgentStep(c) \/ PeerAnswers(c)
    BY <1>7
  <2> USE DEF SetAgent, turnRest, TurnFault
  <2>2. CASE AgentRefused(c) \/ AgentPicks(c) \/ AgentLocal(c) \/ AgentAwaits(c)
    <3>1. PICK at \in {"done", "round", "local", "sweep"} :
             /\ agent' = [agent EXCEPT ![c] = at] /\ UNCHANGED <<job, turnPc, turnFaults>>
             /\ agent[c] \in {"picking", "local", "relay"}
             /\ agent[c] = "relay" => at = "sweep"
      BY <2>2 DEF AgentRefused, AgentPicks, AgentLocal, AgentAwaits, PoolPicks
    <3> QED BY <1>1, <3>1 DEF JobsInv
  <2>3. CASE AgentAsks(c)
    BY <1>1, <2>3 DEF JobsInv, AgentAsks
  <2>4. CASE AgentSweeps(c)
    BY <1>1, <2>4 DEF JobsInv, AgentSweeps
  <2>5. CASE PeerAnswers(c)
    BY <1>1, <2>5 DEF JobsInv, PeerAnswers
  <2> QED BY <2>1, <2>2, <2>3, <2>4, <2>5 DEF AgentStep
<1>8. CASE UNCHANGED turnVars
  BY <1>1, <1>8 DEF JobsInv, turnVars
<1> QED BY <1>2, <1>3, <1>4, <1>5, <1>6, <1>7, <1>8, TurnSteps

\* When a coding turn goes on after its sub-agents, none of them is at work and none of
\* the jobs they put into the table is left there, whatever stopped, timed out, vanished
\* or was answered late (relay_inference.rs), but for those a lost call left behind.
THEOREM JobsAreSwept == TurnSpec => []JobsSwept
<1>1. JobsInv => JobsSwept
  BY DEF JobsInv, JobsSwept, AgentCalls
<1> QED BY <1>1, InitJobs, NextJobs, PTL DEF TurnSpec

-----------------------------------------------------------------------------
(* The gates.                                                              *)

InHand == {"authorize", "gate", "exec", "result"}

GateInv ==
    /\ queue \in Seq(TurnCalls) /\ gate \in [TurnCalls -> {"none", "open", "approved", "denied"}]
    /\ turnPolicy \in Policies /\ origin \in BOOLEAN
    /\ turnRan \subseteq TurnCalls
    /\ turnPc \in InHand => queue # <<>>
    /\ \A c \in TurnCalls : gate[c] = "approved" => c \in turnGranted
    /\ turnPc = "gate" => (TurnTool[Head(queue)] = "web_preview_open" => origin)
    /\ turnPc = "exec" =>
          /\ NeedsApproval(turnPolicy, TurnTool[Head(queue)]) => Head(queue) \in turnGranted
          /\ TurnTool[Head(queue)] = "web_preview_open" => origin
    /\ TurnChangesApproved

LEMMA InitGate == TurnInit => GateInv
<1> SUFFICES ASSUME TurnInit PROVE GateInv
  OBVIOUS
<1>1. turnPolicy \in Policies
  BY CodingTurnAssumption DEF TurnInit
<1>2. queue \in Seq(TurnCalls) /\ turnRan = {} /\ turnPc = "start" /\ origin = FALSE
  BY DEF TurnInit
<1>3. gate = [c \in TurnCalls |-> "none"]
  BY DEF TurnInit
<1> QED BY <1>1, <1>2, <1>3 DEF GateInv, TurnChangesApproved, InHand

\* A step that neither takes a call in hand nor runs one.
LEMMA GateStays ==
  ASSUME GateInv, queue' \in Seq(TurnCalls), turnPc' \notin InHand,
         UNCHANGED <<turnPolicy, gate, origin, turnRan, turnGranted>>
  PROVE  GateInv'
BY DEF GateInv, TurnChangesApproved, InHand

LEMMA NextGate ==
  ASSUME GateInv, [TurnNext]_turnVars
  PROVE  GateInv'
<1> USE DEF agents, gating, turnHistory, turnFixed, TurnAt, TurnOver
<1> DEFINE c == Head(queue)
<1>1. queue # <<>> => c \in TurnCalls
  BY DEF GateInv
<1>2. CASE Alone
  <2>1. /\ UNCHANGED <<queue, turnPolicy, gate, origin, turnRan, turnGranted>>
        /\ turnPc' \notin InHand
    BY <1>2 DEF Alone, TurnPreflight, TurnRegister, Measure, Shrink, StreamLast, TurnNextRound, InHand
  <2> QED BY <2>1, GateStays DEF GateInv
<1>3. CASE \E calls \in Orders(Fresh) : StreamRound(calls)
  <2>1. PICK calls \in Orders(Fresh) : StreamRound(calls)
    BY <1>3
  <2>2. calls \in Seq(TurnCalls)
    BY DEF Orders, Fresh
  <2>3. queue' = calls /\ turnPc' = "agents" /\ UNCHANGED <<turnPolicy, gate, origin, turnRan, turnGranted>>
    BY <2>1 DEF StreamRound
  <2> QED BY <2>2, <2>3, GateStays DEF InHand
<1>4. CASE AgentsDone
  BY <1>4, GateStays DEF AgentsDone, GateInv, InHand
<1>5. CASE TakeCall
  <2>1. /\ turnPc = "calls" /\ queue # <<>> /\ turnPc' \in InHand
        /\ gate' \in {gate, [gate EXCEPT ![c] = "open"]}
        /\ UNCHANGED <<queue, turnPolicy, origin, turnRan, turnGranted>>
    BY <1>5 DEF TakeCall, InHand
  <2>2. turnPc' = CASE IsAgent(c) \/ TurnTool[c] = "invented" -> "result"
                    [] NeedsOrigin(c) -> "authorize"
                    [] NeedsApproval(turnPolicy, TurnTool[c]) -> "gate"
                    [] OTHER -> "exec"
    BY <1>5 DEF TakeCall
  <2>3. turnPc' = "gate" => TurnTool[c] # "web_preview_open"
    BY <2>2 DEF NeedsApproval, Mutating, BuiltinMutating, WriteTools, McpTools
  <2>4. turnPc' = "exec" => ~NeedsOrigin(c) /\ ~NeedsApproval(turnPolicy, TurnTool[c])
    BY <2>2
  <2>5. turnPc' \in {"gate", "exec"} => (TurnTool[c] = "web_preview_open" => origin)
    BY <2>3, <2>4 DEF NeedsOrigin
  <2> QED BY <1>1, <2>1, <2>4, <2>5 DEF GateInv, TurnChangesApproved, InHand
<1>6. CASE OriginInvalid \/ GateStopped
  <2>1. /\ queue # <<>> /\ turnPc' = "result"
        /\ gate' \in {gate, [gate EXCEPT ![c] = "none"]}
        /\ UNCHANGED <<queue, turnPolicy, origin, turnRan, turnGranted>>
    BY <1>6 DEF OriginInvalid, GateStopped, GateInv, InHand
  <2> QED BY <1>1, <2>1 DEF GateInv, TurnChangesApproved, InHand
<1>7. CASE GateAnswered
  <2>1. /\ turnPc \in {"authorize", "gate"} /\ queue # <<>> /\ c \in TurnCalls
        /\ gate' = [gate EXCEPT ![c] = "none"]
        /\ origin' = (origin \/ (gate[c] = "approved" /\ turnPc = "authorize"))
        /\ turnPc' = IF gate[c] = "approved" THEN "exec" ELSE "result"
        /\ UNCHANGED <<queue, turnPolicy, turnRan, turnGranted>>
    BY <1>1, <1>7 DEF GateAnswered, GateInv, InHand
  <2>2. turnPc' = "exec" => c \in turnGranted /\ (TurnTool[c] = "web_preview_open" => origin')
    BY <2>1 DEF GateInv
  <2>3. TurnChangesApproved' /\ origin' \in BOOLEAN
    BY <2>1 DEF GateInv, TurnChangesApproved
  <2> QED BY <2>1, <2>2, <2>3 DEF GateInv, InHand
<1>8. CASE Execute
  <2>1. /\ turnPc = "exec" /\ c \in TurnCalls /\ turnPc' = "result" /\ queue # <<>>
        /\ turnRan' = IF Refused(turnPolicy, TurnTool[c]) THEN turnRan ELSE turnRan \cup {c}
        /\ UNCHANGED <<queue, turnPolicy, gate, origin, turnGranted>>
    BY <1>1, <1>8 DEF Execute, GateInv, InHand
  <2>2. ASSUME ~Refused(turnPolicy, TurnTool[c]), Mutating(TurnTool[c])
        PROVE  turnPolicy = "auto" \/ (turnPolicy = "approve_writes" /\ c \in turnGranted)
    BY <2>1, <2>2 DEF GateInv, Refused, AllowsMutations, NeedsApproval, GatesMutations, Policies
  <2>3. TurnTool[c] = "web_preview_open" => origin
    BY <2>1 DEF GateInv
  <2>4. TurnChangesApproved'
    BY <2>1, <2>2, <2>3 DEF GateInv, TurnChangesApproved
  <2> QED BY <2>1, <2>4 DEF GateInv, InHand
<1>9. CASE PushResult
  <2>1. /\ queue' = Tail(queue) /\ turnPc' = "calls" /\ queue # <<>>
        /\ UNCHANGED <<turnPolicy, gate, origin, turnRan, turnGranted>>
    BY <1>9 DEF PushResult, GateInv, InHand
  <2>2. queue' \in Seq(TurnCalls)
    BY <2>1 DEF GateInv
  <2> QED BY <2>1, <2>2, GateStays DEF InHand
<1>10. CASE TurnUser
  <2>1. /\ UNCHANGED <<queue, turnPc, turnPolicy, origin, turnRan>> /\ turnGranted \subseteq turnGranted'
        /\ gate' \in [TurnCalls -> {"none", "open", "approved", "denied"}]
        /\ \A d \in TurnCalls : gate'[d] = "approved" => d \in turnGranted'
    BY <1>10 DEF TurnUser, TurnStops, TurnDecides, GateInv
  <2> QED BY <2>1 DEF GateInv, TurnChangesApproved
<1>11. CASE \E d \in AgentCalls : AgentStep(d) \/ PeerAnswers(d)
  <2>1. UNCHANGED <<queue, turnPc, turnPolicy, gate, origin, turnRan, turnGranted>>
    BY <1>11 DEF AgentStep, AgentRefused, AgentPicks, AgentAsks, AgentAwaits, AgentSweeps, AgentLocal,
                 PeerAnswers, turnRest
  <2> QED BY <2>1 DEF GateInv, TurnChangesApproved
<1>12. CASE UNCHANGED turnVars
  BY <1>12 DEF turnVars, GateInv, TurnChangesApproved
<1> QED
  BY <1>2, <1>3, <1>4, <1>5, <1>6, <1>7, <1>8, <1>9, <1>10, <1>11, <1>12, TurnSteps DEF ACall

\* What changes the workspace ran after the user approved that very call or under
\* "auto", and a page is opened in the preview only once its origin was allowed, also
\* when a stop and the user's answer cross (local_coding.rs).
THEOREM TurnChangesAreApproved == TurnSpec => []TurnChangesApproved
<1>1. GateInv => TurnChangesApproved
  BY DEF GateInv
<1> QED BY <1>1, InitGate, NextGate, PTL DEF TurnSpec

-----------------------------------------------------------------------------
(* The rounds and the window.                                              *)

AtCalls == {"agents", "calls"} \cup InHand

\* Results are pushed one by one, so what a round may still add is its queue; and only
\* the end has used up the rounds.
RoomInv ==
    /\ turnPc \in {"start", "register", "measure", "stream", "ended"} \cup AtCalls
    /\ autoCompact \in BOOLEAN /\ turnFlag \in {"none", "clear", "set"}
    /\ turnRound \in 0..TurnRounds /\ (turnPc # "ended" => turnRound < TurnRounds)
    /\ Len(queue) <= TurnBatch /\ answered \subseteq TurnCalls
    /\ used \in 0..(Window + TurnBatch)
    /\ turnPc \in AtCalls => used + Len(queue) <= Window + TurnBatch
    /\ TurnAskFits
    /\ turnGranted \subseteq TurnCalls /\ turnFaults \in 0..TurnFaults

LEMMA InitRoom == TurnInit => RoomInv
BY CodingTurnAssumption DEF TurnInit, RoomInv, TurnAskFits, AtCalls, InHand

LEMMA OrdersBounded ==
  ASSUME GateInv, NEW calls \in Orders(Fresh)
  PROVE  calls \in Seq(TurnCalls) /\ Len(calls) <= TurnBatch
BY CodingTurnAssumption DEF Orders, Fresh

LEMMA NextRoom ==
  ASSUME GateInv, RoomInv, [TurnNext]_turnVars
  PROVE  RoomInv'
<1> USE CodingTurnAssumption DEF agents, gating, turnHistory, turnFixed, TurnAt, TurnOver
<1>0. queue \in Seq(TurnCalls) /\ Len(queue) \in Nat /\ (queue # <<>> => Head(queue) \in TurnCalls)
  BY DEF GateInv
<1>1. ASSUME NEW size \in 0..Window, TurnPreflight(size)
      PROVE  RoomInv'
  BY <1>0, <1>1 DEF TurnPreflight, RoomInv, TurnAskFits, AtCalls, InHand
<1>2. ASSUME NEW updating \in BOOLEAN, TurnRegister(updating)
      PROVE  RoomInv'
  BY <1>0, <1>2 DEF TurnRegister, RoomInv, TurnAskFits, AtCalls, InHand
<1>3. CASE Measure
  BY <1>0, <1>3 DEF Measure, RoomInv, TurnAskFits, AtCalls, InHand
<1>4. CASE Shrink
  BY <1>0, <1>4 DEF Shrink, RoomInv, TurnAskFits, AtCalls, InHand
<1>5. CASE StreamLast
  BY <1>0, <1>5 DEF StreamLast, RoomInv, TurnAskFits, AtCalls, InHand
<1>6. CASE TurnNextRound
  BY <1>0, <1>6 DEF TurnNextRound, RoomInv, TurnAskFits, AtCalls, InHand
<1>7. ASSUME NEW calls \in Orders(Fresh), StreamRound(calls)
      PROVE  RoomInv'
  <2>1. Len(calls) <= TurnBatch /\ Len(calls) \in Nat
    BY OrdersBounded
  <2>2. /\ turnPc = "stream" /\ queue' = calls /\ turnPc' = "agents"
        /\ UNCHANGED <<autoCompact, turnRound, answered, turnFlag, used, turnGranted, turnFaults>>
    BY <1>7 DEF StreamRound
  <2> QED BY <2>1, <2>2 DEF RoomInv, TurnAskFits, AtCalls, InHand
<1>8. CASE AgentsDone
  BY <1>0, <1>8 DEF AgentsDone, RoomInv, TurnAskFits, AtCalls, InHand
<1>9. CASE TakeCall \/ OriginInvalid \/ GateStopped \/ GateAnswered \/ Execute
  <2>1. /\ turnPc \in AtCalls /\ turnPc' \in InHand
        /\ UNCHANGED <<autoCompact, turnRound, queue, answered, turnFlag, used, turnGranted, turnFaults>>
    BY <1>9 DEF TakeCall, OriginInvalid, GateStopped, GateAnswered, Execute, AtCalls, InHand
  <2> QED BY <1>0, <2>1 DEF RoomInv, TurnAskFits, AtCalls, InHand
<1>10. CASE PushResult
  <2>1. queue # <<>> /\ turnPc = "result"
    BY <1>10 DEF PushResult, GateInv, InHand
  <2>2. Len(queue') = Len(queue) - 1 /\ Len(queue) > 0
    BY <1>0, <1>10, <2>1 DEF PushResult
  <2>3. PICK size \in 0..1 : used' = used + size
    BY <1>10 DEF PushResult
  <2> QED BY <1>0, <1>10, <2>1, <2>2, <2>3 DEF PushResult, RoomInv, TurnAskFits, AtCalls, InHand
<1>11. CASE TurnUser
  <2>1. /\ UNCHANGED <<autoCompact, turnPc, turnRound, queue, answered, used, turnFaults>>
        /\ turnFlag' \in {"none", "clear", "set"} /\ turnGranted' \subseteq TurnCalls
    BY <1>11 DEF TurnUser, TurnStops, TurnDecides, RoomInv
  <2> QED BY <2>1 DEF RoomInv, TurnAskFits
<1>12. CASE \E c \in AgentCalls : AgentStep(c) \/ PeerAnswers(c)
  <2>1. /\ UNCHANGED <<autoCompact, turnPc, turnRound, queue, answered, turnFlag, used, turnGranted>>
        /\ turnFaults' \in 0..TurnFaults
    BY <1>12 DEF AgentStep, AgentRefused, AgentPicks, AgentAsks, AgentAwaits, AgentSweeps, AgentLocal,
                 PeerAnswers, turnRest, TurnFault, RoomInv
  <2> QED BY <2>1 DEF RoomInv, TurnAskFits
<1>13. CASE UNCHANGED turnVars
  BY <1>13 DEF turnVars, RoomInv, TurnAskFits
<1> QED
  BY <1>1, <1>2, <1>3, <1>4, <1>5, <1>6, <1>7, <1>8, <1>9, <1>10, <1>11, <1>12, <1>13, TurnSteps DEF Alone, ACall

\* The invariant of a coding turn.
TurnInv == JobsInv /\ GateInv /\ RoomInv

LEMMA TurnInvariant == TurnSpec => []TurnInv
<1>1. TurnInit => TurnInv
  BY InitJobs, InitGate, InitRoom DEF TurnInv
<1>2. TurnInv /\ [TurnNext]_turnVars => TurnInv'
  BY NextJobs, NextGate, NextRoom DEF TurnInv
<1> QED BY <1>1, <1>2, PTL DEF TurnSpec

LEMMA TurnInvImplies == TurnInv => TurnTypeOK /\ TurnAskFits /\ TurnChangesApproved /\ JobsSwept
<1> SUFFICES ASSUME TurnInv PROVE TurnTypeOK /\ TurnAskFits /\ TurnChangesApproved /\ JobsSwept
  OBVIOUS
<1>1. TurnTypeOK
  BY DEF TurnInv, JobsInv, GateInv, RoomInv, TurnTypeOK, AtCalls, InHand
<1> QED BY <1>1 DEF TurnInv, JobsInv, GateInv, RoomInv, JobsSwept, AgentCalls

-----------------------------------------------------------------------------
(* The chat turn.                                                          *)

InRound == {"calls", "call", "write"}

\* A call in hand heads the queue; what a round may still add is its queue; and the
\* history of the trust mark is right from the moment a call is taken.
ChatInv ==
    /\ chatPc \in {"start", "tools", "register", "measure", "stream", "ended"} \cup InRound
    /\ chatAuto \in BOOLEAN /\ chatFlag \in {"none", "clear", "set"}
    /\ pendingCalls \in Seq(ChatKinds) /\ Len(pendingCalls) <= ChatBatch
    /\ chatPc \in {"call", "write"} => pendingCalls # <<>>
    /\ chatUsed \in 0..(ChatWindow + ChatBatch)
    /\ chatPc \in InRound => chatUsed + Len(pendingCalls) <= ChatWindow + ChatBatch
    /\ ChatAskFits
    /\ executed \in 0..ChatLimit /\ synthesisOnly \in BOOLEAN

TrustInv ==
    /\ offeredWrites \in BOOLEAN /\ trusted \in BOOLEAN /\ vouched \in BOOLEAN /\ rogue = FALSE
    /\ (chatPc \in {"call", "write"} /\ trusted) => vouched
    /\ chatPc = "write" => vouched

LEMMA InitChat == ChatInit => ChatInv /\ TrustInv
<1> SUFFICES ASSUME ChatInit PROVE ChatInv /\ TrustInv
  OBVIOUS
<1>1. pendingCalls = <<>> /\ pendingCalls \in Seq(ChatKinds) /\ Len(pendingCalls) = 0
  BY DEF ChatInit
<1>2. chatPc = "start" /\ chatFlag = "none" /\ chatUsed = 0 /\ executed = 0
  BY DEF ChatInit
<1>3. chatAuto \in BOOLEAN /\ synthesisOnly \in BOOLEAN
  BY DEF ChatInit
<1>4. ChatInv
  BY <1>1, <1>2, <1>3, LocalChatAssumption DEF ChatInv, ChatAskFits, InRound
<1> QED BY <1>4 DEF ChatInit, TrustInv

\* A request's calls are a sequence of at most ChatBatch of them.
LEMMA CallsBounded ==
  ASSUME NEW calls \in UNION {[1..n -> ChatKinds] : n \in 1..ChatBatch}
  PROVE  calls \in Seq(ChatKinds) /\ Len(calls) <= ChatBatch /\ Len(calls) \in Nat
BY LocalChatAssumption

\* A result is pushed.
LEMMA ResultRoom ==
  ASSUME ChatInv, chatPc \in {"call", "write"}, CallResult
  PROVE  /\ pendingCalls' \in Seq(ChatKinds) /\ Len(pendingCalls') <= ChatBatch /\ chatPc' = "calls"
         /\ chatUsed' + Len(pendingCalls') <= ChatWindow + ChatBatch
         /\ chatUsed' \in 0..(ChatWindow + ChatBatch)
<1> USE LocalChatAssumption
<1>1. pendingCalls # <<>> /\ pendingCalls \in Seq(ChatKinds) /\ pendingCalls' = Tail(pendingCalls)
  BY DEF ChatInv, CallResult
<1>2. Len(pendingCalls') = Len(pendingCalls) - 1 /\ Len(pendingCalls) \in Nat /\ Len(pendingCalls) > 0
  BY <1>1
<1>3. PICK size \in 0..1 : chatUsed' = chatUsed + size
  BY DEF CallResult
<1> QED BY <1>1, <1>2, <1>3 DEF CallResult, ChatAt, ChatInv, InRound

LEMMA NextChat ==
  ASSUME ChatInv, [ChatNext]_chatVars
  PROVE  ChatInv'
<1> USE LocalChatAssumption DEF ChatAt, ChatOver, ChatFits, chatBudget, chatTrust
<1>0. pendingCalls \in Seq(ChatKinds) /\ Len(pendingCalls) \in Nat
  BY DEF ChatInv
<1>1. ASSUME NEW size \in 0..ChatWindow, ChatPreflight(size)
      PROVE  ChatInv'
  BY <1>0, <1>1 DEF ChatPreflight, ChatInv, ChatAskFits, InRound
<1>2. CASE ChatTools
  BY <1>0, <1>2 DEF ChatTools, ChatInv, ChatAskFits, InRound
<1>3. ASSUME NEW updating \in BOOLEAN, ChatRegister(updating)
      PROVE  ChatInv'
  BY <1>0, <1>3 DEF ChatRegister, ChatInv, ChatAskFits, InRound
<1>4. CASE ChatMeasure
  BY <1>0, <1>4 DEF ChatMeasure, ChatInv, ChatAskFits, InRound
<1>5. CASE ChatShrink
  BY <1>0, <1>5 DEF ChatShrink, ChatInv, ChatAskFits, InRound
<1>6. CASE ChatAnswers
  BY <1>0, <1>6 DEF ChatAnswers, ChatInv, ChatAskFits, InRound
<1>7. ASSUME NEW calls \in UNION {[1..n -> ChatKinds] : n \in 1..ChatBatch}, ChatCalls(calls)
      PROVE  ChatInv'
  <2>1. /\ chatPc = "stream" /\ pendingCalls' = calls /\ chatPc' = "calls" /\ calls # <<>>
        /\ UNCHANGED <<chatAuto, chatFlag, chatUsed, executed, synthesisOnly>>
    BY <1>7 DEF ChatCalls
  <2> QED BY <2>1, CallsBounded DEF ChatInv, ChatAskFits, InRound
<1>8. CASE SkipCall
  <2>1. pendingCalls' \in Seq(ChatKinds) /\ Len(pendingCalls') = Len(pendingCalls) - 1 /\ Len(pendingCalls) > 0
    BY <1>0, <1>8 DEF SkipCall
  <2> QED BY <1>0, <1>8, <2>1 DEF SkipCall, ChatInv, ChatAskFits, InRound
<1>9. CASE CountCall
  BY <1>0, <1>9 DEF CountCall, ChatInv, ChatAskFits, InRound
<1>10. CASE CheckTrust
  <2>1. CASE MayWrite
    BY <1>0, <1>10, <2>1 DEF CheckTrust, ChatInv, ChatAskFits, InRound
  <2>2. CASE ~MayWrite
    <3>1. chatPc = "call" /\ CallResult /\ UNCHANGED <<chatAuto, chatFlag, executed, synthesisOnly>>
      BY <1>10, <2>2 DEF CheckTrust
    <3> QED BY <3>1, ResultRoom DEF ChatInv, ChatAskFits, InRound
  <2> QED BY <2>1, <2>2
<1>11. CASE RunCall
  <2>1. chatPc \in {"call", "write"} /\ CallResult /\ UNCHANGED <<chatAuto, chatFlag, executed, synthesisOnly>>
    BY <1>11 DEF RunCall
  <2> QED BY <2>1, ResultRoom DEF ChatInv, ChatAskFits, InRound
<1>12. CASE ChatLap
  BY <1>0, <1>12 DEF ChatLap, ChatInv, ChatAskFits, InRound
<1>13. CASE ChatUser
  <2>1. /\ UNCHANGED <<chatAuto, chatPc, chatUsed, chatBudget>> /\ chatFlag' \in {"none", "clear", "set"}
    BY <1>13 DEF ChatUser, ChatStops, SetTrust, ChatInv
  <2> QED BY <2>1 DEF ChatInv, ChatAskFits
<1>14. CASE UNCHANGED chatVars
  BY <1>14 DEF chatVars, ChatInv, ChatAskFits
<1> QED
  BY <1>1, <1>2, <1>3, <1>4, <1>5, <1>6, <1>7, <1>8, <1>9, <1>10, <1>11, <1>12, <1>13, <1>14
  DEF ChatNext, ChatStep

LEMMA NextTrust ==
  ASSUME TrustInv, [ChatNext]_chatVars
  PROVE  TrustInv'
<1> USE DEF ChatAt, ChatOver, chatBudget, chatTrust
<1>1. ASSUME UNCHANGED <<trusted, vouched, rogue>>, offeredWrites' \in BOOLEAN, chatPc' \notin {"call", "write"}
      PROVE  TrustInv'
  BY <1>1 DEF TrustInv
<1>2. ASSUME NEW size \in 0..ChatWindow, ChatPreflight(size)
      PROVE  TrustInv'
  BY <1>1, <1>2 DEF ChatPreflight, TrustInv
<1>3. CASE ChatTools
  BY <1>1, <1>3 DEF ChatTools, TrustInv
<1>4. ASSUME NEW updating \in BOOLEAN, ChatRegister(updating)
      PROVE  TrustInv'
  BY <1>1, <1>4 DEF ChatRegister, TrustInv
<1>5. CASE ChatMeasure \/ ChatShrink \/ ChatAnswers \/ SkipCall \/ ChatLap
  BY <1>1, <1>5 DEF ChatMeasure, ChatShrink, ChatAnswers, SkipCall, ChatLap, TrustInv
<1>6. ASSUME NEW calls, ChatCalls(calls)
      PROVE  TrustInv'
  BY <1>1, <1>6 DEF ChatCalls, TrustInv
<1>7. CASE CountCall
  BY <1>7 DEF CountCall, TrustInv
<1>8. CASE CheckTrust
  <2>1. chatPc = "call" /\ UNCHANGED chatTrust /\ (chatPc' = "write" => trusted) /\ chatPc' \in {"calls", "write"}
    BY <1>8 DEF CheckTrust, MayWrite, CallResult
  <2> QED BY <2>1 DEF TrustInv
<1>9. CASE RunCall
  <2>1. /\ chatPc' = "calls" /\ UNCHANGED <<offeredWrites, trusted, vouched>>
        /\ rogue' = rogue \/ (chatPc = "write" /\ rogue' = (rogue \/ ~vouched))
    BY <1>9 DEF RunCall, CallResult
  <2> QED BY <2>1 DEF TrustInv
<1>10. CASE ChatStops
  BY <1>10 DEF ChatStops, TrustInv
<1>11. ASSUME NEW mark \in BOOLEAN, SetTrust(mark)
       PROVE  TrustInv'
  BY <1>11 DEF SetTrust, TrustInv
<1>12. CASE UNCHANGED chatVars
  BY <1>12 DEF chatVars, TrustInv
<1> QED
  BY <1>2, <1>3, <1>4, <1>5, <1>6, <1>7, <1>8, <1>9, <1>10, <1>11, <1>12 DEF ChatNext, ChatStep, ChatUser

LEMMA ChatInvariant == ChatSpec => [](ChatInv /\ TrustInv)
BY InitChat, NextChat, NextTrust, PTL DEF ChatSpec

LEMMA ChatInvImplies == ChatInv /\ TrustInv => ChatTypeOK /\ ChatAskFits /\ TrustedWrites
BY DEF ChatInv, TrustInv, ChatTypeOK, TrustedWrites, InRound

-----------------------------------------------------------------------------
(* The session's file.                                                     *)

\* A non-empty set of numbers up to N has a largest one: N - m is smallest for it.
LEMMA Largest ==
  ASSUME NEW N \in Nat, NEW T \in SUBSET (0..N), T # {}
  PROVE  \E m \in T : \A n \in T : n <= m
<1> DEFINE R == OpToRel(<, Nat)
           U == {N - m : m \in T}
<1>1. IsWellFoundedOn(R, Nat)
  BY NatLessThanWellFounded
<1>2. U \subseteq Nat /\ U # {}
  <2>1. \A m \in T : N - m \in Nat
    OBVIOUS
  <2>2. PICK m \in T : TRUE
    OBVIOUS
  <2>3. N - m \in U
    OBVIOUS
  <2> QED BY <2>1, <2>3
<1>3. \E x \in U : \A y \in U : ~(<<y, x>> \in R)
  <2> HIDE DEF R, U
  <2> QED BY <1>1, <1>2, WFMin
<1>4. \A x, y \in Nat : <<y, x>> \in R <=> y < x
  BY DEF OpToRel
<1>5. PICK m \in T : \A n \in T : ~(N - n < N - m)
  BY <1>2, <1>3, <1>4
<1> QED BY <1>5

Count(S, pc, p) == Cardinality({t \in S : pc[t] = p})

SyncPlaces == {"idle", "turn", "summary", "push", "remote", "unmirror", "rows", "ended"}

LEMMA CountType ==
  ASSUME NEW S, IsFiniteSet(S), NEW pc, NEW p
  PROVE  Count(S, pc, p) \in Nat /\ Count(S, pc, p) <= Cardinality(S)
<1>1. {t \in S : pc[t] = p} \in SUBSET S
  OBVIOUS
<1> QED BY <1>1, FS_Subset, FS_CardinalityType DEF Count

\* A task that leaves a place, and one that comes to it.
OneMoves(pc, next, t, at) == next[t] = at /\ \A q \in Editors : q # t => next[q] = pc[q]

LEMMA CountLeaves ==
  ASSUME NEW S \in SUBSET Editors, IsFiniteSet(S), NEW pc, NEW next,
         NEW t, NEW at, NEW p, at # p, OneMoves(pc, next, t, at)
  PROVE  Count(S, next, p) = IF t \in S /\ pc[t] = p THEN Count(S, pc, p) - 1 ELSE Count(S, pc, p)
<1> DEFINE A == {q \in S : pc[q] = p}
<1>1. {q \in S : next[q] = p} = A \ {t}
  BY DEF OneMoves
<1>2. IsFiniteSet(A)
  BY FS_Subset
<1> HIDE DEF A
<1>3. Cardinality(A \ {t}) = IF t \in A THEN Cardinality(A) - 1 ELSE Cardinality(A)
  BY <1>2, FS_RemoveElement
<1> QED BY <1>1, <1>3 DEF A, Count

LEMMA CountComes ==
  ASSUME NEW S \in SUBSET Editors, IsFiniteSet(S), NEW pc, NEW next,
         NEW t, NEW p, pc[t] # p, OneMoves(pc, next, t, p)
  PROVE  Count(S, next, p) = IF t \in S THEN Count(S, pc, p) + 1 ELSE Count(S, pc, p)
<1> DEFINE A == {q \in S : pc[q] = p}
<1>1. {q \in S : next[q] = p} = IF t \in S THEN A \cup {t} ELSE A
  BY DEF OneMoves
<1>2. IsFiniteSet(A) /\ t \notin A
  BY FS_Subset
<1> HIDE DEF A
<1>3. Cardinality(A \cup {t}) = Cardinality(A) + 1
  BY <1>2, FS_AddElement
<1> QED BY <1>1, <1>3 DEF A, Count

\* Messages that may still be numbered.
Owed(pc) == 2 * Count(Sends, pc, "idle") + Count(Sends, pc, "turn") + 2 * Count(WebTurns, pc, "idle")

\* A copy is of the session, or of the mirror's rows for a web turn; a compaction's has
\* something to summarize.
CopyFits(t, at, kept) ==
    /\ at = "turn" => (t \in Sends /\ kept \in Session) \/ t \in WebTurns
    /\ at = "summary" => t \in Compactions /\ kept \in Session /\ Unsummarized(kept) # {}
    /\ at \in {"push", "remote"} => t \notin WebTurns /\ kept \in Session
    /\ at = "rows" => t \in WebTurns /\ kept \in Mirror
CopiesInv == \A t \in Editors : CopyFits(t, syncPc[t], copy[t])

SessionsInv ==
    /\ SessionsTypeOK
    /\ CopiesInv
    /\ stamp + Owed(syncPc) <= MaxMsgs

LEMMA MaxMsgsNat == MaxMsgs \in Nat
BY SessionsAssumption, FS_CardinalityType DEF MaxMsgs

LEMMA OwedNat ==
  ASSUME NEW pc
  PROVE  Owed(pc) \in Nat
<1>1. /\ Count(Sends, pc, "idle") \in Nat /\ Count(Sends, pc, "turn") \in Nat
      /\ Count(WebTurns, pc, "idle") \in Nat
  BY SessionsAssumption, CountType
<1> QED BY <1>1 DEF Owed

LEMMA InitSessions == SessionsInit => SessionsInv
<1> SUFFICES ASSUME NEW T \in SUBSET Editors, SessionsStart(T) PROVE SessionsInv
  BY DEF SessionsInit
<1> USE MaxMsgsNat, SessionsAssumption
<1>1. PICK synced \in BOOLEAN :
          /\ file = [msgs |-> {}, policy |-> "plan", mcp |-> FALSE, through |-> 0, remote |-> synced]
          /\ mirror = IF synced THEN [msgs |-> {}, policy |-> "plan"] ELSE NoSession
  BY DEF SessionsStart
<1>2. file \in Session /\ mirror \in Mirror \cup {NoSession}
  BY <1>1 DEF Session, Mirror
<1>3. syncPc = [t \in Editors |-> IF t \in T THEN "idle" ELSE "ended"] /\ copy = [t \in Editors |-> NoSession]
  BY DEF SessionsStart
<1>4. SessionsTypeOK
  BY <1>2, <1>3 DEF SessionsStart, SessionsTypeOK
<1>5. CopiesInv
  BY <1>3 DEF CopiesInv, CopyFits
<1>6. Count(Sends, syncPc, "turn") = 0
  <2>1. {t \in Sends : syncPc[t] = "turn"} = {}
    BY <1>3 DEF Editors
  <2> QED BY <2>1, FS_EmptySet DEF Count
<1>7. /\ Count(Sends, syncPc, "idle") <= Cardinality(Sends) /\ Count(Sends, syncPc, "idle") \in Nat
      /\ Count(WebTurns, syncPc, "idle") <= Cardinality(WebTurns) /\ Count(WebTurns, syncPc, "idle") \in Nat
      /\ Cardinality(Sends) \in Nat /\ Cardinality(WebTurns) \in Nat
  BY CountType, FS_CardinalityType
<1>8. stamp = 0
  BY DEF SessionsStart
<1>9. stamp + Owed(syncPc) <= MaxMsgs
  BY <1>6, <1>7, <1>8 DEF Owed, MaxMsgs
<1> QED BY <1>4, <1>5, <1>9 DEF SessionsInv

\* What a move of one task does to what is owed.
LEMMA OwedMoves ==
  ASSUME SessionsTypeOK, NEW t \in Editors, NEW at \in SyncPlaces, SyncAt(t, at), at # "idle"
  PROVE  /\ (at = "turn" => t \notin Sends) => Owed(syncPc') <= Owed(syncPc)
         /\ (syncPc[t] = "idle" /\ at = "turn" /\ t \in Sends) => Owed(syncPc') = Owed(syncPc) - 1
         /\ (syncPc[t] = "idle" /\ at = "turn" /\ t \in WebTurns) => Owed(syncPc') = Owed(syncPc) - 2
         /\ (syncPc[t] = "turn" /\ at # "turn" /\ t \in Sends) => Owed(syncPc') = Owed(syncPc) - 1
<1>1. /\ Sends \in SUBSET Editors /\ WebTurns \in SUBSET Editors /\ syncPc \in [Editors -> SyncPlaces]
      /\ IsFiniteSet(Sends) /\ IsFiniteSet(WebTurns) /\ (t \in Sends => t \notin WebTurns)
  BY SessionsAssumption DEF Editors, SessionsTypeOK, SyncPlaces
<1>2. OneMoves(syncPc, syncPc', t, at)
  BY <1>1 DEF SyncAt, OneMoves
<1> DEFINE a == Count(Sends, syncPc, "idle")
           b == Count(Sends, syncPc, "turn")
           c == Count(WebTurns, syncPc, "idle")
           a1 == Count(Sends, syncPc', "idle")
           b1 == Count(Sends, syncPc', "turn")
           c1 == Count(WebTurns, syncPc', "idle")
<1>3. a \in Nat /\ b \in Nat /\ c \in Nat
  BY <1>1, CountType
<1>4. a1 = IF t \in Sends /\ syncPc[t] = "idle" THEN a - 1 ELSE a
  BY <1>1, <1>2, CountLeaves
<1>5. c1 = IF t \in WebTurns /\ syncPc[t] = "idle" THEN c - 1 ELSE c
  BY <1>1, <1>2, CountLeaves
<1>6. ASSUME at # "turn"
      PROVE  b1 = IF t \in Sends /\ syncPc[t] = "turn" THEN b - 1 ELSE b
  BY <1>1, <1>2, <1>6, CountLeaves
<1>7. ASSUME at = "turn", syncPc[t] # "turn"
      PROVE  b1 = IF t \in Sends THEN b + 1 ELSE b
  BY <1>1, <1>2, <1>7, CountComes
<1>8. at = "turn" /\ syncPc[t] = "turn" => syncPc' = syncPc
  BY <1>1 DEF SyncAt
<1>9. Owed(syncPc) = 2 * a + b + 2 * c /\ Owed(syncPc') = 2 * a1 + b1 + 2 * c1
  BY DEF Owed
<1>10. at = "turn" /\ syncPc[t] = "turn" => Owed(syncPc') = Owed(syncPc)
  BY <1>8
<1>11. Owed(syncPc) \in Nat
  BY OwedNat
<1> HIDE DEF a, b, c, a1, b1, c1
<1> QED BY <1>1, <1>3, <1>4, <1>5, <1>6, <1>7, <1>9, <1>10, <1>11

\* A step of one task: where it goes with what copy, and what its messages cost.
LEMMA EditStep ==
  ASSUME SessionsInv, NEW t \in Editors, NEW at \in SyncPlaces, SyncAt(t, at),
         NEW kept \in Session \cup Mirror \cup {NoSession}, copy' = [copy EXCEPT ![t] = kept],
         CopyFits(t, at, kept),
         file' \in Session \cup {NoSession}, mirror' \in Mirror \cup {NoSession},
         stamp' \in Nat, syncFaults' \in 0..SyncFaults,
         stamp' + Owed(syncPc') <= stamp + Owed(syncPc)
  PROVE  SessionsInv'
<1>1. /\ syncPc' \in [Editors -> SyncPlaces] /\ syncPc'[t] = at
      /\ \A q \in Editors : q # t => syncPc'[q] = syncPc[q]
  BY DEF SessionsInv, SessionsTypeOK, SyncPlaces, SyncAt
<1>2. /\ copy' \in [Editors -> Session \cup Mirror \cup {NoSession}] /\ copy'[t] = kept
      /\ \A q \in Editors : q # t => copy'[q] = copy[q]
  BY DEF SessionsInv, SessionsTypeOK
<1>3. stamp' + Owed(syncPc') <= MaxMsgs /\ stamp' \in 0..MaxMsgs
  BY OwedNat, MaxMsgsNat DEF SessionsInv, SessionsTypeOK
<1>4. SessionsTypeOK'
  BY <1>1, <1>2, <1>3 DEF SessionsTypeOK, SyncPlaces
<1>5. CopiesInv'
  BY <1>1, <1>2 DEF CopiesInv, SessionsInv
<1> QED BY <1>3, <1>4, <1>5 DEF SessionsInv

\* One that numbers no message.
LEMMA QuietStep ==
  ASSUME SessionsInv, NEW t \in Editors, NEW at \in SyncPlaces \ {"idle", "turn"}, SyncAt(t, at),
         NEW kept \in Session \cup Mirror \cup {NoSession}, copy' = [copy EXCEPT ![t] = kept],
         CopyFits(t, at, kept),
         file' \in Session \cup {NoSession}, mirror' \in Mirror \cup {NoSession},
         syncFaults' \in 0..SyncFaults, UNCHANGED stamp
  PROVE  SessionsInv'
<1>1. Owed(syncPc') <= Owed(syncPc)
  BY OwedMoves DEF SessionsInv
<1>2. stamp' \in Nat /\ stamp' + Owed(syncPc') <= stamp + Owed(syncPc)
  BY <1>1, OwedNat DEF SessionsInv, SessionsTypeOK
<1> QED BY <1>2, EditStep

\* One that ends a task.
LEMMA EndingStep ==
  ASSUME SessionsInv, NEW t \in Editors, SyncEnd(t),
         file' \in Session \cup {NoSession}, mirror' \in Mirror \cup {NoSession},
         syncFaults' \in 0..SyncFaults, UNCHANGED stamp
  PROVE  SessionsInv'
<1>1. SyncAt(t, "ended") /\ copy' = [copy EXCEPT ![t] = NoSession]
  BY DEF SyncEnd, Keeps
<1>2. CopyFits(t, "ended", NoSession) /\ "ended" \in SyncPlaces \ {"idle", "turn"}
  BY DEF CopyFits, SyncPlaces
<1> QED BY <1>1, <1>2, QuietStep

\* The answer or a message: one number more.
LEMMA MessageAdded ==
  ASSUME SessionsInv, NEW session \in Session, stamp + 1 <= MaxMsgs
  PROVE  [session EXCEPT !.msgs = session.msgs \cup {stamp + 1}] \in Session
<1>1. stamp + 1 \in 1..MaxMsgs
  BY MaxMsgsNat DEF SessionsInv, SessionsTypeOK
<1> HIDE DEF SessionsInv
<1> QED BY <1>1 DEF Session

LEMMA SendTypes ==
  ASSUME SessionsInv, NEW t \in Editors, SendSave(t) \/ SendFails(t) \/ SendStore(t)
  PROVE  SessionsInv'
<1>0. SessionsTypeOK /\ file \in Session \cup {NoSession} /\ mirror \in Mirror \cup {NoSession} /\ stamp \in Nat
  BY DEF SessionsInv, SessionsTypeOK
<1>1. CASE SendSave(t)
  <2>1. /\ t \in Sends /\ syncPc[t] = "idle" /\ file \in Session /\ stamp' = stamp + 1
        /\ file' = [file EXCEPT !.msgs = file.msgs \cup {stamp + 1}]
        /\ copy' = [copy EXCEPT ![t] = file'] /\ SyncAt(t, "turn") /\ UNCHANGED <<mirror, syncFaults>>
    BY <1>0, <1>1 DEF SendSave, Keeps
  <2>2. Owed(syncPc') = Owed(syncPc) - 1 /\ "turn" \in SyncPlaces
    BY <1>0, <2>1, OwedMoves DEF SyncPlaces
  <2>3. stamp' + Owed(syncPc') <= stamp + Owed(syncPc) /\ stamp + 1 <= MaxMsgs /\ stamp' \in Nat
    BY <1>0, <2>1, <2>2, OwedNat, MaxMsgsNat DEF SessionsInv
  <2>4. file' \in Session
    BY <2>1, <2>3, MessageAdded
  <2>5. CopyFits(t, "turn", file')
    BY <2>1, <2>4 DEF CopyFits
  <2>6. syncFaults' \in 0..SyncFaults
    BY <2>1 DEF SessionsInv, SessionsTypeOK
  <2> QED BY <1>0, <2>1, <2>2, <2>3, <2>4, <2>5, <2>6, EditStep
<1>2. CASE SendFails(t)
  BY <1>0, <1>2, EndingStep DEF SendFails, SessionsTypeOK
<1>3. CASE SendStore(t)
  <2> DEFINE base == IF file # NoSession THEN file ELSE copy[t]
  <2>1. /\ t \in Sends /\ syncPc[t] = "turn" /\ stamp' = stamp + 1 /\ file' = Answered(base)
        /\ copy' = [copy EXCEPT ![t] = file'] /\ SyncAt(t, "push") /\ UNCHANGED <<mirror, syncFaults>>
    BY <1>3 DEF SendStore, Keeps
  <2>2. t \notin WebTurns
    BY <2>1, SessionsAssumption
  <2>3. copy[t] \in Session
    BY <2>1, <2>2 DEF SessionsInv, CopiesInv, CopyFits
  <2>4. base \in Session
    BY <1>0, <2>3
  <2>5. Owed(syncPc') = Owed(syncPc) - 1 /\ "push" \in SyncPlaces
    BY <1>0, <2>1, OwedMoves DEF SyncPlaces
  <2>6. stamp' + Owed(syncPc') <= stamp + Owed(syncPc) /\ stamp + 1 <= MaxMsgs /\ stamp' \in Nat
    BY <1>0, <2>1, <2>5, OwedNat, MaxMsgsNat DEF SessionsInv
  <2> HIDE DEF base
  <2>7. file' \in Session
    BY <2>1, <2>4, <2>6, MessageAdded DEF Answered
  <2>8. CopyFits(t, "push", file')
    BY <2>2, <2>7 DEF CopyFits
  <2>9. syncFaults' \in 0..SyncFaults
    BY <2>1 DEF SessionsInv, SessionsTypeOK
  <2> QED BY <1>0, <2>1, <2>5, <2>6, <2>7, <2>8, <2>9, EditStep
<1> QED BY <1>1, <1>2, <1>3

Pushing(t) ==
    \/ PushOk(t) \/ PushFails(t) \/ StoreRemote(t) \/ BackfillLoad(t)
    \/ SetLocal(t) \/ \E policy \in {"plan", "auto"} : SetPolicy(t, policy)

LEMMA PushTypes ==
  ASSUME SessionsInv, NEW t \in Editors, Pushing(t)
  PROVE  SessionsInv'
<1>0. /\ SessionsTypeOK /\ file \in Session \cup {NoSession} /\ mirror \in Mirror \cup {NoSession}
      /\ syncFaults \in 0..SyncFaults /\ SyncFaults \in Nat
  BY SessionsAssumption DEF SessionsInv, SessionsTypeOK
<1>1. {"push", "remote"} \subseteq SyncPlaces \ {"idle", "turn"}
  BY DEF SyncPlaces
<1>2. CASE PushOk(t)
  <2>1. /\ syncPc[t] = "push" /\ UNCHANGED <<file, stamp, syncFaults>>
        /\ mirror' = [msgs |-> copy[t].msgs \cup (IF mirror = NoSession THEN {} ELSE mirror.msgs),
                      policy |-> copy[t].policy]
        /\ IF copy[t].remote THEN SyncEnd(t) ELSE SyncAt(t, "remote") /\ UNCHANGED copy
    BY <1>2 DEF PushOk
  <2>2. t \notin WebTurns /\ copy[t] \in Session
    BY <2>1 DEF SessionsInv, CopiesInv, CopyFits
  <2>3. mirror' \in Mirror
    BY <1>0, <2>1, <2>2 DEF Session, Mirror
  <2>4. CASE copy[t].remote
    BY <1>0, <2>1, <2>3, <2>4, EndingStep
  <2>5. CASE ~copy[t].remote
    <3>1. SyncAt(t, "remote") /\ copy' = [copy EXCEPT ![t] = copy[t]]
      BY <1>0, <2>1, <2>5 DEF SessionsTypeOK
    <3>2. CopyFits(t, "remote", copy[t])
      BY <2>2 DEF CopyFits
    <3> QED BY <1>0, <1>1, <2>1, <2>2, <2>3, <3>1, <3>2, QuietStep
  <2> QED BY <2>4, <2>5
<1>3. CASE PushFails(t)
  <2>1. syncFaults' \in 0..SyncFaults
    BY <1>0, <1>3 DEF PushFails
  <2> QED BY <1>0, <1>3, <2>1, EndingStep DEF PushFails
<1>4. CASE StoreRemote(t)
  <2>1. file' \in Session \cup {NoSession}
    BY <1>0, <1>4 DEF StoreRemote, Session
  <2> QED BY <1>0, <1>4, <2>1, EndingStep DEF StoreRemote
<1>5. CASE BackfillLoad(t)
  <2>1. CASE file.remote
    BY <1>0, <1>5, <2>1, EndingStep DEF BackfillLoad
  <2>2. CASE ~file.remote
    <3>1. /\ t \in Backfills /\ file \in Session /\ copy' = [copy EXCEPT ![t] = file] /\ SyncAt(t, "push")
          /\ UNCHANGED <<file, mirror, stamp, syncFaults>>
      BY <1>0, <1>5, <2>2 DEF BackfillLoad, Keeps
    <3>2. CopyFits(t, "push", file)
      BY <3>1, SessionsAssumption DEF CopyFits
    <3> QED BY <1>0, <1>1, <3>1, <3>2, QuietStep
  <2> QED BY <2>1, <2>2
<1>6. CASE SetLocal(t)
  <2>1. file' \in Session
    BY <1>0, <1>6 DEF SetLocal, Session
  <2> QED BY <1>0, <1>6, <2>1, EndingStep DEF SetLocal
<1>7. ASSUME NEW policy \in {"plan", "auto"}, SetPolicy(t, policy)
      PROVE  SessionsInv'
  <2>1. /\ t \in PolicyEdits /\ file \in Session /\ file' = [file EXCEPT !.policy = policy]
        /\ copy' = [copy EXCEPT ![t] = file'] /\ SyncAt(t, "push") /\ UNCHANGED <<mirror, stamp, syncFaults>>
    BY <1>0, <1>7 DEF SetPolicy, Keeps
  <2>2. file' \in Session
    BY <2>1 DEF Session
  <2>3. CopyFits(t, "push", file')
    BY <2>1, <2>2, SessionsAssumption DEF CopyFits
  <2> QED BY <1>0, <1>1, <2>1, <2>2, <2>3, QuietStep
<1> QED BY <1>2, <1>3, <1>4, <1>5, <1>6, <1>7 DEF Pushing

\* A checkpoint ends at the last of the messages it was made of.
LEMMA CheckpointTaken ==
  ASSUME NEW session \in Session, NEW read \in Session, Unsummarized(read) # {}
  PROVE  /\ Checkpointed(session, read) \in Session
         /\ \A m \in Older(read.msgs) : m <= Checkpointed(session, read).through
<1> DEFINE O == Older(read.msgs)
           last == CHOOSE m \in O : \A n \in O : n <= m
<1>1. O \in SUBSET (0..MaxMsgs) /\ O # {}
  BY MaxMsgsNat DEF Older, Unsummarized, Session
<1> HIDE DEF O
<1>2. \E m \in O : \A n \in O : n <= m
  BY <1>1, MaxMsgsNat, Largest
<1>3. last \in O /\ \A n \in O : n <= last
  BY <1>2
<1>4. Checkpointed(session, read) = [session EXCEPT !.through = last]
  BY DEF Checkpointed, O
<1> HIDE DEF last
<1> QED BY <1>1, <1>3, <1>4 DEF Session, O

LEMMA CompactTypes ==
  ASSUME SessionsInv, NEW t \in Editors, CompactRead(t) \/ CompactStore(t) \/ CompactFails(t)
  PROVE  SessionsInv'
<1>0. /\ SessionsTypeOK /\ file \in Session \cup {NoSession} /\ mirror \in Mirror \cup {NoSession}
      /\ syncFaults \in 0..SyncFaults
  BY DEF SessionsInv, SessionsTypeOK
<1>1. {"push", "summary"} \subseteq SyncPlaces \ {"idle", "turn"}
  BY DEF SyncPlaces
<1>2. CASE CompactRead(t)
  <2>1. CASE Unsummarized(file) = {}
    BY <1>0, <1>2, <2>1, EndingStep DEF CompactRead
  <2>2. CASE Unsummarized(file) # {}
    <3>1. /\ t \in Compactions /\ file \in Session /\ copy' = [copy EXCEPT ![t] = file] /\ SyncAt(t, "summary")
          /\ UNCHANGED <<file, mirror, stamp, syncFaults>>
      BY <1>0, <1>2, <2>2 DEF CompactRead, Keeps
    <3>2. CopyFits(t, "summary", file)
      BY <2>2, <3>1 DEF CopyFits
    <3> QED BY <1>0, <1>1, <3>1, <3>2, QuietStep
  <2> QED BY <2>1, <2>2
<1>3. CASE CompactStore(t)
  <2>1. /\ t \in Compactions /\ syncPc[t] = "summary" /\ file \in Session
        /\ file' = Checkpointed(file, copy[t]) /\ copy' = [copy EXCEPT ![t] = file'] /\ SyncAt(t, "push")
        /\ UNCHANGED <<mirror, stamp, syncFaults>>
    BY <1>0, <1>3 DEF CompactStore, Keeps
  <2>2. copy[t] \in Session /\ Unsummarized(copy[t]) # {}
    BY <2>1 DEF SessionsInv, CopiesInv, CopyFits
  <2>3. file' \in Session
    BY <2>1, <2>2, CheckpointTaken
  <2>4. CopyFits(t, "push", file')
    BY <2>1, <2>3, SessionsAssumption DEF CopyFits
  <2> QED BY <1>0, <1>1, <2>1, <2>3, <2>4, QuietStep
<1>4. CASE CompactFails(t)
  BY <1>0, <1>4, EndingStep DEF CompactFails
<1> QED BY <1>2, <1>3, <1>4

Mirroring(t) == WebTurn(t) \/ FetchRows(t) \/ WriteBack(t)

LEMMA MirrorTypes ==
  ASSUME SessionsInv, NEW t \in Editors, Mirroring(t)
  PROVE  SessionsInv'
<1>0. /\ SessionsTypeOK /\ file \in Session \cup {NoSession} /\ mirror \in Mirror \cup {NoSession}
      /\ syncFaults \in 0..SyncFaults /\ stamp \in Nat
  BY DEF SessionsInv, SessionsTypeOK
<1>1. CASE WebTurn(t)
  <2>1. /\ t \in WebTurns /\ syncPc[t] = "idle" /\ mirror \in Mirror /\ stamp' = stamp + 2
        /\ mirror' = [mirror EXCEPT !.msgs = mirror.msgs \cup {stamp + 1, stamp + 2}]
        /\ SyncAt(t, "turn") /\ UNCHANGED <<file, copy, syncFaults>>
    BY <1>0, <1>1 DEF WebTurn
  <2>2. t \notin Sends /\ "turn" \in SyncPlaces
    BY <2>1, SessionsAssumption DEF SyncPlaces
  <2>3. Owed(syncPc') = Owed(syncPc) - 2
    BY <1>0, <2>1, <2>2, OwedMoves
  <2>4. stamp' + Owed(syncPc') <= stamp + Owed(syncPc) /\ stamp + 2 <= MaxMsgs /\ stamp' \in Nat
    BY <1>0, <2>1, <2>3, OwedNat, MaxMsgsNat DEF SessionsInv
  <2>5. {stamp + 1, stamp + 2} \subseteq 1..MaxMsgs
    BY <1>0, <2>4, MaxMsgsNat
  <2>6. mirror' \in Mirror
    BY <2>1, <2>5 DEF Mirror
  <2>7. copy' = [copy EXCEPT ![t] = copy[t]] /\ copy[t] \in Session \cup Mirror \cup {NoSession}
    BY <1>0, <2>1 DEF SessionsTypeOK
  <2>8. CopyFits(t, "turn", copy[t])
    BY <2>1 DEF CopyFits
  <2> QED BY <1>0, <2>1, <2>2, <2>4, <2>6, <2>7, <2>8, EditStep
<1>2. CASE FetchRows(t)
  <2>1. CASE mirror = NoSession
    BY <1>0, <1>2, <2>1, EndingStep DEF FetchRows
  <2>2. CASE mirror # NoSession
    <3>1. /\ t \in WebTurns /\ mirror \in Mirror /\ copy' = [copy EXCEPT ![t] = mirror] /\ SyncAt(t, "rows")
          /\ UNCHANGED <<file, mirror, stamp, syncFaults>>
      BY <1>0, <1>2, <2>2 DEF FetchRows, Keeps
    <3>2. CopyFits(t, "rows", mirror) /\ "rows" \in SyncPlaces \ {"idle", "turn"}
      BY <3>1 DEF CopyFits, SyncPlaces
    <3> QED BY <1>0, <3>1, <3>2, QuietStep
  <2> QED BY <2>1, <2>2
<1>3. CASE WriteBack(t)
  <2>1. copy[t] \in Mirror
    BY <1>3 DEF WriteBack, SessionsInv, CopiesInv, CopyFits
  <2>2. file' \in Session \cup {NoSession}
    BY <1>0, <1>3, <2>1 DEF WriteBack, Session, Mirror
  <2> QED BY <1>0, <1>3, <2>2, EndingStep DEF WriteBack
<1> QED BY <1>1, <1>2, <1>3 DEF Mirroring

LEMMA DeletionTypes ==
  ASSUME SessionsInv, NEW t \in Editors, Gone(t) \/ DeleteFile(t) \/ DeleteMirror(t)
  PROVE  SessionsInv'
<1>0. /\ SessionsTypeOK /\ file \in Session \cup {NoSession} /\ mirror \in Mirror \cup {NoSession}
      /\ syncFaults \in 0..SyncFaults /\ SyncFaults \in Nat
  BY SessionsAssumption DEF SessionsInv, SessionsTypeOK
<1>1. CASE Gone(t)
  BY <1>0, <1>1, EndingStep DEF Gone
<1>2. CASE DeleteFile(t)
  <2>1. /\ file' = NoSession /\ SyncAt(t, "unmirror") /\ UNCHANGED <<mirror, stamp, syncFaults>>
        /\ copy' = [copy EXCEPT ![t] = copy[t]] /\ copy[t] \in Session \cup Mirror \cup {NoSession}
    BY <1>0, <1>2 DEF DeleteFile, SessionsTypeOK
  <2>2. CopyFits(t, "unmirror", copy[t]) /\ "unmirror" \in SyncPlaces \ {"idle", "turn"}
    BY DEF CopyFits, SyncPlaces
  <2> QED BY <1>0, <2>1, <2>2, QuietStep
<1>3. CASE DeleteMirror(t)
  <2>1. mirror' \in Mirror \cup {NoSession} /\ syncFaults' \in 0..SyncFaults
    BY <1>0, <1>3 DEF DeleteMirror
  <2> QED BY <1>0, <1>3, <2>1, EndingStep DEF DeleteMirror
<1> QED BY <1>1, <1>2, <1>3

LEMMA NextSessions ==
  ASSUME SessionsInv, [SessionsNext]_sessionVars
  PROVE  SessionsInv'
<1>1. ASSUME NEW t \in Editors, Edit(t)
      PROVE  SessionsInv'
  BY <1>1, SendTypes, PushTypes, CompactTypes, MirrorTypes, DeletionTypes DEF Edit, Pushing, Mirroring
<1>2. CASE UNCHANGED sessionVars
  BY <1>2 DEF sessionVars, SessionsInv, SessionsTypeOK, CopiesInv, Owed, Count
<1> QED BY <1>1, <1>2 DEF SessionsNext

LEMMA SessionsInvariant == SessionsSpec => []SessionsInv
BY InitSessions, NextSessions, PTL DEF SessionsSpec

\* What a task does to the file while it is there.
LEMMA FileEdits ==
  ASSUME SessionsInv, NEW t \in Editors, Edit(t), file # NoSession, file' # NoSession
  PROVE  /\ file \in Session
         /\ \/ file' = file
            \/ t \in Sends /\ \E m : file' = [file EXCEPT !.msgs = file.msgs \cup {m}]
            \/ file' = [file EXCEPT !.remote = TRUE]
            \/ /\ t \in PolicyEdits /\ syncPc[t] = "idle" /\ syncPc'[t] = "push"
               /\ \E policy : file' = [file EXCEPT !.policy = policy]
            \/ /\ t \in PolicyEdits /\ syncPc[t] = "idle" /\ syncPc'[t] = "ended"
               /\ file' = [file EXCEPT !.mcp = TRUE]
            \/ /\ t \in WebTurns /\ syncPc[t] = "rows" /\ syncPc'[t] = "ended"
               /\ file' = [file EXCEPT !.msgs = copy[t].msgs]
            \/ /\ t \in Compactions /\ syncPc[t] = "summary" /\ syncPc'[t] = "push"
               /\ file.through = copy[t].through /\ file' = Checkpointed(file, copy[t])
<1>0. file \in Session /\ syncPc \in [Editors -> SyncPlaces]
  BY DEF SessionsInv, SessionsTypeOK, SyncPlaces
<1> USE DEF SyncAt, SyncEnd, Keeps
<1>1. CASE SendSave(t)
  BY <1>0, <1>1 DEF SendSave
<1>2. CASE SendStore(t)
  BY <1>0, <1>2 DEF SendStore, Answered
<1>3. CASE StoreRemote(t)
  BY <1>0, <1>3 DEF StoreRemote
<1>4. CASE SetLocal(t)
  BY <1>0, <1>4 DEF SetLocal
<1>5. ASSUME NEW policy \in {"plan", "auto"}, SetPolicy(t, policy)
      PROVE  /\ t \in PolicyEdits /\ syncPc[t] = "idle" /\ syncPc'[t] = "push"
             /\ file' = [file EXCEPT !.policy = policy]
  BY <1>0, <1>5 DEF SetPolicy
<1>6. CASE CompactStore(t)
  BY <1>0, <1>6 DEF CompactStore
<1>7. CASE WriteBack(t)
  BY <1>0, <1>7 DEF WriteBack
<1>8. CASE \/ Gone(t) \/ SendFails(t) \/ PushOk(t) \/ PushFails(t) \/ BackfillLoad(t) \/ CompactRead(t)
           \/ CompactFails(t) \/ WebTurn(t) \/ FetchRows(t) \/ DeleteFile(t) \/ DeleteMirror(t)
  BY <1>0, <1>8 DEF Gone, SendFails, PushOk, PushFails, BackfillLoad, CompactRead, CompactFails, WebTurn,
                    FetchRows, DeleteFile, DeleteMirror
<1> QED BY <1>0, <1>1, <1>2, <1>3, <1>4, <1>5, <1>6, <1>7, <1>8 DEF Edit

LEMMA StepKeepsEdits ==
  ASSUME SessionsInv, [SessionsNext]_sessionVars
  PROVE  [EditKept]_sessionVars
<1> SUFFICES ASSUME NEW t \in Editors, Edit(t), file # NoSession, file' # NoSession PROVE EditKept
  BY DEF SessionsNext, EditKept
<1>0. file \in Session
  BY FileEdits
<1>1. CASE file' = file
  BY <1>1 DEF EditKept
<1>2. ASSUME NEW m, file' = [file EXCEPT !.msgs = file.msgs \cup {m}]
      PROVE  EditKept
  BY <1>0, <1>2 DEF EditKept, Session
<1>3. CASE file' = [file EXCEPT !.remote = TRUE]
  BY <1>0, <1>3 DEF EditKept, Session
<1>4. ASSUME t \in PolicyEdits, syncPc[t] = "idle", syncPc'[t] = "push",
             NEW policy, file' = [file EXCEPT !.policy = policy]
      PROVE  EditKept
  BY <1>0, <1>4 DEF EditKept, Session
<1>5. ASSUME t \in PolicyEdits, syncPc[t] = "idle", syncPc'[t] = "ended", file' = [file EXCEPT !.mcp = TRUE]
      PROVE  EditKept
  BY <1>0, <1>5 DEF EditKept, Session
<1>6. ASSUME t \in WebTurns, syncPc[t] = "rows", syncPc'[t] = "ended",
             file' = [file EXCEPT !.msgs = copy[t].msgs]
      PROVE  EditKept
  BY <1>0, <1>6 DEF EditKept, Session
<1>7. ASSUME file' = Checkpointed(file, copy[t])
      PROVE  EditKept
  BY <1>0, <1>7 DEF EditKept, Checkpointed, Session
<1> QED BY <1>1, <1>2, <1>3, <1>4, <1>5, <1>6, <1>7, FileEdits

LEMMA StepKeepsBoundary ==
  ASSUME SessionsInv, [SessionsNext]_sessionVars
  PROVE  [BoundaryKept]_sessionVars
<1> SUFFICES ASSUME NEW t \in Editors, Edit(t), file # NoSession, file' # NoSession PROVE BoundaryKept
  BY DEF SessionsNext, BoundaryKept
<1>0. file \in Session /\ file.through \in Nat
  BY FileEdits, MaxMsgsNat DEF Session
<1>1. CASE file'.through = file.through
  BY <1>0, <1>1 DEF BoundaryKept
<1>2. CASE /\ t \in Compactions /\ syncPc[t] = "summary" /\ syncPc'[t] = "push"
           /\ file.through = copy[t].through /\ file' = Checkpointed(file, copy[t])
  <2>1. copy[t] \in Session /\ Unsummarized(copy[t]) # {}
    BY <1>2 DEF SessionsInv, CopiesInv, CopyFits
  <2>2. file' \in Session /\ \A m \in Older(copy[t].msgs) : m <= file'.through
    BY <1>0, <1>2, <2>1, CheckpointTaken
  <2>3. file'.through \in Nat
    BY <2>2, MaxMsgsNat DEF Session
  <2>4. CASE copy[t].through = 0
    BY <1>2, <2>3, <2>4 DEF BoundaryKept
  <2>5. CASE copy[t].through \in copy[t].msgs
    <3>1. PICK m \in Older(copy[t].msgs) : m > copy[t].through
      BY <2>1, <2>5 DEF Unsummarized
    <3>2. m \in Nat /\ m <= file'.through
      BY <2>1, <2>2, <3>1, MaxMsgsNat DEF Older, Session
    <3> QED BY <1>0, <1>2, <2>3, <3>1, <3>2 DEF BoundaryKept
  <2>6. CASE copy[t].through \notin copy[t].msgs \cup {0}
    BY <1>2, <2>6 DEF BoundaryKept
  <2> QED BY <2>4, <2>5, <2>6
<1>3. \/ file'.through = file.through
      \/ /\ t \in Compactions /\ syncPc[t] = "summary" /\ syncPc'[t] = "push"
         /\ file.through = copy[t].through /\ file' = Checkpointed(file, copy[t])
  BY <1>0, FileEdits DEF Session
<1> QED BY <1>1, <1>2, <1>3

\* What is saved in a session stays saved, whatever turns, compactions, changes of the
\* mode, web turns and pushes overlap (local_coding.rs, coding/local_session.rs).
THEOREM SavedEditsAreKept == SessionsSpec => EditsKept
BY SessionsInvariant, StepKeepsEdits, PTL DEF SessionsSpec, EditsKept

\* The checkpoint's boundary never goes back, but after a write-back that dropped the
\* message it stood at (compact_internal).
THEOREM BoundaryAdvances == SessionsSpec => CompactionAdvances
BY SessionsInvariant, StepKeepsBoundary, PTL DEF SessionsSpec, CompactionAdvances

-----------------------------------------------------------------------------
(* The application: a behaviour of it is one of each part.                 *)

LEMMA DesktopStarts == DesktopInit => TurnInit /\ ChatInit /\ SessionsInit /\ McpInit /\ RpcInit
<1> SUFFICES ASSUME DesktopInit PROVE SessionsInit
  BY DEF DesktopInit
<1>1. PICK T \in IF world = "sessions" THEN Scenarios ELSE {{}} : SessionsStart(T)
  BY DEF DesktopInit
<1>2. T \in SUBSET Editors
  BY DesktopAssumption
<1> QED BY <1>1, <1>2 DEF SessionsInit

LEMMA DesktopSteps ==
  ASSUME [DesktopNext]_worldVars
  PROVE  /\ [TurnNext]_turnVars /\ [ChatNext]_chatVars /\ [SessionsNext]_sessionVars
         /\ [McpNext]_mcpVars /\ [RpcNext]_rpcVars
BY DEF DesktopNext, TurnWorld, ChatWorld, SessionsWorld, McpWorld, RpcWorld, worldVars

LEMMA PartsBehave ==
  DesktopSpec => TurnSpec /\ ChatSpec /\ SessionsSpec /\ McpSpec /\ RpcSpec
BY DesktopStarts, DesktopSteps, PTL DEF DesktopSpec, TurnSpec, ChatSpec, SessionsSpec, McpSpec, RpcSpec

\* The bookkeeping of every part of the desktop application is sound, for any calls,
\* rounds, windows, tasks, servers and requests.
THEOREM DesktopTypesOK == DesktopSpec => []DesktopTypeOK
<1>1. SessionsInv => SessionsTypeOK
  BY DEF SessionsInv
<1> QED
  BY <1>1, PartsBehave, TurnInvariant, TurnInvImplies, ChatInvariant, ChatInvImplies, SessionsInvariant,
     McpTypesOK, RpcTypesOK, PTL DEF DesktopTypeOK

\* No request to a model exceeds the window with its reserve: not the first, not one
\* after a round of tools, not a chat's last one without tools.
THEOREM AsksFit == DesktopSpec => []AskFits
BY PartsBehave, TurnInvariant, TurnInvImplies, ChatInvariant, ChatInvImplies, PTL DEF AskFits

\* What a coding turn changes the user approved, and what a chat writes goes to a server
\* that was trusted while the call was in hand, however stops, answers and changes of the
\* mark cross the turn.
THEOREM ChangesAreAllowed == DesktopSpec => []ChangesAllowed
BY PartsBehave, TurnInvariant, TurnInvImplies, ChatInvariant, ChatInvImplies, PTL DEF ChangesAllowed

\* What the parts promise on their own they promise together.
THEOREM DesktopIsSafe ==
    DesktopSpec => []JobsSwept /\ []TrustInForce /\ []RequestsAnswered /\ EditsKept /\ CompactionAdvances
BY PartsBehave, JobsAreSwept, TrustIsInForce, AnswersFindTheirRequests, SavedEditsAreKept, BoundaryAdvances, PTL
=============================================================================
