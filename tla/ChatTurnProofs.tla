--------------------------- MODULE ChatTurnProofs ---------------------------
(***************************************************************************)
(* The safety of a web turn, for any calls, tools, profiles and bounds:    *)
(* where the turn is in its code says who of its three tasks is still at   *)
(* work, what its row holds and whether its call in hand was approved.     *)
(***************************************************************************)
EXTENDS ChatTurn, TLAPS

\* The actions by the part of the turn they belong to.
Setup ==
    \/ Claim \/ SetupRefused \/ ModelMissing \/ SetupFails \/ SetupDone
    \/ Join \/ Register \/ \E updating \in BOOLEAN : CheckUpdate(updating) \/ Warm
Rounds ==
    \/ Delta \/ StreamFails \/ StreamAnswers
    \/ \E calls \in SUBSET profile.calls : StreamCalls(calls)
    \/ RoundOver
OneCall ==
    \/ \E c \in Calls : NextCall(c)
    \/ Ask \/ Open \/ DecisionRead \/ DecisionGivenUp \/ Denied \/ Exec \/ Close \/ Result
End == Wind \/ Quiet \/ Flush \/ Persist \/ Announce \/ Fail \/ FailRow \/ Leave

LEMMA Steps ==
  ASSUME [Next]_vars
  PROVE  Setup \/ Rounds \/ OneCall \/ End \/ Broadcaster \/ Heartbeat \/ Environment \/ UNCHANGED vars
BY DEF Next, Turn, Over, Setup, Rounds, OneCall, End

-----------------------------------------------------------------------------
(* Who is still at work.                                                   *)

OnCall == {"ask", "open", "decide", "denied", "exec", "close", "result"}
Registered == {"check", "warm", "stream", "call", "wind"} \cup OnCall
Written == {"persist", "announce", "fail", "failed", "leave"}

TasksInv ==
    /\ tx \in Seq({"text", "tool", "end"})
    /\ flag # "none" => pc \in Registered
    /\ heart = "running" => pc \in Registered \cup {"quiet"}
    /\ pc \in Written => sender = "ended"
    /\ sender = "ended" => ~buf
    /\ wire \in {"done", "error"} => pc \in {"failed", "leave", "ended"} /\ sender = "ended"
    /\ pc \in {"begin", "setup", "join", "register", "check"} => heart # "running"

LEMMA InitTasks == Init => TasksInv
BY DEF Init, TasksInv, Registered, Written, OnCall

LEMMA NextTasks ==
  ASSUME TasksInv, [Next]_vars
  PROVE  TasksInv'
<1> USE DEF TasksInv, Registered, Written, OnCall, tool, stream, beat, history, Goto, Send
<1>1. CASE Setup
  BY <1>1 DEF Setup, Claim, SetupRefused, ModelMissing, SetupFails, SetupDone, Join,
       Register, CheckUpdate, Warm
<1>2. CASE Rounds
  BY <1>2 DEF Rounds, Delta, StreamFails, StreamAnswers, StreamCalls, RoundOver
<1>3. CASE OneCall
  BY <1>3 DEF OneCall, NextCall, Ask, Open, DecisionRead, DecisionGivenUp, Denied, Exec, Close, Result
<1>4. CASE End
  BY <1>4 DEF End, Wind, Quiet, Flush, Persist, Announce, Fail, FailRow, Leave, Broadcast
<1>5. CASE Broadcaster
  <2>1. CASE Receive
    <3>1. /\ tx # <<>> /\ tx' = Tail(tx) /\ sender = "running"
          /\ UNCHANGED <<pc, flag, heart>>
      BY <2>1 DEF Receive
    <3>2. Head(tx) \in {"text", "tool", "end"} /\ tx' \in Seq({"text", "tool", "end"})
      BY <3>1
    <3>3. wire' \in {wire, "text", "tool"} /\ (sender' = "ended" => ~buf')
      BY <2>1, <3>1, <3>2 DEF Receive, Broadcast
    <3> QED BY <3>1, <3>2, <3>3
  <2>2. CASE FlushText
    BY <2>2 DEF FlushText, Broadcast
  <2> QED BY <1>5, <2>1, <2>2 DEF Broadcaster
<1>6. CASE Heartbeat
  BY <1>6 DEF Heartbeat, Ping, HeartStops
<1>7. CASE Environment
  BY <1>7 DEF Environment, UserDecides, UserStops
<1>8. CASE UNCHANGED vars
  BY <1>8 DEF vars
<1> QED BY <1>1, <1>2, <1>3, <1>4, <1>5, <1>6, <1>7, <1>8, Steps

\* A web turn that is over has left the registry that updates look at, and its
\* heartbeat is gone, by whatever exit of chat::process it left.
THEOREM EndedTurnsAreGone == Spec => []EndedTurnGone
<1>1. TasksInv => EndedTurnGone
  BY DEF TasksInv, EndedTurnGone, Registered, OnCall
<1> QED BY <1>1, InitTasks, NextTasks, PTL DEF Spec

\* Nothing follows "done" or "error" on the channel, and no text is held back when
\* they are sent: the broadcaster and the heartbeat have ended by then.
THEOREM ChannelIsOrdered == Spec => ChannelOrdered
<1> DEFINE Ordered == /\ wire' # wire => wire \notin {"done", "error"}
                      /\ wire' \in {"done", "error"} => ~buf' /\ sender' = "ended"
<1>1. ASSUME TasksInv, TasksInv', [Next]_vars PROVE Ordered
  <2>1. wire' \in {"done", "error"} => ~buf' /\ sender' = "ended"
    BY <1>1 DEF TasksInv
  <2>2. SUFFICES ASSUME wire \in {"done", "error"} PROVE wire' = wire
    BY <2>1
  <2>3. pc \in {"failed", "leave", "ended"} /\ sender = "ended" /\ heart # "running"
    BY <1>1, <2>2 DEF TasksInv, Registered, OnCall
  <2> USE DEF tool, stream, beat, history, Goto
  <2>4. CASE Setup
    BY <2>3, <2>4 DEF Setup, Claim, SetupRefused, ModelMissing, SetupFails, SetupDone, Join,
       Register, CheckUpdate, Warm
  <2>5. CASE Rounds
    BY <2>3, <2>5 DEF Rounds, Delta, StreamFails, StreamAnswers, StreamCalls, RoundOver
  <2>6. CASE OneCall
    BY <2>3, <2>6
    DEF OneCall, NextCall, Ask, Open, DecisionRead, DecisionGivenUp, Denied, Exec, Close, Result
  <2>7. CASE End
    BY <2>3, <2>7 DEF End, Wind, Quiet, Flush, Persist, Announce, Fail, FailRow, Leave
  <2>8. CASE Broadcaster
    BY <2>3, <2>8 DEF Broadcaster, Receive, FlushText
  <2>9. CASE Heartbeat
    BY <2>3, <2>9 DEF Heartbeat, Ping, HeartStops
  <2>10. CASE Environment
    BY <2>10 DEF Environment, UserDecides, UserStops
  <2>11. CASE UNCHANGED vars
    BY <2>11 DEF vars
  <2> QED BY <1>1, <2>4, <2>5, <2>6, <2>7, <2>8, <2>9, <2>10, <2>11, Steps
<1>2. TasksInv /\ TasksInv' /\ [Next]_vars => [Ordered]_vars
  BY <1>1
<1>3. Spec => []TasksInv
  BY InitTasks, NextTasks, PTL DEF Spec
<1>4. Spec => [][Ordered]_vars
  BY <1>2, <1>3, PTL DEF Spec
<1> QED BY <1>4 DEF ChannelOrdered

-----------------------------------------------------------------------------
(* Types and bounds.                                                       *)

Loop == {"begin", "setup", "join", "register", "check", "warm", "stream", "call"} \cup OnCall
Events == {"text", "tool", "end"}
Invocation == [status : {"none", "running", "awaiting", "cancelled", "finished"},
               decision : {"none", "approved", "denied"}]

\* Rounds are left while the loop runs, and the queue has room for the end until it
\* is sent.
TypeInv ==
    /\ TypeOK
    /\ pc \in Loop => round < MaxRounds
    /\ pc \in Loop \cup {"wind"} => Len(tx) <= MaxQueue
    /\ pc \in OnCall => cur \in Calls

LEMMA InitTypes == Init => TypeInv
<1> SUFFICES ASSUME Init PROVE TypeInv
  OBVIOUS
<1> USE ChatTurnAssumption DEF Init
<1>1. profile \in ProfileType /\ 0 < MaxRounds /\ 0 \in 0..MaxRounds
  OBVIOUS
<1>2. tx \in Seq(Events) /\ Len(tx) <= MaxQueue
  BY DEF Events
<1>3. inv \in [Calls -> Invocation]
  BY DEF Nobody, Invocation
<1>4. pc = "begin" /\ faults \in 0..MaxFaults
  OBVIOUS
<1>5. /\ row \in {"pending", "streaming", "done", "error"} /\ err \in BOOLEAN
      /\ todo \subseteq Calls /\ cur \in Calls \cup {"none"} /\ spoke \in BOOLEAN
      /\ flag \in {"none", "clear", "set"} /\ ready \in BOOLEAN /\ buf \in BOOLEAN
      /\ sender = "none" /\ wire = "none" /\ heart = "none" /\ notified \in BOOLEAN
      /\ ran \subseteq Calls /\ granted \subseteq Calls /\ bailed \in BOOLEAN /\ late \in Nat
  OBVIOUS
<1>6. round = 0 /\ Len(tx) <= MaxQueue + 1
  BY <1>2
<1> QED BY <1>1, <1>2, <1>3, <1>4, <1>5, <1>6 DEF TypeInv, TypeOK, OnCall, Events, Invocation

\* The queue grows by one event at a time, and only while it has room.
LEMMA QueueStep ==
  ASSUME tx \in Seq(Events), NEW e \in Events
  PROVE  /\ Send(e) => tx' \in Seq(Events) /\ Len(tx') <= MaxQueue
         /\ tx' = Append(tx, e) => tx' \in Seq(Events) /\ Len(tx') = Len(tx) + 1
BY ChatTurnAssumption DEF Send

LEMMA NextTypes ==
  ASSUME TypeInv, [Next]_vars
  PROVE  TypeInv'
<1> USE ChatTurnAssumption
<1>0. /\ tx \in Seq(Events) /\ Len(tx) \in Nat /\ {"text", "tool", "end"} = Events
      /\ faults \in 0..MaxFaults /\ round \in 0..MaxRounds
  BY DEF TypeInv, TypeOK, Events
<1>1. /\ tx' \in Seq(Events) /\ Len(tx') <= MaxQueue + 1
      /\ pc' \in Loop \cup {"wind"} => Len(tx') <= MaxQueue
  <2> USE <1>0 DEF TypeInv, TypeOK, Loop, OnCall, Goto
  <2> HIDE DEF Events
  <2>1. ASSUME tx' = tx, pc' \in Loop \cup {"wind"} => pc \in Loop \cup {"wind"}
        PROVE  /\ tx' \in Seq(Events) /\ Len(tx') <= MaxQueue + 1
               /\ pc' \in Loop \cup {"wind"} => Len(tx') <= MaxQueue
    BY <2>1
  <2>2. ASSUME NEW e \in Events, Send(e)
        PROVE  /\ tx' \in Seq(Events) /\ Len(tx') <= MaxQueue + 1
               /\ pc' \in Loop \cup {"wind"} => Len(tx') <= MaxQueue
    BY <2>2, QueueStep
  <2>3. ASSUME NEW e \in Events, tx' = Append(tx, e), pc \in Loop \cup {"wind"},
               pc' \notin Loop \cup {"wind"}
        PROVE  /\ tx' \in Seq(Events) /\ Len(tx') <= MaxQueue + 1
               /\ pc' \in Loop \cup {"wind"} => Len(tx') <= MaxQueue
    BY <2>3, QueueStep
  <2>4. CASE Setup
    <3>1. CASE \E updating \in BOOLEAN : CheckUpdate(updating)
      BY <2>1, <2>3, <3>1 DEF CheckUpdate
    <3> QED BY <2>1, <2>4, <3>1
            DEF Setup, Claim, SetupRefused, ModelMissing, SetupFails, SetupDone, Join, Register, Warm,
                stream
  <2>5. CASE Rounds
    BY <2>1, <2>2, <2>5 DEF Rounds, Delta, StreamFails, StreamAnswers, StreamCalls, RoundOver, stream
  <2>6. CASE OneCall
    <3>1. \/ UNCHANGED tx
          \/ \E e \in Events : Send(e)
      BY <2>6 DEF OneCall, NextCall, Ask, Open, DecisionRead, DecisionGivenUp, Denied, Exec,
                  Close, Result, stream
    <3>2. pc \in Loop
      BY <2>6 DEF OneCall, NextCall, Ask, Open, DecisionRead, DecisionGivenUp, Denied, Exec,
                  Close, Result
    <3> QED BY <2>1, <2>2, <3>1, <3>2
  <2>7. CASE End
    <3>1. CASE Wind
      BY <2>3, <3>1 DEF Wind
    <3>2. CASE Quiet \/ Flush \/ Persist \/ Announce \/ Fail \/ FailRow \/ Leave
      BY <2>1, <3>2 DEF Quiet, Flush, Persist, Announce, Fail, FailRow, Leave, stream
    <3> QED BY <2>7, <3>1, <3>2 DEF End
  <2>8. CASE Receive
    <3>1. tx # <<>> /\ tx' = Tail(tx) /\ pc' = pc
      BY <2>8 DEF Receive
    <3>2. tx' \in Seq(Events) /\ Len(tx') = Len(tx) - 1
      BY <3>1
    <3> QED BY <3>1, <3>2
  <2>9. CASE FlushText \/ Heartbeat \/ Environment \/ UNCHANGED vars
    BY <2>1, <2>9 DEF FlushText, Heartbeat, Ping, HeartStops, Environment, UserDecides, UserStops,
                      vars, stream
  <2> QED BY <2>4, <2>5, <2>6, <2>7, <2>8, <2>9, Steps DEF Broadcaster
<1>2. /\ pc' \in Loop => round' < MaxRounds
      /\ pc' \in OnCall => cur' \in Calls
      /\ round' \in 0..MaxRounds /\ todo' \subseteq Calls /\ cur' \in Calls \cup {"none"}
      /\ spoke' \in BOOLEAN
  <2> USE <1>0 DEF TypeInv, TypeOK, Loop, OnCall, Goto, tool
  <2>1. CASE Setup
    BY <2>1 DEF Setup, Claim, SetupRefused, ModelMissing, SetupFails, SetupDone, Join,
       Register, CheckUpdate, Warm
  <2>2. CASE Rounds
    <3>1. CASE \E calls \in SUBSET profile.calls : StreamCalls(calls)
      BY <3>1 DEF StreamCalls, ProfileType
    <3>2. CASE RoundOver
      <4>1. /\ pc = "call" /\ round' = round + 1 /\ spoke' = FALSE /\ cur' = "none"
            /\ todo' = todo /\ pc' = IF round' = MaxRounds THEN "wind" ELSE "stream"
        BY <3>2 DEF RoundOver
      <4>2. round \in Nat /\ MaxRounds \in Nat /\ round < MaxRounds
        BY <4>1
      <4>3. round' \in 0..MaxRounds /\ (round' # MaxRounds => round' < MaxRounds)
        BY <4>1, <4>2
      <4> QED BY <4>1, <4>3
    <3> QED BY <2>2, <3>1, <3>2 DEF Rounds, Delta, StreamFails, StreamAnswers
  <2>3. CASE OneCall
    <3>1. CASE \E c \in Calls : NextCall(c)
      BY <3>1 DEF NextCall
    <3> QED BY <2>3, <3>1
            DEF OneCall, Ask, Open, DecisionRead, DecisionGivenUp, Denied, Exec, Close, Result
  <2>4. CASE End
    BY <2>4 DEF End, Wind, Quiet, Flush, Persist, Announce, Fail, FailRow, Leave
  <2>5. CASE Broadcaster \/ Heartbeat \/ Environment \/ UNCHANGED vars
    BY <2>5 DEF Broadcaster, Receive, FlushText, Heartbeat, Ping, HeartStops, Environment,
                UserDecides, UserStops, vars
  <2> QED BY <2>1, <2>2, <2>3, <2>4, <2>5, Steps
<1>3. profile' \in ProfileType /\ inv' \in [Calls -> Invocation] /\ ran' \subseteq Calls
      /\ granted' \subseteq Calls /\ late' \in Nat
  <2> USE DEF TypeInv, TypeOK, Invocation, history
  <2>1. CASE Setup
    <3>1. CASE SetupDone
      BY <3>1 DEF SetupDone, ProfileType
    <3> QED BY <2>1, <3>1 DEF Setup, Claim, SetupRefused, ModelMissing, SetupFails, Join, Register,
                            CheckUpdate, Warm
  <2>2. CASE Rounds
    BY <2>2 DEF Rounds, Delta, StreamFails, StreamAnswers, StreamCalls, RoundOver
  <2>3. CASE OneCall
    <3>1. CASE Ask \/ Open \/ Denied \/ Close
      <4>1. cur \in Calls
        BY <3>1 DEF Ask, Open, Denied, Close, OnCall
      <4> QED BY <3>1, <4>1 DEF Ask, Open, Denied, Close, Finalize, Ignoring
    <3>2. CASE Exec
      BY <3>2 DEF Exec, OnCall
    <3> QED BY <2>3, <3>1, <3>2 DEF OneCall, NextCall, DecisionRead, DecisionGivenUp, Result
  <2>4. CASE End
    BY <2>4 DEF End, Wind, Quiet, Flush, Persist, Announce, Fail, FailRow, Leave
  <2>5. CASE Broadcaster \/ Heartbeat \/ UNCHANGED vars
    BY <2>5 DEF Broadcaster, Receive, FlushText, Heartbeat, Ping, HeartStops, vars
  <2>6. CASE Environment
    BY <2>6 DEF Environment, UserDecides, UserStops
  <2> QED BY <2>1, <2>2, <2>3, <2>4, <2>5, <2>6, Steps
<1>4. /\ row' \in {"pending", "streaming", "done", "error"} /\ err' \in BOOLEAN
      /\ pc' \in {"begin", "setup", "join", "register", "check", "warm", "stream", "call", "ask",
                  "open", "decide", "denied", "exec", "close", "result", "wind", "quiet", "flush",
                  "persist", "announce", "fail", "failed", "leave", "ended"}
      /\ flag' \in {"none", "clear", "set"}
      /\ faults' \in 0..MaxFaults
  <2> USE <1>0 DEF TypeInv, TypeOK, Goto, Ignoring, Fault, Finalize, history
  <2>1. CASE Setup
    BY <2>1 DEF Setup, Claim, SetupRefused, ModelMissing, SetupFails, SetupDone, Join,
       Register, CheckUpdate, Warm
  <2>2. CASE Rounds
    BY <2>2 DEF Rounds, Delta, StreamFails, StreamAnswers, StreamCalls, RoundOver
  <2>3. CASE OneCall
    BY <2>3
    DEF OneCall, NextCall, Ask, Open, DecisionRead, DecisionGivenUp, Denied, Exec, Close, Result
  <2>4. CASE End
    BY <2>4 DEF End, Wind, Quiet, Flush, Persist, Announce, Fail, FailRow, Leave
  <2>5. CASE Broadcaster \/ Heartbeat
    <3>1. UNCHANGED <<row, pc, err, flag, faults>>
      BY <2>5 DEF Broadcaster, Receive, FlushText, Heartbeat, Ping, HeartStops
    <3> QED BY <3>1
  <2>6. CASE Environment \/ UNCHANGED vars
    BY <2>6 DEF Environment, UserDecides, UserStops, vars
  <2> QED BY <2>1, <2>2, <2>3, <2>4, <2>5, <2>6, Steps
<1>5. /\ sender' \in {"none", "running", "ended"}
      /\ wire' \in {"none", "loading", "text", "tool", "done", "error"}
      /\ heart' \in {"none", "running", "ended"}
  <2> USE DEF TypeInv, TypeOK, Broadcast, stream, beat, history
  <2>1. CASE Setup
    BY <2>1 DEF Setup, Claim, SetupRefused, ModelMissing, SetupFails, SetupDone, Join,
       Register, CheckUpdate, Warm
  <2>2. CASE Rounds
    BY <2>2 DEF Rounds, Delta, StreamFails, StreamAnswers, StreamCalls, RoundOver
  <2>3. CASE OneCall
    BY <2>3
    DEF OneCall, NextCall, Ask, Open, DecisionRead, DecisionGivenUp, Denied, Exec, Close, Result
  <2>4. CASE End
    BY <2>4 DEF End, Wind, Quiet, Flush, Persist, Announce, Fail, FailRow, Leave
  <2>5. CASE Receive
    <3>1. Head(tx) \in Events
      BY <1>0, <2>5 DEF Receive
    <3> QED BY <2>5, <3>1 DEF Receive, Events
  <2>6. CASE FlushText \/ Heartbeat \/ Environment \/ UNCHANGED vars
    BY <2>6 DEF FlushText, Heartbeat, Ping, HeartStops, Environment, UserDecides, UserStops, vars
  <2> QED BY <2>1, <2>2, <2>3, <2>4, <2>5, <2>6, Steps DEF Broadcaster
<1>6. ready' \in BOOLEAN /\ buf' \in BOOLEAN /\ notified' \in BOOLEAN /\ bailed' \in BOOLEAN
  <2>0. ready \in BOOLEAN /\ buf \in BOOLEAN /\ notified \in BOOLEAN /\ bailed \in BOOLEAN
    BY DEF TypeInv, TypeOK
  <2> USE <2>0 DEF stream, beat, history
  <2>1. CASE Setup
    BY <2>1, Zenon
    DEF Setup, Claim, SetupRefused, ModelMissing, SetupFails, SetupDone, Join,
       Register, CheckUpdate, Warm
  <2>2. CASE Rounds
    BY <2>2, Zenon DEF Rounds, Delta, StreamFails, StreamAnswers, StreamCalls, RoundOver
  <2>3. CASE OneCall
    BY <2>3, Zenon
    DEF OneCall, NextCall, Ask, Open, DecisionRead, DecisionGivenUp, Denied, Exec, Close, Result
  <2>4. CASE End
    BY <2>4, Zenon DEF End, Wind, Quiet, Flush, Persist, Announce, Fail, FailRow, Leave
  <2>5. CASE Receive
    <3>1. Head(tx) \in Events
      BY <1>0, <2>5 DEF Receive
    <3>2. buf' \in {TRUE, FALSE}
      BY <2>5, <3>1 DEF Receive, Events
    <3> QED BY <2>5, <3>2, Zenon DEF Receive
  <2>6. CASE FlushText \/ Heartbeat \/ Environment \/ UNCHANGED vars
    BY <2>6, Zenon
    DEF FlushText, Heartbeat, Ping, HeartStops, Environment, UserDecides, UserStops, vars
  <2> QED BY <2>1, <2>2, <2>3, <2>4, <2>5, <2>6, Steps DEF Broadcaster
<1> QED BY <1>1, <1>2, <1>3, <1>4, <1>5, <1>6 DEF TypeInv, TypeOK, Invocation, Events

\* Type correctness of a web turn: at most MAX_TOOL_ROUNDS rounds, and a queue in which
\* there is always room left for the end.
THEOREM TypesOK == Spec => []TypeOK
<1>1. TypeInv => TypeOK
  BY DEF TypeInv
<1> QED BY <1>1, InitTypes, NextTypes, PTL DEF Spec

-----------------------------------------------------------------------------
(* What the row holds.                                                     *)

RowInv ==
    /\ faults \in Nat
    /\ pc = "announce" => row = "done"
    /\ pc = "leave" => row \in {"done", "error"} \/ faults > 0
    /\ RowSettled

LEMMA InitRow == Init => RowInv
BY DEF Init, RowInv, RowSettled

LEMMA NextRow ==
  ASSUME RowInv, [Next]_vars
  PROVE  RowInv'
<1> USE DEF RowInv, RowSettled, tool, stream, beat, history, Goto, Ignoring, Fault, Finalize
<1>1. CASE Setup
  BY <1>1 DEF Setup, Claim, SetupRefused, ModelMissing, SetupFails, SetupDone, Join,
       Register, CheckUpdate, Warm
<1>2. CASE Rounds
  BY <1>2 DEF Rounds, Delta, StreamFails, StreamAnswers, StreamCalls, RoundOver
<1>3. CASE OneCall
  BY <1>3 DEF OneCall, NextCall, Ask, Open, DecisionRead, DecisionGivenUp, Denied, Exec, Close, Result
<1>4. CASE End
  BY <1>4 DEF End, Wind, Quiet, Flush, Persist, Announce, Fail, FailRow, Leave
<1>5. CASE Broadcaster \/ Heartbeat \/ Environment
  BY <1>5 DEF Broadcaster, Receive, FlushText, Heartbeat, Ping, HeartStops, Environment, UserDecides,
              UserStops
<1>6. CASE UNCHANGED vars
  BY <1>6 DEF vars
<1> QED BY <1>1, <1>2, <1>3, <1>4, <1>5, <1>6, Steps

\* The row of a turn that is over is final, unless a call to the control plane was lost,
\* the turn gave way to an update of llama.cpp, or its model has no file on the rig.
THEOREM RowsAreSettled == Spec => []RowSettled
<1>1. RowInv => RowSettled
  BY DEF RowInv
<1> QED BY <1>1, InitRow, NextRow, PTL DEF Spec

-----------------------------------------------------------------------------
(* The rounds after a stop.                                                *)

LateInv ==
    /\ late \in {0, 1}
    /\ late = 1 => /\ pc = "stream" => flag = "set"
                   /\ pc \in {"stream", "wind", "quiet", "flush", "ended"} \cup Written

LEMMA InitLate == Init => LateInv
BY DEF Init, LateInv

LEMMA NextLate ==
  ASSUME LateInv, [Next]_vars
  PROVE  LateInv'
<1> USE DEF LateInv, Written, tool, stream, beat, history, Goto
<1>1. CASE Setup
  BY <1>1 DEF Setup, Claim, SetupRefused, ModelMissing, SetupFails, SetupDone, Join,
       Register, CheckUpdate, Warm
<1>2. CASE Rounds
  BY <1>2 DEF Rounds, Delta, StreamFails, StreamAnswers, StreamCalls, RoundOver
<1>3. CASE OneCall
  BY <1>3 DEF OneCall, NextCall, Ask, Open, DecisionRead, DecisionGivenUp, Denied, Exec, Close, Result
<1>4. CASE End
  BY <1>4 DEF End, Wind, Quiet, Flush, Persist, Announce, Fail, FailRow, Leave
<1>5. CASE Broadcaster \/ Heartbeat \/ Environment
  BY <1>5 DEF Broadcaster, Receive, FlushText, Heartbeat, Ping, HeartStops, Environment, UserDecides,
              UserStops
<1>6. CASE UNCHANGED vars
  BY <1>6 DEF vars
<1> QED BY <1>1, <1>2, <1>3, <1>4, <1>5, <1>6, Steps

\* After a stop the model is asked for at most one more round, however many tool
\* rounds the turn may have.
THEOREM StopsAreHeeded == Spec => []StopHeeded
<1>1. LateInv => StopHeeded
  BY DEF LateInv, StopHeeded
<1> QED BY <1>1, InitLate, NextLate, PTL DEF Spec

-----------------------------------------------------------------------------
(* What was approved.                                                      *)

\* A call that may run now: it needs no approval, or has it.
Cleared(c) == Recorded(c) /\ Gated(c) => c \in granted

ApprovedInv ==
    /\ inv \in [Calls -> [status : {"none", "running", "awaiting", "cancelled", "finished"},
                          decision : {"none", "approved", "denied"}]]
    /\ pc \in {"begin", "setup"} => ran = {}
    /\ pc \in OnCall => cur \in Calls
    /\ \A c \in Calls : inv[c].decision = "approved" => c \in granted
    /\ pc = "open" => ~Gated(cur)
    /\ pc = "exec" => Cleared(cur)
    /\ profile \in ProfileType
    /\ ran \subseteq Calls
    /\ ChangesApproved

LEMMA InitApproved == Init => ApprovedInv
BY ChatTurnAssumption DEF Init, ApprovedInv, ChangesApproved, OnCall, Nobody

\* Which calls are recorded, gated and refused depends on the profile alone.
LEMMA SameProfile ==
  ASSUME profile' = profile, NEW c \in Calls
  PROVE  (Recorded(c)' <=> Recorded(c)) /\ (Gated(c)' <=> Gated(c)) /\ (Coding' <=> Coding)
BY DEF Recorded, Gated, Platform, PlatformTools, DirectMcp, Coding

\* Steps that run and clear nothing.
LEMMA NothingRuns ==
  ASSUME ApprovedInv, profile' = profile, ran' = ran, granted \subseteq granted',
         inv' \in [Calls -> [status : {"none", "running", "awaiting", "cancelled", "finished"},
                             decision : {"none", "approved", "denied"}]],
         \A c \in Calls : inv'[c].decision = "approved" => c \in granted',
         pc' \in {"begin", "setup"} => pc \in {"begin", "setup"},
         pc' \in OnCall => cur' \in Calls,
         pc' = "open" => ~Gated(cur'),
         pc' = "exec" => (Recorded(cur') /\ Gated(cur') => cur' \in granted')
  PROVE  ApprovedInv'
<1>1. \A c \in Calls : (Recorded(c)' <=> Recorded(c)) /\ (Gated(c)' <=> Gated(c)) /\ (Coding' <=> Coding)
  BY SameProfile
<1>2. ChangesApproved'
  BY <1>1 DEF ApprovedInv, ChangesApproved
<1>3. pc' = "open" => ~Gated(cur)'
  BY DEF Gated, Recorded, Platform, PlatformTools, DirectMcp, Coding
<1>4. pc' = "exec" => Cleared(cur)'
  BY DEF Cleared, Gated, Recorded, Platform, PlatformTools, DirectMcp, Coding
<1> QED BY <1>2, <1>3, <1>4 DEF ApprovedInv

LEMMA NextApproved ==
  ASSUME ApprovedInv, [Next]_vars
  PROVE  ApprovedInv'
<1> USE DEF tool, stream, beat, history, Goto, OnCall
<1>1. CASE Claim \/ SetupRefused \/ ModelMissing \/ SetupFails \/ Join \/ Register
          \/ \E updating \in BOOLEAN : CheckUpdate(updating) \/ Warm
  BY <1>1, NothingRuns
  DEF ApprovedInv, Claim, SetupRefused, ModelMissing, SetupFails, Join, Register, CheckUpdate, Warm
<1>2. CASE SetupDone
  <2>1. /\ pc = "setup" /\ pc' = "join" /\ UNCHANGED <<inv, ran, granted>>
        /\ profile' \in {profile, [profile EXCEPT !.workspace = "none"]}
    BY <1>2 DEF SetupDone
  <2>2. ran' = {} /\ ChangesApproved' /\ profile' \in ProfileType
    BY <2>1 DEF ApprovedInv, ChangesApproved, ProfileType
  <2> QED BY <2>1, <2>2 DEF ApprovedInv
<1>3. CASE Rounds
  BY <1>3, NothingRuns DEF ApprovedInv, Rounds, Delta, StreamFails, StreamAnswers, StreamCalls, RoundOver
<1>4. CASE \E c \in Calls : NextCall(c)
  <2>1. PICK c \in Calls : NextCall(c)
    BY <1>4
  <2>2. /\ UNCHANGED <<profile, inv, ran, granted>> /\ cur' = c
        /\ pc' \in {"ask", "open", "result", "exec"}
        /\ pc' = "open" => ~Gated(c)
        /\ pc' = "exec" => ~Gated(c)
    BY <2>1 DEF NextCall
  <2> QED BY <2>2, NothingRuns DEF ApprovedInv
<1>5. CASE Ask \/ Open \/ Denied \/ Close
  <2>1. /\ cur \in Calls /\ UNCHANGED <<profile, ran, granted, cur>>
        /\ pc' \in {"decide", "exec", "result"} /\ (pc' = "exec" => ~Gated(cur))
    BY <1>5 DEF ApprovedInv, Ask, Open, Denied, Close
  <2>2. \E st \in {"running", "awaiting", "cancelled", "finished"} : inv' \in {inv, [inv EXCEPT ![cur].status = st]}
    BY <1>5 DEF Ask, Open, Denied, Close, Ignoring, Finalize
  <2>3. /\ inv' \in [Calls -> [status : {"none", "running", "awaiting", "cancelled", "finished"},
                               decision : {"none", "approved", "denied"}]]
        /\ \A c \in Calls : inv'[c].decision = inv[c].decision
    BY <2>1, <2>2 DEF ApprovedInv
  <2> QED BY <2>1, <2>3, NothingRuns DEF ApprovedInv
<1>6. CASE DecisionRead \/ DecisionGivenUp \/ Result
  <2>1. /\ cur \in Calls /\ UNCHANGED <<profile, inv, ran, granted, cur>>
        /\ pc' \in {"exec", "denied", "call"} /\ (pc' = "exec" => inv[cur].decision = "approved")
    BY <1>6 DEF ApprovedInv, DecisionRead, DecisionGivenUp, Result
  <2> QED BY <2>1, NothingRuns DEF ApprovedInv
<1>7. CASE Exec
  <2>1. /\ cur \in Calls /\ Cleared(cur) /\ UNCHANGED <<profile, inv, granted, cur>>
        /\ pc' \in {"close", "result"}
        /\ ran' = IF Coding /\ Refused(profile.policy, Tool[cur]) THEN ran ELSE ran \cup {cur}
    BY <1>7 DEF ApprovedInv, Exec
  <2>2. \A c \in Calls : (Recorded(c)' <=> Recorded(c)) /\ (Gated(c)' <=> Gated(c)) /\ (Coding' <=> Coding)
    BY <2>1, SameProfile
  <2>3. ASSUME Recorded(cur), Coding, Mutating(Tool[cur]), ~Refused(profile.policy, Tool[cur])
        PROVE  \/ profile.policy = "auto"
               \/ profile.policy = "approve_writes" /\ cur \in granted
    <3>1. profile.policy \in {"auto", "approve_writes"}
      BY <2>3 DEF ApprovedInv, ProfileType, Refused, AllowsMutations, Policies
    <3>2. profile.policy = "approve_writes" => Gated(cur)
      BY <2>3 DEF Gated, NeedsApproval, GatesMutations
    <3> QED BY <2>1, <2>3, <3>1, <3>2 DEF Cleared
  <2>4. ChangesApproved'
    BY <2>1, <2>2, <2>3 DEF ApprovedInv, ChangesApproved, Cleared
  <2> QED BY <2>1, <2>4 DEF ApprovedInv
<1>8. CASE End \/ Broadcaster \/ Heartbeat
  <2>1. /\ UNCHANGED <<profile, inv, ran, granted, cur>>
        /\ pc' = pc \/ pc' \in {"quiet", "flush", "ended"} \cup Written
    <3>1. CASE End
      BY <3>1 DEF End, Wind, Quiet, Flush, Persist, Announce, Fail, FailRow, Leave, Written
    <3>2. CASE Broadcaster
      BY <3>2 DEF Broadcaster, Receive, FlushText
    <3>3. CASE Heartbeat
      BY <3>3 DEF Heartbeat, Ping, HeartStops
    <3> QED BY <1>8, <3>1, <3>2, <3>3
  <2> QED BY <2>1, NothingRuns DEF ApprovedInv, Cleared, Written
<1>9. CASE Environment
  <2>1. /\ UNCHANGED <<profile, pc, cur, ran>> /\ granted \subseteq granted'
        /\ inv' \in [Calls -> [status : {"none", "running", "awaiting", "cancelled", "finished"},
                              decision : {"none", "approved", "denied"}]]
        /\ \A c \in Calls : inv'[c].decision = "approved" => c \in granted'
    BY <1>9 DEF ApprovedInv, Environment, UserDecides, UserStops
  <2> QED BY <2>1, NothingRuns DEF ApprovedInv, Cleared
<1>10. CASE UNCHANGED vars
  BY <1>10, NothingRuns DEF ApprovedInv, Cleared, vars
<1> QED BY <1>1, <1>2, <1>3, <1>4, <1>5, <1>6, <1>7, <1>8, <1>9, <1>10, Steps DEF Setup, OneCall

\* A call that changes something ran under the automatic policy or after the user
\* approved that very invocation, and never in an inspection-only workspace: for any
\* tools, profiles and orders of calls.
THEOREM ChangesAreApproved == Spec => []ChangesApproved
<1>1. ApprovedInv => ChangesApproved
  BY DEF ApprovedInv
<1> QED BY <1>1, InitApproved, NextApproved, PTL DEF Spec
=============================================================================
