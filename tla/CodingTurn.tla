----------------------------- MODULE CodingTurn -----------------------------
(***************************************************************************)
(* One desktop coding turn, local_coding::run_turn: measure the context    *)
(* and shrink it when it is too full, stream a round of the model, run its *)
(* sub-agents side by side (on a peer of the group, else here), then its   *)
(* other calls one by one behind the approval gate, and go round again.    *)
(* The user answers the gate through a one-shot channel that lives in      *)
(* coding_approvals, and may stop the turn at any time.                    *)
(***************************************************************************)
EXTENDS Naturals, Sequences, ToolPolicy

CONSTANTS TurnCalls,     \* calls the model may make, each at most once
          TurnTool,      \* the tool each of them names
          TurnPolicies,  \* approval policies to try
          TurnRounds,    \* MAX_TOOL_ROUNDS
          TurnBatch,     \* bound: calls in one round
          Window,        \* max_tokens, in units of the largest tool result
          Reserve,       \* reserve_tokens, same units
          TurnFaults     \* bound: lost calls to the control plane

ASSUME CodingTurnAssumption ==
    /\ TurnTool \in [TurnCalls -> KnownTools \cup {"invented"}]
    /\ TurnPolicies \subseteq Policies
    /\ TurnRounds \in Nat \ {0} /\ {TurnBatch, Window, Reserve, TurnFaults} \subseteq Nat /\ Reserve < Window

VARIABLES turnPolicy, autoCompact,   \* of the session, frozen for the turn
          turnPc, turnRound,
          queue, answered,           \* calls of this round left, and with a result
          turnFlag,                  \* its entry in cancels
          used,                      \* tokens of the messages so far
          gate,                      \* coding_approvals and the channel behind
          origin,                    \* preview origin authorized for the session
          agent, job,                \* per run_agent call: engine, inference_jobs row
          turnRan, turnGranted,      \* history
          turnFaults

gating == <<gate, origin>>
agents == <<agent, job>>
turnHistory == <<turnRan, turnGranted>>
turnVars == <<turnPolicy, autoCompact, turnPc, turnRound, queue, answered, turnFlag, used, gating,
              agents, turnHistory, turnFaults>>
turnFixed == <<turnPolicy, autoCompact>>

IsAgent(c) == TurnTool[c] = "run_agent"
AgentCalls == {c \in TurnCalls : IsAgent(c)}

TurnTypeOK ==
    /\ turnPolicy \in Policies /\ autoCompact \in BOOLEAN
    /\ turnPc \in {"start", "register", "measure", "stream", "agents", "calls", "authorize", "gate", "exec",
                   "result", "ended"}
    /\ turnRound \in 0..TurnRounds
    /\ queue \in Seq(TurnCalls) /\ Len(queue) <= TurnBatch /\ answered \subseteq TurnCalls
    /\ turnFlag \in {"none", "clear", "set"}
    /\ used \in 0..(Window + TurnBatch)
    /\ gate \in [TurnCalls -> {"none", "open", "approved", "denied"}] /\ origin \in BOOLEAN
    /\ agent \in [TurnCalls -> {"none", "picking", "round", "relay", "sweep", "local", "done"}]
    /\ job \in [TurnCalls -> {"none", "pending", "answered", "left", "stray"}]
    /\ turnRan \subseteq TurnCalls /\ turnGranted \subseteq TurnCalls
    /\ turnFaults \in 0..TurnFaults

TurnInit ==
    /\ turnPolicy \in TurnPolicies /\ autoCompact \in BOOLEAN
    /\ turnPc = "start" /\ turnRound = 0 /\ queue = <<>> /\ answered = {}
    /\ turnFlag = "none" /\ used = 0
    /\ gate = [c \in TurnCalls |-> "none"] /\ origin = FALSE
    /\ agent = [c \in TurnCalls |-> "none"] /\ job = [c \in TurnCalls |-> "none"]
    /\ turnRan = {} /\ turnGranted = {} /\ turnFaults = 0

TurnAt(p) == turnPc' = p
TurnFault == turnFaults < TurnFaults /\ turnFaults' = turnFaults + 1

-----------------------------------------------------------------------------
(* Registration and the context budget.                                    *)

TurnOver == TurnAt("ended") /\ turnFlag' = "none"

\* send: the history's size, after automatic compaction where that is on and succeeds.
TurnPreflight(size) ==
    /\ turnPc = "start" /\ used' = size
    /\ TurnAt(IF size + Reserve < Window THEN "register" ELSE "ended")
    /\ UNCHANGED <<turnFixed, turnRound, queue, answered, turnFlag, gating, agents, turnHistory, turnFaults>>

TurnRegister(updating) ==
    /\ turnPc = "register"
    /\ IF updating THEN turnFlag' = "none" /\ TurnAt("ended") ELSE turnFlag' = "clear" /\ TurnAt("measure")
    /\ UNCHANGED <<turnFixed, turnRound, queue, answered, used, gating, agents, turnHistory, turnFaults>>

\* Mutant: with automatic compaction off nothing is measured.
Measure_OnlyAuto ==
    /\ turnPc = "measure" /\ ~autoCompact
    /\ TurnAt("stream")
    /\ UNCHANGED <<turnFixed, turnRound, queue, answered, turnFlag, used, gating, agents, turnHistory,
                   turnFaults>>

\* Below the threshold the round starts as it is.
Measure ==
    /\ turnPc = "measure" /\ used + Reserve < Window
    /\ TurnAt("stream")
    /\ UNCHANGED <<turnFixed, turnRound, queue, answered, turnFlag, used, gating, agents, turnHistory,
                   turnFaults>>

\* Too full: tool results are cut, each at most so far; what still does not fit fails the turn.
Shrink ==
    /\ turnPc = "measure" /\ (autoCompact \/ used + Reserve >= Window)
    /\ \E size \in 0..used :
          /\ answered = {} => size = used
          /\ used' = size
          /\ IF size + Reserve >= Window THEN TurnOver ELSE TurnAt("stream") /\ UNCHANGED turnFlag
    /\ UNCHANGED <<turnFixed, turnRound, queue, answered, gating, agents, turnHistory, turnFaults>>

-----------------------------------------------------------------------------
(* A round of the model.                                                   *)

StreamLast ==
    /\ turnPc = "stream" /\ TurnOver
    /\ UNCHANGED <<turnFixed, turnRound, queue, answered, used, gating, agents, turnHistory, turnFaults>>

\* Its calls, in some order; run_agent calls are started together.
StreamRound(calls) ==
    /\ turnPc = "stream" /\ turnFlag # "set"
    /\ calls # <<>>
    /\ queue' = calls
    /\ agent' = [c \in TurnCalls |-> IF IsAgent(c) /\ \E i \in DOMAIN calls : calls[i] = c
                                     THEN "picking" ELSE agent[c]]
    /\ TurnAt("agents")
    /\ UNCHANGED <<turnFixed, turnRound, answered, turnFlag, used, gating, job, turnHistory, turnFaults>>

-----------------------------------------------------------------------------
(* One sub-agent: dispatch_subagent, RelayLlama, run_agent.                *)

SetAgent(c, at) == agent' = [agent EXCEPT ![c] = at]
turnRest == <<turnFixed, turnPc, turnRound, queue, answered, turnFlag, used, gating>>

\* An unknown agent or an empty task is a result at once.
AgentRefused(c) ==
    /\ agent[c] = "picking" /\ SetAgent(c, "done")
    /\ UNCHANGED <<turnRest, job, turnHistory, turnFaults>>

\* PeerPool: a peer that was ready when the list was read, or none, since group
\* sub-agents are off, the list is empty or it could not be read.
PoolPicks == {"round", "local"}

AgentPicks(c) ==
    /\ agent[c] = "picking" /\ \E at \in PoolPicks : SetAgent(c, at)
    /\ UNCHANGED <<turnRest, job, turnHistory, turnFaults>>

\* A round on the peer is a job row; a stopped agent ends with what it has.  One that
\* gets no id for its row starts over on this machine: the row may have been written
\* all the same, when the reply was lost or could not be read, and is nobody's then.
AgentAsks(c) ==
    /\ agent[c] = "round"
    /\ \/ turnFlag # "set" /\ SetAgent(c, "relay") /\ job' = [job EXCEPT ![c] = "pending"]
          /\ UNCHANGED turnFaults
       \/ turnFlag = "set" /\ SetAgent(c, "done") /\ UNCHANGED <<job, turnFaults>>
       \/ TurnFault /\ SetAgent(c, "local") /\ job' \in {job, [job EXCEPT ![c] = "stray"]}
    /\ UNCHANGED <<turnRest, turnHistory>>

\* The peer works on it, unless it has gone.
PeerAnswers(c) ==
    /\ job[c] = "pending" /\ job' = [job EXCEPT ![c] = "answered"]
    /\ UNCHANGED <<turnRest, agent, turnHistory, turnFaults>>

\* Mutant: an unanswered job is left where it is.
AgentAwaits_NoSweep(c) ==
    /\ agent[c] = "relay"
    /\ SetAgent(c, IF job[c] = "answered" THEN "sweep" ELSE "local")
    /\ UNCHANGED <<turnRest, job, turnHistory, turnFaults>>

\* An answer, a stop, the deadline or a vanished row: the wait is over.
AgentAwaits(c) ==
    /\ agent[c] = "relay" /\ SetAgent(c, "sweep")
    /\ UNCHANGED <<turnRest, job, turnHistory, turnFaults>>

\* The row is deleted whatever came of it; with an answer the agent is done or goes
\* another round, without one it starts over on this machine.
AgentSweeps(c) ==
    /\ agent[c] = "sweep"
    /\ \/ job' = [job EXCEPT ![c] = "none"] /\ UNCHANGED turnFaults
       \/ TurnFault /\ job' = [job EXCEPT ![c] = "left"]
    /\ \/ job[c] = "answered" /\ (SetAgent(c, "done") \/ SetAgent(c, "round"))
       \/ SetAgent(c, "local")
    /\ UNCHANGED <<turnRest, turnHistory>>

AgentLocal(c) ==
    /\ agent[c] = "local" /\ SetAgent(c, "done")
    /\ UNCHANGED <<turnRest, job, turnHistory, turnFaults>>

\* join_all: the calls begin when every sub-agent is done.
AgentsDone ==
    /\ turnPc = "agents" /\ \A c \in AgentCalls : agent[c] \in {"none", "done"}
    /\ TurnAt("calls")
    /\ UNCHANGED <<turnFixed, turnRound, queue, answered, turnFlag, used, gating, agents, turnHistory,
                   turnFaults>>

-----------------------------------------------------------------------------
(* One call: run_one and its two gates.                                    *)

NeedsOrigin(c) == TurnTool[c] = "web_preview_open" /\ ~origin

\* A sub-agent has its result, an invented tool gets one; the others queue at a gate.
TakeCall ==
    /\ turnPc = "calls" /\ queue # <<>>
    /\ LET c == Head(queue) IN
       /\ TurnAt(CASE IsAgent(c) \/ TurnTool[c] = "invented"  -> "result"
                   [] NeedsOrigin(c)                           -> "authorize"
                   [] NeedsApproval(turnPolicy, TurnTool[c])   -> "gate"
                   [] OTHER                                    -> "exec")
       /\ gate' = IF turnPc' \in {"authorize", "gate"} THEN [gate EXCEPT ![c] = "open"] ELSE gate
    /\ UNCHANGED <<turnFixed, turnRound, queue, answered, turnFlag, used, origin, agents, turnHistory,
                   turnFaults>>

\* A URL that is no loopback origin.
OriginInvalid ==
    /\ turnPc = "calls" /\ queue # <<>> /\ TurnTool[Head(queue)] = "web_preview_open"
    /\ TurnAt("result")
    /\ UNCHANGED <<turnFixed, turnRound, queue, answered, turnFlag, used, gating, agents, turnHistory,
                   turnFaults>>

\* Mutant: a stop releases the wait as if the user had agreed.
GateStopped_Approves ==
    /\ turnPc \in {"authorize", "gate"} /\ turnFlag = "set"
    /\ gate' = [gate EXCEPT ![Head(queue)] = "none"] /\ TurnAt("exec")
    /\ UNCHANGED <<turnFixed, turnRound, queue, answered, turnFlag, used, origin, agents, turnHistory,
                   turnFaults>>

\* Mutant: only the wait for a preview origin looks at the flag.
GateStopped_OnlyOrigin ==
    /\ turnPc = "authorize" /\ turnFlag = "set"
    /\ gate' = [gate EXCEPT ![Head(queue)] = "none"] /\ TurnAt("result")
    /\ UNCHANGED <<turnFixed, turnRound, queue, answered, turnFlag, used, origin, agents, turnHistory,
                   turnFaults>>

\* Seen at the next 250 ms poll: denied, even if the user's answer is on its way.
GateStopped ==
    /\ turnPc \in {"authorize", "gate"} /\ turnFlag = "set"
    /\ gate' = [gate EXCEPT ![Head(queue)] = "none"] /\ TurnAt("result")
    /\ UNCHANGED <<turnFixed, turnRound, queue, answered, turnFlag, used, origin, agents, turnHistory,
                   turnFaults>>

GateAnswered ==
    /\ turnPc \in {"authorize", "gate"} /\ gate[Head(queue)] \in {"approved", "denied"}
    /\ LET c == Head(queue)
           yes == gate[c] = "approved"
       IN  /\ gate' = [gate EXCEPT ![c] = "none"]
           /\ origin' = (origin \/ (yes /\ turnPc = "authorize"))
           /\ TurnAt(IF yes THEN "exec" ELSE "result")
    /\ UNCHANGED <<turnFixed, turnRound, queue, answered, turnFlag, used, agents, turnHistory, turnFaults>>

Execute ==
    /\ turnPc = "exec"
    /\ turnRan' = IF Refused(turnPolicy, TurnTool[Head(queue)]) THEN turnRan
                  ELSE turnRan \cup {Head(queue)}
    /\ TurnAt("result")
    /\ UNCHANGED <<turnFixed, turnRound, queue, answered, turnFlag, used, gating, agents, turnGranted,
                   turnFaults>>

\* The result joins the messages, in the order of the calls.
PushResult ==
    /\ turnPc = "result"
    /\ queue' = Tail(queue) /\ answered' = answered \cup {Head(queue)}
    /\ \E size \in 0..1 : used' = used + size
    /\ TurnAt("calls")
    /\ UNCHANGED <<turnFixed, turnRound, turnFlag, gating, agents, turnHistory, turnFaults>>

\* Mutant: the round that reaches the cap is one too late.
TurnNextRound_OffByOne ==
    /\ turnPc = "calls" /\ queue = <<>>
    /\ turnRound' = turnRound + 1
    /\ IF turnRound = TurnRounds THEN TurnOver ELSE TurnAt("measure") /\ UNCHANGED turnFlag
    /\ UNCHANGED <<turnFixed, queue, answered, used, gating, agents, turnHistory, turnFaults>>

TurnNextRound ==
    /\ turnPc = "calls" /\ queue = <<>>
    /\ turnRound' = turnRound + 1
    /\ IF turnRound' = TurnRounds THEN TurnOver ELSE TurnAt("measure") /\ UNCHANGED turnFlag
    /\ UNCHANGED <<turnFixed, queue, answered, used, gating, agents, turnHistory, turnFaults>>

-----------------------------------------------------------------------------
(* The user.                                                               *)

\* The sender leaves the map with its one answer; a click on a gate that is gone is void.
TurnDecides(c, decision) ==
    /\ gate[c] = "open" /\ gate' = [gate EXCEPT ![c] = decision]
    /\ turnGranted' = IF decision = "approved" THEN turnGranted \cup {c} ELSE turnGranted
    /\ UNCHANGED <<turnFixed, turnPc, turnRound, queue, answered, turnFlag, used, origin, agents,
                   turnRan, turnFaults>>

TurnStops ==
    /\ turnFlag = "clear" /\ turnFlag' = "set"
    /\ UNCHANGED <<turnFixed, turnPc, turnRound, queue, answered, used, gating, agents, turnHistory,
                   turnFaults>>

-----------------------------------------------------------------------------

\* Orders in which a round may hold calls that were not made before.
Orders(S) == {s \in UNION {[1..n -> S] : n \in 1..TurnBatch} : \A i, j \in DOMAIN s : i # j => s[i] # s[j]}
Fresh == {c \in TurnCalls : c \notin answered}

TurnStep ==
    \/ \E size \in 0..Window : TurnPreflight(size)
    \/ \E updating \in BOOLEAN : TurnRegister(updating)
    \/ Measure \/ Shrink \/ StreamLast \/ \E calls \in Orders(Fresh) : StreamRound(calls)
    \/ AgentsDone \/ TakeCall \/ OriginInvalid \/ GateStopped \/ GateAnswered \/ Execute \/ PushResult
    \/ TurnNextRound
AgentStep(c) ==
    AgentRefused(c) \/ AgentPicks(c) \/ AgentAsks(c) \/ AgentAwaits(c) \/ AgentSweeps(c) \/ AgentLocal(c)
TurnUser == TurnStops \/ \E c \in TurnCalls, d \in {"approved", "denied"} : TurnDecides(c, d)

TurnNext == TurnStep \/ TurnUser \/ \E c \in AgentCalls : AgentStep(c) \/ PeerAnswers(c)

TurnSpec == TurnInit /\ [][TurnNext]_turnVars

\* A call of a third-party tool writes to the server's standard input, without a timeout:
\* a server that does not read may hold it for ever.
TurnAtServer ==
    turnPc = "exec" /\ LET t == TurnTool[Head(queue)] IN t \in McpTools /\ ~Refused(turnPolicy, t)

\* Rounds, the other tools and sub-agents (they have no third-party tools) have deadlines
\* of their own; a third-party server and the user owe nothing.
TurnFairness ==
    /\ WF_turnVars(TurnStep /\ ~TurnAtServer)
    /\ \A c \in AgentCalls : WF_turnVars(AgentStep(c))

-----------------------------------------------------------------------------
(* Properties.                                                             *)

\* What changes the workspace ran after the user approved that very call, or under
\* "auto"; nothing does in the inspection modes; a page is opened in the preview only
\* once its origin was allowed.
TurnChangesApproved ==
    \A c \in turnRan :
        /\ Mutating(TurnTool[c]) => \/ turnPolicy = "auto"
                                    \/ turnPolicy = "approve_writes" /\ c \in turnGranted
        /\ TurnTool[c] = "web_preview_open" => origin

\* The model is never asked for more than its window holds with the reserve.
TurnAskFits == turnPc = "stream" => used + Reserve < Window

\* When the turn goes on, none of its sub-agents is at work and none of its jobs is left
\* in the table, whatever became of the answer, but one whose deletion was lost or whose
\* insertion was not answered: each needs a lost call to the control plane.
JobsSwept ==
    turnPc # "agents" =>
        \A c \in AgentCalls :
            /\ agent[c] \in {"none", "done"} /\ job[c] \in {"none", "left", "stray"}
            /\ job[c] # "none" => turnFaults > 0

\* The gate has no deadline of its own, but a stop ends the turn wherever it is: at the
\* gate, in a sub-agent that waits for its peer, or between two calls; all but in a call
\* of a third-party tool whose server does not read.
StoppedTurnReturns == ~<>[]TurnAtServer => (turnFlag = "set" ~> turnPc = "ended")
=============================================================================
