------------------------------ MODULE ChatTurn ------------------------------
(***************************************************************************)
(* One web turn, chat::process: claim the row, stream rounds of the model  *)
(* over the socket, run the tools it asks for (some only after the user    *)
(* approved them), write the answer back, announce the end.  Three tasks   *)
(* share it: the turn, the broadcaster that numbers and sends its events,  *)
(* and the heartbeat that tells the web that a cold model is loading.      *)
(* Around them the user approves and stops.  (An update of llama.cpp and   *)
(* the registry of turns it wants empty meet in ModelResidency.)           *)
(***************************************************************************)
EXTENDS Naturals, Sequences, ToolPolicy

CONSTANTS Calls,     \* tool calls the model may make, each at most once
          Tool,      \* the tool each of them names
          Profiles,  \* kinds of turns: protocol, model, workspace, policy, calls it may make
          MaxRounds, \* MAX_TOOL_ROUNDS
          MaxQueue,  \* bound: events waiting for the broadcaster
          MaxFaults  \* bound: lost calls to the control plane

HostedTools == {"hosted_tool"}
WebTools == {"web_search", "web_fetch"}
\* Synthesized for a workspace; every other local tool comes with the row.
AddedTools == {"update_memory", "create_agent", "run_agent"}
ToolNames == KnownTools \cup HostedTools \cup WebTools \cup {"callers_tool"}
\* A model may be missing from the row, or named without a file of it on this rig.
ProfileType == [protocol : 0..1, model : {"none", "unknown", "known"},
                workspace : {"none", "open", "gone"},
                policy : Policies, mcpAsks : BOOLEAN, calls : SUBSET Calls]

ASSUME ChatTurnAssumption ==
    /\ Tool \in [Calls -> ToolNames]
    /\ Profiles \subseteq ProfileType
    /\ MaxRounds \in Nat \ {0} /\ MaxQueue \in Nat \ {0} /\ MaxFaults \in Nat

VARIABLES profile,                    \* of this turn
          row,                        \* status of the chat_messages row
          pc, err,                    \* control point of the turn; loop_err
          round, todo, cur,           \* tool loop: round, calls left in it, call in hand
          spoke,                      \* this round has sent text
          flag,                       \* entry of this turn in cancels
          inv,                        \* tool_invocations rows: status and decision
          ready,                      \* ws_ready
          tx, buf, sender,            \* queue, unsent text and state of the broadcaster
          wire,                       \* type of the last event on the channel
          heart, notified,            \* heartbeat task and its Notify permit
          ran, granted, bailed, late, \* history
          faults

tool == <<round, todo, cur, spoke>>
stream == <<tx, buf, sender, wire>>
beat == <<heart, notified>>
history == <<ran, granted, bailed, late>>
vars == <<profile, row, pc, err, tool, flag, inv, ready, stream, beat, history, faults>>

Nobody == [status |-> "none", decision |-> "none"]
TypeOK ==
    /\ profile \in ProfileType
    /\ row \in {"pending", "streaming", "done", "error"}
    /\ pc \in {"begin", "setup", "join", "register", "check", "warm", "stream", "call", "ask",
               "open", "decide", "denied", "exec", "close", "result", "wind", "quiet", "flush",
               "persist", "announce", "fail", "failed", "leave", "ended"}
    /\ err \in BOOLEAN
    /\ round \in 0..MaxRounds /\ todo \subseteq Calls /\ cur \in Calls \cup {"none"}
    /\ spoke \in BOOLEAN
    /\ flag \in {"none", "clear", "set"}
    /\ inv \in [Calls -> [status : {"none", "running", "awaiting", "cancelled", "finished"},
                          decision : {"none", "approved", "denied"}]]
    /\ ready \in BOOLEAN
    /\ tx \in Seq({"text", "tool", "end"}) /\ Len(tx) <= MaxQueue + 1
    /\ buf \in BOOLEAN
    /\ sender \in {"none", "running", "ended"}
    /\ wire \in {"none", "loading", "text", "tool", "done", "error"}
    /\ heart \in {"none", "running", "ended"} /\ notified \in BOOLEAN
    /\ ran \subseteq Calls /\ granted \subseteq Calls /\ bailed \in BOOLEAN /\ late \in Nat
    /\ faults \in 0..MaxFaults

Init ==
    /\ profile \in Profiles
    /\ row = "pending" /\ pc = "begin" /\ err = FALSE
    /\ round = 0 /\ todo = {} /\ cur = "none" /\ spoke = FALSE
    /\ flag = "none" /\ inv = [c \in Calls |-> Nobody]
    /\ ready = FALSE /\ tx = <<>> /\ buf = FALSE /\ sender = "none"
    /\ wire = "none"
    /\ heart = "none" /\ notified = FALSE
    /\ ran = {} /\ granted = {} /\ bailed = FALSE /\ late = 0
    /\ faults = 0

-----------------------------------------------------------------------------
(* What the turn makes of a call.                                          *)

Coding == profile.workspace = "open"

\* The tools that carry a server-authored or a synthesized definition.
PlatformTools ==
    (IF profile.protocol = 1 THEN HostedTools \cup (KnownTools \ AddedTools) ELSE {})
    \cup (IF Coding THEN AddedTools \cap OfferedTools(profile.policy, FALSE, FALSE) ELSE {})

Platform(c) == Tool[c] \in PlatformTools
Builtin(c) == ~Platform(c) /\ profile.protocol = 0 /\ Tool[c] \in WebTools
Passthrough(c) == ~Platform(c) /\ ~Builtin(c)

DirectMcp(c) == Tool[c] \in McpTools /\ ~Coding
Recorded(c) == Platform(c) /\ Tool[c] \notin HostedTools \cup {"run_agent"} /\ (Coding \/ DirectMcp(c))
Gated(c) == /\ Recorded(c)
            /\ IF Coding THEN NeedsApproval(profile.policy, Tool[c]) ELSE profile.mcpAsks

-----------------------------------------------------------------------------
(* Helpers.                                                                *)

Goto(p) == pc' = p
Send(event) == Len(tx) < MaxQueue /\ tx' = Append(tx, event)
Fault == faults < MaxFaults /\ faults' = faults + 1
\* A write to the control plane whose outcome the turn ignores.
Ignoring(write, unchanged) == (write /\ UNCHANGED faults) \/ (Fault /\ unchanged)
Broadcast(type) == IF ready THEN wire' = type ELSE UNCHANGED wire

Finalize(c, status) == Ignoring(inv' = [inv EXCEPT ![c].status = status], UNCHANGED inv)

-----------------------------------------------------------------------------
(* From the claim to the first round.                                      *)

Claim ==
    /\ pc = "begin"
    /\ \/ row' = "streaming" /\ Goto("setup") /\ UNCHANGED faults
       \/ Fault /\ row' \in {row, "streaming"} /\ Goto("ended")
    /\ UNCHANGED <<profile, err, tool, flag, inv, ready, stream, beat, history>>

\* Mutant: a missing workspace returns without telling the row.
SetupRefused_Silent ==
    /\ pc = "setup"
    /\ \/ profile.model = "none"
       \/ profile.model = "known" /\ profile.workspace = "gone"
    /\ Goto("ended") /\ UNCHANGED <<row, faults>>
    /\ UNCHANGED <<profile, err, tool, flag, inv, ready, stream, beat, history>>

\* No model named, or a workspace that is gone: the row says so.
SetupRefused ==
    /\ pc = "setup"
    /\ \/ profile.model = "none"
       \/ profile.model = "known" /\ profile.workspace = "gone"
    /\ Ignoring(row' = "error", UNCHANGED row) /\ Goto("ended")
    /\ UNCHANGED <<profile, err, tool, flag, inv, ready, stream, beat, history>>

\* The named model has no file here: the turn returns as it is, the row untouched.
ModelMissing ==
    /\ pc = "setup" /\ profile.model = "unknown"
    /\ Goto("ended")
    /\ UNCHANGED <<profile, row, err, tool, flag, inv, ready, stream, beat, history, faults>>

\* The history cannot be read: the same.
SetupFails ==
    /\ pc = "setup" /\ profile.model = "known"
    /\ Fault /\ Goto("ended")
    /\ UNCHANGED <<profile, row, err, tool, flag, inv, ready, stream, beat, history>>

\* A failed lookup of the coding context makes an ordinary chat turn of it.
SetupDone ==
    /\ pc = "setup" /\ profile.model = "known"
    /\ Goto("join")
    /\ \/ profile.workspace # "gone" /\ UNCHANGED <<profile, faults>>
       \/ Fault /\ profile' = [profile EXCEPT !.workspace = "none"]
    /\ UNCHANGED <<row, err, tool, flag, inv, ready, stream, beat, history>>

Join ==
    /\ pc = "join"
    /\ ready' \in BOOLEAN /\ sender' = "running" /\ Goto("register")
    /\ UNCHANGED <<profile, row, err, tool, flag, inv, tx, buf, wire, beat, history, faults>>

Register ==
    /\ pc = "register"
    /\ flag' = "clear" /\ Goto("check")
    /\ UNCHANGED <<profile, row, err, tool, inv, ready, stream, beat, history, faults>>

\* Mutant: the turn that gives way to an update stays registered.
CheckUpdate_Leaks(updating) ==
    /\ pc = "check"
    /\ IF updating
       THEN /\ Goto("ended") /\ bailed' = TRUE
            /\ tx' = Append(tx, "end") /\ UNCHANGED <<heart, late>>
       ELSE /\ heart' \in IF ready THEN {"none", "running"} ELSE {"none"}
            /\ Goto("warm") /\ UNCHANGED <<tx, bailed, late>>
    /\ UNCHANGED <<profile, row, err, tool, flag, inv, ready, buf, sender, wire, notified, ran,
                   granted, faults>>

\* Gives way to an update; else pings while the model is not resident.
CheckUpdate(updating) ==
    /\ pc = "check"
    /\ IF updating
       THEN /\ flag' = "none" /\ Goto("ended") /\ bailed' = TRUE
            /\ tx' = Append(tx, "end") /\ UNCHANGED <<heart, late>>
       ELSE /\ heart' \in IF ready THEN {"none", "running"} ELSE {"none"}
            /\ Goto("warm") /\ UNCHANGED <<flag, tx, bailed, late>>
    /\ UNCHANGED <<profile, row, err, tool, inv, ready, buf, sender, wire, notified, ran,
                   granted, faults>>

\* An ordinary turn with third-party tools starts their servers before the first round.
Warm ==
    /\ pc = "warm" /\ Goto("stream")
    /\ UNCHANGED <<profile, row, err, tool, flag, inv, ready, stream, beat, history, faults>>

-----------------------------------------------------------------------------
(* The tool loop.                                                          *)

\* The first delta of the turn stops the heartbeat.
Delta ==
    /\ pc = "stream" /\ flag # "set" /\ ~spoke
    /\ spoke' = TRUE /\ Send("text")
    /\ notified' = (heart = "running")
    /\ UNCHANGED <<profile, row, pc, err, round, todo, cur, flag, inv, ready, buf, sender, wire,
                   heart, history, faults>>

StreamFails ==
    /\ pc = "stream"
    /\ err' = TRUE /\ Goto("wind")
    /\ UNCHANGED <<profile, row, tool, flag, inv, ready, stream, beat, history, faults>>

\* A round without calls, a stopped one, or one with a caller's function is the last.
StreamAnswers ==
    /\ pc = "stream" /\ Goto("wind")
    /\ UNCHANGED <<profile, row, err, tool, flag, inv, ready, stream, beat, history, faults>>

\* Mutant: only a round without calls ends the loop.
StreamCalls_IgnoresStop(calls) ==
    /\ pc = "stream"
    /\ calls # {} /\ \A c \in calls : inv[c] = Nobody /\ c \notin ran /\ ~Passthrough(c)
    /\ todo' = calls /\ Goto("call")
    /\ UNCHANGED <<profile, row, err, round, cur, spoke, flag, inv, ready, stream, beat, history,
                   faults>>

StreamCalls(calls) ==
    /\ pc = "stream" /\ flag # "set"
    /\ calls # {} /\ \A c \in calls : inv[c] = Nobody /\ c \notin ran /\ ~Passthrough(c)
    /\ todo' = calls /\ Goto("call")
    /\ UNCHANGED <<profile, row, err, round, cur, spoke, flag, inv, ready, stream, beat, history,
                   faults>>

\* Platform calls first, then the built-in ones; a stop does not interrupt a round.
NextCall(c) ==
    /\ pc = "call" /\ c \in todo
    /\ Builtin(c) => \A d \in todo : ~Platform(d)
    /\ todo' = todo \ {c} /\ cur' = c /\ Send("tool")
    /\ Goto(CASE Gated(c) -> "ask"
              [] Recorded(c) /\ ~Gated(c) -> "open"
              [] Platform(c) /\ ~Recorded(c) /\ ~Coding /\ Tool[c] \notin HostedTools -> "result"
              [] OTHER -> "exec")
    /\ UNCHANGED <<profile, row, err, round, spoke, flag, inv, ready, buf, sender, wire, beat,
                   history, faults>>

\* Mutant: one round more than the cap.
RoundOver_OffByOne ==
    /\ pc = "call" /\ todo = {}
    /\ round' = round + 1 /\ spoke' = FALSE /\ cur' = "none"
    /\ Goto(IF round' > MaxRounds THEN "wind" ELSE "stream")
    /\ late' = IF flag = "set" /\ pc' = "stream" THEN late + 1 ELSE late
    /\ UNCHANGED <<profile, row, err, todo, flag, inv, ready, stream, beat, ran, granted, bailed,
                   faults>>

\* At the cap the text of the last round is the answer.
RoundOver ==
    /\ pc = "call" /\ todo = {}
    /\ round' = round + 1 /\ spoke' = FALSE /\ cur' = "none"
    /\ Goto(IF round' = MaxRounds THEN "wind" ELSE "stream")
    /\ late' = IF flag = "set" /\ pc' = "stream" THEN late + 1 ELSE late
    /\ UNCHANGED <<profile, row, err, todo, flag, inv, ready, stream, beat, ran, granted,
                   bailed, faults>>

-----------------------------------------------------------------------------
(* One call: run_platform_tool, run_local_tool, run_mcp_tool_direct,       *)
(* dispatch_subagent, run_builtin.                                         *)

Ask ==
    /\ pc = "ask"
    /\ Ignoring(inv' = [inv EXCEPT ![cur].status = "awaiting"], UNCHANGED inv)
    /\ Send("tool") /\ Goto("decide")
    /\ UNCHANGED <<profile, row, err, tool, flag, ready, buf, sender, wire, beat, history>>

Open ==
    /\ pc = "open"
    /\ Ignoring(inv' = [inv EXCEPT ![cur].status = "running"], UNCHANGED inv)
    /\ Goto("exec")
    /\ UNCHANGED <<profile, row, err, tool, flag, ready, stream, beat, history>>

\* Mutant: the poll asks for the tool, not for this invocation.
DecisionRead_ByTool ==
    /\ pc = "decide" /\ flag # "set"
    /\ \E c \in Calls : /\ Tool[c] = Tool[cur] /\ inv[c].decision # "none"
                        /\ Goto(IF inv[c].decision = "approved" THEN "exec" ELSE "denied")
    /\ Send("tool")
    /\ UNCHANGED <<profile, row, err, tool, flag, inv, ready, buf, sender, wire, beat, history,
                   faults>>

DecisionRead ==
    /\ pc = "decide" /\ flag # "set"
    /\ inv[cur].decision # "none"
    /\ Goto(IF inv[cur].decision = "approved" THEN "exec" ELSE "denied")
    /\ Send("tool")
    /\ UNCHANGED <<profile, row, err, tool, flag, inv, ready, buf, sender, wire, beat, history,
                   faults>>

\* The turn was stopped, or 1800 s went by: denied.
DecisionGivenUp ==
    /\ pc = "decide"
    /\ Goto("denied") /\ Send("tool")
    /\ UNCHANGED <<profile, row, err, tool, flag, inv, ready, buf, sender, wire, beat, history,
                   faults>>

Denied ==
    /\ pc = "denied"
    /\ Finalize(cur, "cancelled") /\ Goto("result")
    /\ UNCHANGED <<profile, row, err, tool, flag, ready, stream, beat, history>>

\* The tool runs; one that changes something in a read-only workspace is refused.
Exec ==
    /\ pc = "exec"
    /\ ran' = IF Coding /\ Refused(profile.policy, Tool[cur]) THEN ran ELSE ran \cup {cur}
    /\ Goto(IF Recorded(cur) THEN "close" ELSE "result")
    /\ \/ UNCHANGED tx
       \/ Coding /\ Platform(cur) /\ Send("tool")
    /\ UNCHANGED <<profile, row, err, tool, flag, inv, ready, buf, sender, wire, beat, granted,
                   bailed, late, faults>>

Close ==
    /\ pc = "close"
    /\ Finalize(cur, "finished") /\ Goto("result")
    /\ UNCHANGED <<profile, row, err, tool, flag, ready, stream, beat, history>>

Result ==
    /\ pc = "result"
    /\ Send("tool") /\ Goto("call")
    /\ UNCHANGED <<profile, row, err, tool, flag, inv, ready, buf, sender, wire, beat, history,
                   faults>>

-----------------------------------------------------------------------------
(* The end of the turn.                                                    *)

\* Mutant: the heartbeat is stopped only by a first token.
Wind_NoNotify ==
    /\ pc = "wind"
    /\ flag' = "none" /\ tx' = Append(tx, "end") /\ Goto("quiet")
    /\ UNCHANGED <<profile, row, err, tool, inv, ready, buf, sender, wire, beat, history,
                   faults>>

\* Unregister, close the queue, stop the heartbeat even if no token came.
Wind ==
    /\ pc = "wind"
    /\ flag' = "none" /\ tx' = Append(tx, "end") /\ notified' = (heart = "running") /\ Goto("quiet")
    /\ UNCHANGED <<profile, row, err, tool, inv, ready, buf, sender, wire, heart, history,
                   faults>>

Quiet ==
    /\ pc = "quiet" /\ heart # "running" /\ Goto("flush")
    /\ UNCHANGED <<profile, row, err, tool, flag, inv, ready, stream, beat, history, faults>>

\* Mutant: the broadcaster is not awaited.
Flush_Detached ==
    /\ pc = "flush" /\ Goto(IF err THEN "fail" ELSE "persist")
    /\ UNCHANGED <<profile, row, err, tool, flag, inv, ready, stream, beat, history, faults>>

Flush ==
    /\ pc = "flush" /\ sender = "ended" /\ Goto(IF err THEN "fail" ELSE "persist")
    /\ UNCHANGED <<profile, row, err, tool, flag, inv, ready, stream, beat, history, faults>>

\* A failed write ends the turn at once: no event, no leave.
Persist ==
    /\ pc = "persist"
    /\ \/ row' = "done" /\ Goto("announce") /\ UNCHANGED faults
       \/ Fault /\ row' \in {row, "done"} /\ Goto("ended")
    /\ UNCHANGED <<profile, err, tool, flag, inv, ready, stream, beat, history>>

Announce ==
    /\ pc = "announce"
    /\ Broadcast("done") /\ Goto("leave")
    /\ UNCHANGED <<profile, row, err, tool, flag, inv, ready, tx, buf, sender, beat, history,
                   faults>>

\* The event goes out before the row is written.
Fail ==
    /\ pc = "fail"
    /\ Broadcast("error") /\ Goto("failed")
    /\ UNCHANGED <<profile, row, err, tool, flag, inv, ready, tx, buf, sender, beat, history,
                   faults>>

FailRow ==
    /\ pc = "failed"
    /\ Ignoring(row' = "error", UNCHANGED row) /\ Goto("leave")
    /\ UNCHANGED <<profile, err, tool, flag, inv, ready, stream, beat, history>>

Leave ==
    /\ pc = "leave" /\ Goto("ended")
    /\ UNCHANGED <<profile, row, err, tool, flag, inv, ready, stream, beat, history, faults>>

-----------------------------------------------------------------------------
(* The broadcaster: text is batched, tool events flush it first.           *)

Receive ==
    /\ sender = "running" /\ tx # <<>>
    /\ tx' = Tail(tx)
    /\ CASE Head(tx) = "text" -> buf' = TRUE /\ UNCHANGED <<wire, sender>>
         [] Head(tx) = "tool" -> buf' = FALSE /\ Broadcast("tool") /\ UNCHANGED sender
         [] Head(tx) = "end"  -> /\ buf' = FALSE /\ sender' = "ended"
                                 /\ IF buf THEN Broadcast("text") ELSE UNCHANGED wire
    /\ UNCHANGED <<profile, row, pc, err, tool, flag, inv, ready, beat, history, faults>>

\* The 80 ms tick, or 24 bytes of one kind.
FlushText ==
    /\ sender = "running" /\ buf
    /\ Broadcast("text") /\ buf' = FALSE
    /\ UNCHANGED <<profile, row, pc, err, tool, flag, inv, ready, tx, sender, beat, history,
                   faults>>

\* A ping carries no number.
Ping ==
    /\ heart = "running"
    /\ wire' = "loading"
    /\ UNCHANGED <<profile, row, pc, err, tool, flag, inv, ready, tx, buf, sender, beat, history,
                   faults>>

HeartStops ==
    /\ heart = "running" /\ notified
    /\ heart' = "ended" /\ notified' = FALSE
    /\ UNCHANGED <<profile, row, pc, err, tool, flag, inv, ready, stream, history, faults>>

-----------------------------------------------------------------------------
(* The user.                                                               *)

\* Web RPC or device PATCH; only a row that waits takes a decision.
UserDecides(c, decision) ==
    /\ inv[c] = [status |-> "awaiting", decision |-> "none"]
    /\ inv' = [inv EXCEPT ![c].decision = decision]
    /\ granted' = IF decision = "approved" THEN granted \cup {c} ELSE granted
    /\ UNCHANGED <<profile, row, pc, err, tool, flag, ready, stream, beat, ran, bailed, late,
                   faults>>

\* A stop that finds no registered turn is lost.
UserStops ==
    /\ flag = "clear" /\ flag' = "set"
    /\ UNCHANGED <<profile, row, pc, err, tool, inv, ready, stream, beat, history, faults>>

-----------------------------------------------------------------------------

Turn ==
    \/ Claim \/ SetupRefused \/ ModelMissing \/ SetupFails \/ SetupDone
    \/ Join \/ Register \/ \E updating \in BOOLEAN : CheckUpdate(updating) \/ Warm
    \/ Delta
    \/ StreamFails \/ StreamAnswers \/ \E calls \in SUBSET profile.calls : StreamCalls(calls)
    \/ \E c \in Calls : NextCall(c)
    \/ RoundOver \/ Ask \/ Open \/ DecisionRead \/ DecisionGivenUp \/ Denied \/ Exec \/ Close
    \/ Result \/ Wind \/ Quiet \/ Flush \/ Persist \/ Announce \/ Fail \/ FailRow \/ Leave
Broadcaster == Receive \/ FlushText
Heartbeat == Ping \/ HeartStops
Environment ==
    \/ \E c \in Calls, d \in {"approved", "denied"} : UserDecides(c, d)
    \/ UserStops

\* A turn that ended has nothing left to do.
Over == pc = "ended" /\ sender # "running" /\ UNCHANGED vars

Next == Turn \/ Broadcaster \/ Heartbeat \/ Environment \/ Over
Spec == Init /\ [][Next]_vars

\* Where the turn writes to the standard input of a third-party server: while it starts
\* the servers of a workspace or of an ordinary turn, and in a call.  No timeout covers
\* that write, and a server that does not read may hold it for ever.
McpWait ==
    \/ pc = "setup" /\ profile.model = "known" /\ profile.workspace = "open"
    \/ pc = "warm" /\ ~Coding /\ PlatformTools \cap McpTools # {}
    \/ pc = "exec" /\ Tool[cur] \in McpTools /\ ~(Coding /\ Refused(profile.policy, Tool[cur]))

\* The three tasks are scheduled; a stream ends (the client has timeouts), a
\* decision is given up after 1800 s.  Third-party servers, the user and the updater
\* owe nothing.
Fairness == WF_vars(Turn /\ ~McpWait) /\ WF_vars(Receive) /\ WF_vars(HeartStops)
FairSpec == Spec /\ Fairness

-----------------------------------------------------------------------------
(* Properties.                                                             *)

\* A call that changes something runs only under the automatic policy or after the
\* user approved this very invocation, and never in an inspection-only workspace.
ChangesApproved ==
    \A c \in ran : Recorded(c) =>
        /\ Gated(c) => c \in granted
        /\ Coding /\ Mutating(Tool[c]) =>
              \/ profile.policy = "auto"
              \/ profile.policy = "approve_writes" /\ c \in granted

\* "done" or "error" is the last word on the channel: no late ping of the heartbeat and
\* no delta that the broadcaster still held follows it.
ChannelOrdered ==
    [][ /\ wire' # wire => wire \notin {"done", "error"}
        /\ wire' \in {"done", "error"} => ~buf' /\ sender' = "ended" ]_vars

\* A turn that is over has left the registry that updates look at, and its heartbeat
\* is gone: no exit of process forgets either.
EndedTurnGone == pc = "ended" => flag = "none" /\ heart # "running"

\* The row of a turn that is over is final, unless a call was lost, the turn gave way
\* to an update, or the rig has no file of its model: those leave it in "streaming".
RowSettled ==
    pc = "ended" =>
        row \in {"done", "error"} \/ bailed \/ faults > 0 \/ profile.model = "unknown"

\* After a stop at most one more round is asked of the model.
StopHeeded == late <= 1

\* Every turn ends, whatever the user does, unless it is left for ever at a third-party
\* server that does not read: no other wait is without a deadline, and the turn, its
\* broadcaster and its heartbeat do not wait for each other in a circle.
TurnEnds == ~<>[]McpWait => <>(pc = "ended" /\ sender # "running")
=============================================================================
