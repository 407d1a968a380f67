---------------------------- MODULE LocalChatTurn ----------------------------
(***************************************************************************)
(* One desktop chat turn, local_chat::send and run_turn: the context is    *)
(* checked once before the turn and again before every request; a round    *)
(* that calls tools is followed by another one, until the message's tool   *)
(* budget is spent and a last request without tools must answer.  There is *)
(* no approval here: marking an MCP server Trusted authorizes its writes,  *)
(* and the user may withdraw that mark while the turn runs.                *)
(***************************************************************************)
EXTENDS Naturals, Sequences

CONSTANTS ChatLimit,     \* tool_call_limit of the model
          ChatBatch,     \* bound: calls in one round
          ChatWindow,    \* max_tokens, in units of the largest tool result
          ChatReserve    \* reserve_tokens, same units

ASSUME LocalChatAssumption ==
    {ChatLimit, ChatBatch, ChatWindow, ChatReserve} \subseteq Nat /\ ChatReserve < ChatWindow

\* A name that is no tool, and one of the MCP snapshot's absence, only yield a text.
ChatKinds == {"web", "mcp_read", "mcp_write", "invented"}

VARIABLES chatAuto,      \* auto_compact of the session
          chatPc, chatFlag, chatUsed,
          pendingCalls, executed, synthesisOnly,
          offeredWrites, \* the tool list, frozen for the turn, holds the server's writes
          trusted,       \* the server's mark in the configuration
          vouched,       \* history: trusted at some moment since the call in hand was taken
          rogue          \* history: a write went to a server that was not

chatBudget == <<pendingCalls, executed, synthesisOnly>>
chatTrust == <<offeredWrites, trusted, vouched, rogue>>
chatVars == <<chatAuto, chatPc, chatFlag, chatUsed, chatBudget, chatTrust>>

ChatTypeOK ==
    /\ chatAuto \in BOOLEAN
    /\ chatPc \in {"start", "tools", "register", "measure", "stream", "calls", "call", "write", "ended"}
    /\ chatFlag \in {"none", "clear", "set"}
    /\ chatUsed \in 0..(ChatWindow + ChatBatch)
    /\ pendingCalls \in Seq(ChatKinds) /\ Len(pendingCalls) <= ChatBatch
    /\ executed \in 0..ChatLimit /\ synthesisOnly \in BOOLEAN
    /\ {offeredWrites, trusted, vouched, rogue} \subseteq BOOLEAN

ChatInit ==
    /\ chatAuto \in BOOLEAN
    /\ chatPc = "start" /\ chatFlag = "none" /\ chatUsed = 0
    /\ pendingCalls = <<>> /\ executed = 0 /\ synthesisOnly = FALSE
    /\ offeredWrites = FALSE /\ trusted \in BOOLEAN /\ vouched = FALSE /\ rogue = FALSE

ChatAt(p) == chatPc' = p
ChatOver == ChatAt("ended") /\ chatFlag' = "none"
ChatFits(size) == size + ChatReserve < ChatWindow

-----------------------------------------------------------------------------
(* send, before the turn.                                                  *)

\* The history's size, after automatic compaction where that is on and succeeds.
ChatPreflight(size) ==
    /\ chatPc = "start" /\ chatUsed' = size
    /\ ChatAt(IF ChatFits(size) THEN "tools" ELSE "ended")
    /\ UNCHANGED <<chatAuto, chatFlag, chatBudget, chatTrust>>

ChatTools ==
    /\ chatPc = "tools" /\ offeredWrites' = trusted /\ ChatAt("register")
    /\ UNCHANGED <<chatAuto, chatFlag, chatUsed, chatBudget, trusted, vouched, rogue>>

\* Registered, or refused while llama.cpp is updated.
ChatRegister(updating) ==
    /\ chatPc = "register"
    /\ IF updating THEN ChatOver ELSE chatFlag' = "clear" /\ ChatAt("measure")
    /\ UNCHANGED <<chatAuto, chatUsed, chatBudget, chatTrust>>

-----------------------------------------------------------------------------
(* run_turn: one lap of its loop.                                          *)

\* Mutant: the last request, without tools, goes out unmeasured.
ChatMeasure_NotSynthesis ==
    /\ chatPc = "measure" /\ (ChatFits(chatUsed) \/ synthesisOnly) /\ ChatAt("stream")
    /\ UNCHANGED <<chatAuto, chatFlag, chatUsed, chatBudget, chatTrust>>

ChatMeasure ==
    /\ chatPc = "measure" /\ ChatFits(chatUsed) /\ ChatAt("stream")
    /\ UNCHANGED <<chatAuto, chatFlag, chatUsed, chatBudget, chatTrust>>

\* Too full: this turn's tool results are cut; what still does not fit fails the turn.
ChatShrink ==
    /\ chatPc = "measure" /\ (chatAuto \/ ~ChatFits(chatUsed))
    /\ \E size \in 0..chatUsed :
          /\ executed = 0 => size = chatUsed
          /\ chatUsed' = size
          /\ IF ChatFits(size) THEN ChatAt("stream") /\ UNCHANGED chatFlag ELSE ChatOver
    /\ UNCHANGED <<chatAuto, chatBudget, chatTrust>>

\* Text only, a stop, an error, or any answer to the request without tools: done.
ChatAnswers ==
    /\ chatPc = "stream" /\ ChatOver
    /\ UNCHANGED <<chatAuto, chatUsed, chatBudget, chatTrust>>

ChatCalls(calls) ==
    /\ chatPc = "stream" /\ ~synthesisOnly /\ chatFlag # "set" /\ calls # <<>>
    /\ pendingCalls' = calls /\ ChatAt("calls")
    /\ UNCHANGED <<chatAuto, chatFlag, chatUsed, executed, synthesisOnly, chatTrust>>

\* Calls past the limit are answered without being run, every other one is counted.
SkipCall ==
    /\ chatPc = "calls" /\ pendingCalls # <<>> /\ executed = ChatLimit
    /\ pendingCalls' = Tail(pendingCalls)
    /\ UNCHANGED <<chatAuto, chatPc, chatFlag, chatUsed, executed, synthesisOnly, chatTrust>>

CountCall ==
    /\ chatPc = "calls" /\ pendingCalls # <<>> /\ executed < ChatLimit
    /\ executed' = executed + 1 /\ vouched' = trusted /\ ChatAt("call")
    /\ UNCHANGED <<chatAuto, chatFlag, chatUsed, pendingCalls, synthesisOnly, offeredWrites, trusted, rogue>>

CallResult ==
    /\ pendingCalls' = Tail(pendingCalls)
    /\ \E size \in 0..1 : chatUsed' = chatUsed + size
    /\ ChatAt("calls")

MayWrite == trusted

\* A write is refused to a server without the mark, else it is on its way: finding or
\* starting the server's process and the request itself come after the look.
CheckTrust ==
    /\ chatPc = "call" /\ Head(pendingCalls) = "mcp_write"
    /\ IF MayWrite THEN ChatAt("write") /\ UNCHANGED <<chatUsed, pendingCalls>> ELSE CallResult
    /\ UNCHANGED <<chatAuto, chatFlag, executed, synthesisOnly, chatTrust>>

RunCall ==
    /\ \/ chatPc = "call" /\ Head(pendingCalls) # "mcp_write" /\ UNCHANGED rogue
       \/ chatPc = "write" /\ rogue' = (rogue \/ ~vouched)
    /\ CallResult
    /\ UNCHANGED <<chatAuto, chatFlag, executed, synthesisOnly, offeredWrites, trusted, vouched>>

\* The budget spent (calls.len() >= remaining), the next request is the last one.
ChatLap ==
    /\ chatPc = "calls" /\ pendingCalls = <<>>
    /\ synthesisOnly' = (executed = ChatLimit) /\ ChatAt("measure")
    /\ UNCHANGED <<chatAuto, chatFlag, chatUsed, pendingCalls, executed, chatTrust>>

-----------------------------------------------------------------------------
(* The user.                                                               *)

ChatStops ==
    /\ chatFlag = "clear" /\ chatFlag' = "set"
    /\ UNCHANGED <<chatAuto, chatPc, chatUsed, chatBudget, chatTrust>>

SetTrust(mark) ==
    /\ chatPc # "ended" /\ trusted' = mark /\ vouched' = (vouched \/ mark)
    /\ UNCHANGED <<chatAuto, chatPc, chatFlag, chatUsed, chatBudget, offeredWrites, rogue>>

-----------------------------------------------------------------------------

ChatStep ==
    \/ \E size \in 0..ChatWindow : ChatPreflight(size)
    \/ ChatTools \/ \E updating \in BOOLEAN : ChatRegister(updating)
    \/ ChatMeasure \/ ChatShrink \/ ChatAnswers
    \/ \E calls \in UNION {[1..n -> ChatKinds] : n \in 1..ChatBatch} : ChatCalls(calls)
    \/ SkipCall \/ CountCall \/ CheckTrust \/ RunCall \/ ChatLap
ChatUser == ChatStops \/ \E mark \in BOOLEAN : SetTrust(mark)
ChatNext == ChatStep \/ ChatUser

ChatSpec == ChatInit /\ [][ChatNext]_chatVars

\* Starting the servers for the tool list, and a call of a third-party tool, write to a
\* server's standard input, without a timeout: one that does not read may hold them for ever.
ChatAtServer ==
    \/ chatPc \in {"tools", "write"}
    \/ chatPc = "call" /\ Head(pendingCalls) = "mcp_read"

\* Every request and every other tool has a deadline of its own.
ChatFairness == WF_chatVars(ChatStep /\ ~ChatAtServer)

-----------------------------------------------------------------------------
(* Properties.                                                             *)

\* No request exceeds the window: neither the first nor the one that follows a round of
\* tools, the last one without tools included.
ChatAskFits == chatPc = "stream" => ChatFits(chatUsed)

\* A write goes out only to a server that was trusted at some moment since the turn took
\* that call in hand: one that lost the mark before is not written to, although the turn's
\* tool list still shows its writes.  (The mark may go between the look and the request.)
TrustedWrites == ~rogue

\* A model that keeps calling, real tools or invented ones, is brought to an answer,
\* unless the turn is left for ever at a third-party server that does not read.
ChatTurnEnds == ~<>[]ChatAtServer => (chatPc \notin {"start", "ended"} ~> chatPc = "ended")
=============================================================================
