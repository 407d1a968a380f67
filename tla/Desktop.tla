------------------------------- MODULE Desktop -------------------------------
(***************************************************************************)
(* The parts of the desktop application side by side: a coding turn, a     *)
(* chat turn, the edits of one session's file, the MCP manager and the     *)
(* client of one of its servers.  They share no state in the models, so a  *)
(* behaviour moves one of them.                                            *)
(***************************************************************************)
EXTENDS CodingTurn, LocalChatTurn, CodingSessions, McpManager, McpClient

CONSTANT Scenarios       \* sets of tasks on the session that run together

ASSUME DesktopAssumption == Scenarios \subseteq SUBSET Editors

VARIABLE world
worldVars == <<world, turnVars, chatVars, sessionVars, mcpVars, rpcVars>>

DesktopInit ==
    /\ world \in {"turn", "chat", "sessions", "mcp", "rpc"}
    \* the choices of a world's initial state matter in that world only
    /\ TurnInit /\ (world # "turn" => ~autoCompact /\ turnPolicy = "plan")
    /\ ChatInit /\ (world # "chat" => ~chatAuto /\ ~trusted)
    /\ \E T \in IF world = "sessions" THEN Scenarios ELSE {{}} : SessionsStart(T)
    /\ world # "sessions" => ~file.remote
    /\ McpInit /\ (world # "mcp" => \A s \in McpServers : mcpConfig[s].cloud)
    /\ RpcInit

TurnWorld == world = "turn" /\ TurnNext /\ UNCHANGED <<world, chatVars, sessionVars, mcpVars, rpcVars>>
ChatWorld == world = "chat" /\ ChatNext /\ UNCHANGED <<world, turnVars, sessionVars, mcpVars, rpcVars>>
SessionsWorld == world = "sessions" /\ SessionsNext /\ UNCHANGED <<world, turnVars, chatVars, mcpVars, rpcVars>>
McpWorld == world = "mcp" /\ McpNext /\ UNCHANGED <<world, turnVars, chatVars, sessionVars, rpcVars>>
RpcWorld == world = "rpc" /\ RpcNext /\ UNCHANGED <<world, turnVars, chatVars, sessionVars, mcpVars>>

DesktopNext == TurnWorld \/ ChatWorld \/ SessionsWorld \/ McpWorld \/ RpcWorld
DesktopFairness ==
    /\ WF_worldVars(world = "turn" /\ TurnStep /\ ~TurnAtServer
                    /\ UNCHANGED <<world, chatVars, sessionVars, mcpVars, rpcVars>>)
    /\ \A c \in AgentCalls :
          WF_worldVars(world = "turn" /\ AgentStep(c)
                       /\ UNCHANGED <<world, chatVars, sessionVars, mcpVars, rpcVars>>)
    /\ WF_worldVars(world = "chat" /\ ChatStep /\ ~ChatAtServer
                    /\ UNCHANGED <<world, turnVars, sessionVars, mcpVars, rpcVars>>)
DesktopSpec == DesktopInit /\ [][DesktopNext]_worldVars /\ DesktopFairness

-----------------------------------------------------------------------------
(* Properties.                                                             *)

\* The type invariants of the five modules.
DesktopTypeOK == TurnTypeOK /\ ChatTypeOK /\ SessionsTypeOK /\ McpTypeOK /\ RpcTypeOK

\* Neither a coding turn nor a chat asks its model for more than the window holds.
AskFits == TurnAskFits /\ ChatAskFits

\* What a turn changes it may change when it does: a coding turn with the user's
\* approval of that call, a chat with trust its server had while that call was in hand.
ChangesAllowed == TurnChangesApproved /\ TrustedWrites

\* Turns come back: a coding turn once it is stopped, a chat by itself, however many
\* calls its model makes; only a third-party server that does not read may keep them.
TurnsReturn == StoppedTurnReturns /\ ChatTurnEnds
=============================================================================
