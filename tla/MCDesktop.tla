------------------------------ MODULE MCDesktop ------------------------------
(* Desktop on a small instance: a coding turn with two sub-agents, a gated *)
(* call of a third-party tool and a page to open; a chat of three calls;   *)
(* tasks on the session.                                                   *)
EXTENDS Desktop, TLC

CONSTANTS w, a1, a2, p                      \* tool calls
CONSTANTS s1, c1, c2, e1, b1, d1, w1        \* tasks on the session

MCTurnCalls == {w, a1, a2, p}
MCTurnTool ==
    (w :> "mcp_write") @@ (a1 :> "run_agent") @@ (a2 :> "run_agent") @@ (p :> "web_preview_open")
MCScenarios ==
    {{s1, c1, c2, e1}, {s1, c1, c2, d1}, {s1, c1, d1, w1}, {s1, e1, b1, d1}, {s1, e1, w1}, {s1, c1, c2, w1}}
=============================================================================
