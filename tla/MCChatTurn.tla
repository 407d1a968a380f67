----------------------------- MODULE MCChatTurn -----------------------------
(* Two calls of the same gated tool (one approval must not serve both), a  *)
(* third-party one and three web searches, in seven kinds of turns.        *)
EXTENDS ChatTurn

CONSTANTS w1, w2, m, s1, s2, s3
Searches == {s1, s2, s3}
MCCalls == {w1, w2, m} \cup Searches
MCTool == [c \in MCCalls |-> CASE c \in {w1, w2} -> "write_file"
                               [] c = m -> "mcp_write"
                               [] c \in Searches -> "web_search"]
MCProfiles ==
    {[protocol |-> 1, model |-> "known", workspace |-> "open", policy |-> p, mcpAsks |-> TRUE,
      calls |-> {w1, w2}] : p \in {"approve_writes", "plan"}}
    \cup {[protocol |-> 1, model |-> "known", workspace |-> "none", policy |-> "auto", mcpAsks |-> TRUE,
           calls |-> {w1, m}],
          [protocol |-> 0, model |-> "known", workspace |-> "gone", policy |-> "auto", mcpAsks |-> FALSE,
           calls |-> {}]}
    \cup {[protocol |-> 0, model |-> known, workspace |-> "none", policy |-> "auto", mcpAsks |-> FALSE,
           calls |-> Searches] : known \in {"none", "unknown", "known"}}
=============================================================================
