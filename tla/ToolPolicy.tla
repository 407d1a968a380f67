----------------------------- MODULE ToolPolicy -----------------------------
(***************************************************************************)
(* Which tools a turn may use, which of them change something, and which   *)
(* of those wait for the user: the pure part of coding/mod.rs, shared by   *)
(* the web turns (ChatTurn) and the desktop turns (CodingTurn).  A tool is *)
(* its name; "git" and "mcp__" calls are split by what their arguments or  *)
(* the server's hints make of them.                                        *)
(***************************************************************************)

Policies == {"read_only", "plan", "approve_writes", "auto"}

\* An unknown word is the default policy.
ParsePolicy(word) == IF word \in Policies THEN word ELSE "approve_writes"

AllowsMutations(policy) == policy \notin {"read_only", "plan"}
GatesMutations(policy) == policy = "approve_writes"

ReadTools == {"read_file", "list_dir", "search"}
WriteTools == {"write_file", "edit_file", "run_command", "update_memory", "create_agent"}
GitCalls == {"git_read", "git_write"}
PreviewTools == {"dev_server_start", "dev_server_logs", "dev_server_stop", "web_preview_open",
                 "web_preview_snapshot", "web_preview_click", "web_preview_fill",
                 "web_preview_press", "web_preview_reload", "web_preview_resize",
                 "web_preview_console", "web_preview_close"}
\* In the frozen snapshot: trusted and read-only, or mutating; or not in it at all.
McpTools == {"mcp_read", "mcp_write", "mcp_unlisted"}
LocalTools == ReadTools \cup WriteTools \cup GitCalls \cup {"run_agent"}
KnownTools == LocalTools \cup PreviewTools \cup McpTools

\* A third-party tool that the snapshot does not know fails closed.
BuiltinMutating(tool) == tool \in WriteTools \cup {"dev_server_start", "git_write"}
Mutating(tool) == IF tool \in McpTools THEN tool # "mcp_read" ELSE BuiltinMutating(tool)

\* The schemas shown to the model: withholding is advice, Refused is enforcement.
OfferedTools(policy, preview, mcp) ==
    LET all == LocalTools \cup (IF preview THEN PreviewTools ELSE {})
                          \cup (IF mcp THEN McpTools \ {"mcp_unlisted"} ELSE {})
    IN  {t \in all : AllowsMutations(policy) \/ t \in GitCalls \/ ~Mutating(t)}

\* approval_preview returns a text to show: every mutating tool has one.
NeedsApproval(policy, tool) == GatesMutations(policy) /\ Mutating(tool)

\* execute answers "blocked" and runs nothing.
Refused(policy, tool) == ~AllowsMutations(policy) /\ Mutating(tool)
=============================================================================
