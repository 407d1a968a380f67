------------------------------ MODULE McpManager ------------------------------
(***************************************************************************)
(* The MCP servers of the agent: the list in config.json with the secrets  *)
(* beside it, the handles of McpManager, the snapshot of tools shown to    *)
(* the models, and the tasks that change them: commands of the Tools tab,  *)
(* the reconciliation with the servers authored on the web, the lazy start *)
(* before a turn and the calls of a turn.  A section under the servers     *)
(* lock is one step; spawning and the handshake run outside it.            *)
(***************************************************************************)
EXTENDS Naturals, FiniteSets

CONSTANTS McpServers,
          McpTasks,     \* each performs one operation
          Versions,     \* versions of a web-authored server
          Absent

ASSUME McpAssumption == Versions \subseteq Nat /\ 0 \in Versions /\ Absent \notin Versions

VARIABLES mcpConfig,    \* mcp_servers of config.json
          secrets,      \* mcp_secrets.json: version of the token, per server
          desired,      \* version the owner wants, per web-authored server
          appliedVersion, appliedLock,      \* mcp_cloud_applied and its lock
          handle,       \* ServerHandle per server
          snap,         \* current: how a server's tools are offered
          mcpPc, mcpOp, todo, changed,      \* tasks
          list, spawned                     \* their copy of the list, the client they connect

mcpShared == <<mcpConfig, secrets, desired, appliedVersion, appliedLock>>
mcpTask == <<mcpPc, mcpOp, todo, changed, list, spawned>>
mcpVars == <<mcpShared, handle, snap, mcpTask>>

\* Every other version of a server only rotates its secret.
Transport(version) == version \div 2
Configs == [cloud : BOOLEAN, enabled : BOOLEAN, trusted : BOOLEAN, version : Versions]
Lists == [McpServers -> Configs \cup {Absent}]
Clients == [srv : McpServers, version : Versions, secret : Versions \cup {Absent}, alive : BOOLEAN]
Handles == [enabled : BOOLEAN, trusted : BOOLEAN, version : Versions, tools : BOOLEAN, backoff : BOOLEAN,
            status : {"stopped", "starting", "running", "failed"}, client : Clients \cup {Absent}]

ASSUME AbsentAssumption == Absent \notin Configs \cup Clients \cup Handles

McpTypeOK ==
    /\ mcpConfig \in Lists
    /\ \A v \in {secrets, desired, appliedVersion} : v \in [McpServers -> Versions \cup {Absent}]
    /\ appliedLock \in McpTasks \cup {Absent}
    /\ handle \in [McpServers -> Handles \cup {Absent}]
    /\ snap \in [McpServers -> {"none", "read", "write"}]
    /\ mcpPc \in [McpTasks -> {"idle", "edit", "deleting", "deleted", "current", "write", "apply", "rebuild",
                               "connect", "spawn", "list", "finish", "ended"}]
    /\ mcpOp \in [McpTasks -> {"none", "edit", "start", "stop", "ensure", "call", "reconcile"}]
    /\ todo \in [McpTasks -> SUBSET McpServers] /\ changed \in [McpTasks -> BOOLEAN]
    /\ list \in [McpTasks -> Lists \cup {Absent}] /\ spawned \in [McpTasks -> Clients \cup {Absent}]

FromCloud(version) == [cloud |-> TRUE, enabled |-> TRUE, trusted |-> FALSE, version |-> version]
StoppedHandle(config) ==
    [enabled |-> config.enabled, trusted |-> config.trusted, version |-> config.version,
     tools |-> FALSE, backoff |-> FALSE, status |-> "stopped", client |-> Absent]

\* set_configs at startup; each server is authored here or on the web.
McpInit ==
    /\ \E cloud \in [McpServers -> BOOLEAN] :
          /\ mcpConfig = [s \in McpServers |-> [FromCloud(0) EXCEPT !.cloud = cloud[s]]]
          /\ desired = [s \in McpServers |-> IF cloud[s] THEN 0 ELSE Absent]
    /\ secrets = [s \in McpServers |-> 0]
    /\ appliedVersion = desired /\ appliedLock = Absent
    /\ handle = [s \in McpServers |-> StoppedHandle(mcpConfig[s])]
    /\ snap = [s \in McpServers |-> "none"]
    /\ mcpPc = [t \in McpTasks |-> "idle"] /\ mcpOp = [t \in McpTasks |-> "none"]
    /\ todo = [t \in McpTasks |-> {}] /\ changed = [t \in McpTasks |-> FALSE]
    /\ list = [t \in McpTasks |-> Absent] /\ spawned = [t \in McpTasks |-> Absent]

McpAt(t, at) == mcpPc' = [mcpPc EXCEPT ![t] = at]
Begins(t, op) == mcpPc[t] = "idle" /\ mcpOp' = [mcpOp EXCEPT ![t] = op]
Alive(s) == handle[s] # Absent /\ handle[s].client # Absent /\ handle[s].client.alive
StopHandle(s) ==
    handle' = [handle EXCEPT ![s].client = Absent, ![s].status = "stopped", ![s].tools = FALSE,
                             ![s].backoff = FALSE]

\* A tool that its server calls read-only is believed under trust only.
Offer(h) ==
    IF h = Absent \/ ~h.enabled \/ h.status # "running" \/ ~h.tools THEN "none"
    ELSE IF h.trusted THEN "read" ELSE "write"

\* rebuild_snapshot: under the lock, from the handles as they are.
Offers == [s \in McpServers |-> Offer(handle[s])]

-----------------------------------------------------------------------------
(* Commands of the Tools tab: a copy of the list is edited without the     *)
(* config lock, and written back whole.                                    *)

EditRead(t) ==
    /\ Begins(t, "edit") /\ McpAt(t, "edit") /\ list' = [list EXCEPT ![t] = mcpConfig]
    /\ UNCHANGED <<mcpShared, handle, snap, todo, changed, spawned>>

\* mcp_update_server; afterwards a server that shows as running is started again.
EditWrite(t, s, enabled, trusted) ==
    /\ mcpPc[t] = "edit" /\ list[t][s] # Absent
    /\ list' = [list EXCEPT ![t][s].enabled = enabled, ![t][s].trusted = trusted]
    /\ mcpConfig' = list'[t]
    /\ todo' = [todo EXCEPT ![t] = {s}] /\ McpAt(t, "apply")
    /\ UNCHANGED <<secrets, desired, appliedVersion, appliedLock, handle, snap, mcpOp, changed, spawned>>

\* mcp_add_server, mcp_install_catalog_entry: the secrets first.
AddWrite(t, s) ==
    /\ mcpPc[t] = "edit" /\ list[t][s] = Absent
    /\ secrets' = [secrets EXCEPT ![s] = 0]
    /\ list' = [list EXCEPT ![t][s] = [FromCloud(0) EXCEPT !.cloud = FALSE]]
    /\ mcpConfig' = list'[t] /\ McpAt(t, "apply")
    /\ UNCHANGED <<desired, appliedVersion, appliedLock, handle, snap, mcpOp, todo, changed, spawned>>

\* mcp_delete_server: the server stops, the snapshot is rebuilt and its secrets go, and
\* then the list is written.
DeleteStop(t, s) ==
    /\ mcpPc[t] = "edit" /\ list[t][s] # Absent
    /\ IF handle[s] = Absent THEN UNCHANGED handle ELSE StopHandle(s)
    /\ changed' = [changed EXCEPT ![t] = handle[s] # Absent]
    /\ list' = [list EXCEPT ![t][s] = Absent] /\ todo' = [todo EXCEPT ![t] = {s}] /\ McpAt(t, "deleting")
    /\ UNCHANGED <<mcpShared, snap, mcpOp, spawned>>

DeleteSecrets(t) ==
    /\ mcpPc[t] = "deleting" /\ McpAt(t, "deleted")
    /\ snap' = IF changed[t] THEN Offers ELSE snap
    /\ secrets' = [s \in McpServers |-> IF s \in todo[t] THEN Absent ELSE secrets[s]]
    /\ todo' = [todo EXCEPT ![t] = {}] /\ changed' = [changed EXCEPT ![t] = FALSE]
    /\ UNCHANGED <<mcpConfig, desired, appliedVersion, appliedLock, handle, mcpOp, list, spawned>>

DeleteWrite(t) ==
    /\ mcpPc[t] = "deleted" /\ mcpConfig' = list[t] /\ McpAt(t, "apply")
    /\ UNCHANGED <<secrets, desired, appliedVersion, appliedLock, handle, snap, mcpOp, todo, changed, list, spawned>>

UserStart(t, s) ==
    /\ Begins(t, "start") /\ McpAt(t, "connect") /\ todo' = [todo EXCEPT ![t] = {s}]
    /\ UNCHANGED <<mcpShared, handle, snap, changed, list, spawned>>

UserStop(t, s) ==
    /\ Begins(t, "stop") /\ handle[s] # Absent /\ StopHandle(s) /\ McpAt(t, "rebuild")
    /\ UNCHANGED <<mcpShared, snap, todo, changed, list, spawned>>

-----------------------------------------------------------------------------
(* reconcile_mcp.                                                          *)

ReconcileFetch(t) ==
    /\ Begins(t, "reconcile") /\ McpAt(t, "current")
    /\ list' = [list EXCEPT ![t] = [s \in McpServers |-> IF desired[s] = Absent THEN Absent
                                                        ELSE FromCloud(desired[s])]]
    /\ UNCHANGED <<mcpShared, handle, snap, todo, changed, spawned>>

\* Nothing new: done.  Else the secrets of what changed, and the merged list: servers of
\* this device as they are, those of the web as they are wanted.
ReconcileCurrent(t) ==
    /\ mcpPc[t] = "current" /\ appliedLock = Absent
    /\ LET new == {s \in McpServers : list[t][s] # Absent /\ list[t][s].version # appliedVersion[s]}
           gone == {s \in McpServers : /\ mcpConfig[s] # Absent /\ mcpConfig[s].cloud
                                       /\ list[t][s] = Absent}
       IN  IF new \cup gone = {}
           THEN McpAt(t, "ended") /\ UNCHANGED <<secrets, appliedLock, todo, list>>
           ELSE /\ secrets' = [s \in McpServers |-> CASE s \in new  -> list[t][s].version
                                                      [] s \in gone -> Absent
                                                      [] OTHER      -> secrets[s]]
                /\ appliedLock' = t /\ todo' = [todo EXCEPT ![t] = new]
                /\ list' = [list EXCEPT ![t] =
                               [s \in McpServers |-> IF list[t][s] # Absent \/ s \in gone THEN list[t][s]
                                                     ELSE mcpConfig[s]]]
                /\ McpAt(t, "write")
    /\ UNCHANGED <<mcpConfig, desired, appliedVersion, handle, snap, mcpOp, changed, spawned>>

ReconcileWrite(t) ==
    /\ mcpPc[t] = "write" /\ mcpConfig' = list[t] /\ McpAt(t, "apply")
    /\ UNCHANGED <<secrets, desired, appliedVersion, appliedLock, handle, snap, mcpOp, todo, changed, list,
                   spawned>>

\* set_configs: a client is kept while its transport is the same.
Configured(h, config) ==
    IF config = Absent \/ h = Absent
    THEN IF config = Absent THEN Absent ELSE StoppedHandle(config)
    ELSE LET kept == IF Transport(h.version) = Transport(config.version) THEN h
                     ELSE [StoppedHandle(config) EXCEPT !.backoff = h.backoff]
         IN  [kept EXCEPT !.enabled = config.enabled, !.trusted = config.trusted, !.version = config.version]

\* Mutant: the snapshot is left as it is when the list of servers changes.
Apply_NoRebuild(t) ==
    /\ mcpPc[t] = "apply"
    /\ handle' = [s \in McpServers |-> Configured(handle[s], list[t][s])]
    /\ McpAt(t, "connect")
    /\ UNCHANGED <<mcpShared, snap, mcpOp, todo, changed, list, spawned>>

Apply(t) ==
    /\ mcpPc[t] = "apply"
    /\ handle' = [s \in McpServers |-> Configured(handle[s], list[t][s])]
    /\ McpAt(t, "rebuild")
    /\ UNCHANGED <<mcpShared, snap, mcpOp, todo, changed, list, spawned>>

-----------------------------------------------------------------------------
(* rebuild_snapshot, after a change.                                       *)

\* What an operation starts once the new list is in force.
StartsAfter(t) ==
    {s \in todo[t] : /\ handle[s] # Absent
                     /\ \/ mcpOp[t] = "edit" /\ handle[s].status = "running"
                        \/ mcpOp[t] = "reconcile" /\ list[t][s].enabled}

Rebuild(t) ==
    /\ mcpPc[t] = "rebuild"
    /\ snap' = Offers
    /\ todo' = [todo EXCEPT ![t] = IF changed[t] THEN {} ELSE StartsAfter(t)]
    /\ McpAt(t, IF changed[t] THEN "finish" ELSE "connect")
    /\ UNCHANGED <<mcpShared, handle, mcpOp, changed, list, spawned>>

\* A reconciliation remembers the versions it has brought in force.
Finish(t) ==
    /\ mcpPc[t] = "finish" /\ McpAt(t, "ended")
    /\ IF mcpOp[t] = "reconcile"
       THEN /\ appliedVersion' = [s \in McpServers |-> IF list[t][s] # Absent /\ list[t][s].cloud
                                                       THEN list[t][s].version ELSE Absent]
            /\ appliedLock' = Absent
       ELSE UNCHANGED <<appliedVersion, appliedLock>>
    /\ list' = [list EXCEPT ![t] = Absent]
    /\ UNCHANGED <<mcpConfig, secrets, desired, handle, snap, mcpOp, todo, changed, spawned>>

-----------------------------------------------------------------------------
(* ensure_enabled_started and live_client, and connect_locked below them.  *)

TurnEnsures(t) ==
    /\ Begins(t, "ensure") /\ McpAt(t, "connect")
    /\ todo' = [todo EXCEPT ![t] = {s \in McpServers : /\ handle[s] # Absent /\ handle[s].enabled
                                                       /\ handle[s].status # "running"}]
    /\ UNCHANGED <<mcpShared, handle, snap, changed, list, spawned>>

TurnCallsTool(t, s) ==
    /\ Begins(t, "call") /\ McpAt(t, "connect") /\ todo' = [todo EXCEPT ![t] = {s}]
    /\ UNCHANGED <<mcpShared, handle, snap, changed, list, spawned>>

\* Connected or given up: the next server of the task.
ConnectNext(t, s, ok) ==
    /\ todo' = [todo EXCEPT ![t] = @ \ {s}]
    /\ changed' = [changed EXCEPT ![t] = @ \/ (ok /\ mcpOp[t] # "call")]
    /\ McpAt(t, "connect")

\* Alive: nothing to do.  Not configured, or in backoff: an error.
ConnectNot(t, s) ==
    /\ mcpPc[t] = "connect" /\ s \in todo[t]
    /\ (handle[s] # Absent /\ ~Alive(s)) => handle[s].backoff
    /\ ConnectNext(t, s, Alive(s))
    /\ handle' = IF handle[s] = Absent \/ Alive(s) THEN handle ELSE [handle EXCEPT ![s].client = Absent]
    /\ UNCHANGED <<mcpShared, snap, mcpOp, list, spawned>>

ConnectBegin(t, s) ==
    /\ mcpPc[t] = "connect" /\ s \in todo[t]
    /\ handle[s] # Absent /\ ~Alive(s) /\ ~handle[s].backoff
    /\ handle' = [handle EXCEPT ![s].client = Absent, ![s].status = "starting"]
    /\ spawned' = [spawned EXCEPT ![t] = [srv |-> s, version |-> handle[s].version,
                                          secret |-> Absent, alive |-> FALSE]]
    /\ McpAt(t, "spawn")
    /\ UNCHANGED <<mcpShared, snap, mcpOp, todo, changed, list>>

\* The process gets the secrets that are stored now.
Spawn(t) ==
    /\ mcpPc[t] = "spawn"
    /\ spawned' = [spawned EXCEPT ![t].secret = secrets[spawned[t].srv], ![t].alive = TRUE]
    /\ McpAt(t, "list")
    /\ UNCHANGED <<mcpShared, handle, snap, mcpOp, todo, changed, list>>

SpawnFails(t) ==
    /\ mcpPc[t] = "spawn"
    /\ LET s == spawned[t].srv IN
       /\ handle' = IF handle[s] = Absent THEN handle
                    ELSE [handle EXCEPT ![s].status = "failed", ![s].backoff = TRUE]
       /\ ConnectNext(t, s, FALSE)
    /\ spawned' = [spawned EXCEPT ![t] = Absent]
    /\ UNCHANGED <<mcpShared, snap, mcpOp, list>>

\* A list of tools that cannot be read counts as empty.
Install(t) ==
    /\ mcpPc[t] = "list"
    /\ LET s == spawned[t].srv IN
       /\ \E known \in BOOLEAN :
             handle' = IF handle[s] = Absent THEN handle
                       ELSE [handle EXCEPT ![s].client = spawned[t], ![s].tools = known,
                                           ![s].status = "running", ![s].backoff = FALSE]
       /\ ConnectNext(t, s, TRUE)
    /\ spawned' = [spawned EXCEPT ![t] = Absent]
    /\ UNCHANGED <<mcpShared, snap, mcpOp, list>>

\* refresh_changed_tools, for a server that announced another list.
Relist(t, s) ==
    /\ mcpPc[t] = "connect" /\ todo[t] = {} /\ mcpOp[t] = "ensure"
    /\ handle[s] # Absent /\ handle[s].client # Absent
    /\ \E known \in BOOLEAN : handle' = [handle EXCEPT ![s].tools = known]
    /\ changed' = [changed EXCEPT ![t] = TRUE]
    /\ UNCHANGED <<mcpShared, snap, mcpPc, mcpOp, todo, list, spawned>>

ConnectEnd(t) ==
    /\ mcpPc[t] = "connect" /\ todo[t] = {}
    /\ McpAt(t, IF changed[t] THEN "rebuild" ELSE "finish")
    /\ UNCHANGED <<mcpShared, handle, snap, mcpOp, todo, changed, list, spawned>>

-----------------------------------------------------------------------------
(* Around the agent.                                                       *)

ServerDies(s) ==
    /\ Alive(s) /\ handle' = [handle EXCEPT ![s].client.alive = FALSE]
    /\ UNCHANGED <<mcpShared, snap, mcpTask>>

BackoffOver(s) ==
    /\ handle[s] # Absent /\ handle[s].backoff
    /\ handle' = [handle EXCEPT ![s].backoff = FALSE]
    /\ UNCHANGED <<mcpShared, snap, mcpTask>>

OwnerAuthors(s, version) ==
    /\ desired[s] # Absent /\ (version # Absent => version > desired[s])
    /\ desired' = [desired EXCEPT ![s] = version]
    /\ UNCHANGED <<mcpConfig, secrets, appliedVersion, appliedLock, handle, snap, mcpTask>>

-----------------------------------------------------------------------------

McpStep(t) ==
    \/ EditRead(t) \/ DeleteSecrets(t) \/ DeleteWrite(t)
    \/ ReconcileFetch(t) \/ ReconcileCurrent(t) \/ ReconcileWrite(t) \/ Apply(t) \/ Rebuild(t)
    \/ Finish(t) \/ TurnEnsures(t) \/ Spawn(t) \/ SpawnFails(t) \/ Install(t) \/ ConnectEnd(t)
    \/ \E s \in McpServers :
          \/ \E enabled, trusted \in BOOLEAN : EditWrite(t, s, enabled, trusted)
          \/ AddWrite(t, s) \/ DeleteStop(t, s) \/ UserStart(t, s) \/ UserStop(t, s) \/ TurnCallsTool(t, s)
          \/ ConnectNot(t, s) \/ ConnectBegin(t, s) \/ Relist(t, s)
McpEnvironment ==
    \E s \in McpServers :
        ServerDies(s) \/ BackoffOver(s) \/ \E version \in Versions \cup {Absent} : OwnerAuthors(s, version)

McpNext == McpEnvironment \/ \E t \in McpTasks : McpStep(t)

McpSpec == McpInit /\ [][McpNext]_mcpVars

-----------------------------------------------------------------------------
(* Properties.                                                             *)

\* A turn skips the approval of a read only tool if the snapshot says so: but for an
\* operation that is about to rebuild it, the snapshot says so only while the manager
\* has the server down as trusted and enabled, whatever connects, edits and
\* reconciliations overlap.
TrustInForce ==
    (\A t \in McpTasks : mcpPc[t] # "rebuild") =>
        \A s \in McpServers : snap[s] = "read" => handle[s] # Absent /\ handle[s].trusted /\ handle[s].enabled

\* The comment of reconcile_mcp: after a rotation every changed, enabled server is
\* relaunched "so the new config/secret takes effect".
RotationTakesEffect ==
    (\A t \in McpTasks : mcpPc[t] \in {"idle", "ended"}) =>
        \A s \in McpServers : (appliedVersion[s] # Absent /\ Alive(s)) => handle[s].client.secret = secrets[s]
=============================================================================
