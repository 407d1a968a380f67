--------------------------- MODULE ModelResidency ---------------------------
(***************************************************************************)
(* Which model the llama-server child serves, and the tasks that load,     *)
(* eject, use and replace it: the commands of the desktop and of the web   *)
(* dashboard, the reconcile loop, chat turns, relayed inference jobs and   *)
(* the llama.cpp updater.  Some of them take the runtime_lifecycle mutex,  *)
(* some check the update flag, and ensure_running serves them all.         *)
(***************************************************************************)
EXTENDS Integers

CONSTANTS Models,      \* model names the user, the owner or a peer may ask for
          Local,       \* those with a GGUF file
          None,        \* no model
          Wanted,      \* desired models the owner may pick, None among them
          Turns,       \* chat and coding turns
          Jobs,        \* inference jobs relayed from other rigs
          Commands,    \* desktop and dashboard commands
          Reconcilers, \* the reconcile loop
          Updaters,    \* llama.cpp updates
          MaxDeaths    \* bound: crashes of a running server and starts that fail

ASSUME ModelResidencyAssumption ==
    /\ Local \subseteq Models /\ None \notin Models
    /\ Wanted \subseteq Models \cup {None}
    /\ MaxDeaths \in Nat
    /\ "nobody" \notin Turns \cup Jobs \cup Commands \cup Reconcilers \cup Updaters
    /\ Turns \cap (Jobs \cup Commands \cup Reconcilers \cup Updaters) = {}
    /\ Jobs \cap (Commands \cup Reconcilers \cup Updaters) = {}
    /\ Commands \cap (Reconcilers \cup Updaters) = {}
    /\ Reconcilers \cap Updaters = {}

Tasks == Turns \cup Jobs \cup Commands \cup Reconcilers \cup Updaters

VARIABLES child,     \* self.proc: the model and state of the child process
          external,  \* model of a llama-server that outlived an earlier agent
          lifecycle, \* holder of runtime_lifecycle
          updating,  \* llamacpp_update_running
          cancels,   \* turns registered: an update begins only when there are none
          ejected,   \* locally_ejected_model
          desired,   \* the owner's desired model (cloud)
          pc, op,    \* control point and operation of each task
          want,      \* the model the operation is about
          seen,      \* whether a model was resident when reconciliation looked
          deaths

vars == <<child, external, lifecycle, updating, cancels, ejected, desired,
          pc, op, want, seen, deaths>>
servers == <<child, external>>
shared == <<lifecycle, updating, cancels, ejected>>

ModelOrNone == Models \cup {None}
NoChild == [model |-> None, state |-> "none"]
Children == {NoChild} \cup [model : Local, state : {"loading", "ready", "dead"}]
Alive == child.state \in {"loading", "ready"}

Stages == {"idle", "lock", "locked", "ensure", "swap", "wait", "clear", "register",
           "sized", "check", "post", "stream", "suppress", "flagged", "move", "undo",
           "release"}
Operations == {"none", "load", "set", "eject", "restart", "reconcile", "count",
               "compact", "recount", "turn", "job", "update", "rollback"}


Typed ==
    /\ child \in Children
    /\ external \in Local \cup {None}
    /\ lifecycle \in Tasks \cup {"nobody"}
    /\ updating \in BOOLEAN
    /\ cancels \subseteq Turns
    /\ ejected \in ModelOrNone
    /\ desired \in Wanted
    /\ pc \in [Tasks -> Stages]
    /\ op \in [Tasks -> Operations]
    /\ want \in [Tasks -> ModelOrNone]
    /\ seen \in [Tasks -> BOOLEAN]
    /\ deaths \in 0..MaxDeaths

\* With the types: only a turn under way is registered, or no update would start again.
TypeOK == Typed /\ \A t \in cancels : op[t] = "turn"

Init ==
    /\ child = NoChild
    /\ external \in Local \cup {None}
    /\ lifecycle = "nobody" /\ updating = FALSE /\ cancels = {}
    /\ ejected = None
    /\ desired \in Wanted
    /\ pc = [t \in Tasks |-> "idle"]
    /\ op = [t \in Tasks |-> "none"]
    /\ want = [t \in Tasks |-> None]
    /\ seen = [t \in Tasks |-> FALSE]
    /\ deaths = 0

-----------------------------------------------------------------------------
(* Helpers.                                                                *)

Goto(t, stage) == pc' = [pc EXCEPT ![t] = stage]

\* A task that ends forgets what it was about.
Idle(t) ==
    /\ Goto(t, "idle")
    /\ op' = [op EXCEPT ![t] = "none"]
    /\ want' = [want EXCEPT ![t] = None]
    /\ seen' = [seen EXCEPT ![t] = FALSE]
Go(t, stage) ==
    IF stage = "idle" THEN Idle(t) ELSE Goto(t, stage) /\ UNCHANGED <<op, want, seen>>
Release(t) == lifecycle' = IF lifecycle = t THEN "nobody" ELSE lifecycle

\* Who answers on the port: an orphan keeps it, a second server cannot bind it.
Listener ==
    CASE external # None         -> external
      [] child.state = "ready"   -> child.model
      [] OTHER                   -> None

\* snapshot: a model counts as loaded when the handle names it, dead or alive,
\* or when a server reports it.
Resident == {child.model, Listener} \ {None}

\* What a task does after ensure_running, by its operation.
AfterEnsure(t, ok) ==
    CASE op[t] \in {"count", "recount"}         -> "sized"
      [] op[t] = "compact" /\ ~ok              -> "sized"
      [] op[t] \in {"compact", "turn", "job"} /\ ok -> "post"
      [] op[t] = "load" /\ ok                  -> "clear"
      [] op[t] = "update" /\ ~ok               -> "undo"
      [] op[t] \in {"update", "rollback"}      -> "release"
      [] OTHER                                 -> "idle"

\* Leaving ensure_running: the loads drop the lifecycle guard on return, the
\* updater keeps it, a failed turn deregisters.
Return(t, ok) ==
    /\ Go(t, AfterEnsure(t, ok))
    /\ IF op[t] \in {"load", "set", "reconcile"} THEN Release(t)
                                                 ELSE UNCHANGED lifecycle
    /\ cancels' = IF op[t] = "turn" /\ ~ok THEN cancels \ {t} ELSE cancels
    /\ UNCHANGED <<updating, ejected>>

-----------------------------------------------------------------------------
(* LlamaServerAdapter::ensure_running and wait_healthy.                    *)

EnsureResolve(t) ==
    /\ pc[t] = "ensure"
    /\ IF want[t] \notin Local THEN Return(t, FALSE)
       ELSE IF Listener = want[t] THEN Return(t, TRUE)
       ELSE Go(t, "swap") /\ UNCHANGED shared
    /\ UNCHANGED <<servers, desired, deaths>>

\* Under the proc mutex: reuse a live child of this model, however far it is, or
\* kill what is there and spawn.  The spawn may fail, and does while the tree moves.
EnsureSwap(t) ==
    /\ pc[t] = "swap"
    /\ \/ /\ child.model = want[t] /\ Alive
          /\ Return(t, TRUE) /\ UNCHANGED <<child, deaths>>
       \/ /\ ~(child.model = want[t] /\ Alive)
          /\ child' = [model |-> want[t], state |-> "loading"]
          /\ Go(t, "wait") /\ UNCHANGED <<shared, deaths>>
       \/ /\ ~(child.model = want[t] /\ Alive)
          /\ child' = NoChild
          /\ IF \E u \in Updaters : pc[u] = "move" THEN UNCHANGED deaths
             ELSE deaths < MaxDeaths /\ deaths' = deaths + 1
          /\ Return(t, FALSE)
    /\ UNCHANGED <<external, desired>>

\* The health endpoint does not say which server answers.
WaitHealthy(t) ==
    /\ pc[t] = "wait"
    /\ \/ child.state \in {"none", "dead"} /\ Return(t, FALSE)
       \/ Alive /\ Listener # None /\ Return(t, TRUE)
       \/ Alive /\ Listener = None /\ Return(t, FALSE)  \* the deadline passed
    /\ UNCHANGED <<servers, desired, deaths>>

\* The child finishes loading, unless the port is taken: then it exits.
ChildProgress ==
    /\ child.state = "loading"
    /\ child' = [child EXCEPT !.state = IF external = None THEN "ready" ELSE "dead"]
    /\ UNCHANGED <<external, shared, desired, pc, op, want, seen, deaths>>

ChildDies ==
    /\ Alive /\ deaths < MaxDeaths
    /\ child' = [child EXCEPT !.state = "dead"]
    /\ deaths' = deaths + 1
    /\ UNCHANGED <<external, shared, desired, pc, op, want, seen>>

-----------------------------------------------------------------------------
(* Commands: load_model, set_model, unload_model, restart_runtime.         *)

\* Only the dashboard's restart looks at the update flag, and before the lock.
CommandStart(t, o, m) ==
    /\ pc[t] = "idle" /\ t \in Commands
    /\ op' = [op EXCEPT ![t] = o]
    /\ want' = [want EXCEPT ![t] = m]
    /\ Goto(t, "lock")
    /\ UNCHANGED <<servers, shared, desired, seen, deaths>>

LockLifecycle(t) ==
    /\ pc[t] = "lock" /\ lifecycle = "nobody"
    /\ lifecycle' = t
    /\ Go(t, "locked")
    /\ UNCHANGED <<servers, updating, cancels, ejected, desired, deaths>>

\* Mutant: the guard lives only while the configuration is read.
LoadLocked_DropsGuard(t) ==
    /\ pc[t] = "locked" /\ op[t] \in {"load", "set", "reconcile"}
    /\ Go(t, IF updating THEN "idle" ELSE "ensure")
    /\ Release(t)
    /\ UNCHANGED <<servers, updating, cancels, ejected, desired, deaths>>

\* load_model_configured: the flag is read under the lock.
LoadLocked(t) ==
    /\ pc[t] = "locked" /\ op[t] \in {"load", "set", "reconcile"}
    /\ IF updating THEN Go(t, "idle") /\ Release(t)
                   ELSE Go(t, "ensure") /\ UNCHANGED lifecycle
    /\ UNCHANGED <<servers, updating, cancels, ejected, desired, deaths>>

\* Adapter::unload_model(m): the child if it is this model, else an orphan of it.
Unload(m, c, e, ok) ==
    IF child.model = m /\ Alive
    THEN c = NoChild /\ e = external /\ ok
    ELSE IF Alive
    THEN c = child /\ e = external /\ ~ok
    ELSE /\ c = NoChild
         /\ \/ external = m /\ m \in Local /\ e = None /\ ok
            \/ external = m /\ m \in Local /\ e = external /\ ~ok
            \/ external # m /\ m \in Local /\ e = external /\ ok
            \/ m \notin Local /\ e = external /\ ~ok

\* Mutant: an early error return keeps the guard.
EjectLocked_Leaks(t) ==
    /\ pc[t] = "locked" /\ op[t] = "eject"
    /\ \E ok \in BOOLEAN :
          /\ Unload(want[t], child', external', ok)
          /\ ejected' = (IF ok THEN want[t] ELSE ejected)
          /\ IF ok THEN Release(t) ELSE UNCHANGED lifecycle
    /\ Go(t, "idle")
    /\ UNCHANGED <<updating, cancels, desired, deaths>>

EjectLocked(t) ==
    /\ pc[t] = "locked" /\ op[t] = "eject"
    /\ \E ok \in BOOLEAN :
          /\ Unload(want[t], child', external', ok)
          /\ ejected' = (IF ok THEN want[t] ELSE ejected)
    /\ Release(t)
    /\ Go(t, "idle")
    /\ UNCHANGED <<updating, cancels, desired, deaths>>

RestartLocked(t) ==
    /\ pc[t] = "locked" /\ op[t] = "restart"
    /\ child' = NoChild
    /\ Release(t)
    /\ Go(t, "idle")
    /\ UNCHANGED <<external, updating, cancels, ejected, desired, deaths>>

\* load_model forgets the eject once the load returned, after the lock is dropped.
ClearEjected(t) ==
    /\ pc[t] = "clear"
    /\ ejected' = None
    /\ Go(t, "idle")
    /\ UNCHANGED <<servers, lifecycle, updating, cancels, desired, deaths>>

-----------------------------------------------------------------------------
(* reconcile_tick.                                                         *)

\* fetch_desired and the snapshot.
ReconcileSnapshot(t) ==
    /\ pc[t] = "idle" /\ t \in Reconcilers /\ desired # None
    /\ op' = [op EXCEPT ![t] = "reconcile"]
    /\ want' = [want EXCEPT ![t] = desired]
    /\ seen' = [seen EXCEPT ![t] = Resident # {}]
    /\ Goto(t, "suppress")
    /\ UNCHANGED <<servers, shared, desired, deaths>>

\* Mutant: the local eject is not looked at.
ReconcileDecide_IgnoresEject(t) ==
    /\ pc[t] = "suppress"
    /\ Go(t, IF seen[t] THEN "idle" ELSE "lock")
    /\ UNCHANGED <<servers, shared, desired, deaths>>

\* Mutant: only a snapshot that shows another model lets the default load.
ReconcileDecide_Inverted(t) ==
    /\ pc[t] = "suppress"
    /\ ejected' = IF ejected = want[t] THEN ejected ELSE None
    /\ Go(t, IF ejected = want[t] \/ ~seen[t] THEN "idle" ELSE "lock")
    /\ UNCHANGED <<servers, lifecycle, updating, cancels, desired, deaths>>

\* The eject is looked up under the config lock; an eject of another model is
\* forgotten.  The default is loaded if the snapshot showed nothing resident.
ReconcileDecide(t) ==
    /\ pc[t] = "suppress"
    /\ ejected' = IF ejected = want[t] THEN ejected ELSE None
    /\ Go(t, IF ejected = want[t] \/ seen[t] THEN "idle" ELSE "lock")
    /\ UNCHANGED <<servers, lifecycle, updating, cancels, desired, deaths>>

-----------------------------------------------------------------------------
(* Turns and jobs.                                                         *)

\* A desktop turn first counts its tokens, which starts the server; a turn from
\* the web registers straight away; the compact command starts with the summary.
TurnStart(t, m) ==
    /\ pc[t] = "idle" /\ t \in Turns
    /\ want' = [want EXCEPT ![t] = m]
    /\ \/ op' = [op EXCEPT ![t] = "count"]
          /\ pc' \in {[pc EXCEPT ![t] = "ensure"], [pc EXCEPT ![t] = "register"]}
       \/ op' = [op EXCEPT ![t] = "compact"] /\ Goto(t, "ensure")
    /\ UNCHANGED <<servers, shared, desired, seen, deaths>>

\* A context over the threshold is summarised by the model once, which neither
\* registers nor looks at the update flag; one that is still full ends the turn.
TurnPrepare(t) ==
    /\ pc[t] = "sized"
    /\ \/ Go(t, "register") \/ Go(t, "idle")
       \/ /\ op[t] = "count" /\ op' = [op EXCEPT ![t] = "compact"]
          /\ Goto(t, "ensure") /\ UNCHANGED <<want, seen>>
    /\ UNCHANGED <<servers, shared, desired, deaths>>

\* Mutant: the flag is read before the turn is visible to the updater.
TurnRegister_Late(t) ==
    /\ pc[t] = "register"
    /\ IF updating THEN Idle(t)
       ELSE Goto(t, "check") /\ op' = [op EXCEPT ![t] = "turn"] /\ UNCHANGED <<want, seen>>
    /\ UNCHANGED <<servers, shared, desired, deaths>>

TurnRegister(t) ==
    /\ pc[t] = "register"
    /\ cancels' = cancels \cup {t}
    /\ op' = [op EXCEPT ![t] = "turn"]
    /\ Goto(t, "check")
    /\ UNCHANGED <<servers, lifecycle, updating, ejected, desired, want, seen, deaths>>

\* Mutant: the refused turn leaves its entry behind.
TurnCheck_KeepsEntry(t) ==
    /\ pc[t] = "check"
    /\ Go(t, IF updating THEN "idle" ELSE "ensure")
    /\ UNCHANGED <<servers, shared, desired, deaths>>

TurnCheck(t) ==
    /\ pc[t] = "check"
    /\ IF updating THEN Go(t, "idle") /\ cancels' = cancels \ {t}
                   ELSE Go(t, "ensure") /\ UNCHANGED cancels
    /\ UNCHANGED <<servers, lifecycle, updating, ejected, desired, deaths>>

\* process_inference_job: no registration, no flag, no lifecycle lock.
JobStart(t, m) ==
    /\ pc[t] = "idle" /\ t \in Jobs
    /\ want' = [want EXCEPT ![t] = m]
    /\ op' = [op EXCEPT ![t] = "job"]
    /\ Goto(t, "ensure")
    /\ UNCHANGED <<servers, shared, desired, seen, deaths>>

\* The completion request goes to whoever listens.
Post(t) ==
    /\ pc[t] = "post"
    /\ IF Listener # None THEN Go(t, "stream") /\ UNCHANGED cancels
       ELSE IF op[t] = "compact" THEN Go(t, "sized") /\ UNCHANGED cancels
       ELSE Go(t, "idle") /\ cancels' = cancels \ {t}
    /\ UNCHANGED <<servers, lifecycle, updating, ejected, desired, deaths>>

\* The stream completes, is stopped, or breaks with its server; a turn with tool
\* calls asks again, a summary that was stored is counted.
StreamEnd(t) ==
    /\ pc[t] = "stream"
    /\ \/ op[t] # "compact" /\ Go(t, "idle") /\ cancels' = cancels \ {t}
       \/ op[t] = "turn" /\ Go(t, "ensure") /\ UNCHANGED cancels
       \/ op[t] = "compact" /\ Go(t, "sized") /\ UNCHANGED cancels
       \/ /\ op[t] = "compact" /\ op' = [op EXCEPT ![t] = "recount"]
          /\ Goto(t, "ensure") /\ UNCHANGED <<want, seen, cancels>>
    /\ UNCHANGED <<servers, lifecycle, updating, ejected, desired, deaths>>

-----------------------------------------------------------------------------
(* llamacpp_updater::install.                                              *)

UpdateFlag(t) ==
    /\ pc[t] = "idle" /\ t \in Updaters /\ ~updating
    /\ updating' = TRUE
    /\ op' = [op EXCEPT ![t] = "update"]
    /\ Goto(t, "flagged")
    /\ UNCHANGED <<servers, lifecycle, cancels, ejected, desired, want, seen, deaths>>

UpdateCheckTurns(t) ==
    /\ pc[t] = "flagged"
    /\ IF cancels = {} THEN Go(t, "lock") /\ UNCHANGED updating
                       ELSE Go(t, "idle") /\ updating' = FALSE
    /\ UNCHANGED <<servers, lifecycle, cancels, ejected, desired, deaths>>

\* Downloaded and verified, or given up; then the resident model is unloaded.
UpdateStop(t) ==
    /\ pc[t] = "locked" /\ op[t] = "update"
    /\ \/ /\ Resident = {}
          /\ child' = NoChild /\ Goto(t, "move")
          /\ want' = [want EXCEPT ![t] = None] /\ UNCHANGED external
       \/ \E m \in Resident, ok \in BOOLEAN :
             /\ Unload(m, child', external', ok)
             /\ want' = [want EXCEPT ![t] = m]
             /\ Goto(t, IF ok THEN "move" ELSE "release")
       \/ Goto(t, "release") /\ UNCHANGED <<servers, want>>
    /\ UNCHANGED <<shared, desired, op, seen, deaths>>

\* The trees are swapped; then the model that was resident is loaded again, unless a
\* refused rename or write ended the update with an error.
UpdateMove(t) ==
    /\ pc[t] = "move"
    /\ \/ Go(t, "release")
       \/ want[t] # None /\ Go(t, "ensure")
    /\ UNCHANGED <<servers, shared, desired, deaths>>

UpdateUndo(t) ==
    /\ pc[t] = "undo"
    /\ child' = NoChild
    /\ op' = [op EXCEPT ![t] = "rollback"]
    /\ Goto(t, "move")
    /\ UNCHANGED <<external, shared, desired, want, seen, deaths>>

\* The guard goes when install_inner returns, the flag right after.
UpdateRelease(t) ==
    /\ pc[t] = "release"
    /\ IF lifecycle = t THEN Release(t) /\ UNCHANGED <<updating, pc, op, want, seen>>
                        ELSE updating' = FALSE /\ Idle(t) /\ UNCHANGED lifecycle
    /\ UNCHANGED <<servers, cancels, ejected, desired, deaths>>

-----------------------------------------------------------------------------
OwnerPicks(m) ==
    /\ desired # m
    /\ desired' = m
    /\ UNCHANGED <<servers, shared, pc, op, want, seen, deaths>>

Begin(t) ==
    \/ \E m \in Models :
          \/ \E o \in {"load", "set", "eject"} : CommandStart(t, o, m)
          \/ TurnStart(t, m) \/ JobStart(t, m)
    \/ CommandStart(t, "restart", None)
    \/ UpdateFlag(t)

Step(t) ==
    \/ EnsureResolve(t) \/ EnsureSwap(t) \/ WaitHealthy(t)
    \/ LockLifecycle(t) \/ LoadLocked(t) \/ EjectLocked(t) \/ RestartLocked(t)
    \/ ClearEjected(t) \/ ReconcileDecide(t)
    \/ TurnPrepare(t) \/ TurnRegister(t) \/ TurnCheck(t) \/ Post(t)
    \/ UpdateCheckTurns(t) \/ UpdateStop(t) \/ UpdateMove(t) \/ UpdateUndo(t)
    \/ UpdateRelease(t)

Next ==
    \/ \E t \in Tasks : Begin(t) \/ Step(t) \/ StreamEnd(t) \/ ReconcileSnapshot(t)
    \/ ChildProgress \/ ChildDies
    \/ \E m \in Wanted : OwnerPicks(m)

Spec == Init /\ [][Next]_vars

\* Every task is scheduled, the lifecycle mutex is handed out in order, a health
\* poll has a deadline, the reconcile loop comes round, a loading server settles.
Fairness ==
    /\ \A t \in Tasks : WF_vars(Step(t)) /\ SF_vars(LockLifecycle(t))
    /\ \A t \in Reconcilers : WF_vars(ReconcileSnapshot(t))
    /\ WF_vars(ChildProgress)
FairSpec == Spec /\ Fairness

-----------------------------------------------------------------------------
(* Properties.                                                             *)

Generating(t) ==
    op[t] = "turn" /\ pc[t] \in {"ensure", "swap", "wait", "post", "stream"}
UpdateUnderway(u) == pc[u] \notin {"idle", "flagged"}

\* No turn that went through the registration generates while an update is past its
\* check of the running turns: the turn registers before it reads the flag, the updater
\* sets the flag before it looks at the registered turns.  The summary of a full context
\* is not a registered turn and may run during an update.
RegisteredTurnsYield ==
    \A u \in Updaters, t \in Turns : UpdateUnderway(u) => ~Generating(t)

\* Commands, reconciliation and updates start and stop servers only while they
\* hold runtime_lifecycle.
ManagedChangesLocked ==
    [][\A t \in Tasks \ (Turns \cup Jobs) :
         pc'[t] # pc[t] /\ servers' # servers => lifecycle = t]_vars

\* Whatever turns do to the server meanwhile, a command, a tick or an update
\* ends, and the lifecycle mutex is free again.
ManagedTasksEnd ==
    \A t \in Tasks \ (Turns \cup Jobs) :
        pc[t] # "idle" ~> (pc[t] = "idle" /\ lifecycle # t)

\* "keep it running and the desired model loaded": while a local model is wanted
\* and not ejected, the rig does not stay without a server handle.
DefaultComesBack ==
    \A m \in Local :
        <>[](desired = m /\ ejected # m /\ ~updating) => []<>(Resident # {})

\* "An explicit local Eject takes precedence over the unchanged cloud
\* desired-model value": once an eject of the wanted model stands, reconciliation
\* starts that model no more; a tick that had already looked may, once.
EjectHolds ==
    \A m \in Local :
        <>[](ejected = m /\ desired = m)
          => <>[][\A t \in Reconcilers :
                     EnsureSwap(t) /\ child' # child => child'.model # m]_vars
=============================================================================
