------------------------ MODULE ModelResidencyProofs ------------------------
(***************************************************************************)
(* Type correctness of ModelResidency and its two safety properties, for   *)
(* any models and any number of tasks of every kind.  A step of one task   *)
(* is first reduced to what it may do to the others (Moves), and Moves is  *)
(* shown to preserve the invariant once and for all.                       *)
(***************************************************************************)
EXTENDS ModelResidency, TLAPS

\* Turns and jobs go without the lifecycle mutex.
Managed == Tasks \ (Turns \cup Jobs)

\* Every task keeps to the operations and control points of its kind.
Kind(t) ==
    /\ t \in Turns       => op[t] \in {"none", "count", "compact", "recount", "turn"}
    /\ t \in Jobs        => op[t] \in {"none", "job"}
    /\ t \in Commands    => op[t] \in {"none", "load", "set", "eject", "restart"}
    /\ t \in Reconcilers => op[t] \in {"none", "reconcile"}
    /\ t \in Updaters    => op[t] \in {"none", "update", "rollback"}
    /\ pc[t] \in {"idle", "sized", "register"} => op[t] # "turn"
    /\ pc[t] \in {"sized", "register"}        => t \in Turns
    /\ pc[t] = "check"                        => t \in Turns /\ op[t] = "turn"
    /\ pc[t] \in {"post", "stream"}           => op[t] \in {"compact", "turn", "job"}
    /\ pc[t] \in {"lock", "locked", "clear", "suppress"} => t \notin Turns \cup Jobs
    /\ pc[t] \in {"flagged", "move", "undo", "release"}   => t \in Updaters
    /\ pc[t] = "swap"                                     => want[t] \in Local

\* Between the lock and the last change of the servers the mutex is held.
Holds(t) ==
    t \in Managed /\ pc[t] \in {"locked", "ensure", "swap", "wait", "move", "undo"}
        => lifecycle = t

\* The registered turns are those under way, an update under way shows in the flag,
\* and there is one update at a time.
Registered == \A t \in Turns : op[t] = "turn" <=> t \in cancels
Flagged == \A u \in Updaters : pc[u] # "idle" => updating
OneUpdate == \A u, v \in Updaters : pc[u] # "idle" /\ pc[v] # "idle" => u = v

IInv ==
    /\ Typed
    /\ \A t \in Tasks : Kind(t) /\ Holds(t)
    /\ Registered /\ Flagged /\ OneUpdate
    /\ RegisteredTurnsYield

\* What a step of t leaves to the others: their control points, their hold on
\* the mutex and their registrations.  It generates anew only while no update
\* runs, and gets an update under way only while no turn is registered.
OthersKeep(t) ==
    \A s \in Tasks : s # t => pc'[s] = pc[s] /\ op'[s] = op[s] /\ want'[s] = want[s]
LockStep(t) == lifecycle' = lifecycle \/ lifecycle \in {t, "nobody"}
CancelStep(t) ==
    /\ \A s \in Turns : s # t => (s \in cancels <=> s \in cancels')
    /\ t \in Turns => (op'[t] = "turn" <=> t \in cancels')
FlagStep(t) ==
    /\ updating /\ ~updating' => t \in Updaters /\ pc[t] # "idle" /\ pc'[t] = "idle"
    /\ t \in Updaters /\ pc'[t] # "idle" => updating' /\ (pc[t] # "idle" \/ ~updating)
YieldStep(t) ==
    /\ t \in Turns /\ Generating(t)' => Generating(t) \/ ~updating
    /\ t \in Updaters /\ UpdateUnderway(t)' => UpdateUnderway(t) \/ cancels = {}
Moves(t) ==
    /\ OthersKeep(t) /\ Kind(t)' /\ Holds(t)'
    /\ LockStep(t) /\ CancelStep(t) /\ FlagStep(t) /\ YieldStep(t)

\* The values a handle takes, and what a port or a snapshot can name.
LEMMA NoChildType == NoChild \in Children
  BY DEF Children

LEMMA ChildType ==
  ASSUME NEW m \in Local, NEW s \in {"loading", "ready", "dead"}
  PROVE  [model |-> m, state |-> s] \in Children
  BY DEF Children

LEMMA ChildFields ==
  ASSUME NEW c \in Children
  PROVE  /\ c.model \in Local \cup {None}
         /\ c.state # "none" => \A s \in {"loading", "ready", "dead"} :
                                  [c EXCEPT !.state = s] \in Children
  BY DEF Children, NoChild

LEMMA NamesType ==
  ASSUME Typed
  PROVE  Listener \in ModelOrNone /\ Resident \subseteq ModelOrNone
<1>1. child.model \in ModelOrNone /\ external \in ModelOrNone
  BY ChildFields, ModelResidencyAssumption DEF Typed, ModelOrNone
<1> QED BY <1>1 DEF Listener, Resident, ModelOrNone

LEMMA InitIInv == Init => IInv
<1> SUFFICES ASSUME Init PROVE IInv
  OBVIOUS
<1> USE ModelResidencyAssumption DEF Init
<1>1. pc \in [Tasks -> Stages] /\ op \in [Tasks -> Operations]
  BY DEF Stages, Operations
<1>2. want \in [Tasks -> ModelOrNone] /\ seen \in [Tasks -> BOOLEAN]
  BY DEF ModelOrNone
<1>3. child \in Children /\ external \in Local \cup {None} /\ updating \in BOOLEAN
  BY NoChildType
<1>4. /\ lifecycle \in Tasks \cup {"nobody"} /\ cancels \subseteq Turns
      /\ ejected \in ModelOrNone /\ desired \in Wanted /\ deaths \in 0..MaxDeaths
  BY DEF ModelOrNone
<1>5. Typed
  BY <1>1, <1>2, <1>3, <1>4 DEF Typed
<1>6. \A t \in Tasks : Kind(t) /\ Holds(t)
  BY DEF Kind, Holds
<1>7. Registered /\ Flagged /\ OneUpdate /\ RegisteredTurnsYield
  BY DEF Registered, Flagged, OneUpdate, RegisteredTurnsYield, UpdateUnderway, Tasks
<1> QED BY <1>5, <1>6, <1>7 DEF IInv

\* The common part of all the preservation proofs.
LEMMA MovesIInv ==
  ASSUME IInv, NEW t \in Tasks, Typed', Moves(t)
  PROVE  IInv'
<1> USE ModelResidencyAssumption DEF IInv, Moves
<1>1. \A s \in Tasks : Kind(s)' /\ Holds(s)'
  <2> SUFFICES ASSUME NEW s \in Tasks PROVE Kind(s)' /\ Holds(s)'
    OBVIOUS
  <2>1. CASE s = t
    BY <2>1
  <2>2. CASE s # t
    <3>1. pc'[s] = pc[s] /\ op'[s] = op[s] /\ want'[s] = want[s]
      BY <2>2 DEF OthersKeep
    <3>2. Kind(s)'
      BY <3>1 DEF Kind
    <3>3. Holds(s)'
      BY <2>2, <3>1 DEF Holds, LockStep, Managed, Tasks
    <3> QED BY <3>2, <3>3
  <2> QED BY <2>1, <2>2
<1>2. Registered'
  BY DEF Registered, CancelStep, OthersKeep, Tasks
<1>3. Flagged'
  BY DEF Typed, Flagged, OneUpdate, FlagStep, OthersKeep, Tasks
<1>4. OneUpdate'
  BY DEF Typed, Flagged, OneUpdate, FlagStep, OthersKeep, Tasks
<1>5. RegisteredTurnsYield'
  <2> SUFFICES ASSUME NEW u \in Updaters, NEW s \in Turns,
                      UpdateUnderway(u)', Generating(s)'
               PROVE  FALSE
    BY DEF RegisteredTurnsYield
  <2>1. u \in Tasks /\ s \in Tasks /\ u # s
    BY DEF Tasks
  <2>2. CASE u = t
    BY <2>1, <2>2 DEF YieldStep, OthersKeep, RegisteredTurnsYield, Registered, Generating
  <2>3. CASE s = t
    BY <2>1, <2>3
       DEF YieldStep, OthersKeep, RegisteredTurnsYield, Flagged, UpdateUnderway
  <2>4. CASE u # t /\ s # t
    BY <2>1, <2>4 DEF OthersKeep, RegisteredTurnsYield, UpdateUnderway, Generating
  <2> QED BY <2>2, <2>3, <2>4
<1> QED BY <1>1, <1>2, <1>3, <1>4, <1>5

\* Where Goto and Idle leave the tasks.
LEMMA GoFacts ==
  ASSUME Typed, NEW t \in Tasks, NEW stage \in Stages, Go(t, stage)
  PROVE  /\ pc' \in [Tasks -> Stages] /\ op' \in [Tasks -> Operations]
         /\ want' \in [Tasks -> ModelOrNone] /\ seen' \in [Tasks -> BOOLEAN]
         /\ OthersKeep(t) /\ pc'[t] = stage
         /\ stage = "idle" => op'[t] = "none"
         /\ stage # "idle" => op'[t] = op[t] /\ want'[t] = want[t]
  BY DEF Typed, Go, Goto, Idle, OthersKeep, Stages, Operations, ModelOrNone

\* Where a return from ensure_running leaves them.
LEMMA ReturnFacts ==
  ASSUME IInv, NEW t \in Tasks, NEW ok \in BOOLEAN, Return(t, ok),
         pc[t] \in {"ensure", "swap", "wait"}
  PROVE  /\ pc' \in [Tasks -> Stages] /\ op' \in [Tasks -> Operations]
         /\ want' \in [Tasks -> ModelOrNone] /\ seen' \in [Tasks -> BOOLEAN]
         /\ lifecycle' \in Tasks \cup {"nobody"} /\ updating' = updating
         /\ cancels' \subseteq Turns /\ ejected' = ejected
         /\ Moves(t)
<1> USE ModelResidencyAssumption DEF IInv
<1> DEFINE stage == AfterEnsure(t, ok)
<1>0. /\ op[t] \in Operations /\ Kind(t) /\ Holds(t)
      /\ updating' = updating /\ ejected' = ejected
  BY DEF Typed, Return
<1>1. stage \in {"sized", "post", "clear", "undo", "release", "idle"}
  BY DEF AfterEnsure
<1>2. Go(t, stage) /\ stage \in Stages
  BY <1>1 DEF Return, Stages
<1> HIDE DEF stage
<1>3. /\ pc' \in [Tasks -> Stages] /\ op' \in [Tasks -> Operations]
      /\ want' \in [Tasks -> ModelOrNone] /\ seen' \in [Tasks -> BOOLEAN]
      /\ OthersKeep(t) /\ pc'[t] = stage
      /\ stage = "idle" => op'[t] = "none"
      /\ stage # "idle" => op'[t] = op[t] /\ want'[t] = want[t]
  BY <1>2, GoFacts
<1>4. LockStep(t) /\ lifecycle' \in Tasks \cup {"nobody"}
  BY DEF Return, Release, LockStep, Typed
<1>5. /\ cancels' \subseteq Turns
      /\ \A s \in Turns : s # t => (s \in cancels <=> s \in cancels')
  BY DEF Return, Typed
<1>6. CancelStep(t)
  <2>1. CASE t \in Turns /\ op[t] = "turn" /\ ~ok
    <3>1. stage = "idle" /\ cancels' = cancels \ {t}
      BY <2>1 DEF stage, AfterEnsure, Return
    <3> QED BY <1>3, <1>5, <3>1 DEF CancelStep
  <2>2. CASE t \in Turns /\ op[t] = "turn" /\ ok
    <3>1. stage = "post" /\ cancels' = cancels
      BY <2>2 DEF stage, AfterEnsure, Return
    <3> QED BY <1>3, <1>5, <2>2, <3>1 DEF CancelStep, Registered
  <2>4. CASE t \in Turns /\ op[t] # "turn"
    <3>1. op'[t] # "turn" /\ cancels' = cancels
      BY <1>3, <2>4 DEF Return
    <3> QED BY <1>5, <2>4, <3>1 DEF CancelStep, Registered
  <2>3. CASE t \notin Turns
    BY <1>5, <2>3 DEF CancelStep
  <2> QED BY <2>1, <2>2, <2>3, <2>4
<1>7. Kind(t)'
  BY <1>0, <1>1, <1>3 DEF Kind, stage, AfterEnsure, Tasks
<1>8. Holds(t)'
  BY <1>0, <1>1, <1>3
     DEF Holds, Kind, stage, AfterEnsure, Return, Release, Managed, Tasks
<1>9. FlagStep(t)
  BY <1>0, <1>3 DEF FlagStep, Flagged
<1>10. YieldStep(t)
  BY <1>0, <1>1, <1>3 DEF YieldStep, Generating, UpdateUnderway
<1> QED BY <1>0, <1>3, <1>4, <1>5, <1>6, <1>7, <1>8, <1>9, <1>10 DEF Moves

\* What unload_model leaves of the servers is well formed.
LEMMA UnloadType ==
  ASSUME Typed, NEW m \in ModelOrNone, NEW ok \in BOOLEAN, Unload(m, child', external', ok)
  PROVE  child' \in Children /\ external' \in Local \cup {None}
  BY DEF Unload, Typed, Children

\* Commands: taking the mutex and what is done under it.
LEMMA CommandSteps ==
  ASSUME IInv, NEW t \in Tasks,
         LockLifecycle(t) \/ LoadLocked(t) \/ EjectLocked(t) \/
         RestartLocked(t) \/ ClearEjected(t)
  PROVE  Typed' /\ Moves(t)
<1> USE ModelResidencyAssumption DEF IInv
<1>0. Kind(t) /\ Holds(t) /\ op[t] \in Operations
  BY DEF Typed
<1>1. CASE LockLifecycle(t)
  <2>1. /\ pc' \in [Tasks -> Stages] /\ op' \in [Tasks -> Operations]
        /\ want' \in [Tasks -> ModelOrNone] /\ seen' \in [Tasks -> BOOLEAN]
        /\ OthersKeep(t)
    BY <1>1, GoFacts DEF LockLifecycle, Stages
  <2>2. pc[t] = "lock" /\ pc'[t] = "locked" /\ op'[t] = op[t] /\ want'[t] = want[t]
    BY <1>1, GoFacts DEF LockLifecycle, Stages
  <2>3. Typed'
    BY <1>1, <2>1, <2>2 DEF LockLifecycle, Typed, servers, shared
  <2>4. Kind(t)' /\ Holds(t)'
    BY <1>0, <1>1, <2>2 DEF LockLifecycle, Kind, Holds, Managed, Tasks, servers, shared
  <2>5. LockStep(t) /\ CancelStep(t)
    BY <1>0, <1>1, <2>2
       DEF LockLifecycle, Kind, LockStep, CancelStep, Registered, servers, shared
  <2>6. FlagStep(t) /\ YieldStep(t)
    BY <1>0, <1>1, <2>2
       DEF LockLifecycle, Kind, FlagStep, YieldStep, Flagged, Registered, Generating,
           UpdateUnderway, servers, shared
  <2> QED BY <2>1, <2>3, <2>4, <2>5, <2>6 DEF Moves
<1>2. CASE LoadLocked(t)
  <2>1. /\ pc' \in [Tasks -> Stages] /\ op' \in [Tasks -> Operations]
        /\ want' \in [Tasks -> ModelOrNone] /\ seen' \in [Tasks -> BOOLEAN]
        /\ OthersKeep(t)
    BY <1>2, GoFacts DEF LoadLocked, Stages
  <2>2. pc'[t] \in {"idle", "ensure"} /\ (pc'[t] = "idle" => op'[t] = "none") /\
       (pc'[t] # "idle" => pc[t] = "locked" /\ lifecycle' = lifecycle
          /\ op'[t] = op[t] /\ want'[t] = want[t])
    BY <1>2, GoFacts DEF LoadLocked, Stages
  <2>3. Typed'
    BY <1>2, <2>1, <2>2 DEF LoadLocked, Typed, servers, shared, Release
  <2>4. Kind(t)' /\ Holds(t)'
    BY <1>0, <1>2, <2>2
       DEF LoadLocked, Kind, Holds, Managed, Tasks, servers, shared, Release
  <2>5. LockStep(t) /\ CancelStep(t)
    BY <1>0, <1>2, <2>2
       DEF LoadLocked, Kind, LockStep, CancelStep, Registered, servers, shared,
           Release
  <2>6. FlagStep(t) /\ YieldStep(t)
    BY <1>0, <1>2, <2>2
       DEF LoadLocked, Kind, FlagStep, YieldStep, Flagged, Registered, Generating,
           UpdateUnderway, servers, shared
  <2> QED BY <2>1, <2>3, <2>4, <2>5, <2>6 DEF Moves
<1>3. CASE EjectLocked(t)
  <2>1. /\ pc' \in [Tasks -> Stages] /\ op' \in [Tasks -> Operations]
        /\ want' \in [Tasks -> ModelOrNone] /\ seen' \in [Tasks -> BOOLEAN]
        /\ OthersKeep(t)
    BY <1>3, GoFacts DEF EjectLocked, Stages
  <2>2. pc'[t] = "idle" /\ op'[t] = "none"
    BY <1>3, GoFacts DEF EjectLocked, Stages
  <2>3. Typed'
    BY <1>3, <2>1, <2>2, UnloadType DEF EjectLocked, Typed, servers, shared, Release
  <2>4. Kind(t)' /\ Holds(t)'
    BY <1>0, <1>3, <2>2 DEF EjectLocked, Kind, Holds, Managed, Tasks, servers, shared
  <2>5. LockStep(t) /\ CancelStep(t)
    BY <1>0, <1>3, <2>2
       DEF EjectLocked, Kind, LockStep, CancelStep, Registered, servers, shared,
           Release
  <2>6. FlagStep(t) /\ YieldStep(t)
    BY <1>0, <1>3, <2>2
       DEF EjectLocked, Kind, FlagStep, YieldStep, Flagged, Registered, Generating,
           UpdateUnderway, servers, shared
  <2> QED BY <2>1, <2>3, <2>4, <2>5, <2>6 DEF Moves
<1>4. CASE RestartLocked(t)
  <2>1. /\ pc' \in [Tasks -> Stages] /\ op' \in [Tasks -> Operations]
        /\ want' \in [Tasks -> ModelOrNone] /\ seen' \in [Tasks -> BOOLEAN]
        /\ OthersKeep(t)
    BY <1>4, GoFacts DEF RestartLocked, Stages
  <2>2. pc'[t] = "idle" /\ op'[t] = "none"
    BY <1>4, GoFacts DEF RestartLocked, Stages
  <2>3. Typed'
    BY <1>4, <2>1, <2>2, NoChildType DEF RestartLocked, Typed, servers, shared, Release
  <2>4. Kind(t)' /\ Holds(t)'
    BY <1>0, <1>4, <2>2 DEF RestartLocked, Kind, Holds, Managed, Tasks, servers, shared
  <2>5. LockStep(t) /\ CancelStep(t)
    BY <1>0, <1>4, <2>2
       DEF RestartLocked, Kind, LockStep, CancelStep, Registered, servers, shared,
           Release
  <2>6. FlagStep(t) /\ YieldStep(t)
    BY <1>0, <1>4, <2>2
       DEF RestartLocked, Kind, FlagStep, YieldStep, Flagged, Registered, Generating,
           UpdateUnderway, servers, shared
  <2> QED BY <2>1, <2>3, <2>4, <2>5, <2>6 DEF Moves
<1>5. CASE ClearEjected(t)
  <2>1. /\ pc' \in [Tasks -> Stages] /\ op' \in [Tasks -> Operations]
        /\ want' \in [Tasks -> ModelOrNone] /\ seen' \in [Tasks -> BOOLEAN]
        /\ OthersKeep(t)
    BY <1>5, GoFacts DEF ClearEjected, Stages
  <2>2. pc'[t] = "idle" /\ op'[t] = "none"
    BY <1>5, GoFacts DEF ClearEjected, Stages
  <2>3. Typed'
    BY <1>5, <2>1, <2>2 DEF ClearEjected, Typed, servers, shared, ModelOrNone
  <2>4. Kind(t)' /\ Holds(t)'
    BY <1>0, <1>5, <2>2 DEF ClearEjected, Kind, Holds, Managed, Tasks, servers, shared
  <2>5. LockStep(t) /\ CancelStep(t)
    BY <1>0, <1>5, <2>2
       DEF ClearEjected, Kind, LockStep, CancelStep, Registered, servers, shared
  <2>6. FlagStep(t) /\ YieldStep(t)
    BY <1>0, <1>5, <2>2
       DEF ClearEjected, Kind, FlagStep, YieldStep, Flagged, Registered, Generating,
           UpdateUnderway, servers, shared
  <2> QED BY <2>1, <2>3, <2>4, <2>5, <2>6 DEF Moves
<1> QED BY <1>1, <1>2, <1>3, <1>4, <1>5

\* Turns and jobs after their start.
LEMMA TurnSteps ==
  ASSUME IInv, NEW t \in Tasks,
         TurnPrepare(t) \/ TurnRegister(t) \/ TurnCheck(t) \/ Post(t) \/
         StreamEnd(t) \/ ReconcileDecide(t)
  PROVE  Typed' /\ Moves(t)
<1> USE ModelResidencyAssumption DEF IInv
<1>0. Kind(t) /\ Holds(t) /\ op[t] \in Operations
  BY DEF Typed
<1>1. CASE TurnRegister(t)
  <2>1. /\ pc' \in [Tasks -> Stages] /\ op' \in [Tasks -> Operations]
        /\ want' \in [Tasks -> ModelOrNone] /\ seen' \in [Tasks -> BOOLEAN]
        /\ OthersKeep(t)
    BY <1>0, <1>1 DEF TurnRegister, Goto, Typed, OthersKeep, Stages, Operations, Kind
  <2>2. pc'[t] = "check" /\ op'[t] = "turn" /\ want'[t] = want[t] /\ t \in Turns
    BY <1>0, <1>1 DEF TurnRegister, Goto, Typed, Kind
  <2>3. Typed'
    BY <1>1, <2>1, <2>2 DEF TurnRegister, Typed, servers, shared
  <2>4. Kind(t)' /\ Holds(t)'
    BY <1>0, <1>1, <2>2 DEF TurnRegister, Kind, Holds, Managed, Tasks, servers, shared
  <2>5. LockStep(t) /\ CancelStep(t)
    BY <1>0, <1>1, <2>2
       DEF TurnRegister, Kind, LockStep, CancelStep, Registered, servers, shared
  <2>6. FlagStep(t) /\ YieldStep(t)
    BY <1>0, <1>1, <2>2
       DEF TurnRegister, Kind, FlagStep, YieldStep, Flagged, Registered, Generating,
           UpdateUnderway, servers, shared
  <2> QED BY <2>1, <2>3, <2>4, <2>5, <2>6 DEF Moves
<1>2. CASE TurnCheck(t)
  <2>1. /\ pc' \in [Tasks -> Stages] /\ op' \in [Tasks -> Operations]
        /\ want' \in [Tasks -> ModelOrNone] /\ seen' \in [Tasks -> BOOLEAN]
        /\ OthersKeep(t)
    BY <1>2, GoFacts DEF TurnCheck, Stages
  <2>2. pc'[t] \in {"idle", "ensure"} /\ t \in Turns /\
       (pc'[t] = "idle" => op'[t] = "none" /\ cancels' = cancels \ {t}) /\
       (pc'[t] # "idle" => ~updating /\ op'[t] = op[t] /\ want'[t] = want[t]
          /\ cancels' = cancels)
    BY <1>0, <1>2, GoFacts DEF TurnCheck, Stages, Kind
  <2>3. Typed'
    BY <1>2, <2>1, <2>2 DEF TurnCheck, Typed, servers, shared
  <2>4. Kind(t)' /\ Holds(t)'
    BY <1>0, <1>2, <2>2 DEF TurnCheck, Kind, Holds, Managed, Tasks, servers, shared
  <2>5. LockStep(t) /\ CancelStep(t)
    BY <1>2, <2>2 DEF TurnCheck, LockStep, CancelStep, Registered, servers
  <2>6. FlagStep(t) /\ YieldStep(t)
    BY <1>0, <1>2, <2>2
       DEF TurnCheck, Kind, FlagStep, YieldStep, Flagged, Registered, Generating,
           UpdateUnderway, servers, shared
  <2> QED BY <2>1, <2>3, <2>4, <2>5, <2>6 DEF Moves
<1>3. CASE Post(t)
  <2>1. /\ pc' \in [Tasks -> Stages] /\ op' \in [Tasks -> Operations]
        /\ want' \in [Tasks -> ModelOrNone] /\ seen' \in [Tasks -> BOOLEAN]
        /\ OthersKeep(t)
    BY <1>3, GoFacts DEF Post, Stages
  <2>2. pc'[t] \in {"idle", "sized", "stream"} /\
       (pc'[t] = "idle" => op'[t] = "none" /\ cancels' = cancels \ {t}) /\
       op[t] \in {"compact", "turn", "job"} /\ (pc'[t] = "sized" => op[t] = "compact") /\
       (pc'[t] # "idle" => op'[t] = op[t] /\ want'[t] = want[t]
          /\ cancels' = cancels)
    BY <1>0, <1>3, GoFacts DEF Post, Stages, Kind
  <2>3. Typed'
    BY <1>3, <2>1, <2>2 DEF Post, Typed, servers, shared
  <2>4. Kind(t)' /\ Holds(t)'
    BY <1>0, <1>3, <2>2 DEF Post, Kind, Holds, Managed, Tasks, servers, shared
  <2>5. LockStep(t) /\ CancelStep(t)
    BY <1>3, <2>2 DEF Post, LockStep, CancelStep, Registered, servers
  <2>6. FlagStep(t) /\ YieldStep(t)
    BY <1>0, <1>3, <2>2
       DEF Post, Kind, FlagStep, YieldStep, Flagged, Registered, Generating,
           UpdateUnderway, servers, shared
  <2> QED BY <2>1, <2>3, <2>4, <2>5, <2>6 DEF Moves
<1>4. CASE StreamEnd(t)
  <2>1. /\ pc' \in [Tasks -> Stages] /\ op' \in [Tasks -> Operations]
        /\ want' \in [Tasks -> ModelOrNone] /\ seen' \in [Tasks -> BOOLEAN]
        /\ OthersKeep(t)
    BY <1>0, <1>4, GoFacts
       DEF StreamEnd, Stages, Operations, Goto, Typed, OthersKeep
  <2>2. pc[t] = "stream" /\
        \/ pc'[t] = "idle" /\ op'[t] = "none" /\ cancels' = cancels \ {t}
        \/ pc'[t] = "ensure" /\ op[t] = "turn" /\ op'[t] = "turn" /\ cancels' = cancels
        \/ pc'[t] \in {"sized", "ensure"} /\ op[t] = "compact"
           /\ op'[t] \in {"compact", "recount"} /\ cancels' = cancels
    BY <1>0, <1>4, GoFacts DEF StreamEnd, Stages, Goto, Typed
  <2>3. Typed'
    BY <1>4, <2>1, <2>2 DEF StreamEnd, Typed, servers, shared
  <2>4. Kind(t)' /\ Holds(t)'
    BY <1>0, <1>4, <2>2 DEF StreamEnd, Kind, Holds, Managed, Tasks, servers, shared
  <2>5. LockStep(t) /\ CancelStep(t)
    BY <1>0, <1>4, <2>2
       DEF StreamEnd, Kind, LockStep, CancelStep, Registered, servers, shared
  <2>6. FlagStep(t) /\ YieldStep(t)
    BY <1>0, <1>4, <2>2
       DEF StreamEnd, Kind, FlagStep, YieldStep, Flagged, Registered, Generating,
           UpdateUnderway, servers, shared
  <2> QED BY <2>1, <2>3, <2>4, <2>5, <2>6 DEF Moves
<1>6. CASE TurnPrepare(t)
  <2>1. /\ pc' \in [Tasks -> Stages] /\ op' \in [Tasks -> Operations]
        /\ want' \in [Tasks -> ModelOrNone] /\ seen' \in [Tasks -> BOOLEAN]
        /\ OthersKeep(t)
    BY <1>6, GoFacts DEF TurnPrepare, Stages, Operations, Goto, Typed, OthersKeep
  <2>2. /\ pc[t] = "sized" /\ t \in Turns /\ op[t] # "turn"
        /\ pc'[t] \in {"idle", "register", "ensure"}
        /\ op'[t] \in {op[t], "none", "compact"} /\ (pc'[t] = "idle" => op'[t] = "none")
    BY <1>0, <1>6, GoFacts DEF TurnPrepare, Stages, Goto, Typed, Kind
  <2>3. Typed'
    BY <1>6, <2>1, <2>2 DEF TurnPrepare, Typed, servers, shared
  <2>4. Kind(t)' /\ Holds(t)'
    BY <1>0, <1>6, <2>2 DEF TurnPrepare, Kind, Holds, Managed, Tasks, servers, shared
  <2>5. LockStep(t) /\ CancelStep(t)
    BY <1>0, <1>6, <2>2 DEF TurnPrepare, LockStep, CancelStep, Registered, shared
  <2>6. FlagStep(t) /\ YieldStep(t)
    BY <1>0, <1>6, <2>2
       DEF TurnPrepare, FlagStep, YieldStep, Flagged, Generating, UpdateUnderway, shared
  <2> QED BY <2>1, <2>3, <2>4, <2>5, <2>6 DEF Moves
<1>5. CASE ReconcileDecide(t)
  <2>1. /\ pc' \in [Tasks -> Stages] /\ op' \in [Tasks -> Operations]
        /\ want' \in [Tasks -> ModelOrNone] /\ seen' \in [Tasks -> BOOLEAN]
        /\ OthersKeep(t)
    BY <1>5, GoFacts DEF ReconcileDecide, Stages
  <2>2. pc'[t] \in {"idle", "lock"} /\ (pc'[t] = "idle" => op'[t] = "none") /\
       (pc'[t] # "idle" => op'[t] = op[t] /\ want'[t] = want[t])
    BY <1>5, GoFacts DEF ReconcileDecide, Stages
  <2>3. Typed'
    BY <1>5, <2>1, <2>2 DEF ReconcileDecide, Typed, servers, shared, ModelOrNone
  <2>4. Kind(t)' /\ Holds(t)'
    BY <1>0, <1>5, <2>2
       DEF ReconcileDecide, Kind, Holds, Managed, Tasks, servers, shared
  <2>5. LockStep(t) /\ CancelStep(t)
    BY <1>0, <1>5, <2>2
       DEF ReconcileDecide, Kind, LockStep, CancelStep, Registered, servers, shared
  <2>6. FlagStep(t) /\ YieldStep(t)
    BY <1>0, <1>5, <2>2
       DEF ReconcileDecide, Kind, FlagStep, YieldStep, Flagged, Registered,
           Generating, UpdateUnderway, servers, shared
  <2> QED BY <2>1, <2>3, <2>4, <2>5, <2>6 DEF Moves
<1> QED BY <1>1, <1>2, <1>3, <1>4, <1>5, <1>6

\* The updater after it set the flag.
LEMMA UpdateSteps ==
  ASSUME IInv, NEW t \in Tasks,
         UpdateCheckTurns(t) \/ UpdateStop(t) \/ UpdateMove(t) \/
         UpdateUndo(t) \/ UpdateRelease(t)
  PROVE  Typed' /\ Moves(t)
<1> USE ModelResidencyAssumption DEF IInv
<1>0. Kind(t) /\ Holds(t) /\ op[t] \in Operations
  BY DEF Typed
<1>1. CASE UpdateCheckTurns(t)
  <2>1. /\ pc' \in [Tasks -> Stages] /\ op' \in [Tasks -> Operations]
        /\ want' \in [Tasks -> ModelOrNone] /\ seen' \in [Tasks -> BOOLEAN]
        /\ OthersKeep(t)
    BY <1>1, GoFacts DEF UpdateCheckTurns, Stages
  <2>2. pc'[t] \in {"idle", "lock"} /\ (pc'[t] = "idle" => op'[t] = "none") /\
       (pc'[t] # "idle" => op'[t] = op[t] /\ want'[t] = want[t]
          /\ cancels = {} /\ updating' = updating) /\ pc[t] = "flagged" /\ t \in Updaters
    BY <1>0, <1>1, GoFacts DEF UpdateCheckTurns, Stages, Kind
  <2>3. Typed'
    BY <1>1, <2>1, <2>2 DEF UpdateCheckTurns, Typed, servers, shared
  <2>4. Kind(t)' /\ Holds(t)'
    BY <1>0, <1>1, <2>2
       DEF UpdateCheckTurns, Kind, Holds, Managed, Tasks, servers, shared
  <2>5. LockStep(t) /\ CancelStep(t)
    BY <1>0, <1>1, <2>2
       DEF UpdateCheckTurns, Kind, LockStep, CancelStep, Registered, servers, shared
  <2>6. FlagStep(t) /\ YieldStep(t)
    BY <1>0, <1>1, <2>2
       DEF UpdateCheckTurns, Kind, FlagStep, YieldStep, Flagged, Registered,
           Generating, UpdateUnderway, servers, shared
  <2> QED BY <2>1, <2>3, <2>4, <2>5, <2>6 DEF Moves
<1>2. CASE UpdateStop(t)
  <2>1. /\ pc' \in [Tasks -> Stages] /\ op' \in [Tasks -> Operations]
        /\ want' \in [Tasks -> ModelOrNone] /\ seen' \in [Tasks -> BOOLEAN]
        /\ OthersKeep(t)
    BY <1>2, NamesType
       DEF UpdateStop, Goto, Typed, OthersKeep, Stages, Operations, ModelOrNone
  <2>2. pc'[t] \in {"move", "release"} /\ op'[t] = op[t] /\ t \in Updaters
    BY <1>0, <1>2 DEF UpdateStop, Goto, Typed, Kind, Tasks
  <2>3. Typed'
    BY <1>2, <2>1, <2>2, UnloadType, NamesType, NoChildType
       DEF UpdateStop, Typed, servers, shared
  <2>4. Kind(t)' /\ Holds(t)'
    BY <1>0, <1>2, <2>2 DEF UpdateStop, Kind, Holds, Managed, Tasks, servers, shared
  <2>5. LockStep(t) /\ CancelStep(t)
    BY <1>0, <1>2, <2>2
       DEF UpdateStop, Kind, LockStep, CancelStep, Registered, servers, shared
  <2>6. FlagStep(t) /\ YieldStep(t)
    BY <1>0, <1>2, <2>2
       DEF UpdateStop, Kind, FlagStep, YieldStep, Flagged, Registered, Generating,
           UpdateUnderway, servers, shared
  <2> QED BY <2>1, <2>3, <2>4, <2>5, <2>6 DEF Moves
<1>3. CASE UpdateMove(t)
  <2>1. /\ pc' \in [Tasks -> Stages] /\ op' \in [Tasks -> Operations]
        /\ want' \in [Tasks -> ModelOrNone] /\ seen' \in [Tasks -> BOOLEAN]
        /\ OthersKeep(t)
    BY <1>3, GoFacts DEF UpdateMove, Stages
  <2>2. pc'[t] \in {"ensure", "release"} /\ op'[t] = op[t] /\ want'[t] = want[t]
    BY <1>3, GoFacts DEF UpdateMove, Stages
  <2>3. Typed'
    BY <1>3, <2>1, <2>2 DEF UpdateMove, Typed, servers, shared
  <2>4. Kind(t)' /\ Holds(t)'
    BY <1>0, <1>3, <2>2 DEF UpdateMove, Kind, Holds, Managed, Tasks, servers, shared
  <2>5. LockStep(t) /\ CancelStep(t)
    BY <1>0, <1>3, <2>2
       DEF UpdateMove, Kind, LockStep, CancelStep, Registered, servers, shared
  <2>6. FlagStep(t) /\ YieldStep(t)
    BY <1>0, <1>3, <2>2
       DEF UpdateMove, Kind, FlagStep, YieldStep, Flagged, Registered, Generating,
           UpdateUnderway, servers, shared
  <2> QED BY <2>1, <2>3, <2>4, <2>5, <2>6 DEF Moves
<1>4. CASE UpdateUndo(t)
  <2>1. /\ pc' \in [Tasks -> Stages] /\ op' \in [Tasks -> Operations]
        /\ want' \in [Tasks -> ModelOrNone] /\ seen' \in [Tasks -> BOOLEAN]
        /\ OthersKeep(t)
    BY <1>4 DEF UpdateUndo, Goto, Typed, OthersKeep, Stages, Operations
  <2>2. pc'[t] = "move" /\ op'[t] = "rollback" /\ t \in Updaters
    BY <1>0, <1>4 DEF UpdateUndo, Goto, Typed, Kind
  <2>3. Typed'
    BY <1>4, <2>1, <2>2, NoChildType DEF UpdateUndo, Typed, servers, shared
  <2>4. Kind(t)' /\ Holds(t)'
    BY <1>0, <1>4, <2>2 DEF UpdateUndo, Kind, Holds, Managed, Tasks, servers, shared
  <2>5. LockStep(t) /\ CancelStep(t)
    BY <1>0, <1>4, <2>2
       DEF UpdateUndo, Kind, LockStep, CancelStep, Registered, servers, shared
  <2>6. FlagStep(t) /\ YieldStep(t)
    BY <1>0, <1>4, <2>2
       DEF UpdateUndo, Kind, FlagStep, YieldStep, Flagged, Registered, Generating,
           UpdateUnderway, servers, shared
  <2> QED BY <2>1, <2>3, <2>4, <2>5, <2>6 DEF Moves
<1>5. CASE UpdateRelease(t)
  <2>1. /\ pc' \in [Tasks -> Stages] /\ op' \in [Tasks -> Operations]
        /\ want' \in [Tasks -> ModelOrNone] /\ seen' \in [Tasks -> BOOLEAN]
        /\ OthersKeep(t)
    BY <1>5
       DEF UpdateRelease, Idle, Typed, Goto, OthersKeep, Stages, Operations,
           ModelOrNone
  <2>2. t \in Updaters /\
       (IF lifecycle = t THEN pc'[t] = pc[t] /\ op'[t] = op[t] /\ want'[t] = want[t]
        ELSE pc'[t] = "idle" /\ op'[t] = "none")
    BY <1>0, <1>5 DEF UpdateRelease, Idle, Goto, Typed, Kind
  <2>3. Typed'
    BY <1>5, <2>1, <2>2 DEF UpdateRelease, Typed, servers, shared, Release
  <2>4. Kind(t)' /\ Holds(t)'
    BY <1>0, <1>5, <2>2
       DEF UpdateRelease, Kind, Holds, Managed, Tasks, servers, shared, Release
  <2>5. LockStep(t) /\ CancelStep(t)
    BY <1>0, <1>5, <2>2
       DEF UpdateRelease, Kind, LockStep, CancelStep, Registered, servers, shared,
           Release
  <2>6. FlagStep(t) /\ YieldStep(t)
    BY <1>0, <1>5, <2>2
       DEF UpdateRelease, Kind, FlagStep, YieldStep, Flagged, Registered, Generating,
           UpdateUnderway, servers, shared
  <2> QED BY <2>1, <2>3, <2>4, <2>5, <2>6 DEF Moves
<1> QED BY <1>1, <1>2, <1>3, <1>4, <1>5

\* The start of each operation.
LEMMA StartSteps ==
  ASSUME IInv, NEW t \in Tasks,
         (\E o \in {"load", "set", "eject", "restart"}, m \in ModelOrNone :
         CommandStart(t, o, m)) \/ (\E m \in Models : TurnStart(t, m)) \/ (\E
         m \in Models : JobStart(t, m)) \/ UpdateFlag(t) \/
         ReconcileSnapshot(t)
  PROVE  Typed' /\ Moves(t)
<1> USE ModelResidencyAssumption DEF IInv
<1>0. Kind(t) /\ Holds(t) /\ op[t] \in Operations
  BY DEF Typed
<1>1. ASSUME NEW o \in {"load", "set", "eject", "restart"}, NEW m \in ModelOrNone, CommandStart(t, o, m)
      PROVE  Typed' /\ Moves(t)
  <2>1. /\ pc' \in [Tasks -> Stages] /\ op' \in [Tasks -> Operations]
        /\ want' \in [Tasks -> ModelOrNone] /\ seen' \in [Tasks -> BOOLEAN]
        /\ OthersKeep(t)
    BY <1>1 DEF CommandStart, Typed, Goto, OthersKeep, Stages, Operations, ModelOrNone
  <2>2. t \in Commands /\ pc'[t] = "lock" /\ op'[t] = o
    BY <1>1 DEF CommandStart, Typed, Goto
  <2>3. Typed'
    BY <1>1, <2>1, <2>2 DEF CommandStart, Typed, servers, shared
  <2>4. Kind(t)' /\ Holds(t)'
    BY <1>0, <1>1, <2>2 DEF CommandStart, Kind, Holds, Managed, Tasks, servers, shared
  <2>5. LockStep(t) /\ CancelStep(t)
    BY <1>0, <1>1, <2>2
       DEF CommandStart, Kind, LockStep, CancelStep, Registered, servers, shared
  <2>6. FlagStep(t) /\ YieldStep(t)
    BY <1>0, <1>1, <2>2
       DEF CommandStart, Kind, FlagStep, YieldStep, Flagged, Registered, Generating,
           UpdateUnderway, servers, shared
  <2> QED BY <2>1, <2>3, <2>4, <2>5, <2>6 DEF Moves
<1>2. ASSUME NEW m \in Models, TurnStart(t, m) PROVE Typed' /\ Moves(t)
  <2>1. /\ pc' \in [Tasks -> Stages] /\ op' \in [Tasks -> Operations]
        /\ want' \in [Tasks -> ModelOrNone] /\ seen' \in [Tasks -> BOOLEAN]
        /\ OthersKeep(t)
    BY <1>2 DEF TurnStart, Typed, Goto, OthersKeep, Stages, Operations, ModelOrNone
  <2>2. t \in Turns /\ pc'[t] \in {"ensure", "register"} /\ op'[t] \in {"count", "compact"}
    BY <1>2 DEF TurnStart, Typed, Goto
  <2>3. Typed'
    BY <1>2, <2>1, <2>2 DEF TurnStart, Typed, servers, shared
  <2>4. Kind(t)' /\ Holds(t)'
    BY <1>0, <1>2, <2>2 DEF TurnStart, Kind, Holds, Managed, Tasks, servers, shared
  <2>5. LockStep(t) /\ CancelStep(t)
    BY <1>0, <1>2, <2>2
       DEF TurnStart, Kind, LockStep, CancelStep, Registered, servers, shared
  <2>6. FlagStep(t) /\ YieldStep(t)
    BY <1>0, <1>2, <2>2
       DEF TurnStart, Kind, FlagStep, YieldStep, Flagged, Registered, Generating,
           UpdateUnderway, servers, shared
  <2> QED BY <2>1, <2>3, <2>4, <2>5, <2>6 DEF Moves
<1>3. ASSUME NEW m \in Models, JobStart(t, m) PROVE Typed' /\ Moves(t)
  <2>1. /\ pc' \in [Tasks -> Stages] /\ op' \in [Tasks -> Operations]
        /\ want' \in [Tasks -> ModelOrNone] /\ seen' \in [Tasks -> BOOLEAN]
        /\ OthersKeep(t)
    BY <1>3 DEF JobStart, Typed, Goto, OthersKeep, Stages, Operations, ModelOrNone
  <2>2. t \in Jobs /\ pc'[t] = "ensure" /\ op'[t] = "job"
    BY <1>3 DEF JobStart, Typed, Goto
  <2>3. Typed'
    BY <1>3, <2>1, <2>2 DEF JobStart, Typed, servers, shared
  <2>4. Kind(t)' /\ Holds(t)'
    BY <1>0, <1>3, <2>2 DEF JobStart, Kind, Holds, Managed, Tasks, servers, shared
  <2>5. LockStep(t) /\ CancelStep(t)
    BY <1>0, <1>3, <2>2
       DEF JobStart, Kind, LockStep, CancelStep, Registered, servers, shared
  <2>6. FlagStep(t) /\ YieldStep(t)
    BY <1>0, <1>3, <2>2
       DEF JobStart, Kind, FlagStep, YieldStep, Flagged, Registered, Generating,
           UpdateUnderway, servers, shared
  <2> QED BY <2>1, <2>3, <2>4, <2>5, <2>6 DEF Moves
<1>4. CASE UpdateFlag(t)
  <2>1. /\ pc' \in [Tasks -> Stages] /\ op' \in [Tasks -> Operations]
        /\ want' \in [Tasks -> ModelOrNone] /\ seen' \in [Tasks -> BOOLEAN]
        /\ OthersKeep(t)
    BY <1>4 DEF UpdateFlag, Typed, Goto, OthersKeep, Stages, Operations, ModelOrNone
  <2>2. t \in Updaters /\ pc'[t] = "flagged" /\ op'[t] = "update"
    BY <1>4 DEF UpdateFlag, Typed, Goto
  <2>3. Typed'
    BY <1>4, <2>1, <2>2 DEF UpdateFlag, Typed, servers, shared
  <2>4. Kind(t)' /\ Holds(t)'
    BY <1>0, <1>4, <2>2 DEF UpdateFlag, Kind, Holds, Managed, Tasks, servers, shared
  <2>5. LockStep(t) /\ CancelStep(t)
    BY <1>0, <1>4, <2>2
       DEF UpdateFlag, Kind, LockStep, CancelStep, Registered, servers, shared
  <2>6. FlagStep(t) /\ YieldStep(t)
    BY <1>0, <1>4, <2>2
       DEF UpdateFlag, Kind, FlagStep, YieldStep, Flagged, Registered, Generating,
           UpdateUnderway, servers, shared
  <2> QED BY <2>1, <2>3, <2>4, <2>5, <2>6 DEF Moves
<1>5. CASE ReconcileSnapshot(t)
  <2>1. /\ pc' \in [Tasks -> Stages] /\ op' \in [Tasks -> Operations]
        /\ want' \in [Tasks -> ModelOrNone] /\ seen' \in [Tasks -> BOOLEAN]
        /\ OthersKeep(t)
    BY <1>5, NamesType
       DEF ReconcileSnapshot, Typed, Goto, OthersKeep, Stages, Operations,
           ModelOrNone
  <2>2. t \in Reconcilers /\ pc'[t] = "suppress" /\ op'[t] = "reconcile"
    BY <1>5, NamesType DEF ReconcileSnapshot, Typed, Goto
  <2>3. Typed'
    BY <1>5, <2>1, <2>2 DEF ReconcileSnapshot, Typed, servers, shared
  <2>4. Kind(t)' /\ Holds(t)'
    BY <1>0, <1>5, <2>2
       DEF ReconcileSnapshot, Kind, Holds, Managed, Tasks, servers, shared
  <2>5. LockStep(t) /\ CancelStep(t)
    BY <1>0, <1>5, <2>2
       DEF ReconcileSnapshot, Kind, LockStep, CancelStep, Registered, servers, shared
  <2>6. FlagStep(t) /\ YieldStep(t)
    BY <1>0, <1>5, <2>2
       DEF ReconcileSnapshot, Kind, FlagStep, YieldStep, Flagged, Registered,
           Generating, UpdateUnderway, servers, shared
  <2> QED BY <2>1, <2>3, <2>4, <2>5, <2>6 DEF Moves
<1> QED BY <1>1, <1>2, <1>3, <1>4, <1>5

\* ensure_running: it returns, or goes on to the process swap or to the wait.
LEMMA EnsureSteps ==
  ASSUME IInv, NEW t \in Tasks, EnsureResolve(t) \/ EnsureSwap(t) \/ WaitHealthy(t)
  PROVE  Typed' /\ Moves(t)
<1> USE ModelResidencyAssumption DEF IInv
<1>0. Kind(t) /\ Holds(t)
  OBVIOUS
<1>1. child' \in Children /\ external' = external /\ desired' = desired
      /\ deaths' \in 0..MaxDeaths
  <2>1. CASE EnsureResolve(t) \/ WaitHealthy(t)
    BY <2>1 DEF Typed, EnsureResolve, WaitHealthy, servers
  <2>2. CASE EnsureSwap(t)
    <3>1. child' \in {child, [model |-> want[t], state |-> "loading"], NoChild}
          /\ want[t] \in Local
      BY <1>0, <2>2 DEF EnsureSwap, Kind
    <3>2. child' \in Children
      BY <3>1, NoChildType, ChildType DEF Typed
    <3>3. deaths' = deaths \/ (deaths < MaxDeaths /\ deaths' = deaths + 1)
      BY <2>2 DEF EnsureSwap
    <3>4. deaths' \in 0..MaxDeaths
      BY <3>3 DEF Typed
    <3> QED BY <2>2, <3>2, <3>4 DEF EnsureSwap
  <2> QED BY <2>1, <2>2
<1>2. CASE \E ok \in BOOLEAN : Return(t, ok)
  <2>1. pc[t] \in {"ensure", "swap", "wait"}
    BY DEF EnsureResolve, EnsureSwap, WaitHealthy
  <2>2. PICK ok \in BOOLEAN : Return(t, ok)
    BY <1>2
  <2> QED BY <1>1, <2>1, <2>2, ReturnFacts DEF Typed
<1>3. CASE EnsureResolve(t) /\ Go(t, "swap") /\ UNCHANGED shared /\ want[t] \in Local
  <2>1. /\ pc' \in [Tasks -> Stages] /\ op' \in [Tasks -> Operations]
        /\ want' \in [Tasks -> ModelOrNone] /\ seen' \in [Tasks -> BOOLEAN]
        /\ OthersKeep(t) /\ pc'[t] = "swap" /\ op'[t] = op[t] /\ want'[t] = want[t]
    BY <1>3, GoFacts DEF Stages
  <2>2. Typed'
    BY <1>1, <1>3, <2>1 DEF Typed, shared
  <2>3. pc[t] = "ensure"
    BY <1>3 DEF EnsureResolve
  <2>4. Kind(t)' /\ Holds(t)'
    BY <1>0, <1>3, <2>1, <2>3 DEF Kind, Holds, shared
  <2>5. LockStep(t) /\ CancelStep(t) /\ FlagStep(t) /\ YieldStep(t)
    BY <1>0, <1>3, <2>1, <2>3
       DEF LockStep, CancelStep, FlagStep, YieldStep, Registered, Flagged, Generating,
           UpdateUnderway, shared
  <2> QED BY <2>1, <2>2, <2>4, <2>5 DEF Moves
<1>4. CASE EnsureSwap(t) /\ Go(t, "wait") /\ UNCHANGED shared
  <2>1. /\ pc' \in [Tasks -> Stages] /\ op' \in [Tasks -> Operations]
        /\ want' \in [Tasks -> ModelOrNone] /\ seen' \in [Tasks -> BOOLEAN]
        /\ OthersKeep(t) /\ pc'[t] = "wait" /\ op'[t] = op[t] /\ want'[t] = want[t]
    BY <1>4, GoFacts DEF Stages
  <2>2. Typed'
    BY <1>1, <1>4, <2>1 DEF Typed, shared
  <2>3. pc[t] = "swap"
    BY <1>4 DEF EnsureSwap
  <2>4. Kind(t)' /\ Holds(t)'
    BY <1>0, <1>4, <2>1, <2>3 DEF Kind, Holds, shared
  <2>5. LockStep(t) /\ CancelStep(t) /\ FlagStep(t) /\ YieldStep(t)
    BY <1>0, <1>4, <2>1, <2>3
       DEF LockStep, CancelStep, FlagStep, YieldStep, Registered, Flagged, Generating,
           UpdateUnderway, shared
  <2> QED BY <2>1, <2>2, <2>4, <2>5 DEF Moves
<1> QED BY <1>2, <1>3, <1>4 DEF EnsureResolve, EnsureSwap, WaitHealthy

\* Steps of nobody: the child settles or dies, the owner picks.
LEMMA OtherSteps ==
  ASSUME IInv,
         ChildProgress \/ ChildDies \/ (\E m \in Wanted : OwnerPicks(m)) \/ UNCHANGED vars
  PROVE  IInv'
<1> USE ModelResidencyAssumption DEF IInv
<1>1. UNCHANGED <<lifecycle, updating, cancels, ejected, pc, op, want, seen>>
  BY DEF ChildProgress, ChildDies, OwnerPicks, vars, shared
<1>2. child' \in Children /\ external' = external /\ desired' \in Wanted
  BY ChildFields DEF ChildProgress, ChildDies, OwnerPicks, Alive, vars, servers, Typed
<1>3. deaths' \in 0..MaxDeaths
  BY DEF ChildProgress, ChildDies, OwnerPicks, vars, Typed
<1>4. Typed'
  BY <1>1, <1>2, <1>3 DEF Typed
<1>5. \A t \in Tasks : Kind(t)' /\ Holds(t)'
  BY <1>1 DEF Kind, Holds
<1> QED BY <1>1, <1>4, <1>5
       DEF Registered, Flagged, OneUpdate, RegisteredTurnsYield, UpdateUnderway, Generating

LEMMA NextIInv == IInv /\ [Next]_vars => IInv'
<1> SUFFICES ASSUME IInv, [Next]_vars PROVE IInv'
  OBVIOUS
<1>1. ASSUME NEW t \in Tasks, Begin(t) \/ Step(t) \/ StreamEnd(t) \/ ReconcileSnapshot(t)
      PROVE  IInv'
  <2>1. CASE Begin(t) \/ ReconcileSnapshot(t)
    BY <2>1, StartSteps, MovesIInv DEF Begin, ModelOrNone
  <2>2. CASE Step(t) \/ StreamEnd(t)
    BY <2>2, EnsureSteps, CommandSteps, TurnSteps, UpdateSteps, MovesIInv DEF Step
  <2> QED BY <1>1, <2>1, <2>2
<1> QED BY <1>1, OtherSteps DEF Next

\* The invariant holds in every behaviour.
THEOREM Invariance == Spec => []IInv
<1>1. QED BY InitIInv, NextIInv, PTL DEF Spec

\* Type correctness: the handle, the mutex and every task stay in their domains.
THEOREM TypeCorrect == Spec => []TypeOK
<1>1. IInv => TypeOK
  BY DEF IInv, TypeOK, Typed, Registered
<1> QED BY <1>1, Invariance, PTL

\* However many turns and updates race, no turn generates while an update is past
\* its check (lib.rs llamacpp_update_running against local_chat.rs and worker.rs
\* registration).
THEOREM UpdatesWaitForRegistered == Spec => []RegisteredTurnsYield
<1>1. IInv => RegisteredTurnsYield
  BY DEF IInv
<1> QED BY <1>1, Invariance, PTL

\* A command, a reconcile tick or an update changes the servers only while it
\* holds runtime_lifecycle.
THEOREM LifecycleSerializes == Spec => ManagedChangesLocked
<1>1. IInv /\ [Next]_vars
      => [\A t \in Tasks \ (Turns \cup Jobs) :
            pc'[t] # pc[t] /\ servers' # servers => lifecycle = t]_vars
  <2> SUFFICES ASSUME IInv, Next, NEW t \in Managed, pc'[t] # pc[t], servers' # servers
               PROVE  lifecycle = t
    BY DEF vars, servers, Managed
  <2> USE ModelResidencyAssumption DEF IInv
  <2>1. ASSUME NEW s \in Tasks, s # t PROVE ~Step(s) /\ ~Begin(s) /\ ~StreamEnd(s)
                                             /\ ~ReconcileSnapshot(s)
    <3>1. ASSUME Moves(s) PROVE FALSE
      BY <2>1, <3>1 DEF Moves, OthersKeep, Managed
    <3>2. ASSUME Begin(s) \/ ReconcileSnapshot(s) PROVE FALSE
      BY <2>1, <3>1, <3>2, StartSteps DEF Begin, ModelOrNone
    <3>3. ASSUME Step(s) \/ StreamEnd(s) PROVE FALSE
      BY <2>1, <3>1, <3>3, EnsureSteps, CommandSteps, TurnSteps, UpdateSteps DEF Step
    <3> QED BY <3>2, <3>3
  <2>2. ~ChildProgress /\ ~ChildDies /\ ~\E m \in Wanted : OwnerPicks(m)
    BY DEF ChildProgress, ChildDies, OwnerPicks
  <2>3. Step(t) \/ Begin(t) \/ StreamEnd(t) \/ ReconcileSnapshot(t)
    BY <2>1, <2>2 DEF Next, Managed
  <2>4. EnsureSwap(t) \/ EjectLocked(t) \/ RestartLocked(t) \/ UpdateStop(t) \/ UpdateUndo(t)
    BY <2>3
       DEF Step, Begin, StreamEnd, ReconcileSnapshot, CommandStart, TurnStart, JobStart,
           TurnPrepare, UpdateFlag, EnsureResolve, WaitHealthy, LockLifecycle, LoadLocked, ClearEjected,
           ReconcileDecide, TurnRegister, TurnCheck, Post, UpdateCheckTurns, UpdateMove,
           UpdateRelease, servers
  <2>5. pc[t] \in {"locked", "swap", "undo"}
    BY <2>4 DEF EnsureSwap, EjectLocked, RestartLocked, UpdateStop, UpdateUndo
  <2> QED BY <2>5 DEF Holds, Managed
<1> QED BY <1>1, Invariance, PTL DEF Spec, ManagedChangesLocked
=============================================================================
