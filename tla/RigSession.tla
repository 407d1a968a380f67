----------------------------- MODULE RigSession -----------------------------
(***************************************************************************)
(* Enrollment and device credentials: the AgentConfig record behind the    *)
(* config mutex, its file, the tray status, the background loops that      *)
(* refresh the device token and probe whether the rig still exists, and    *)
(* the enrollment form of the tray.                                        *)
(*                                                                         *)
(* A rig is a number in 1..MaxRigs; 0 stands for "none".  The token and    *)
(* the refresh secret of a rig are named by the rig they were minted for.  *)
(***************************************************************************)
EXTENDS Integers

CONSTANTS Loops,      \* the tasks that call ensure_token
          Telemetry,  \* the one of them that runs telemetry_tick
          MaxRigs,    \* bound: enrollments in a behaviour
          MaxFaults,  \* bound: failed requests and failed saves
          MaxCrashes  \* bound: process restarts

ASSUME RigSessionAssumption ==
    /\ Telemetry \in Loops
    /\ "nobody" \notin Loops
    /\ MaxRigs \in Nat /\ MaxFaults \in Nat /\ MaxCrashes \in Nat

VARIABLES live,     \* rigs whose row exists and is not soft-deleted (server)
          issued,   \* rigs the server has created so far
          cfg,      \* AgentConfig in memory
          disk,     \* config.json
          lock,     \* the task that holds state.config across an await
          status,   \* AgentStatus shown by the tray
          form,     \* the enroll command: its stage and the rig it was given
          pc,       \* control point of each loop
          tok,      \* rig named by the token a loop holds
          accused,  \* rig the loop asked the server about
          misled,   \* history: loops whose tick met a new enrollment, or an
                    \* unreadable answer
          faults, crashes

vars == <<live, issued, cfg, disk, lock, status, form, pc, tok, accused,
          misled, faults, crashes>>
server == <<live, issued>>
bounds == <<faults, crashes>>

Rigs == 1..MaxRigs
RigOrNone == 0..MaxRigs
NoConfig == [rig |-> 0, token |-> 0, fresh |-> FALSE]
NoStatus == [enrolled |-> FALSE, connected |-> FALSE]
NoForm == [stage |-> "idle", rig |-> 0]

\* The credentials are all there or all absent.
Config ==
    {c \in [rig : RigOrNone, token : RigOrNone, fresh : BOOLEAN] :
        (c.rig = 0) = (c.token = 0) /\ (c.fresh => c.rig # 0)}
Stages == {"idle", "token", "refresh", "rid", "probe", "work",
           "clear", "clearRevoked", "unpair"}

TypeOK ==
    /\ live \subseteq Rigs
    /\ issued \in RigOrNone
    /\ cfg \in Config
    /\ disk \in Config
    /\ lock \in Loops \cup {"nobody"}
    /\ status \in [enrolled : BOOLEAN, connected : BOOLEAN]
    /\ form \in [stage : {"idle", "answered", "stored"}, rig : RigOrNone]
    /\ pc \in [Loops -> Stages]
    /\ tok \in [Loops -> RigOrNone]
    /\ accused \in [Loops -> RigOrNone]
    /\ misled \subseteq Loops
    /\ faults \in 0..MaxFaults
    /\ crashes \in 0..MaxCrashes

Init ==
    /\ live = {} /\ issued = 0
    /\ cfg = NoConfig /\ disk = NoConfig
    /\ lock = "nobody"
    /\ status = NoStatus
    /\ form = NoForm
    /\ pc = [l \in Loops |-> "idle"]
    /\ tok = [l \in Loops |-> 0]
    /\ accused = [l \in Loops |-> 0]
    /\ misled = {}
    /\ faults = 0 /\ crashes = 0

-----------------------------------------------------------------------------
(* Helpers.                                                                *)

IsEnrolled(c) == c.rig # 0

Free == lock = "nobody"

Goto(l, stage) == pc' = [pc EXCEPT ![l] = stage]

Fault == faults < MaxFaults /\ faults' = faults + 1

\* AgentConfig::save: the whole record reaches the file, or the write fails, before
\* the file was truncated or after; load takes what is left then for no config.
SaveOk == disk' = cfg' /\ UNCHANGED faults
SaveFails == Fault /\ disk' \in {disk, NoConfig}

\* Every error of telemetry_tick reaches set_error; the other loops only log.
LoopError(l) ==
    status' = IF l = Telemetry THEN [status EXCEPT !.connected = FALSE]
                               ELSE status

-----------------------------------------------------------------------------
(* ensure_token, rig_id and the ticks built on them.                       *)

\* The loop wakes up and finds a rig id.
TickStart(l) ==
    /\ pc[l] = "idle" /\ Free /\ IsEnrolled(cfg)
    /\ Goto(l, "token") /\ misled' = misled \ {l}
    /\ UNCHANGED <<server, cfg, disk, lock, status, form, tok, accused, bounds>>

EnsureNotEnrolled(l) ==
    /\ pc[l] = "token" /\ Free /\ ~IsEnrolled(cfg)
    /\ Goto(l, "idle") /\ LoopError(l)
    /\ UNCHANGED <<server, cfg, disk, lock, form, tok, accused, misled, bounds>>

EnsureFresh(l) ==
    /\ pc[l] = "token" /\ Free /\ IsEnrolled(cfg) /\ cfg.fresh
    /\ tok' = [tok EXCEPT ![l] = cfg.token]
    /\ Goto(l, "rid")
    /\ UNCHANGED <<server, cfg, disk, lock, status, form, accused, misled, bounds>>

\* Mutant: the guard is dropped before the request is awaited.
RefreshSend_Unlocked(l) ==
    /\ pc[l] = "token" /\ Free /\ IsEnrolled(cfg) /\ ~cfg.fresh
    /\ accused' = [accused EXCEPT ![l] = cfg.rig]
    /\ Goto(l, "refresh")
    /\ UNCHANGED <<server, cfg, disk, lock, status, form, tok, misled, bounds>>

\* The config guard stays locked while refresh_token is awaited.
RefreshSend(l) ==
    /\ pc[l] = "token" /\ Free /\ IsEnrolled(cfg) /\ ~cfg.fresh
    /\ lock' = l
    /\ accused' = [accused EXCEPT ![l] = cfg.rig]
    /\ Goto(l, "refresh")
    /\ UNCHANGED <<server, cfg, disk, status, form, tok, misled, bounds>>

RefreshOk(l) ==
    /\ pc[l] = "refresh" /\ accused[l] \in live
    /\ cfg' = [cfg EXCEPT !.token = accused[l], !.fresh = TRUE]
    /\ SaveOk \/ SaveFails
    /\ lock' = "nobody"
    /\ tok' = [tok EXCEPT ![l] = accused[l]]
    /\ Goto(l, "rid")
    /\ UNCHANGED <<server, status, form, accused, misled, crashes>>

RefreshRevoked(l) ==
    /\ pc[l] = "refresh" /\ accused[l] \notin live
    /\ lock' = "nobody"
    /\ Goto(l, "clearRevoked")
    /\ UNCHANGED <<server, cfg, disk, status, form, tok, accused, misled, bounds>>

\* Mutant: every failed refresh counts as a revoked device.
RefreshFault_Revoked(l) ==
    /\ pc[l] = "refresh" /\ Fault
    /\ lock' = "nobody"
    /\ Goto(l, "clearRevoked")
    /\ UNCHANGED <<server, cfg, disk, status, form, tok, accused, misled, crashes>>

\* Mutant: the error path leaves the config locked.
RefreshFault_LockKept(l) ==
    /\ pc[l] = "refresh" /\ Fault
    /\ Goto(l, "idle") /\ LoopError(l)
    /\ UNCHANGED <<server, cfg, disk, lock, form, tok, accused, misled, crashes>>

\* A timeout, a 5xx or a 401 without the device_revoked marker.
RefreshFault(l) ==
    /\ pc[l] = "refresh" /\ Fault
    /\ lock' = "nobody"
    /\ Goto(l, "idle") /\ LoopError(l)
    /\ UNCHANGED <<server, cfg, disk, form, tok, accused, misled, crashes>>

\* rig_id is a second acquisition of the lock, after the token was taken.
ReadRig(l) ==
    /\ pc[l] = "rid" /\ Free
    /\ IF IsEnrolled(cfg)
       THEN /\ accused' = [accused EXCEPT ![l] = cfg.rig]
            /\ Goto(l, IF l = Telemetry THEN "probe" ELSE "work")
            /\ UNCHANGED status
       ELSE Goto(l, "idle") /\ LoopError(l) /\ UNCHANGED accused
    /\ UNCHANGED <<server, cfg, disk, lock, form, tok, misled, bounds>>

\* A row comes back only for a live rig, and only for its own token.
HeartbeatLive(l) ==
    /\ pc[l] = "probe" /\ accused[l] \in live /\ tok[l] = accused[l]
    /\ Goto(l, "work")
    /\ UNCHANGED <<server, cfg, disk, lock, status, form, tok, accused, misled, bounds>>

\* Mutant: an empty answer to the heartbeat is ignored.
HeartbeatGone_Ignored(l) ==
    /\ pc[l] = "probe" /\ ~(accused[l] \in live /\ tok[l] = accused[l])
    /\ Goto(l, "idle")
    /\ UNCHANGED <<server, cfg, disk, lock, status, form, tok, accused, misled, bounds>>

HeartbeatGone(l) ==
    /\ pc[l] = "probe" /\ ~(accused[l] \in live /\ tok[l] = accused[l])
    /\ Goto(l, "clear")
    /\ UNCHANGED <<server, cfg, disk, lock, status, form, tok, accused, misled, bounds>>

\* A body that cannot be decoded reads as an empty one, whatever the server answered.
HeartbeatUnreadable(l) ==
    /\ pc[l] = "probe" /\ Fault
    /\ misled' = misled \cup {l}
    /\ Goto(l, "clear")
    /\ UNCHANGED <<server, cfg, disk, lock, status, form, tok, accused, crashes>>

\* Any request of the tick fails: the tick ends with an error.
TickFault(l) ==
    /\ pc[l] \in {"probe", "work"} /\ Fault
    /\ Goto(l, "idle") /\ LoopError(l)
    /\ UNCHANGED <<server, cfg, disk, lock, form, tok, accused, misled, crashes>>

\* The rest of the tick succeeds; telemetry then marks the tray connected.
TickDone(l) ==
    /\ pc[l] = "work"
    /\ status' = IF l = Telemetry THEN [status EXCEPT !.connected = TRUE]
                                  ELSE status
    /\ Goto(l, "idle")
    /\ UNCHANGED <<server, cfg, disk, lock, form, tok, accused, misled, bounds>>

-----------------------------------------------------------------------------
(* reset_to_pairing: the config first, then the status, under two locks.   *)

Clearing == {"clear", "clearRevoked"}

\* Mutant: only the rig id is cleared.
ResetConfig_KeepsToken(l) ==
    /\ pc[l] \in Clearing /\ Free /\ IsEnrolled(cfg)
    /\ cfg' = [cfg EXCEPT !.rig = 0] /\ (SaveOk \/ SaveFails)
    /\ Goto(l, "unpair")
    /\ UNCHANGED <<server, status, lock, form, tok, accused, misled, crashes>>

ResetConfig(l) ==
    /\ pc[l] \in Clearing /\ Free
    /\ IF IsEnrolled(cfg)
       THEN /\ cfg' = NoConfig /\ (SaveOk \/ SaveFails)
            /\ Goto(l, "unpair") /\ UNCHANGED status
       ELSE /\ Goto(l, "idle")
            /\ IF pc[l] = "clearRevoked" THEN LoopError(l) ELSE UNCHANGED status
            /\ UNCHANGED <<cfg, disk, faults>>
    /\ UNCHANGED <<server, lock, form, tok, accused, misled, crashes>>

ResetStatus(l) ==
    /\ pc[l] = "unpair"
    /\ status' = NoStatus
    /\ Goto(l, "idle")
    /\ UNCHANGED <<server, cfg, disk, lock, form, tok, accused, misled, bounds>>

-----------------------------------------------------------------------------
(* The enrollment form, which the dashboard shows while not enrolled.      *)

\* The server consumes the pairing code; its answer may be lost.
EnrollSubmit ==
    /\ form.stage = "idle" /\ ~status.enrolled /\ issued < MaxRigs
    /\ issued' = issued + 1 /\ live' = live \cup {issued + 1}
    /\ \/ form' = [stage |-> "answered", rig |-> issued + 1] /\ UNCHANGED faults
       \/ Fault /\ UNCHANGED form
    /\ UNCHANGED <<cfg, disk, lock, status, pc, tok, accused, misled, crashes>>

\* A failed save returns the error to the form with the memory already changed.
EnrollStore ==
    /\ form.stage = "answered" /\ Free
    /\ cfg' = [rig |-> form.rig, token |-> form.rig, fresh |-> TRUE]
    /\ \/ SaveOk /\ form' = [form EXCEPT !.stage = "stored"]
       \/ SaveFails /\ form' = NoForm
    /\ misled' = {l \in Loops : pc[l] # "idle"}
    /\ UNCHANGED <<server, lock, status, pc, tok, accused, crashes>>

EnrollStatus ==
    /\ form.stage = "stored"
    /\ status' = [status EXCEPT !.enrolled = TRUE]
    /\ form' = NoForm
    /\ UNCHANGED <<server, cfg, disk, lock, pc, tok, accused, misled, bounds>>

-----------------------------------------------------------------------------
(* Environment: the owner, the clock, a restart of the process.            *)

OwnerDeletes(r) ==
    /\ r \in live
    /\ live' = live \ {r}
    /\ UNCHANGED <<issued, cfg, disk, lock, status, form, pc, tok, accused, misled, bounds>>

\* Fewer than 120 seconds are left on the token, and on any older one in the file.
TokenAges ==
    /\ cfg.fresh
    /\ cfg' = [cfg EXCEPT !.fresh = FALSE]
    /\ disk' = [disk EXCEPT !.fresh = FALSE]
    /\ UNCHANGED <<server, lock, status, form, pc, tok, accused, misled, bounds>>

\* fs::write truncates first: a crash inside a save leaves a file that load
\* moves aside for the default config.
SaveInFlight ==
    \/ \E l \in Loops : pc[l] \in Clearing \cup {"refresh"}
    \/ form.stage = "answered"

Restart ==
    /\ crashes < MaxCrashes /\ crashes' = crashes + 1
    /\ \/ UNCHANGED disk
       \/ SaveInFlight /\ disk' = NoConfig
    /\ cfg' = disk'
    /\ status' = [enrolled |-> IsEnrolled(disk'), connected |-> FALSE]
    /\ lock' = "nobody"
    /\ form' = NoForm
    /\ pc' = [l \in Loops |-> "idle"]
    /\ tok' = [l \in Loops |-> 0]
    /\ accused' = [l \in Loops |-> 0]
    /\ misled' = {}
    /\ UNCHANGED <<server, faults>>

-----------------------------------------------------------------------------
Ensure(l) ==
    \/ EnsureNotEnrolled(l) \/ EnsureFresh(l) \/ RefreshSend(l)
    \/ RefreshOk(l) \/ RefreshRevoked(l)
Tick(l) ==
    \/ TickStart(l) \/ ReadRig(l) \/ HeartbeatLive(l) \/ HeartbeatGone(l)
    \/ TickDone(l)
Reset(l) == ResetConfig(l) \/ ResetStatus(l)
LoopStep(l) == Ensure(l) \/ Tick(l) \/ Reset(l)
Failure(l) == RefreshFault(l) \/ TickFault(l) \/ HeartbeatUnreadable(l)
FormStep == EnrollStore \/ EnrollStatus

Next ==
    \/ \E l \in Loops : LoopStep(l) \/ Failure(l)
    \/ EnrollSubmit \/ FormStep
    \/ \E r \in Rigs : OwnerDeletes(r)
    \/ TokenAges \/ Restart

Spec == Init /\ [][Next]_vars

\* Each loop is a task of its own that sleeps and runs again for ever; a request
\* is eventually answered; the tokio mutex is fair, so a waiting task gets it.
Fairness ==
    /\ \A l \in Loops : SF_vars(LoopStep(l))
    /\ SF_vars(FormStep)
FairSpec == Spec /\ Fairness

-----------------------------------------------------------------------------
(* Properties.                                                             *)

\* The token in the config, in memory or on disk, is the token of the rig next
\* to it: a refresh that was answered while another task re-enrolled would pair
\* one rig's token with the other's id (ensure_token keeps the lock instead).
TokenMatchesRig ==
    \A c \in {cfg, disk} : IsEnrolled(c) => c.token = c.rig

\* A live rig loses its enrollment only to a loop whose tick was crossed by a new
\* enrollment or misread its heartbeat: a token, a rig id and a verdict which one tick
\* collects under several acquisitions of the lock belong together otherwise, whatever
\* other loops refresh and reset meanwhile.
LiveRigsKept ==
    [][\A l \in Loops :
         pc[l] \in Clearing /\ pc'[l] = "unpair" /\ cfg.rig \in live => l \in misled]_vars

\* "Called when the rig no longer exists server-side ... Idempotent: safe to call
\* from any loop": a reset only ever clears the enrollment of a deleted rig.
OnlyDeadRigsCleared ==
    [][\A l \in Loops :
         ResetConfig(l) /\ IsEnrolled(cfg) => cfg.rig \notin live]_vars

\* The agent does not keep the credentials of a deleted rig for ever, whatever
\* races with the deletion (heartbeat probe and revoked refresh).
DeletedRigForgotten ==
    \A r \in Rigs : (cfg.rig = r /\ r \notin live) ~> (cfg.rig # r)

\* A rig that stays enrolled and alive shows as connected again and again: no
\* failed refresh leaves the config lock taken, no reset silences telemetry.
EnrolledGetsConnected ==
    <>[](IsEnrolled(cfg) /\ cfg.rig \in live) => []<>status.connected
=============================================================================
