---------------------------- MODULE AgentUpdate ----------------------------
(***************************************************************************)
(* The agent's self-update: update_agent commands and the automatic update *)
(* resolve a release, download and verify it, stage it in a file named     *)
(* after the process, replace the running executable with it and let the   *)
(* process exit, for the service manager to start the new one.  The runs   *)
(* share the staged file and the column update_status of the rig's row.    *)
(***************************************************************************)
EXTENDS Naturals, FiniteSets

CONSTANTS UpdateCommands,   \* update_agent commands
          AutoUpdates,      \* runs of the automatic update
          TopVersion        \* bound: versions are published in order, 1 first

ASSUME UpdateAssumption == TopVersion \in Nat \ {0} /\ UpdateCommands \cap AutoUpdates = {}

VARIABLES published,           \* the newest release on the channel
          exe, running,        \* the executable on disk; the version that runs
          staged,              \* the staged file
          copied,              \* self_replace's copy of it, beside the executable
          updatePc, updateTo,  \* the runs and the release each resolved
          updateStatus, settled, restartDue,
          overlapped           \* two runs were in swap_binary at once (history)

auVars == <<published, exe, running, staged, copied, updatePc, updateTo, updateStatus, settled,
            restartDue, overlapped>>

Updates == UpdateCommands \cup AutoUpdates
AgentVersions == 1..TopVersion
TornExe == 0                     \* an executable that is no release
NoStaged == [to |-> 0, by |-> "none", whole |-> FALSE]
StagedFiles == [to : AgentVersions, by : Updates, whole : BOOLEAN] \cup {NoStaged}
Swapping == {"writing", "written", "copied", "replaced", "refused"}   \* in swap_binary

UpdateTypeOK ==
    /\ published \in AgentVersions /\ exe \in AgentVersions \cup {TornExe} /\ running \in AgentVersions \cup {TornExe}
    /\ staged \in StagedFiles /\ copied \in [Updates -> StagedFiles]
    /\ updatePc \in [Updates -> {"idle", "resolved", "download", "verified", "swapped", "failed", "over"} \cup Swapping]
    /\ updateTo \in [Updates -> AgentVersions \cup {0}]
    /\ updateStatus \in {"idle", "downloading", "installing", "failed"}
    /\ settled \in BOOLEAN /\ restartDue \in BOOLEAN /\ overlapped \in BOOLEAN

UpdateInit ==
    /\ published = 1 /\ exe = 1 /\ running = 1 /\ staged = NoStaged
    /\ copied = [t \in Updates |-> NoStaged] /\ updatePc = [t \in Updates |-> "idle"]
    /\ updateTo = [t \in Updates |-> 0] /\ updateStatus = "idle"
    /\ settled = TRUE /\ restartDue = FALSE /\ overlapped = FALSE

----------------------------------------------------------------------------
(* set_update_status, whose failure nobody sees.                           *)
Report(st) == updateStatus' \in {updateStatus, st}
Step(t, from, to) == updatePc[t] = from /\ updatePc' = [updatePc EXCEPT ![t] = to]

LatestRelease == published
ReleasesOf == 1..published       \* fetch_release finds the one asked for among these

\* A command names a release or the latest one; it may be an older one.
CommandResolves(t) ==
    /\ t \in UpdateCommands /\ running # TornExe /\ Step(t, "idle", "resolved")
    /\ \E v \in ReleasesOf : updateTo' = [updateTo EXCEPT ![t] = v]
    /\ UNCHANGED <<published, exe, running, staged, copied, updateStatus, settled, restartDue, overlapped>>

\* The owner enabled it, and the newest release is newer than the process.
AutoResolves(t) ==
    /\ t \in AutoUpdates /\ running # TornExe /\ LatestRelease > running /\ Step(t, "idle", "resolved")
    /\ updateTo' = [updateTo EXCEPT ![t] = LatestRelease]
    /\ UNCHANGED <<published, exe, running, staged, copied, updateStatus, settled, restartDue, overlapped>>

UpToDate(t) ==
    /\ updateTo[t] = running /\ Step(t, "resolved", "over") /\ Report("idle")
    /\ UNCHANGED <<published, exe, running, staged, copied, updateTo, settled, restartDue, overlapped>>

\* No artifact for this platform: an error before any status is written.
NoArtifact(t) ==
    /\ updateTo[t] # running /\ Step(t, "resolved", "over")
    /\ UNCHANGED <<published, exe, running, staged, copied, updateTo, updateStatus, settled, restartDue, overlapped>>

DownloadStarts(t) ==
    /\ updateTo[t] # running /\ Step(t, "resolved", "download") /\ Report("downloading")
    /\ UNCHANGED <<published, exe, running, staged, copied, updateTo, settled, restartDue, overlapped>>

\* The request, the digest or the signature fails; or a step of swap_binary.
UpdateFails(t) ==
    /\ \/ Step(t, "download", "over")
       \/ Step(t, "failed", "over")
    /\ Report("failed")
    /\ UNCHANGED <<published, exe, running, staged, copied, updateTo, settled, restartDue, overlapped>>

Verified(t) ==
    /\ Step(t, "download", "verified") /\ Report("installing")
    /\ UNCHANGED <<published, exe, running, staged, copied, updateTo, settled, restartDue, overlapped>>

----------------------------------------------------------------------------
(* swap_binary: write, make executable, replace, remove; no step of it     *)
(* holds a lock.                                                           *)

CreateStaged(t) ==
    /\ Step(t, "verified", "writing")
    /\ staged' = [to |-> updateTo[t], by |-> t, whole |-> FALSE]
    /\ overlapped' = (overlapped \/ \E u \in Updates \ {t} : updatePc[u] \in Swapping)
    /\ UNCHANGED <<published, exe, running, copied, updateTo, updateStatus, settled, restartDue>>

\* Two runs that write at once leave what one of them wrote or a mixture, and
\* a file removed meanwhile takes the bytes with it.
WriteStaged(t) ==
    /\ Step(t, "writing", "written")
    /\ staged' \in IF staged = NoStaged THEN {NoStaged}
                   ELSE IF staged.by = t THEN {[staged EXCEPT !.whole = TRUE]}
                   ELSE {staged, [staged EXCEPT !.whole = FALSE]}
    /\ UNCHANGED <<published, exe, running, copied, updateTo, updateStatus, settled, restartDue, overlapped>>

\* self_replace copies the staged file beside the executable.
CopyStaged(t) ==
    /\ IF staged = NoStaged THEN Step(t, "written", "refused") ELSE Step(t, "written", "copied")
    /\ copied' = [copied EXCEPT ![t] = staged]
    /\ UNCHANGED <<published, exe, running, staged, updateTo, updateStatus, settled, restartDue, overlapped>>

\* The write or the chmod is refused, and the file stays; or self_replace is.
SwapRefused(t) ==
    /\ \/ Step(t, "writing", "failed")
       \/ Step(t, "written", "failed")
       \/ Step(t, "copied", "refused")
    /\ UNCHANGED <<published, exe, running, staged, copied, updateTo, updateStatus, settled, restartDue, overlapped>>

RenameOver(t) ==
    /\ Step(t, "copied", "replaced")
    /\ exe' = IF copied[t].whole THEN copied[t].to ELSE TornExe
    /\ UNCHANGED <<published, running, staged, copied, updateTo, updateStatus, settled, restartDue, overlapped>>

\* Whatever self_replace said, the file under the shared name goes.
RemoveStaged(t) ==
    /\ \/ Step(t, "replaced", "swapped")
       \/ Step(t, "refused", "failed")
    /\ staged' = NoStaged
    /\ UNCHANGED <<published, exe, running, copied, updateTo, updateStatus, settled, restartDue, overlapped>>

ScheduleRestart(t) ==
    /\ Step(t, "swapped", "over") /\ restartDue' = TRUE
    /\ UNCHANGED <<published, exe, running, staged, copied, updateTo, updateStatus, settled, overlapped>>

----------------------------------------------------------------------------
(* The process ends, three seconds after a swap or at any other time, in   *)
(* the middle of whatever its tasks do, and the service manager starts the *)
(* executable that is there; clear_update_status then settles the column.  *)

ProcessEnds ==
    /\ running # TornExe
    /\ running' = exe /\ restartDue' = FALSE /\ settled' = FALSE
    /\ staged' = NoStaged                     \* the next process has another id
    /\ copied' = [t \in Updates |-> NoStaged]
    /\ updatePc' = [t \in Updates |-> "idle"] /\ updateTo' = [t \in Updates |-> 0]
    /\ overlapped' = (exe = TornExe)
    /\ UNCHANGED <<published, exe, updateStatus>>

ClearUpdateStatus ==
    /\ ~settled /\ running # TornExe /\ settled' = TRUE /\ Report("idle")
    /\ UNCHANGED <<published, exe, running, staged, copied, updatePc, updateTo, restartDue, overlapped>>

Publish ==
    /\ published < TopVersion /\ published' = published + 1
    /\ UNCHANGED <<exe, running, staged, copied, updatePc, updateTo, updateStatus, settled, restartDue, overlapped>>

UpdateNext ==
    \/ ProcessEnds \/ ClearUpdateStatus \/ Publish
    \/ \E t \in Updates :
          \/ CommandResolves(t) \/ AutoResolves(t) \/ UpToDate(t) \/ NoArtifact(t) \/ DownloadStarts(t)
          \/ Verified(t) \/ UpdateFails(t) \/ CreateStaged(t) \/ WriteStaged(t) \/ CopyStaged(t)
          \/ SwapRefused(t) \/ RenameOver(t) \/ RemoveStaged(t) \/ ScheduleRestart(t)

UpdateSpec == UpdateInit /\ [][UpdateNext]_auVars

----------------------------------------------------------------------------
\* The executable on disk is a whole release whenever the process ends or a
\* run fails, unless two runs were in swap_binary at once: then one may copy
\* what the other is still writing (updater.rs:261).
ExecutableWhole == exe # TornExe \/ overlapped
=============================================================================
