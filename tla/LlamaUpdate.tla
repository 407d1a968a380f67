----------------------------- MODULE LlamaUpdate -----------------------------
(***************************************************************************)
(* The transaction that swaps the llama.cpp install tree, and the recovery *)
(* the agent runs before anything else when it starts.  Directory renames  *)
(* are atomic but may be refused; remove_dir_all is neither: a crash or a  *)
(* refused file leaves half a tree.                                        *)
(*                                                                         *)
(* A tree is a version and whether all its files are there.  The download, *)
(* the checksum and the smoke test only build the staged tree, away from   *)
(* everything modelled here; each may fail.                                *)
(***************************************************************************)
EXTENDS Integers

CONSTANTS MaxVersion,  \* bound: published releases
          MaxFaults,   \* bound: refused file operations, failed reloads
          MaxCrashes   \* bound: process deaths

ASSUME LlamaUpdateAssumption ==
    MaxVersion \in Nat \ {0} /\ MaxFaults \in Nat /\ MaxCrashes \in Nat

VARIABLES root,     \* the desktop install directory
          backup,   \* .locallmos-llamacpp-backup
          aside,    \* .locallmos-llamacpp-interrupted
          journal,  \* .locallmos-llamacpp-update.json
          legacy,   \* a system-wide install exists as well, never written to
          bin,      \* the executable the runtime starts: version, and whether
                    \* it is the legacy system-wide one
          was,      \* the executable before the update
          target,   \* release being installed
          pc,       \* control point of the updater, or of the recovery
          spoiled,  \* history: a backup the journal names was half deleted, or
                    \* could not be put back where nothing was
          faults, crashes

vars == <<root, backup, aside, journal, legacy, bin, was, target, pc, spoiled,
          faults, crashes>>
trees == <<root, backup, aside>>
memory == <<legacy, bin, was, target>>

Versions == 1..MaxVersion
Absent == [v |-> 0, whole |-> FALSE]
Tree(v) == [v |-> v, whole |-> TRUE]
Torn(t) == [t EXCEPT !.whole = FALSE]
Present(t) == t.v # 0

Trees == {t \in [v : 0..MaxVersion, whole : BOOLEAN] : t.whole => Present(t)}
Executables == [v : 0..MaxVersion, legacy : BOOLEAN]
Updating == {"staged", "clean", "journal", "move", "commit", "reload",
             "undo", "putback", "settle", "drop", "finish"}
Booting == {"boot", "reinstate", "sweep", "unmark", "start"}
\* From the first rename to the removal of the journal.
Journalled == {"move", "commit", "reload", "undo", "putback", "settle", "drop", "finish"}

\* What recovery relies on comes with the types: a swap runs under a journal it can read.
TypeOK ==
    /\ root \in Trees /\ backup \in Trees /\ aside \in Trees
    /\ journal \in {"none", "torn", "written"}
    /\ pc \in Journalled => journal = "written"
    /\ legacy \in BOOLEAN /\ bin \in Executables /\ was \in Executables
    /\ target \in 0..MaxVersion
    /\ pc \in {"idle"} \cup Updating \cup Booting
    /\ spoiled \in BOOLEAN
    /\ faults \in 0..MaxFaults /\ crashes \in 0..MaxCrashes

\* A provisioned desktop install, or only the legacy one that an update migrates.
Init ==
    /\ legacy \in BOOLEAN
    /\ root = (IF legacy THEN Absent ELSE Tree(1))
    /\ bin = [v |-> 1, legacy |-> legacy]
    /\ backup = Absent /\ aside = Absent
    /\ journal = "none"
    /\ was = bin /\ target = 0
    /\ pc = "idle"
    /\ spoiled = FALSE
    /\ faults = 0 /\ crashes = 0

-----------------------------------------------------------------------------
(* File operations.                                                        *)

Refused == faults < MaxFaults /\ faults' = faults + 1
Ok == UNCHANGED faults

Half(t, s) == s \in {t, Torn(t)}

\* Half a backup is left while the journal still names it.
Spoil == spoiled' = (spoiled \/ (journal = "written" /\ backup' # Absent
                                   /\ ~backup'.whole))

-----------------------------------------------------------------------------
(* install_inner.                                                          *)

\* The checks pass, the release is downloaded, verified, unpacked and tried.
Stage(v) ==
    /\ pc = "idle" /\ (bin.legacy \/ Present(root)) /\ v > bin.v
    /\ target' = v /\ was' = bin
    /\ pc' = "staged"
    /\ UNCHANGED <<trees, journal, legacy, bin, spoiled, faults, crashes>>

\* unload_model or restart: a server that cannot be stopped ends the update.
StopServer ==
    /\ pc = "staged"
    /\ \/ pc' = "clean" /\ Ok
       \/ pc' = "idle" /\ Refused
    /\ UNCHANGED <<trees, journal, memory, spoiled, crashes>>

CleanBackup ==
    /\ pc = "clean"
    /\ \/ backup' = Absent /\ pc' = "journal" /\ Ok
       \/ Present(backup) /\ Half(backup, backup') /\ pc' = "idle" /\ Refused
    /\ Spoil
    /\ UNCHANGED <<root, aside, journal, memory, crashes>>

\* Mutant: the result of the write is ignored.
WriteJournal_Ignored ==
    /\ pc = "journal" /\ pc' = "move"
    /\ \/ journal' = "written" /\ Ok
       \/ journal' = "torn" /\ Refused
    /\ UNCHANGED <<trees, memory, spoiled, crashes>>

WriteJournal ==
    /\ pc = "journal"
    /\ \/ journal' = "written" /\ pc' = "move" /\ Ok
       \/ journal' = "torn" /\ pc' = "idle" /\ Refused
    /\ UNCHANGED <<trees, memory, spoiled, crashes>>

\* The current tree, or a leftover at the target of a migration, steps aside.
MoveToBackup ==
    /\ pc = "move"
    /\ \/ /\ pc' = "commit" /\ Ok
          /\ IF Present(root) THEN backup' = root /\ root' = Absent
                              ELSE UNCHANGED <<root, backup>>
       \/ Present(root) /\ pc' = "idle" /\ Refused /\ UNCHANGED <<root, backup>>
    /\ UNCHANGED <<aside, journal, memory, spoiled, crashes>>

\* The staged tree takes the place of the old one; set_runtime_bin follows.
Commit ==
    /\ pc = "commit"
    /\ root' = Tree(target) /\ bin' = [v |-> target, legacy |-> FALSE]
    /\ pc' = "reload"
    /\ UNCHANGED <<backup, aside, journal, legacy, was, target, spoiled, faults, crashes>>

\* Mutant: the cleanup after a refused commit removes the backup as well.
CommitRefused_DropsBackup ==
    /\ pc = "commit" /\ Refused
    /\ backup' = Absent
    /\ journal' = "none"
    /\ pc' = "idle"
    /\ UNCHANGED <<root, aside, memory, spoiled, crashes>>

\* A refused commit puts the backup back and forgets the journal; both may be refused
\* in turn, and neither result is looked at.
CommitRefused ==
    /\ pc = "commit" /\ pc' = "idle"
    /\ \E stuck, kept \in 0..1 :
          /\ faults' = faults + 1 + stuck + kept /\ faults' <= MaxFaults
          /\ stuck = 1 => Present(backup)
          /\ IF Present(backup) /\ stuck = 0 THEN root' = backup /\ backup' = Absent
                                            ELSE UNCHANGED <<root, backup>>
          /\ spoiled' = (spoiled \/ stuck = 1)
          /\ journal' = IF kept = 1 THEN journal ELSE "none"
    /\ UNCHANGED <<aside, memory, crashes>>

\* No model was loaded, or the new server loads it.
ReloadOk ==
    /\ pc = "reload"
    /\ pc' = "drop"
    /\ UNCHANGED <<trees, journal, memory, spoiled, faults, crashes>>

ReloadFails ==
    /\ pc = "reload" /\ Refused
    /\ pc' = "undo"
    /\ UNCHANGED <<trees, journal, memory, spoiled, crashes>>

\* model_settings(model)? returns with the new tree in place and nothing tidied.
ReloadAborts ==
    /\ pc = "reload" /\ Refused
    /\ pc' = "idle"
    /\ UNCHANGED <<trees, journal, memory, spoiled, crashes>>

\* The rollback's first rename ignores its result.
SetFailedAside ==
    /\ pc = "undo"
    /\ \/ root' = Absent /\ Ok
       \/ UNCHANGED root /\ Refused
    /\ pc' = "putback"
    /\ UNCHANGED <<backup, aside, journal, memory, spoiled, crashes>>

\* Its second does not.  A migration onto an empty target has nothing to restore.
PutBack ==
    /\ pc = "putback"
    /\ \/ /\ Present(backup) /\ ~Present(root) /\ Ok
          /\ root' = backup /\ backup' = Absent
          /\ bin' = was /\ pc' = "settle" /\ UNCHANGED spoiled
       \/ /\ ~Present(backup) /\ Ok
          /\ bin' = was /\ pc' = "settle" /\ UNCHANGED <<root, backup, spoiled>>
       \/ /\ Present(backup) /\ Present(root) /\ Ok
          /\ pc' = "idle" /\ UNCHANGED <<root, backup, bin, spoiled>>
       \/ /\ Present(backup) /\ ~Present(root) /\ Refused
          /\ pc' = "idle" /\ spoiled' = TRUE /\ UNCHANGED <<root, backup, bin>>
    /\ UNCHANGED <<aside, journal, legacy, was, target, crashes>>

\* A refused deletion of the backup is logged, and the update still succeeds.
DropBackup ==
    /\ pc = "drop"
    /\ \/ backup' = Absent /\ Ok
       \/ Present(backup) /\ Half(backup, backup') /\ Refused
    /\ Spoil
    /\ pc' = "finish"
    /\ UNCHANGED <<root, aside, journal, memory, crashes>>

RemoveJournal ==
    /\ pc \in {"settle", "finish"}
    /\ \/ journal' = "none" /\ Ok
       \/ UNCHANGED journal /\ Refused
    /\ pc' = "idle"
    /\ UNCHANGED <<trees, memory, spoiled, crashes>>

-----------------------------------------------------------------------------
(* A crash, recover_interrupted_update, and the choice of the executable.  *)

Crash ==
    /\ pc # "boot" /\ crashes < MaxCrashes
    /\ crashes' = crashes + 1
    /\ \/ UNCHANGED <<backup, aside, journal>>
       \/ pc \in {"clean", "drop"} /\ Half(backup, backup') /\ UNCHANGED <<aside, journal>>
       \/ pc = "sweep" /\ Half(aside, aside') /\ UNCHANGED <<backup, journal>>
       \/ pc = "journal" /\ journal' = "torn" /\ UNCHANGED <<backup, aside>>
    /\ Spoil
    /\ pc' = "boot"
    /\ UNCHANGED <<root, memory, faults>>

\* No journal that parses, or no backup: nothing is renamed.
BootNothing ==
    /\ pc = "boot"
    /\ IF journal # "written" THEN pc' = "start"
                              ELSE ~Present(backup) /\ pc' = "unmark"
    /\ UNCHANGED <<trees, journal, memory, spoiled, faults, crashes>>

\* Mutant: recovery only looks at trees that are still there.
BootRestore_Missing ==
    /\ pc = "boot" /\ journal = "written" /\ ~Present(root) /\ Present(backup)
    /\ pc' = "unmark"
    /\ UNCHANGED <<trees, journal, memory, spoiled, faults, crashes>>

BootRestore ==
    /\ pc = "boot" /\ journal = "written" /\ ~Present(root) /\ Present(backup)
    /\ \/ root' = backup /\ backup' = Absent /\ Ok /\ UNCHANGED spoiled
       \/ UNCHANGED <<root, backup>> /\ Refused /\ spoiled' = TRUE
    /\ pc' = "unmark"
    /\ UNCHANGED <<aside, journal, memory, crashes>>

\* A leftover of an earlier recovery makes the rename fail; the result is ignored.
BootSetAside ==
    /\ pc = "boot" /\ journal = "written" /\ Present(root) /\ Present(backup)
    /\ \/ ~Present(aside) /\ aside' = root /\ root' = Absent /\ Ok
       \/ Present(aside) /\ UNCHANGED <<root, aside>> /\ Ok
       \/ ~Present(aside) /\ UNCHANGED <<root, aside>> /\ Refused
    /\ pc' = "reinstate"
    /\ UNCHANGED <<backup, journal, memory, spoiled, crashes>>

BootReinstate ==
    /\ pc = "reinstate"
    /\ \/ /\ ~Present(root) /\ Ok /\ root' = backup /\ backup' = Absent
          /\ pc' = "sweep" /\ UNCHANGED spoiled
       \/ /\ Present(root) /\ Ok
          /\ pc' = "unmark" /\ UNCHANGED <<root, backup, spoiled>>
       \/ /\ ~Present(root) /\ Refused
          /\ pc' = "unmark" /\ spoiled' = TRUE /\ UNCHANGED <<root, backup>>
    /\ UNCHANGED <<aside, journal, memory, crashes>>

BootSweep ==
    /\ pc = "sweep"
    /\ \/ aside' = Absent /\ Ok
       \/ Half(aside, aside') /\ Refused
    /\ pc' = "unmark"
    /\ UNCHANGED <<root, backup, journal, memory, spoiled, crashes>>

BootUnmark ==
    /\ pc = "unmark"
    /\ \/ journal' = "none" /\ Ok
       \/ UNCHANGED journal /\ Refused
    /\ pc' = "start"
    /\ UNCHANGED <<trees, memory, spoiled, crashes>>

\* default_bin: the desktop tree if a server is found in it, then the legacy one.
Start ==
    /\ pc = "start"
    /\ \/ Present(root) /\ bin' = [v |-> root.v, legacy |-> FALSE]
       \/ ~root.whole /\ bin' = [v |-> IF legacy THEN 1 ELSE 0, legacy |-> legacy]
    /\ target' = 0
    /\ pc' = "idle"
    /\ UNCHANGED <<trees, journal, legacy, was, spoiled, faults, crashes>>

-----------------------------------------------------------------------------
Install ==
    \/ \E v \in Versions : Stage(v)
    \/ StopServer \/ CleanBackup \/ WriteJournal \/ MoveToBackup
    \/ Commit \/ CommitRefused
    \/ ReloadOk \/ ReloadFails \/ ReloadAborts
    \/ SetFailedAside \/ PutBack
    \/ DropBackup \/ RemoveJournal

Recover ==
    \/ BootNothing \/ BootRestore \/ BootSetAside \/ BootReinstate
    \/ BootSweep \/ BootUnmark \/ Start

Next == Install \/ Recover \/ Crash

Spec == Init /\ [][Next]_vars
-----------------------------------------------------------------------------
(* Properties.                                                             *)

\* Between updates the runtime starts an executable whose whole tree is where it
\* should be, whatever step of an update or of a recovery a crash or a refused
\* rename hit; the exceptions are named by `spoiled`.
InstallSurvives ==
    pc = "idle" /\ ~spoiled =>
        bin.v # 0 /\ (~bin.legacy => root.whole /\ root.v = bin.v)

\* The one copy of the old release is given up only when a whole release is
\* installed: never while the swap is half done.
BackupOutlivesSwap ==
    [][~spoiled' /\ backup.whole /\ ~backup'.whole =>
         root.whole \/ root' = backup]_vars

\* "the only unsafe crash window: after the current tree was renamed but before
\* the staged tree took its place": a crash at any step, with no file operation
\* refused, leaves a whole install after recovery.
CrashesHarmless == pc = "idle" => bin.legacy \/ root.whole
=============================================================================
