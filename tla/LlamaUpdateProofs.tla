-------------------------- MODULE LlamaUpdateProofs --------------------------
(***************************************************************************)
(* The install survives every crash and every refused file operation, for  *)
(* any number of releases, faults and crashes, as long as no backup named  *)
(* by the journal was half deleted or could not be put back.               *)
(***************************************************************************)
EXTENDS LlamaUpdate, TLAPS

\* What a recovery may leave at the install directory.
Good == root.whole \/ (legacy /\ ~Present(root))

\* The executable's tree is in place.
InPlace == bin.v # 0 /\ (~bin.legacy => root.whole /\ root.v = bin.v)

\* The backup is what an interrupted swap has to go back to.
HoldsOld(b) ==
    /\ b.v # 0
    /\ backup.whole \/ ~Present(backup)
    /\ ~b.legacy => backup.whole /\ backup.v = b.v

\* The swap between the move to the backup and the end of the rollback.
Swapping == {"commit", "reload", "undo", "putback"}

\* Facts that hold whatever went wrong.
Frame ==
    /\ bin.legacy => legacy
    /\ was.legacy => legacy
    /\ pc \in {"staged", "clean", "journal", "move", "commit"} => was = bin
    /\ pc \in {"journal", "move"} => ~Present(backup)
    /\ pc \in Swapping \cup {"move", "reinstate"} => journal = "written"
    /\ pc \in {"staged", "clean", "journal", "move"} \cup Swapping => target # 0
    /\ pc \in {"reload", "undo", "putback"} => bin.v = target /\ ~bin.legacy

\* Where the two copies are at each control point.
Copies ==
    /\ journal = "written" => backup.whole \/ ~Present(backup)
    /\ pc \in {"idle", "staged", "clean", "journal", "move", "settle"} =>
           InPlace /\ Good
    /\ pc \in {"idle", "staged", "clean", "settle", "sweep", "unmark", "start"} =>
           (backup.whole => root.whole)
    /\ pc = "boot" /\ journal # "written" => (backup.whole => root.whole)
    /\ pc = "commit" => ~Present(root) /\ HoldsOld(was)
    /\ pc \in {"reload", "undo"} =>
           root.whole /\ root.v = target /\ HoldsOld(was)
    /\ pc = "putback" =>
           (~Present(root) \/ (root.whole /\ root.v = target)) /\ HoldsOld(was)
    /\ pc \in {"drop", "finish"} => InPlace /\ root.whole
    /\ pc = "boot" => Good \/ (~Present(root) /\ backup.whole /\ journal = "written")
    /\ pc = "reinstate" => backup.whole /\ (root.whole \/ ~Present(root))
    /\ pc \in {"sweep", "unmark", "start"} => Good

IInv == TypeOK /\ Frame /\ (~spoiled => Copies)

\* What each kind of tree is, so that the steps need not look inside.
LEMMA TreeFields ==
  ASSUME NEW t \in Trees
  PROVE  t.v \in 0..MaxVersion /\ t.whole \in BOOLEAN /\ (t.whole => t.v # 0)
  BY DEF Trees, Present

LEMMA AbsentFields == Absent \in Trees /\ Absent.v = 0 /\ ~Absent.whole
  BY LlamaUpdateAssumption DEF Absent, Trees, Present

LEMMA TreeMade ==
  ASSUME NEW v \in Versions
  PROVE  Tree(v) \in Trees /\ Tree(v).v = v /\ Tree(v).whole
  BY LlamaUpdateAssumption DEF Tree, Trees, Present, Versions

LEMMA HalfFields ==
  ASSUME NEW t \in Trees, NEW s, Half(t, s)
  PROVE  s \in Trees /\ s.v = t.v /\ (s.whole => s = t)
<1>1. Torn(t) \in Trees /\ Torn(t).v = t.v /\ ~Torn(t).whole
  BY DEF Torn, Trees, Present
<1> QED
  BY <1>1 DEF Half

LEMMA InitIInv == Init => IInv
<1> SUFFICES ASSUME Init PROVE IInv
  OBVIOUS
<1>1. root \in Trees /\ bin \in Executables
      /\ (legacy => ~Present(root)) /\ (~legacy => root.whole /\ root.v = 1)
  BY LlamaUpdateAssumption, AbsentFields, TreeMade
     DEF Init, Executables, Present, Versions
<1>2. faults \in 0..MaxFaults /\ crashes \in 0..MaxCrashes
      /\ target \in 0..MaxVersion
  BY LlamaUpdateAssumption DEF Init
<1>3. TypeOK
  BY <1>1, <1>2, AbsentFields DEF Init, TypeOK, Journalled
<1> QED
  BY <1>1, <1>3, LlamaUpdateAssumption, AbsentFields
     DEF Init, IInv, TypeOK, Frame, Copies, InPlace, Good, HoldsOld, Swapping,
         Executables, Present, Updating, Booting

\* The updater up to the moment the old tree has moved.
LEMMA PrepareIInv ==
  ASSUME IInv,
         (\E v \in Versions : Stage(v)) \/ StopServer \/ CleanBackup
         \/ WriteJournal \/ MoveToBackup
  PROVE  IInv'
<1> USE LlamaUpdateAssumption, AbsentFields
    DEF Present, Updating, Booting, Swapping, trees, memory, Ok,
        Refused
<1>1. CASE \E v \in Versions : Stage(v)
  <2>1. TypeOK'
    BY <1>1 DEF IInv, TypeOK, Journalled, Executables, Stage, Versions
  <2>2. Frame'
    BY <1>1 DEF IInv, TypeOK, Frame, Executables, Stage, Versions
  <2>3. ~spoiled' => Copies'
    BY <1>1, TreeFields
       DEF IInv, TypeOK, Frame, Copies, InPlace, Good, HoldsOld, Executables,
           Stage, Versions
  <2> QED
    BY <2>1, <2>2, <2>3 DEF IInv
<1>2. CASE StopServer
  <2>1. TypeOK'
    BY <1>2 DEF IInv, TypeOK, Journalled, Executables, StopServer
  <2>2. Frame'
    BY <1>2 DEF IInv, TypeOK, Frame, Executables, StopServer
  <2>3. ~spoiled' => Copies'
    BY <1>2, TreeFields
       DEF IInv, TypeOK, Frame, Copies, InPlace, Good, HoldsOld, Executables,
           StopServer
  <2> QED
    BY <2>1, <2>2, <2>3 DEF IInv
<1>3. CASE CleanBackup
  <2>1. TypeOK'
    BY <1>3, HalfFields DEF IInv, TypeOK, Journalled, Executables, CleanBackup, Spoil
  <2>2. Frame'
    BY <1>3, HalfFields DEF IInv, TypeOK, Frame, Executables, CleanBackup, Spoil
  <2>3. ~spoiled' => Copies'
    BY <1>3, TreeFields, HalfFields
       DEF IInv, TypeOK, Frame, Copies, InPlace, Good, HoldsOld, Executables,
           CleanBackup, Spoil
  <2> QED
    BY <2>1, <2>2, <2>3 DEF IInv
<1>4. CASE WriteJournal
  <2>1. TypeOK'
    BY <1>4 DEF IInv, TypeOK, Journalled, Executables, WriteJournal
  <2>2. Frame'
    BY <1>4 DEF IInv, TypeOK, Frame, Executables, WriteJournal
  <2>3. ~spoiled' => Copies'
    BY <1>4, TreeFields
       DEF IInv, TypeOK, Frame, Copies, InPlace, Good, HoldsOld, Executables,
           WriteJournal
  <2> QED
    BY <2>1, <2>2, <2>3 DEF IInv
<1>5. CASE MoveToBackup
  <2>1. TypeOK'
    BY <1>5 DEF IInv, TypeOK, Journalled, Executables, MoveToBackup
  <2>2. Frame'
    BY <1>5 DEF IInv, TypeOK, Frame, Executables, MoveToBackup
  <2>3. ~spoiled' => Copies'
    BY <1>5, TreeFields
       DEF IInv, TypeOK, Frame, Copies, InPlace, Good, HoldsOld, Executables,
           MoveToBackup
  <2> QED
    BY <2>1, <2>2, <2>3 DEF IInv
<1> QED
  BY <1>1, <1>2, <1>3, <1>4, <1>5

\* The swap, its rollback and its end.
LEMMA SwapIInv ==
  ASSUME IInv,
         Commit \/ CommitRefused \/ ReloadOk \/ ReloadFails \/ ReloadAborts
         \/ SetFailedAside \/ PutBack \/ DropBackup \/ RemoveJournal
  PROVE  IInv'
<1> USE LlamaUpdateAssumption, AbsentFields
    DEF Present, Updating, Booting, Swapping, trees, memory, Ok,
        Refused
<1>1. CASE Commit
  <2>1. bin' \in Executables
    BY <1>1 DEF IInv, TypeOK, Frame, Executables, Commit, Versions
  <2>2. TypeOK'
    BY <1>1, <2>1, TreeMade DEF IInv, TypeOK, Frame, Commit, Versions
  <2>3. Frame'
    BY <1>1, TreeMade DEF IInv, TypeOK, Frame, Executables, Commit, Versions
  <2>4. ~spoiled' => Copies'
    BY <1>1, TreeFields, TreeMade
       DEF IInv, TypeOK, Frame, Copies, InPlace, Good, HoldsOld, Executables,
           Commit, Versions
  <2> QED
    BY <2>2, <2>3, <2>4 DEF IInv
<1>2. CASE CommitRefused
  <2>1. spoiled' \in BOOLEAN
    BY <1>2 DEF IInv, TypeOK, CommitRefused
  <2>2. TypeOK'
    BY <1>2, <2>1 DEF IInv, TypeOK, Journalled, Executables, CommitRefused
  <2>3. Frame'
    BY <1>2 DEF IInv, TypeOK, Frame, Executables, CommitRefused
  <2>4. ~spoiled' => Copies'
    BY <1>2, TreeFields
       DEF IInv, TypeOK, Frame, Copies, InPlace, Good, HoldsOld, Executables,
           CommitRefused
  <2> QED
    BY <2>2, <2>3, <2>4 DEF IInv
<1>3. CASE ReloadOk
  <2>1. TypeOK'
    BY <1>3 DEF IInv, TypeOK, Journalled, Executables, ReloadOk
  <2>2. Frame'
    BY <1>3 DEF IInv, TypeOK, Frame, Executables, ReloadOk
  <2>3. ~spoiled' => Copies'
    BY <1>3, TreeFields
       DEF IInv, TypeOK, Frame, Copies, InPlace, Good, HoldsOld, Executables,
           ReloadOk
  <2> QED
    BY <2>1, <2>2, <2>3 DEF IInv
<1>4. CASE ReloadFails
  <2>1. TypeOK'
    BY <1>4 DEF IInv, TypeOK, Journalled, Executables, ReloadFails
  <2>2. Frame'
    BY <1>4 DEF IInv, TypeOK, Frame, Executables, ReloadFails
  <2>3. ~spoiled' => Copies'
    BY <1>4, TreeFields
       DEF IInv, TypeOK, Frame, Copies, InPlace, Good, HoldsOld, Executables,
           ReloadFails
  <2> QED
    BY <2>1, <2>2, <2>3 DEF IInv
<1>5. CASE ReloadAborts
  <2>1. TypeOK'
    BY <1>5 DEF IInv, TypeOK, Journalled, Executables, ReloadAborts
  <2>2. Frame'
    BY <1>5 DEF IInv, TypeOK, Frame, Executables, ReloadAborts
  <2>3. ~spoiled' => Copies'
    BY <1>5, TreeFields
       DEF IInv, TypeOK, Frame, Copies, InPlace, Good, HoldsOld, Executables,
           ReloadAborts
  <2> QED
    BY <2>1, <2>2, <2>3 DEF IInv
<1>6. CASE SetFailedAside
  <2>1. TypeOK'
    BY <1>6 DEF IInv, TypeOK, Journalled, Executables, SetFailedAside
  <2>2. Frame'
    BY <1>6 DEF IInv, TypeOK, Frame, Executables, SetFailedAside
  <2>3. ~spoiled' => Copies'
    BY <1>6, TreeFields
       DEF IInv, TypeOK, Frame, Copies, InPlace, Good, HoldsOld, Executables,
           SetFailedAside
  <2> QED
    BY <2>1, <2>2, <2>3 DEF IInv
<1>7. CASE PutBack
  <2>1. spoiled' \in BOOLEAN
    BY <1>7 DEF IInv, TypeOK, PutBack
  <2>2. TypeOK'
    BY <1>7, <2>1 DEF IInv, TypeOK, Journalled, Executables, PutBack
  <2>3. Frame'
    BY <1>7 DEF IInv, TypeOK, Frame, Executables, PutBack
  <2>4. ~spoiled' => Copies'
    BY <1>7, TreeFields
       DEF IInv, TypeOK, Frame, Copies, InPlace, Good, HoldsOld, Executables,
           PutBack
  <2> QED
    BY <2>2, <2>3, <2>4 DEF IInv
<1>8. CASE DropBackup
  <2>1. TypeOK'
    BY <1>8, HalfFields DEF IInv, TypeOK, Journalled, Executables, DropBackup, Spoil
  <2>2. Frame'
    BY <1>8, HalfFields DEF IInv, TypeOK, Frame, Executables, DropBackup, Spoil
  <2>3. ~spoiled' => Copies'
    BY <1>8, TreeFields, HalfFields
       DEF IInv, TypeOK, Frame, Copies, InPlace, Good, HoldsOld, Executables,
           DropBackup, Spoil
  <2> QED
    BY <2>1, <2>2, <2>3 DEF IInv
<1>9. CASE RemoveJournal
  <2>1. TypeOK'
    BY <1>9 DEF IInv, TypeOK, Journalled, Executables, RemoveJournal
  <2>2. Frame'
    BY <1>9 DEF IInv, TypeOK, Frame, Executables, RemoveJournal
  <2>3. ~spoiled' => Copies'
    BY <1>9, TreeFields
       DEF IInv, TypeOK, Frame, Copies, InPlace, Good, HoldsOld, Executables,
           RemoveJournal
  <2> QED
    BY <2>1, <2>2, <2>3 DEF IInv
<1> QED
  BY <1>1, <1>2, <1>3, <1>4, <1>5, <1>6, <1>7, <1>8, <1>9

\* The recovery and the choice of the executable.
LEMMA BootIInv ==
  ASSUME IInv,
         Recover
  PROVE  IInv'
<1> USE LlamaUpdateAssumption, AbsentFields
    DEF Present, Updating, Booting, Swapping, trees, memory, Ok,
        Refused
<1>1. CASE BootNothing
  <2>1. TypeOK'
    BY <1>1 DEF IInv, TypeOK, Journalled, Executables, BootNothing
  <2>2. Frame'
    BY <1>1 DEF IInv, TypeOK, Frame, Executables, BootNothing
  <2>3. ~spoiled' => Copies'
    BY <1>1, TreeFields
       DEF IInv, TypeOK, Frame, Copies, InPlace, Good, HoldsOld, Executables,
           BootNothing
  <2> QED
    BY <2>1, <2>2, <2>3 DEF IInv
<1>2. CASE BootRestore
  <2>1. spoiled' \in BOOLEAN
    BY <1>2 DEF IInv, TypeOK, BootRestore
  <2>2. TypeOK'
    BY <1>2, <2>1 DEF IInv, TypeOK, Journalled, Executables, BootRestore
  <2>3. Frame'
    BY <1>2 DEF IInv, TypeOK, Frame, Executables, BootRestore
  <2>4. ~spoiled' => Copies'
    BY <1>2, TreeFields
       DEF IInv, TypeOK, Frame, Copies, InPlace, Good, HoldsOld, Executables,
           BootRestore
  <2> QED
    BY <2>2, <2>3, <2>4 DEF IInv
<1>3. CASE BootSetAside
  <2>1. TypeOK'
    BY <1>3 DEF IInv, TypeOK, Journalled, Executables, BootSetAside
  <2>2. Frame'
    BY <1>3 DEF IInv, TypeOK, Frame, Executables, BootSetAside
  <2>3. ~spoiled' => Copies'
    BY <1>3, TreeFields
       DEF IInv, TypeOK, Frame, Copies, InPlace, Good, HoldsOld, Executables,
           BootSetAside
  <2> QED
    BY <2>1, <2>2, <2>3 DEF IInv
<1>4. CASE BootReinstate
  <2>1. spoiled' \in BOOLEAN
    BY <1>4 DEF IInv, TypeOK, BootReinstate
  <2>2. TypeOK'
    BY <1>4, <2>1 DEF IInv, TypeOK, Journalled, Executables, BootReinstate
  <2>3. Frame'
    BY <1>4 DEF IInv, TypeOK, Frame, Executables, BootReinstate
  <2>4. ~spoiled' => Copies'
    BY <1>4, TreeFields
       DEF IInv, TypeOK, Frame, Copies, InPlace, Good, HoldsOld, Executables,
           BootReinstate
  <2> QED
    BY <2>2, <2>3, <2>4 DEF IInv
<1>5. CASE BootSweep
  <2>1. TypeOK'
    BY <1>5, HalfFields DEF IInv, TypeOK, Journalled, Executables, BootSweep
  <2>2. Frame'
    BY <1>5, HalfFields DEF IInv, TypeOK, Frame, Executables, BootSweep
  <2>3. ~spoiled' => Copies'
    BY <1>5, TreeFields, HalfFields
       DEF IInv, TypeOK, Frame, Copies, InPlace, Good, HoldsOld, Executables,
           BootSweep
  <2> QED
    BY <2>1, <2>2, <2>3 DEF IInv
<1>6. CASE BootUnmark
  <2>1. TypeOK'
    BY <1>6 DEF IInv, TypeOK, Journalled, Executables, BootUnmark
  <2>2. Frame'
    BY <1>6 DEF IInv, TypeOK, Frame, Executables, BootUnmark
  <2>3. ~spoiled' => Copies'
    BY <1>6, TreeFields
       DEF IInv, TypeOK, Frame, Copies, InPlace, Good, HoldsOld, Executables,
           BootUnmark
  <2> QED
    BY <2>1, <2>2, <2>3 DEF IInv
<1>7. CASE Start
  <2>1. bin' \in Executables
    <3>1. CASE bin' = [v |-> root.v, legacy |-> FALSE]
      BY <3>1, TreeFields DEF IInv, TypeOK, Journalled, Executables
    <3>2. CASE bin' = [v |-> IF legacy THEN 1 ELSE 0, legacy |-> legacy]
      BY <3>2 DEF IInv, TypeOK, Journalled, Executables
    <3> QED
      BY <1>7, <3>1, <3>2 DEF Start
  <2>2. TypeOK'
    BY <1>7, <2>1 DEF IInv, TypeOK, Journalled, Start
  <2>3. Frame'
    BY <1>7 DEF IInv, TypeOK, Frame, Executables, Start
  <2>4. ~spoiled' => Copies'
    BY <1>7, TreeFields
       DEF IInv, TypeOK, Frame, Copies, InPlace, Good, HoldsOld, Executables,
           Start
  <2> QED
    BY <2>2, <2>3, <2>4 DEF IInv
<1> QED
  BY <1>1, <1>2, <1>3, <1>4, <1>5, <1>6, <1>7 DEF Recover

\* A crash leaves each control point with something to recover from.
LEMMA CrashIInv ==
  ASSUME IInv,
         Crash
  PROVE  IInv'
<1> USE LlamaUpdateAssumption, AbsentFields
    DEF Present, Updating, Booting, Swapping, trees, memory, Ok,
        Refused
<1>1. CASE Crash
  <2>1. TypeOK'
    BY <1>1, HalfFields DEF IInv, TypeOK, Journalled, Executables, Crash, Spoil
  <2>2. Frame'
    BY <1>1, HalfFields DEF IInv, TypeOK, Frame, Executables, Crash, Spoil
  <2>3. ~spoiled' => Copies'
    BY <1>1, TreeFields, HalfFields
       DEF IInv, TypeOK, Frame, Copies, InPlace, Good, HoldsOld, Executables,
           Crash, Spoil
  <2> QED
    BY <2>1, <2>2, <2>3 DEF IInv
<1> QED
  BY <1>1

LEMMA NextIInv == IInv /\ [Next]_vars => IInv'
<1> SUFFICES ASSUME IInv, [Next]_vars PROVE IInv'
  OBVIOUS
<1>1. CASE UNCHANGED vars
  BY <1>1 DEF vars, IInv, TypeOK, Frame, Copies, InPlace, Good, HoldsOld, Present
<1>2. CASE Install
  BY <1>2, PrepareIInv, SwapIInv DEF Install
<1>3. CASE Recover
  BY <1>3, BootIInv
<1>4. CASE Crash
  BY <1>4, CrashIInv
<1> QED
  BY <1>1, <1>2, <1>3, <1>4 DEF Next

\* The strengthened invariant holds in every reachable state.
THEOREM Invariance == Spec => []IInv
  BY InitIInv, NextIInv, PTL DEF Spec

\* Every variable keeps its type, and from the first rename to the last deletion of a
\* swap the journal is there for recovery to read.
THEOREM TypeCorrect == Spec => []TypeOK
<1>1. IInv => TypeOK
  BY DEF IInv
<1> QED
  BY <1>1, Invariance, PTL

\* Whenever no update is under way the executable the runtime starts is in place,
\* up to the two failures that `spoiled` records.
THEOREM InstallAlwaysSurvives == Spec => []InstallSurvives
<1>1. IInv => InstallSurvives
  BY DEF IInv, Copies, InPlace, InstallSurvives
<1> QED
  BY <1>1, Invariance, PTL

\* A whole backup is given up only when a whole release is installed.
THEOREM BackupKeptThroughSwap == Spec => BackupOutlivesSwap
<1> DEFINE Kept == ~spoiled' /\ backup.whole /\ ~backup'.whole =>
                     root.whole \/ root' = backup
<1>1. ASSUME IInv, [Next]_vars PROVE [Kept]_vars
  <2> USE <1>1 DEF IInv, TypeOK
  <2>1. CASE CleanBackup \/ DropBackup
    BY <2>1 DEF CleanBackup, DropBackup, Spoil, Copies
  <2>2. CASE CommitRefused \/ PutBack \/ BootRestore \/ BootReinstate
    BY <2>2 DEF CommitRefused, PutBack, BootRestore, BootReinstate
  <2>3. CASE Crash
    BY <2>3, TreeFields DEF Crash, Spoil, Copies, Absent, Half, Torn
  <2>4. CASE MoveToBackup
    BY <2>4, TreeFields DEF MoveToBackup, Frame, Present
  <2>5. CASE UNCHANGED backup
    BY <2>5
  <2> QED
    BY <2>1, <2>2, <2>3, <2>4, <2>5
       DEF Next, Install, Recover, vars, trees, Stage, StopServer, WriteJournal,
           Commit, ReloadOk, ReloadFails, ReloadAborts, SetFailedAside,
           RemoveJournal, BootNothing, BootSetAside, BootSweep, BootUnmark, Start
<1> QED
  BY <1>1, Invariance, PTL DEF Spec, BackupOutlivesSwap
=============================================================================
