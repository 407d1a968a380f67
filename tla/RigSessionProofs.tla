------------------------- MODULE RigSessionProofs -------------------------
(***************************************************************************)
(* Type correctness of RigSession, the agreement of token and rig, and the *)
(* safety of a reset, for any number of loops, rigs, faults and restarts.  *)
(***************************************************************************)
EXTENDS RigSession, TLAPS

\* Every rig the agent has heard of was created by the server before, so the
\* next one to be created is new to it.
KnownRigs ==
    /\ live \subseteq 1..issued
    /\ cfg.rig <= issued /\ disk.rig <= issued /\ form.rig <= issued
    /\ \A l \in Loops : accused[l] <= issued

\* A refresh in flight holds the config lock and is about the rig in it.
RefreshHoldsLock ==
    \A l \in Loops : pc[l] = "refresh" =>
        lock = l /\ IsEnrolled(cfg) /\ accused[l] = cfg.rig

\* The form stores credentials only after the server has minted them.
FormHasRig == form.stage = "answered" => form.rig # 0

\* What a tick has collected so far is about the rig in the config, or that rig has
\* been reset; a verdict is about a rig that is gone.
TicksFit ==
    \A l \in Loops : l \notin misled =>
        /\ pc[l] = "rid" => cfg.rig \in {0, tok[l]}
        /\ pc[l] = "probe" => tok[l] = accused[l] /\ cfg.rig \in {0, accused[l]}
        /\ pc[l] \in Clearing => accused[l] \notin live /\ cfg.rig \in {0, accused[l]}

IInv ==
    /\ TypeOK /\ KnownRigs /\ RefreshHoldsLock /\ FormHasRig
    /\ TokenMatchesRig /\ TicksFit

\* What a config is, and the three ways one is written.
LEMMA ConfigFields ==
  ASSUME NEW c \in Config
  PROVE  c.rig \in RigOrNone /\ c.token \in RigOrNone
         /\ (IsEnrolled(c) => c.rig \in Rigs)
  BY RigSessionAssumption DEF Config, RigOrNone, Rigs, IsEnrolled

LEMMA ConfigMinted ==
  ASSUME NEW r \in Rigs, NEW f \in BOOLEAN
  PROVE  [rig |-> r, token |-> r, fresh |-> f] \in Config
  BY RigSessionAssumption DEF Config, RigOrNone, Rigs

LEMMA ConfigAged ==
  ASSUME NEW c \in Config
  PROVE  LET d == [c EXCEPT !.fresh = FALSE]
         IN  d \in Config /\ d.rig = c.rig /\ d.token = c.token
  BY DEF Config

LEMMA ConfigNone == NoConfig \in Config
  BY RigSessionAssumption DEF Config, NoConfig, RigOrNone

LEMMA InitIInv == Init => IInv
  BY RigSessionAssumption, ConfigNone
     DEF Init, IInv, TypeOK, KnownRigs, RefreshHoldsLock, FormHasRig,
         TokenMatchesRig, TicksFit, NoConfig, NoStatus, NoForm,
         RigOrNone, Rigs, Stages, IsEnrolled

\* The steps that only move a loop on preserve the invariant.
LEMMA EnsureIInv ==
  ASSUME IInv, NEW l \in Loops, Ensure(l)
  PROVE  IInv'
<1> USE RigSessionAssumption
    DEF IInv, TypeOK, KnownRigs, RefreshHoldsLock, FormHasRig,
        TokenMatchesRig, TicksFit, NoConfig, RigOrNone, Rigs,
        Stages, Clearing, IsEnrolled, Goto, Free, server, bounds, LoopError
<1>1. CASE EnsureNotEnrolled(l)
  BY <1>1 DEF EnsureNotEnrolled
<1>2. CASE EnsureFresh(l)
  BY <1>2, ConfigFields DEF EnsureFresh
<1>3. CASE RefreshSend(l)
  BY <1>3, ConfigFields DEF RefreshSend
<1>4. CASE RefreshOk(l)
  <2>1. cfg.rig \in Rigs /\ accused[l] = cfg.rig
    BY <1>4, ConfigFields DEF RefreshOk
  <2>2. cfg' = [rig |-> cfg.rig, token |-> cfg.rig, fresh |-> TRUE]
    BY <1>4, <2>1 DEF RefreshOk, Config
  <2>3. disk' \in {cfg', disk, NoConfig}
    BY <1>4 DEF RefreshOk, SaveOk, SaveFails, Fault
  <2>4. faults' \in 0..MaxFaults
    BY <1>4 DEF RefreshOk, SaveOk, SaveFails, Fault
  <2>5. cfg' \in Config /\ disk' \in Config
    BY <2>1, <2>2, <2>3, ConfigMinted, ConfigNone
  <2>6. TypeOK'
    BY <1>4, <2>1, <2>4, <2>5 DEF RefreshOk
  <2>7. (KnownRigs /\ FormHasRig)'
    <3>1. issued' = issued /\ live' = live /\ form' = form
      BY <1>4 DEF RefreshOk
    <3>2. cfg'.rig = cfg.rig
      BY <2>2
    <3>3. disk'.rig \in {cfg.rig, disk.rig, 0}
      BY <2>3, <3>2
    <3> QED
      BY <1>4, <2>1, <3>1, <3>2, <3>3, ConfigFields DEF RefreshOk
  <2>8. (RefreshHoldsLock /\ TicksFit)'
    BY <1>4, <2>1, <2>2 DEF RefreshOk
  <2>9. TokenMatchesRig'
    BY <2>2, <2>3
  <2> QED
    BY <2>6, <2>7, <2>8, <2>9
<1>5. CASE RefreshRevoked(l)
  BY <1>5 DEF RefreshRevoked
<1> QED
  BY <1>1, <1>2, <1>3, <1>4, <1>5 DEF Ensure

LEMMA TickIInv ==
  ASSUME IInv, NEW l \in Loops, Tick(l) \/ Failure(l)
  PROVE  IInv'
<1> USE RigSessionAssumption
    DEF IInv, TypeOK, KnownRigs, RefreshHoldsLock, FormHasRig,
        TokenMatchesRig, TicksFit, NoConfig, RigOrNone, Rigs,
        Stages, Clearing, IsEnrolled, Goto, Free, server, bounds, LoopError
<1>0. LoopError(l) => status' \in [enrolled : BOOLEAN, connected : BOOLEAN]
  OBVIOUS
<1>1. CASE TickStart(l)
  BY <1>1 DEF TickStart
<1>2. CASE ReadRig(l)
  <2>1. CASE IsEnrolled(cfg)
    BY <1>2, <2>1, ConfigFields DEF ReadRig
  <2>2. CASE ~IsEnrolled(cfg)
    BY <1>0, <1>2, <2>2 DEF ReadRig
  <2> QED
    BY <2>1, <2>2
<1>3. CASE HeartbeatLive(l)
  BY <1>3 DEF HeartbeatLive
<1>4. CASE HeartbeatGone(l)
  BY <1>4 DEF HeartbeatGone
<1>5. CASE TickDone(l)
  BY <1>5 DEF TickDone
<1>6. CASE RefreshFault(l)
  BY <1>0, <1>6 DEF RefreshFault, Fault
<1>7. CASE TickFault(l)
  BY <1>0, <1>7 DEF TickFault, Fault
<1>8. CASE HeartbeatUnreadable(l)
  BY <1>8 DEF HeartbeatUnreadable, Fault
<1> QED
  BY <1>1, <1>2, <1>3, <1>4, <1>5, <1>6, <1>7, <1>8 DEF Tick, Failure

LEMMA ResetIInv ==
  ASSUME IInv, NEW l \in Loops, Reset(l)
  PROVE  IInv'
<1> USE RigSessionAssumption
    DEF IInv, TypeOK, KnownRigs, RefreshHoldsLock, FormHasRig,
        TokenMatchesRig, TicksFit, NoConfig, RigOrNone, Rigs,
        Stages, Clearing, IsEnrolled, Goto, Free, server, bounds, LoopError
<1>1. CASE ResetConfig(l) /\ IsEnrolled(cfg)
  \* The lock is free, so no refresh is in flight that the wipe could cross.
  <2>1. \A m \in Loops : pc'[m] # "refresh"
    BY <1>1 DEF ResetConfig, Clearing
  <2>2. cfg' = NoConfig /\ disk' \in {disk, NoConfig}
        /\ faults' \in 0..MaxFaults
    BY <1>1 DEF ResetConfig, SaveOk, SaveFails, Fault
  <2>3. cfg' \in Config /\ disk' \in Config
    BY <2>2, ConfigNone
  <2>4. TypeOK'
    BY <1>1, <2>2, <2>3 DEF ResetConfig, Clearing
  <2>5. (KnownRigs /\ FormHasRig /\ TicksFit)'
    BY <1>1, <2>2 DEF ResetConfig, Clearing
  <2>6. (RefreshHoldsLock /\ TokenMatchesRig)'
    BY <2>1, <2>2
  <2> QED
    BY <2>4, <2>5, <2>6
<1>2. CASE ResetConfig(l) /\ ~IsEnrolled(cfg)
  BY <1>2 DEF ResetConfig, Clearing
<1>3. CASE ResetStatus(l)
  BY <1>3 DEF ResetStatus, NoStatus
<1> QED
  BY <1>1, <1>2, <1>3 DEF Reset

LEMMA FormIInv ==
  ASSUME IInv, EnrollSubmit \/ FormStep
  PROVE  IInv'
<1> USE RigSessionAssumption
    DEF IInv, TypeOK, KnownRigs, RefreshHoldsLock, FormHasRig,
        TokenMatchesRig, TicksFit, NoConfig, RigOrNone, Rigs,
        Stages, Clearing, IsEnrolled, Free, server, bounds, NoForm
<1>1. CASE EnrollSubmit
  \* The new rig is one that no loop can have been told about.
  <2>1. issued + 1 \in Rigs /\ issued + 1 \notin live
        /\ \A l \in Loops : accused[l] # issued + 1
    BY <1>1 DEF EnrollSubmit
  <2>2. faults' \in 0..MaxFaults
    BY <1>1 DEF EnrollSubmit, Fault
  <2>3. /\ form' \in [stage : {"idle", "answered"}, rig : RigOrNone]
        /\ form'.rig <= issued + 1
        /\ form'.stage = "answered" => form'.rig = issued + 1
    BY <1>1 DEF EnrollSubmit
  <2>4. TypeOK'
    BY <1>1, <2>1, <2>2, <2>3 DEF EnrollSubmit
  <2>5. (KnownRigs /\ FormHasRig)'
    BY <1>1, <2>3, ConfigFields DEF EnrollSubmit
  <2>6. (RefreshHoldsLock /\ TokenMatchesRig /\ TicksFit)'
    BY <1>1, <2>1 DEF EnrollSubmit
  <2> QED
    BY <2>4, <2>5, <2>6
<1>2. CASE EnrollStore
  <2>1. \A m \in Loops : pc'[m] # "refresh"
    BY <1>2 DEF EnrollStore
  <2>2. form.rig \in Rigs
        /\ cfg' = [rig |-> form.rig, token |-> form.rig, fresh |-> TRUE]
    BY <1>2 DEF EnrollStore
  <2>3. disk' \in {cfg', disk, NoConfig} /\ faults' \in 0..MaxFaults
    BY <1>2 DEF EnrollStore, SaveOk, SaveFails, Fault
  <2>4. form'.rig <= issued
        /\ form' \in [stage : {"idle", "stored"}, rig : RigOrNone]
    BY <1>2, <2>2 DEF EnrollStore
  <2>5. cfg' \in Config /\ disk' \in Config
    BY <2>2, <2>3, ConfigMinted, ConfigNone
  <2>6. TypeOK'
    BY <1>2, <2>3, <2>4, <2>5 DEF EnrollStore
  <2> QED
    BY <1>2, <2>1, <2>2, <2>3, <2>4, <2>6 DEF EnrollStore
<1>3. CASE EnrollStatus
  <2>1. status' \in [enrolled : BOOLEAN, connected : BOOLEAN]
    BY <1>3 DEF EnrollStatus
  <2> QED
    BY <1>3, <2>1 DEF EnrollStatus
<1> QED
  BY <1>1, <1>2, <1>3 DEF FormStep

LEMMA EnvironmentIInv ==
  ASSUME IInv, (\E r \in Rigs : OwnerDeletes(r)) \/ TokenAges \/ Restart
  PROVE  IInv'
<1> USE RigSessionAssumption
    DEF IInv, TypeOK, KnownRigs, RefreshHoldsLock, FormHasRig,
        TokenMatchesRig, TicksFit, NoConfig, RigOrNone, Rigs,
        Stages, Clearing, IsEnrolled, Free, server, bounds, NoForm
<1>1. CASE \E r \in Rigs : OwnerDeletes(r)
  BY <1>1 DEF OwnerDeletes
<1>2. CASE TokenAges
  <2>1. cfg' \in Config /\ cfg'.rig = cfg.rig /\ cfg'.token = cfg.token
    BY <1>2, ConfigAged DEF TokenAges
  <2>2. disk' \in Config /\ disk'.rig = disk.rig /\ disk'.token = disk.token
    BY <1>2, ConfigAged DEF TokenAges
  <2> QED
    BY <1>2, <2>1, <2>2 DEF TokenAges
<1>3. CASE Restart
  <2>1. disk' \in {disk, NoConfig} /\ cfg' = disk'
    BY <1>3 DEF Restart
  <2>2. cfg' \in Config /\ disk' \in Config
    BY <2>1, ConfigNone
  <2>3. status' \in [enrolled : BOOLEAN, connected : BOOLEAN]
    BY <1>3 DEF Restart
  <2>4. TypeOK'
    BY <1>3, <2>2, <2>3 DEF Restart
  <2>5. (KnownRigs /\ FormHasRig /\ TokenMatchesRig)'
    BY <1>3, <2>1 DEF Restart
  <2>6. (RefreshHoldsLock /\ TicksFit)'
    BY <1>3 DEF Restart
  <2> QED
    BY <2>4, <2>5, <2>6
<1> QED
  BY <1>1, <1>2, <1>3

LEMMA NextIInv == IInv /\ [Next]_vars => IInv'
<1> SUFFICES ASSUME IInv, [Next]_vars PROVE IInv'
  OBVIOUS
<1>1. CASE UNCHANGED vars
  BY <1>1 DEF vars, IInv, TypeOK, KnownRigs, RefreshHoldsLock, FormHasRig,
              TokenMatchesRig, TicksFit
<1>2. CASE \E l \in Loops : LoopStep(l) \/ Failure(l)
  BY <1>2, EnsureIInv, TickIInv, ResetIInv DEF LoopStep
<1>3. CASE EnrollSubmit \/ FormStep
  BY <1>3, FormIInv
<1>4. CASE (\E r \in Rigs : OwnerDeletes(r)) \/ TokenAges \/ Restart
  BY <1>4, EnvironmentIInv
<1> QED
  BY <1>1, <1>2, <1>3, <1>4 DEF Next

\* The strengthened invariant holds in every reachable state.
THEOREM Invariance == Spec => []IInv
  BY InitIInv, NextIInv, PTL DEF Spec

\* Every variable keeps its type; in particular the credentials are all there
\* or all absent, in memory and in the file, whatever a crash tears.
THEOREM TypeCorrect == Spec => []TypeOK
<1>1. IInv => TypeOK
  BY DEF IInv
<1> QED
  BY <1>1, Invariance, PTL

\* The token next to a rig id was minted for that rig: ensure_token keeps the
\* config locked while the refresh is in flight.
THEOREM TokensNeverMixed == Spec => []TokenMatchesRig
<1>1. IInv => TokenMatchesRig
  BY DEF IInv
<1> QED
  BY <1>1, Invariance, PTL

\* A live rig loses its enrollment only to a tick that a new enrollment crossed or
\* whose heartbeat was unreadable: the rig whose enrollment is wiped is then the one
\* the loop was told about, and that one is gone.
THEOREM LiveRigsStay == Spec => LiveRigsKept
<1>1. ASSUME IInv, [Next]_vars, NEW l \in Loops,
             pc[l] \in Clearing, pc'[l] = "unpair", cfg.rig \in live
      PROVE  l \in misled
  <2>1. cfg.rig # 0
    BY <1>1 DEF IInv, TypeOK, Rigs
  <2> QED
    BY <1>1, <2>1 DEF IInv, TicksFit
<1>2. IInv /\ [Next]_vars =>
        [\A l \in Loops : pc[l] \in Clearing /\ pc'[l] = "unpair" /\ cfg.rig \in live
            => l \in misled]_vars
  BY <1>1
<1> QED
  BY <1>2, Invariance, PTL DEF Spec, LiveRigsKept
=============================================================================
