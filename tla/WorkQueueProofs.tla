-------------------------- MODULE WorkQueueProofs --------------------------
(***************************************************************************)
(* WorkQueue implements OnceEach, for any rows, slots, faults and restarts:*)
(* no row is executed twice, whichever of the two paths picks it up.       *)
(***************************************************************************)
EXTENDS WorkQueue, FiniteSetTheorems, TLAPS

Working == {"run", "report"}

\* A working handler has claimed its row, which only the requester can take away;
\* what is unclaimed was not executed, what is finished was.
ItemInv(i) ==
    /\ \A p \in Paths : stage[<<p, i>>] \in Working => row[i] \in {"claimed", "deleted"}
    /\ \A p, q \in Paths : stage[<<p, i>>] \in Working /\ stage[<<q, i>>] \in Working => p = q
    /\ \A p \in Paths : stage[<<p, i>>] = "run" => ran[i] = 0
    /\ \A p \in Paths : stage[<<p, i>>] = "report" => ran[i] = 1
    /\ row[i] \in {"none", "pending"} => ran[i] = 0
    /\ row[i] \in {"done", "error"} => ran[i] = 1

IInv == TypeOK /\ \A i \in Items : ItemInv(i)

\* A step about one row leaves the others and their handlers alone.
OthersKeep(i) ==
    \A j \in Items \ {i} :
        /\ row'[j] = row[j] /\ ran'[j] = ran[j]
        /\ \A p \in Paths : stage'[<<p, j>>] = stage[<<p, j>>]

LEMMA InitIInv == Init => IInv
<1> SUFFICES ASSUME Init PROVE IInv
  OBVIOUS
<1> USE WorkQueueAssumption DEF Init
<1>1. stage \in [Paths \X Items -> Stages] /\ \A p \in Paths, i \in Items : stage[<<p, i>>] = "none"
  BY DEF Quiet, Stages
<1>2. row \in [Items -> Statuses] /\ ran \in [Items -> Nat]
  BY DEF Statuses
<1>3. up \in BOOLEAN /\ serves \in BOOLEAN /\ round \in Rounds
  BY DEF Rounds
<1>4. faults \in 0..MaxFaults /\ restarts \in 0..MaxRestarts
  OBVIOUS
<1>5. TypeOK
  BY <1>1, <1>2, <1>3, <1>4 DEF TypeOK
<1>6. \A i \in Items : ItemInv(i)
  BY <1>1 DEF ItemInv, Working
<1> QED BY <1>5, <1>6 DEF IInv

\* A step about row i preserves the invariant if it does so for i.
LEMMA OneItem ==
  ASSUME IInv, TypeOK', NEW i \in Items, OthersKeep(i), ItemInv(i)'
  PROVE  IInv'
<1> SUFFICES ASSUME NEW j \in Items, j # i PROVE ItemInv(j)'
  BY DEF IInv
<1> QED BY DEF IInv, OthersKeep, ItemInv

\* Where Goto and Return leave the handlers.
LEMMA GotoFacts ==
  ASSUME TypeOK, NEW p \in Paths, NEW i \in Items, NEW s \in Stages, Goto(p, i, s)
  PROVE  /\ stage' \in [Paths \X Items -> Stages]
         /\ stage'[<<p, i>>] = s
         /\ \A q \in Paths, j \in Items : <<q, j>> # <<p, i>> => stage'[<<q, j>>] = stage[<<q, j>>]
<1>1. stage' = [stage EXCEPT ![<<p, i>>] = s] /\ <<p, i>> \in Paths \X Items
  BY DEF Goto
<1>2. stage \in [Paths \X Items -> Stages]
  BY DEF TypeOK
<1>3. \A q \in Paths, j \in Items : <<q, j>> \in Paths \X Items
  OBVIOUS
<1> QED BY <1>1, <1>2, <1>3

LEMMA ReturnFacts ==
  ASSUME TypeOK, NEW p \in Paths, NEW i \in Items, Return(p, i)
  PROVE  /\ stage' \in [Paths \X Items -> Stages]
         /\ permits' \subseteq Paths \X Jobs
         /\ stage'[<<p, i>>] = "none"
         /\ \A q \in Paths, j \in Items :
               <<q, j>> # <<p, i>> => stage'[<<q, j>>] = stage[<<q, j>>]
<1>1. "none" \in Stages /\ Goto(p, i, "none")
  BY DEF Return, Stages
<1> QED BY <1>1, GotoFacts DEF Return, TypeOK

\* Steps that leave every handler, row and execution alone.
LEMMA QuietSteps ==
  ASSUME IInv,
         SocketUp \/ SocketDown \/ PollWake \/ PollAdvance \/ PollFault \/ MirrorServes
         \/ UNCHANGED vars
  PROVE  IInv' /\ UNCHANGED <<row, ran>>
<1> USE WorkQueueAssumption DEF IInv
<1>1. UNCHANGED <<row, stage, permits, ran>>
  BY DEF SocketUp, SocketDown, PollWake, PollAdvance, PollFault, MirrorServes, vars
<1>2. up' \in BOOLEAN /\ event' \subseteq Items
  BY DEF SocketUp, SocketDown, PollWake, PollAdvance, PollFault, MirrorServes, vars, socket,
         TypeOK
<1>3. serves' \in BOOLEAN
  BY DEF SocketUp, SocketDown, PollWake, PollAdvance, PollFault, MirrorServes, vars, TypeOK
<1>4. round' \in Rounds
  BY DEF SocketUp, SocketDown, PollWake, PollAdvance, PollFault, MirrorServes, vars, poll,
         TypeOK, Rounds
<1>5. batch' \subseteq Items
  <2>1. \A r \in {"commands", "chats", "jobs"} : Pending(Table(r)) \subseteq Items
    BY DEF Pending, Table, Items
  <2>2. CASE PollAdvance
    BY <1>4, <2>1, <2>2 DEF PollAdvance, Rounds
  <2>3. CASE PollWake
    BY <2>3 DEF PollWake, Pending, Items
  <2> QED BY <2>2, <2>3
          DEF SocketUp, SocketDown, PollFault, MirrorServes, vars, poll, TypeOK
<1>6. faults' \in 0..MaxFaults /\ restarts' \in 0..MaxRestarts
  BY DEF SocketUp, SocketDown, PollWake, PollAdvance, PollFault, Fault, MirrorServes, vars,
         counters, TypeOK
<1>7. TypeOK'
  BY <1>1, <1>2, <1>3, <1>4, <1>5, <1>6 DEF TypeOK
<1> QED BY <1>1, <1>7 DEF ItemInv

LEMMA RestartStep ==
  ASSUME IInv, Restart
  PROVE  IInv' /\ UNCHANGED <<row, ran>>
<1> USE WorkQueueAssumption DEF IInv, Restart
<1>1. /\ stage' \in [Paths \X Items -> Stages]
      /\ \A p \in Paths, i \in Items : stage'[<<p, i>>] = "none"
  BY DEF Quiet, Stages
<1>2. up' \in BOOLEAN /\ serves' \in BOOLEAN /\ round' \in Rounds
  BY DEF Rounds
<1>3. restarts' \in 0..MaxRestarts
  BY DEF TypeOK
<1>4. TypeOK'
  BY <1>1, <1>2, <1>3 DEF TypeOK
<1>5. \A i \in Items : ItemInv(i)'
  BY <1>1 DEF ItemInv, Working
<1> QED BY <1>4, <1>5

\* What each step about one row does to it.
Moves(i) ==
    \/ row'[i] = row[i] /\ ran'[i] = ran[i]
    \/ row[i] = "none" /\ row'[i] = "pending" /\ ran'[i] = ran[i]
    \/ row[i] = "pending" /\ row'[i] = "claimed" /\ ran'[i] = ran[i]
    \/ row[i] \notin {"none", "deleted"} /\ row'[i] = "deleted" /\ ran'[i] = ran[i]
    \/ row[i] \in {"claimed", "deleted"} /\ row'[i] = row[i] /\ ran[i] = 0 /\ ran'[i] = 1
    \/ row[i] = "claimed" /\ row'[i] \in {"done", "error"} /\ ran[i] = 1 /\ ran'[i] = 1

LEMMA RowSteps ==
  ASSUME IInv, NEW i \in Items,
         Insert(i) \/ RequesterDeletes(i) \/ Deliver(i) \/ PollNext(i)
  PROVE  IInv' /\ OthersKeep(i) /\ Moves(i)
<1> USE WorkQueueAssumption DEF IInv
<1>0. "start" \in Stages /\ "ws" \in Paths /\ "poll" \in Paths
  BY DEF Stages, Paths
<1>1. CASE Insert(i) \/ RequesterDeletes(i)
  <2>1. UNCHANGED <<up, stage, permits, serves, round, batch, ran, faults, restarts>>
    BY <1>1 DEF Insert, RequesterDeletes, socket, poll, counters
  <2>2. event' \subseteq Items
    BY <1>1 DEF Insert, RequesterDeletes, socket, TypeOK
  <2>3. /\ row' \in [Items -> Statuses] /\ \A j \in Items \ {i} : row'[j] = row[j]
        /\ \/ row[i] = "none" /\ row'[i] = "pending"
           \/ row[i] \notin {"none", "deleted"} /\ row'[i] = "deleted"
    BY <1>1 DEF Insert, RequesterDeletes, TypeOK, Statuses
  <2>4. TypeOK'
    BY <2>1, <2>2, <2>3 DEF TypeOK
  <2>5. ItemInv(i)'
    BY <2>1, <2>3 DEF ItemInv, Working
  <2>6. OthersKeep(i) /\ Moves(i)
    BY <2>1, <2>3 DEF OthersKeep, Moves
  <2> QED BY <2>4, <2>5, <2>6, OneItem
<1>2. ASSUME NEW p \in Paths, Goto(p, i, "start"), UNCHANGED <<row, permits, serves, ran>>,
             UNCHANGED <<up, faults, restarts, round>>, event' \subseteq event,
             batch' \subseteq batch
      PROVE  IInv' /\ OthersKeep(i) /\ Moves(i)
  <2>1. /\ stage' \in [Paths \X Items -> Stages]
        /\ stage'[<<p, i>>] = "start"
        /\ \A q \in Paths, j \in Items :
              <<q, j>> # <<p, i>> => stage'[<<q, j>>] = stage[<<q, j>>]
    <3>1. TypeOK /\ "start" \in Stages /\ Goto(p, i, "start")
      BY <1>0, <1>2
    <3> QED BY <3>1, GotoFacts
  <2>2. TypeOK'
    BY <1>2, <2>1 DEF TypeOK
  <2>3. ItemInv(i)'
    BY <1>2, <2>1 DEF ItemInv, Working
  <2>4. OthersKeep(i) /\ Moves(i)
    BY <1>2, <2>1 DEF OthersKeep, Moves
  <2> QED BY <2>2, <2>3, <2>4, OneItem
<1>3. CASE Deliver(i)
  BY <1>0, <1>2, <1>3 DEF Deliver, poll, counters
<1>4. CASE PollNext(i)
  BY <1>0, <1>2, <1>4 DEF PollNext, socket, counters
<1> QED BY <1>1, <1>3, <1>4

\* The steps of a handler.
LEMMA HandleSteps ==
  ASSUME IInv, NEW p \in Paths, NEW i \in Items, Handle(p, i)
  PROVE  IInv' /\ OthersKeep(i) /\ Moves(i)
<1> USE WorkQueueAssumption DEF IInv
<1> DEFINE s == stage[<<p, i>>]
           t == stage'[<<p, i>>]
<1>1. UNCHANGED <<up, event, serves, round, batch>>
  BY DEF Handle, Start, EnsureToken, Claim, Run, Report, socket, poll
<1>2. faults' \in 0..MaxFaults /\ restarts' \in 0..MaxRestarts
  BY DEF Handle, Start, EnsureToken, Claim, Run, Report, counters, Fault, TypeOK
<1>3. \/ Return(p, i)
      \/ /\ \E g \in {"token", "claim", "run", "report"} : Goto(p, i, g)
         /\ permits' \subseteq permits \cup (IF i \in Jobs THEN {<<p, i>>} ELSE {})
  BY DEF Handle, Start, EnsureToken, Claim, Run, Report
<1>4. /\ stage' \in [Paths \X Items -> Stages]
      /\ permits' \subseteq Paths \X Jobs
      /\ \A q \in Paths, j \in Items :
            <<q, j>> # <<p, i>> => stage'[<<q, j>>] = stage[<<q, j>>]
  <2>1. {"token", "claim", "run", "report"} \subseteq Stages
    BY DEF Stages
  <2>2. TypeOK /\ permits \subseteq Paths \X Jobs
    BY DEF TypeOK
  <2>3. CASE Return(p, i)
    BY <2>2, <2>3, ReturnFacts
  <2>4. ASSUME NEW g \in {"token", "claim", "run", "report"}, Goto(p, i, g),
               permits' \subseteq permits \cup (IF i \in Jobs THEN {<<p, i>>} ELSE {})
        PROVE  /\ stage' \in [Paths \X Items -> Stages]
               /\ permits' \subseteq Paths \X Jobs
               /\ \A q \in Paths, j \in Items :
                     <<q, j>> # <<p, i>> => stage'[<<q, j>>] = stage[<<q, j>>]
    <3>1. g \in Stages
      BY <2>1
    <3>2. permits' \subseteq Paths \X Jobs
      BY <2>2, <2>4
    <3> QED BY <2>2, <2>4, <3>1, <3>2, GotoFacts
  <2> QED BY <1>3, <2>3, <2>4
<1>5. /\ row' \in [Items -> Statuses] /\ \A j \in Items \ {i} : row'[j] = row[j]
      /\ ran' \in [Items -> Nat] /\ \A j \in Items \ {i} : ran'[j] = ran[j]
  BY DEF Handle, Start, EnsureToken, Claim, Run, Report, TypeOK, Statuses
<1>6. TypeOK'
  BY <1>1, <1>2, <1>4, <1>5 DEF TypeOK
<1>7. OthersKeep(i)
  BY <1>4, <1>5 DEF OthersKeep
<1>8. \/ t \notin Working /\ row'[i] = row[i] /\ ran'[i] = ran[i]
      \/ /\ row[i] = "pending" /\ row'[i] = "claimed" /\ ran'[i] = ran[i]
         /\ t \in {"run", "none"}
      \/ s = "run" /\ t = "report" /\ row'[i] = row[i] /\ ran'[i] = ran[i] + 1
      \/ /\ s = "report" /\ t = "none" /\ ran'[i] = ran[i]
         /\ IF row[i] = "deleted" THEN row'[i] = "deleted" ELSE row'[i] \in {"done", "error"}
  <2>1. CASE Start(p, i)
    <3>1. row' = row /\ ran' = ran
      BY <2>1 DEF Start
    <3>2. Return(p, i) \/ Goto(p, i, "token")
      BY <2>1 DEF Start
    <3>3. t \in {"none", "token"}
      BY <3>2, ReturnFacts, GotoFacts DEF Stages
    <3> QED BY <3>1, <3>3 DEF Working
  <2>2. CASE EnsureToken(p, i)
    <3>1. row' = row /\ ran' = ran
      BY <2>2 DEF EnsureToken
    <3>2. Return(p, i) \/ Goto(p, i, "claim")
      BY <2>2 DEF EnsureToken
    <3>3. t \in {"none", "claim"}
      BY <3>2, ReturnFacts, GotoFacts DEF Stages
    <3> QED BY <3>1, <3>3 DEF Working
  <2>3. CASE Claim(p, i)
    <3>1. ran' = ran
      BY <2>3 DEF Claim
    <3>2. \/ Return(p, i) /\ row' = row
          \/ /\ Return(p, i) \/ Goto(p, i, "run")
             /\ row[i] = "pending" /\ row' = [row EXCEPT ![i] = "claimed"]
      BY <2>3 DEF Claim
    <3>3. (Return(p, i) => t = "none") /\ (Goto(p, i, "run") => t = "run")
      BY ReturnFacts, GotoFacts DEF Stages
    <3> QED BY <3>1, <3>2, <3>3 DEF Working, TypeOK
  <2>4. CASE Run(p, i)
    <3>1. s = "run" /\ row' = row
      BY <2>4 DEF Run
    <3>2. \/ Return(p, i) /\ ran' = ran
          \/ Goto(p, i, "report") /\ ran' = [ran EXCEPT ![i] = @ + 1]
      BY <2>4 DEF Run
    <3>3. (Return(p, i) => t = "none") /\ (Goto(p, i, "report") => t = "report")
      BY ReturnFacts, GotoFacts DEF Stages
    <3> QED BY <3>1, <3>2, <3>3 DEF Working, TypeOK
  <2>5. CASE Report(p, i)
    <3>1. s = "report" /\ ran' = ran /\ t = "none"
      BY <2>5, ReturnFacts DEF Report
    <3>2. \/ row' = row
          \/ \E x \in {"done", "error"} :
               row' = [row EXCEPT ![i] = IF @ = "deleted" THEN @ ELSE x]
      BY <2>5 DEF Report
    <3> QED BY <3>1, <3>2 DEF Working, TypeOK
  <2> QED BY <2>1, <2>2, <2>3, <2>4, <2>5 DEF Handle
<1>9. ItemInv(i)' /\ Moves(i)
  <2>1. \A q \in Paths : q # p => stage'[<<q, i>>] = stage[<<q, i>>]
    BY <1>4
  <2>2. s \in Working => row[i] \in {"claimed", "deleted"}
                        /\ \A q \in Paths \ {p} : stage[<<q, i>>] \notin Working
    BY DEF ItemInv
  <2>3. row[i] \in Statuses /\ ran[i] \in Nat
    BY DEF TypeOK
  <2> HIDE DEF s, t
  <2>4. ItemInv(i)
    OBVIOUS
  <2> QED BY <1>8, <2>1, <2>2, <2>3, <2>4 DEF s, t, ItemInv, Working, Moves, Statuses
<1> QED BY <1>6, <1>7, <1>9, OneItem

LEMMA NextIInv == IInv /\ [Next]_vars => IInv'
  BY QuietSteps, RestartStep, RowSteps, HandleSteps DEF Next, Poll

\* The invariant holds in every behaviour.
THEOREM Invariance == Spec => []IInv
<1>1. QED BY InitIInv, NextIInv, PTL DEF Spec

\* Type correctness: rows, handlers, permits and the poll stay in their domains.
THEOREM TypeCorrect == Spec => []TypeOK
<1>1. IInv => TypeOK
  BY DEF IInv
<1> QED BY <1>1, Invariance, PTL

\* At most one handler works on a row, and never on one executed before
\* (worker.rs process_command, process_inference_job; chat.rs process).
THEOREM NoSecondRun == Spec => []RunsOnce
<1>1. IInv => RunsOnce
  BY DEF IInv, ItemInv, RunsOnce, Working
<1> QED BY <1>1, Invariance, PTL

-----------------------------------------------------------------------------
(* Serving slots.                                                          *)

Holding == {"token", "claim", "run", "report"}

\* A job past its start holds a permit, and there are no more permits than slots.
SlotInv ==
    /\ IsFiniteSet(permits) /\ Cardinality(permits) <= Slots
    /\ \A p \in Paths, i \in Jobs : stage[<<p, i>>] \in Holding => <<p, i>> \in permits

LEMMA InitSlots == Init => SlotInv
<1> SUFFICES ASSUME Init PROVE SlotInv
  OBVIOUS
<1>1. permits = {} /\ stage = Quiet
  BY DEF Init
<1>2. \A p \in Paths, i \in Jobs : stage[<<p, i>>] = "none"
  BY <1>1 DEF Quiet, Items
<1> QED BY <1>1, <1>2, FS_EmptySet, WorkQueueAssumption DEF SlotInv, Holding

\* A handler that goes home gives back its permit and no other.
LEMMA ReturnSlots ==
  ASSUME TypeOK, SlotInv, NEW p \in Paths, NEW i \in Items, Return(p, i)
  PROVE  SlotInv'
<1>1. permits' = permits \ {<<p, i>>}
  BY DEF Return
<1>2. /\ IsFiniteSet(permits)
      /\ Cardinality(permits) \in Nat /\ Cardinality(permits) <= Slots
  BY FS_CardinalityType DEF SlotInv
<1>3. IsFiniteSet(permits') /\ Cardinality(permits') <= Slots
  <2> DEFINE h == <<p, i>>
  <2>1. /\ IsFiniteSet(permits \ {h})
        /\ Cardinality(permits \ {h})
             = IF h \in permits THEN Cardinality(permits) - 1 ELSE Cardinality(permits)
    BY <1>2, FS_RemoveElement
  <2> QED BY <1>1, <1>2, <2>1, WorkQueueAssumption
<1>4. \A q \in Paths, j \in Jobs : stage'[<<q, j>>] \in Holding => <<q, j>> \in permits'
  <2>1. \A q \in Paths, j \in Items :
           <<q, j>> # <<p, i>> => stage'[<<q, j>>] = stage[<<q, j>>]
    BY ReturnFacts
  <2>2. stage'[<<p, i>>] \notin Holding
    BY ReturnFacts DEF Holding
  <2> QED BY <1>1, <2>1, <2>2 DEF SlotInv, Items
<1> QED BY <1>3, <1>4 DEF SlotInv

\* A handler that goes on keeps what it holds, or takes a permit that is free.
LEMMA GoOnSlots ==
  ASSUME TypeOK, SlotInv, NEW p \in Paths, NEW i \in Items, NEW s \in Stages, Goto(p, i, s),
         \/ permits' = permits /\ (s \in Holding /\ i \in Jobs => <<p, i>> \in permits)
         \/ permits' = permits \cup {<<p, i>>} /\ Cardinality(permits) # Slots
  PROVE  SlotInv'
<1>1. /\ IsFiniteSet(permits)
      /\ Cardinality(permits) \in Nat /\ Cardinality(permits) <= Slots
  BY FS_CardinalityType DEF SlotInv
<1>2. IsFiniteSet(permits') /\ Cardinality(permits') <= Slots
  <2> DEFINE h == <<p, i>>
  <2>1. /\ IsFiniteSet(permits \cup {h})
        /\ Cardinality(permits \cup {h})
             = IF h \in permits THEN Cardinality(permits) ELSE Cardinality(permits) + 1
    BY <1>1, FS_AddElement
  <2>2. CASE permits' = permits
    BY <1>1, <2>2
  <2>3. CASE permits' = permits \cup {h} /\ Cardinality(permits) # Slots
    BY <1>1, <2>1, <2>3, WorkQueueAssumption
  <2> QED BY <2>2, <2>3
<1>3. \A q \in Paths, j \in Jobs : stage'[<<q, j>>] \in Holding => <<q, j>> \in permits'
  <2>1. /\ stage'[<<p, i>>] = s
        /\ \A q \in Paths, j \in Items :
              <<q, j>> # <<p, i>> => stage'[<<q, j>>] = stage[<<q, j>>]
    BY GotoFacts
  <2> QED BY <2>1 DEF SlotInv, Items
<1> QED BY <1>2, <1>3 DEF SlotInv

LEMMA HandleSlots ==
  ASSUME TypeOK, SlotInv, NEW p \in Paths, NEW i \in Items, Handle(p, i)
  PROVE  SlotInv'
<1>1. CASE Return(p, i)
  BY <1>1, ReturnSlots
<1>2. CASE Start(p, i)
  <2> SUFFICES ASSUME ~Return(p, i) PROVE SlotInv'
    BY <1>1
  <2>1. /\ Goto(p, i, "token") /\ "token" \in Stages
        /\ permits' = IF i \in Jobs THEN permits \cup {<<p, i>>} ELSE permits
        /\ i \in Jobs => Cardinality(permits) # Slots
    BY <1>2 DEF Start, Stages
  <2>2. CASE i \in Jobs
    BY <2>1, <2>2, GoOnSlots
  <2>3. CASE i \notin Jobs
    BY <2>1, <2>3, GoOnSlots
  <2> QED BY <2>2, <2>3
<1>3. CASE EnsureToken(p, i) \/ Claim(p, i) \/ Run(p, i) \/ Report(p, i)
  <2> SUFFICES ASSUME ~Return(p, i) PROVE SlotInv'
    BY <1>1
  <2>1. PICK s \in {"claim", "run", "report"} : Goto(p, i, s) /\ permits' = permits
    BY <1>3 DEF EnsureToken, Claim, Run, Report
  <2>2. stage[<<p, i>>] \in Holding /\ s \in Stages
    BY <1>3 DEF EnsureToken, Claim, Run, Report, Holding, Stages
  <2>3. i \in Jobs => <<p, i>> \in permits
    BY <2>2 DEF SlotInv
  <2> QED BY <2>1, <2>2, <2>3, GoOnSlots
<1> QED BY <1>2, <1>3 DEF Handle

LEMMA NextSlots == TypeOK /\ SlotInv /\ [Next]_vars => SlotInv'
<1> SUFFICES ASSUME TypeOK, SlotInv, [Next]_vars PROVE SlotInv'
  OBVIOUS
<1>1. CASE UNCHANGED <<stage, permits>>
  BY <1>1 DEF SlotInv
<1>2. ASSUME NEW p \in Paths, NEW i \in Items, Goto(p, i, "start"), permits' = permits
      PROVE  SlotInv'
  <2>1. "start" \in Stages /\ "start" \notin Holding
    BY DEF Stages, Holding
  <2> QED BY <1>2, <2>1, GoOnSlots
<1>3. CASE Restart
  <2>1. permits' = {} /\ stage' = Quiet
    BY <1>3 DEF Restart
  <2>2. \A p \in Paths, i \in Jobs : stage'[<<p, i>>] = "none"
    BY <2>1 DEF Quiet, Items
  <2> QED BY <2>1, <2>2, FS_EmptySet, WorkQueueAssumption DEF SlotInv, Holding
<1>4. ASSUME NEW i \in Items, Deliver(i) \/ PollNext(i) PROVE SlotInv'
  BY <1>2, <1>4 DEF Deliver, PollNext, Paths
<1> QED
  BY <1>1, <1>3, <1>4, HandleSlots
  DEF Next, Poll, Insert, RequesterDeletes, SocketUp, SocketDown, PollWake, PollAdvance,
      PollFault, MirrorServes, vars

\* No more jobs are between their claim and their answer than there are serving
\* slots, whatever is lost and whenever the agent restarts (worker.rs
\* process_inference_job).
THEOREM JobsStayBounded == Spec => []JobsBounded
<1>1. SlotInv => JobsBounded
  <2> SUFFICES ASSUME SlotInv PROVE JobsBounded
    OBVIOUS
  <2> DEFINE working == {h \in Paths \X Jobs : stage[h] \in {"claim", "run", "report"}}
  <2>1. working \subseteq permits
    BY DEF SlotInv, Holding
  <2>2. IsFiniteSet(permits) /\ Cardinality(permits) <= Slots
    BY DEF SlotInv
  <2>3. IsFiniteSet(working) /\ Cardinality(working) <= Cardinality(permits)
    BY <2>1, <2>2, FS_Subset
  <2>4. Cardinality(working) \in Nat /\ Cardinality(permits) \in Nat
    BY <2>2, <2>3, FS_CardinalityType
  <2> QED BY <2>2, <2>3, <2>4, WorkQueueAssumption DEF JobsBounded
<1> QED BY <1>1, InitSlots, NextSlots, TypeCorrect, PTL DEF Spec

-----------------------------------------------------------------------------
(* The refinement.                                                         *)

\* How the status a row is mapped to follows the row.
LEMMA MappedStep ==
  ASSUME IInv, NEW i \in Items, TypeOK', OthersKeep(i), Moves(i)
  PROVE  [Promise!Next]_(Promise!vars)
<1> DEFINE status == [j \in Items |-> StatusOf(row[j])]
           statusN == [j \in Items |-> StatusOf(row'[j])]
<1>1. \A j \in Items \ {i} : status[j] = statusN[j] /\ ran'[j] = ran[j]
  BY DEF OthersKeep
<1>2. status[i] = StatusOf(row[i]) /\ statusN[i] = StatusOf(row'[i])
  OBVIOUS
<1>3. ran \in [Items -> Nat] /\ ran' \in [Items -> Nat]
  BY DEF IInv, TypeOK
<1>4. row[i] \in Statuses
  BY DEF IInv, TypeOK
<1>5. statusN = [status EXCEPT ![i] = statusN[i]] /\ ran' = [ran EXCEPT ![i] = ran'[i]]
  BY <1>1, <1>3
<1>6. CASE status[i] = statusN[i] /\ ran'[i] = ran[i]
  BY <1>1, <1>3, <1>5, <1>6 DEF Promise!vars
<1>7. CASE row[i] = "none" /\ row'[i] = "pending" /\ ran'[i] = ran[i]
  <2>1. status[i] = "none" /\ statusN[i] = "open"
    BY <1>2, <1>7 DEF StatusOf
  <2>2. ran' = ran
    BY <1>1, <1>3, <1>7
  <2>3. statusN = [status EXCEPT ![i] = "open"]
    BY <1>5, <2>1
  <2>4. Promise!Insert(i)
    BY <1>7, <2>1, <2>2, <2>3 DEF Promise!Insert
  <2> QED BY <2>4 DEF Promise!Next
<1>8. CASE row[i] \notin {"none", "deleted"} /\ row'[i] = "deleted" /\ ran'[i] = ran[i]
  <2>1. status[i] \in {"open", "final"} /\ statusN[i] = "gone"
    BY <1>2, <1>4, <1>8 DEF StatusOf, Statuses
  <2>2. ran' = ran
    BY <1>1, <1>3, <1>8
  <2>3. statusN = [status EXCEPT ![i] = "gone"]
    BY <1>5, <2>1
  <2>4. Promise!Delete(i)
    BY <1>8, <2>1, <2>2, <2>3 DEF Promise!Delete
  <2> QED BY <2>4 DEF Promise!Next
<1>9. CASE row[i] \in {"claimed", "deleted"} /\ row'[i] = row[i] /\ ran[i] = 0 /\ ran'[i] = 1
  <2>1. status[i] # "none" /\ statusN[i] = status[i]
    BY <1>2, <1>9 DEF StatusOf
  <2>2. statusN = status
    BY <1>1, <2>1
  <2>3. Promise!Execute(i)
    BY <1>3, <1>5, <1>9, <2>1, <2>2 DEF Promise!Execute
  <2> QED BY <2>3 DEF Promise!Next
<1>10. CASE row[i] = "claimed" /\ row'[i] \in {"done", "error"} /\ ran[i] = 1 /\ ran'[i] = 1
  <2>1. status[i] = "open" /\ statusN[i] = "final"
    BY <1>2, <1>10 DEF StatusOf
  <2>2. ran' = ran
    BY <1>1, <1>3, <1>10
  <2>3. statusN = [status EXCEPT ![i] = "final"]
    BY <1>5, <2>1
  <2>4. Promise!Finish(i)
    BY <1>10, <2>1, <2>2, <2>3 DEF Promise!Finish
  <2> QED BY <2>4 DEF Promise!Next
<1>11. CASE row[i] = "pending" /\ row'[i] = "claimed" /\ ran'[i] = ran[i]
  <2>1. status[i] = statusN[i]
    BY <1>2, <1>11 DEF StatusOf
  <2> QED BY <1>6, <1>11, <2>1
<1>12. CASE row'[i] = row[i] /\ ran'[i] = ran[i]
  BY <1>2, <1>6, <1>12
<1> QED BY <1>7, <1>8, <1>9, <1>10, <1>11, <1>12 DEF Moves

\* WorkQueue implements OnceEach: every row is executed at most once and finished
\* at most once, after that, over both paths, lost calls and restarts.
THEOREM Implements == Spec => OnceEachHolds
<1>1. Init => Promise!Init
  BY DEF Init, Promise!Init, StatusOf
<1>2. IInv /\ IInv' /\ [Next]_vars => [Promise!Next]_(Promise!vars)
  <2> SUFFICES ASSUME IInv, IInv', [Next]_vars PROVE [Promise!Next]_(Promise!vars)
    OBVIOUS
  <2>0. TypeOK'
    BY DEF IInv
  <2>1. CASE UNCHANGED <<row, ran>>
    BY <2>1 DEF Promise!vars
  <2>2. ASSUME NEW i \in Items, OthersKeep(i), Moves(i) PROVE [Promise!Next]_(Promise!vars)
    BY <2>0, <2>2, MappedStep
  <2> QED BY <2>1, <2>2, QuietSteps, RestartStep, RowSteps, HandleSteps DEF Next, Poll
<1> QED BY <1>1, <1>2, Invariance, PTL DEF Spec, OnceEachHolds, Promise!Spec
=============================================================================
