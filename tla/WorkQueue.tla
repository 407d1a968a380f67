----------------------------- MODULE WorkQueue -----------------------------
(***************************************************************************)
(* Work reaches a rig as rows of three tables of the control plane: owner  *)
(* commands, chat turns and inference jobs relayed from other rigs.  Two   *)
(* paths pick the same row up, the INSERT event of the websocket and the   *)
(* 30 s poll, and the conditional update "claim" decides between them.     *)
(* Every call may be lost on the way or on the way back; the agent may     *)
(* restart at any point.                                                   *)
(***************************************************************************)
EXTENDS Naturals, FiniteSets

CONSTANTS Commands, Chats, Jobs, \* rows of the three tables
          Slots,                 \* size of the serving_slots semaphore
          MaxFaults,             \* bound: failed or lost calls
          MaxRestarts            \* bound: restarts of the agent

ASSUME WorkQueueAssumption ==
    /\ Commands \cap Chats = {} /\ Commands \cap Jobs = {} /\ Chats \cap Jobs = {}
    /\ Slots \in Nat \ {0} /\ MaxFaults \in Nat /\ MaxRestarts \in Nat

Items == Commands \cup Chats \cup Jobs
Paths == {"ws", "poll"}

VARIABLES row,      \* status column of each row
          up,       \* the websocket is connected
          event,    \* INSERT events sent and not yet routed
          stage,    \* handler of an item on a path
          permits,  \* handlers that hold a serving slot
          serves,   \* serves_inference, as the agent last read it
          round,    \* table the poll is at
          batch,    \* rows the poll fetched and has not started
          ran,      \* history: executions of each item
          faults, restarts

vars == <<row, up, event, stage, permits, serves, round, batch, ran, faults, restarts>>
socket == <<up, event>>
poll == <<round, batch>>
counters == <<faults, restarts>>

Statuses == {"none", "pending", "claimed", "done", "error", "deleted"}
Stages == {"none", "start", "token", "claim", "run", "report"}
Rounds == {"asleep", "commands", "chats", "jobs"}
Quiet == [h \in Paths \X Items |-> "none"]

TypeOK ==
    /\ row \in [Items -> Statuses]
    /\ up \in BOOLEAN
    /\ event \subseteq Items
    /\ stage \in [Paths \X Items -> Stages]
    /\ permits \subseteq Paths \X Jobs
    /\ serves \in BOOLEAN
    /\ round \in Rounds
    /\ batch \subseteq Items
    /\ ran \in [Items -> Nat]
    /\ faults \in 0..MaxFaults
    /\ restarts \in 0..MaxRestarts

Init ==
    /\ row = [i \in Items |-> "none"]
    /\ up = FALSE /\ event = {}
    /\ stage = Quiet
    /\ permits = {} /\ serves = FALSE
    /\ round = "asleep" /\ batch = {}
    /\ ran = [i \in Items |-> 0]
    /\ faults = 0 /\ restarts = 0

Table(r) == CASE r = "commands" -> Commands
              [] r = "chats"    -> Chats
              [] r = "jobs"     -> Jobs
Pending(items) == {i \in items : row[i] = "pending"}
PollIdle == \A i \in Items : stage[<<"poll", i>>] = "none"

Goto(p, i, s) == stage' = [stage EXCEPT ![<<p, i>>] = s]
\* A handler that returns drops its permit.
Return(p, i) == Goto(p, i, "none") /\ permits' = permits \ {<<p, i>>}
Fault == faults < MaxFaults /\ faults' = faults + 1 /\ UNCHANGED restarts

-----------------------------------------------------------------------------
(* The control plane and the requesters.                                   *)

Insert(i) ==
    /\ row[i] = "none"
    /\ row' = [row EXCEPT ![i] = "pending"]
    /\ event' = IF up THEN event \cup {i} ELSE event
    /\ UNCHANGED <<up, stage, permits, serves, poll, ran, counters>>

\* A relaying rig deletes its job when it has the answer, gives up or is cancelled.
RequesterDeletes(i) ==
    /\ i \in Jobs /\ row[i] \notin {"none", "deleted"}
    /\ row' = [row EXCEPT ![i] = "deleted"]
    /\ UNCHANGED <<socket, stage, permits, serves, poll, ran, counters>>

-----------------------------------------------------------------------------
(* realtime::run and handle_change.                                        *)

SocketUp ==
    /\ ~up /\ up' = TRUE
    /\ UNCHANGED <<row, event, stage, permits, serves, poll, ran, counters>>

\* Events on a broken socket are never sent again.
SocketDown ==
    /\ up /\ up' = FALSE /\ event' = {}
    /\ UNCHANGED <<row, stage, permits, serves, poll, ran, counters>>

Deliver(i) ==
    /\ i \in event
    /\ event' = event \ {i}
    /\ Goto("ws", i, "start")
    /\ UNCHANGED <<row, up, permits, serves, poll, ran, counters>>

-----------------------------------------------------------------------------
(* fallback_loop and fallback_tick.                                        *)

\* Mutant: poll only while the socket is down.
PollWake_SocketDownOnly ==
    /\ round = "asleep" /\ ~up
    /\ round' = "commands" /\ batch' = Pending(Commands)
    /\ UNCHANGED <<row, socket, stage, permits, serves, ran, counters>>

PollWake ==
    /\ round = "asleep"
    /\ round' = "commands" /\ batch' = Pending(Commands)
    /\ UNCHANGED <<row, socket, stage, permits, serves, ran, counters>>

\* The rows of a batch are handled one after the other.
PollNext(i) ==
    /\ PollIdle /\ i \in batch
    /\ batch' = batch \ {i}
    /\ Goto("poll", i, "start")
    /\ UNCHANGED <<row, socket, permits, serves, round, ran, counters>>

\* The next table; jobs only while the rig serves.
PollAdvance ==
    /\ PollIdle /\ batch = {} /\ round # "asleep"
    /\ round' = CASE round = "commands"         -> "chats"
                  [] round = "chats" /\ serves  -> "jobs"
                  [] OTHER                      -> "asleep"
    /\ batch' = IF round' = "asleep" THEN {} ELSE Pending(Table(round'))
    /\ UNCHANGED <<row, socket, stage, permits, serves, ran, counters>>

\* A fetch fails: the tick is over.
PollFault ==
    /\ PollIdle /\ batch = {} /\ round # "asleep"
    /\ round' = "asleep" /\ UNCHANGED batch
    /\ Fault
    /\ UNCHANGED <<row, socket, stage, permits, serves, ran>>

-----------------------------------------------------------------------------
(* process_command, chat::process and process_inference_job.               *)

\* Mutant: "let Ok(_) =" in place of "let Ok(_permit) =" drops the permit at once.
Start_PermitDropped(p, i) ==
    /\ stage[<<p, i>>] = "start"
    /\ IF i \in Jobs /\ (~serves \/ Cardinality(permits) = Slots)
       THEN Return(p, i)
       ELSE Goto(p, i, "token") /\ UNCHANGED permits
    /\ UNCHANGED <<row, socket, serves, poll, ran, counters>>

\* Mutant: every kind of work takes a serving slot.
Start_AllTakePermits(p, i) ==
    /\ stage[<<p, i>>] = "start"
    /\ IF Cardinality(permits) = Slots
       THEN Return(p, i)
       ELSE Goto(p, i, "token") /\ permits' = permits \cup {<<p, i>>}
    /\ UNCHANGED <<row, socket, serves, poll, ran, counters>>

\* A job needs a serving rig and a free slot; without them it stays pending.
Start(p, i) ==
    /\ stage[<<p, i>>] = "start"
    /\ IF i \in Jobs /\ (~serves \/ Cardinality(permits) = Slots)
       THEN Return(p, i)
       ELSE /\ Goto(p, i, "token")
            /\ permits' = IF i \in Jobs THEN permits \cup {<<p, i>>} ELSE permits
    /\ UNCHANGED <<row, socket, serves, poll, ran, counters>>

EnsureToken(p, i) ==
    /\ stage[<<p, i>>] = "token"
    /\ \/ Goto(p, i, "claim") /\ UNCHANGED <<permits, counters>>
       \/ Return(p, i) /\ Fault
    /\ UNCHANGED <<row, socket, serves, poll, ran>>

\* Mutant: the update is not conditional on the row being pending.
Claim_Unconditional(p, i) ==
    /\ stage[<<p, i>>] = "claim"
    /\ row' = [row EXCEPT ![i] = IF row[i] = "deleted" THEN "deleted" ELSE "claimed"]
    /\ Goto(p, i, "run") /\ UNCHANGED <<permits, counters>>
    /\ UNCHANGED <<socket, serves, poll, ran>>

\* Mutant: the loser of a claim leaves without giving its permit back.
Claim_LoserKeepsPermit(p, i) ==
    /\ stage[<<p, i>>] = "claim"
    /\ IF row[i] = "pending"
       THEN row' = [row EXCEPT ![i] = "claimed"] /\ Goto(p, i, "run")
       ELSE Goto(p, i, "none") /\ UNCHANGED row
    /\ UNCHANGED <<permits, socket, serves, poll, ran, counters>>

\* PATCH where status is pending: won, lost to the other path, lost on the way,
\* or won with the answer lost.
Claim(p, i) ==
    /\ stage[<<p, i>>] = "claim"
    /\ \/ /\ row[i] = "pending"
          /\ row' = [row EXCEPT ![i] = "claimed"]
          /\ Goto(p, i, "run") /\ UNCHANGED <<permits, counters>>
       \/ /\ row[i] # "pending"
          /\ Return(p, i) /\ UNCHANGED <<row, counters>>
       \/ Return(p, i) /\ Fault /\ UNCHANGED row
       \/ /\ row[i] = "pending"
          /\ row' = [row EXCEPT ![i] = "claimed"]
          /\ Return(p, i) /\ Fault
    /\ UNCHANGED <<socket, serves, poll, ran>>

\* The command, turn or job is executed, or refused with an error to report.  A
\* chat turn may also end early without writing its row: model settings, history
\* or a running update.
Run(p, i) ==
    /\ stage[<<p, i>>] = "run"
    /\ \/ Goto(p, i, "report") /\ ran' = [ran EXCEPT ![i] = @ + 1] /\ UNCHANGED permits
       \/ i \in Chats /\ Return(p, i) /\ UNCHANGED ran
    /\ UNCHANGED <<row, socket, serves, poll, counters>>

\* Mutant: the result is upserted, so a deleted row comes back.
Report_Upsert(p, i) ==
    /\ stage[<<p, i>>] = "report"
    /\ \E s \in {"done", "error"} : row' = [row EXCEPT ![i] = s]
    /\ Return(p, i)
    /\ UNCHANGED <<socket, serves, poll, ran, counters>>

\* The result is written without a look at the status; a lost write is not retried.
Report(p, i) ==
    /\ stage[<<p, i>>] = "report"
    /\ \/ /\ \E s \in {"done", "error"} :
                row' = [row EXCEPT ![i] = IF @ = "deleted" THEN @ ELSE s]
          /\ UNCHANGED counters
       \/ Fault /\ UNCHANGED row
    /\ Return(p, i)
    /\ UNCHANGED <<socket, serves, poll, ran>>

-----------------------------------------------------------------------------
\* reconcile_tick mirrors the owner's switch.
MirrorServes ==
    /\ serves' = ~serves
    /\ UNCHANGED <<row, socket, stage, permits, poll, ran, counters>>

\* The process ends (crash, update, reboot) and starts anew.
Restart ==
    /\ restarts < MaxRestarts
    /\ restarts' = restarts + 1
    /\ up' = FALSE /\ event' = {}
    /\ stage' = Quiet /\ permits' = {} /\ serves' = FALSE
    /\ round' = "asleep" /\ batch' = {}
    /\ UNCHANGED <<row, ran, faults>>

Handle(p, i) ==
    Start(p, i) \/ EnsureToken(p, i) \/ Claim(p, i) \/ Run(p, i) \/ Report(p, i)
Poll == PollWake \/ PollAdvance \/ \E i \in Items : PollNext(i)

Next ==
    \/ \E i \in Items : Insert(i) \/ RequesterDeletes(i) \/ Deliver(i)
    \/ \E p \in Paths, i \in Items : Handle(p, i)
    \/ SocketUp \/ SocketDown \/ Poll \/ PollFault
    \/ MirrorServes \/ Restart

Spec == Init /\ [][Next]_vars

\* Handlers run on, and the poll comes round every 30 s.
Fairness ==
    /\ \A p \in Paths, i \in Items : WF_vars(Handle(p, i))
    /\ WF_vars(Poll)
FairSpec == Spec /\ Fairness

-----------------------------------------------------------------------------
(* Properties.                                                             *)

StatusOf(s) == CASE s = "none"                   -> "none"
                 [] s \in {"pending", "claimed"} -> "open"
                 [] s \in {"done", "error"}      -> "final"
                 [] OTHER                        -> "gone"

\* Each row is executed at most once and finished at most once, after that,
\* whichever paths pick it up, whatever calls get lost and whenever the agent
\* restarts ("only the caller that wins the claim runs it", worker.rs).
Promise == INSTANCE OnceEach WITH status <- [i \in Items |-> StatusOf(row[i])]
OnceEachHolds == Promise!Spec

\* At most one handler works on a row, and never on one that was executed before,
\* by the other path or before a restart.
RunsOnce ==
    \A i \in Items :
        /\ \A p \in Paths : stage[<<p, i>>] = "run" => ran[i] = 0
        /\ \A p, q \in Paths : {stage[<<p, i>>], stage[<<q, i>>]} \subseteq {"run", "report"} => p = q

\* No more jobs are between their claim and their answer than there are slots
\* ("Bound concurrency", worker.rs process_inference_job).
JobsBounded ==
    Cardinality({h \in Paths \X Jobs : stage[h] \in {"claim", "run", "report"}})
        <= Slots

\* A command or a chat turn does not stay pending, socket or no socket
\* ("Safety-net poll: catches commands/chat missed while the socket was down").
PickedUp == \A i \in Commands \cup Chats : row[i] = "pending" ~> row[i] # "pending"

\* Serving slots always come back, also from jobs whose requester is gone.
SlotsComeBack == []<>(permits = {})
=============================================================================
