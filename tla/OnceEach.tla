------------------------------ MODULE OnceEach ------------------------------
(***************************************************************************)
(* What the agent promises for the work rows of the control plane: each is *)
(* executed at most once, only after it was inserted, and gets a final     *)
(* status at most once, only after it was executed.  A row may be deleted  *)
(* at any time, before, during or after its execution.                     *)
(***************************************************************************)
EXTENDS Naturals

CONSTANT Items

VARIABLES status, \* "none", "open", "final" or "gone"
          ran     \* how often the item was executed

vars == <<status, ran>>

Init ==
    /\ status = [i \in Items |-> "none"]
    /\ ran = [i \in Items |-> 0]

Insert(i) ==
    /\ status[i] = "none"
    /\ status' = [status EXCEPT ![i] = "open"]
    /\ UNCHANGED ran

Execute(i) ==
    /\ status[i] # "none" /\ ran[i] = 0
    /\ ran' = [ran EXCEPT ![i] = 1]
    /\ UNCHANGED status

Finish(i) ==
    /\ status[i] = "open" /\ ran[i] = 1
    /\ status' = [status EXCEPT ![i] = "final"]
    /\ UNCHANGED ran

Delete(i) ==
    /\ status[i] \in {"open", "final"}
    /\ status' = [status EXCEPT ![i] = "gone"]
    /\ UNCHANGED ran

Next == \E i \in Items : Insert(i) \/ Execute(i) \/ Finish(i) \/ Delete(i)

Spec == Init /\ [][Next]_vars
=============================================================================
