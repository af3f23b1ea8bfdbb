----------------------------- MODULE MCRuntime -----------------------------
(***************************************************************************)
(* A runtime with one running slot per class and room for a second         *)
(* reconciliation to wait for it; the one sensing place goes to work or to *)
(* the subscription slot.  For liveness, two items of sensing or optional  *)
(* work that compete with each other and with a slot that borrows the      *)
(* running place, and work that never ends: the number of an item that is  *)
(* settled and taken is given to a new one, since only numbers of present  *)
(* work are compared.                                                      *)
(***************************************************************************)
EXTENDS Runtime

MCQueueSlots == [c \in Classes |-> IF c = "reconcile" THEN 2 ELSE 1]
MCLiveQueueSlots == [c \in Classes |-> IF c = "sense" THEN 3 ELSE 1]
MCRunningSlots == [c \in Classes |-> 1]

Reuse ==
    /\ sequence > 0
    /\ sequence \notin Live /\ ~Waits(sequence) /\ completed[sequence] = NoJob
    /\ sequence' = sequence - 1
    /\ UNCHANGED <<life, queue, job, completed, held, slots, world>>

\* Reconciliation is mandatory like sensing, and has no slot to compete with.
TwoClasses == \A n \in 1..Len(queue') : queue'[n].class # "reconcile"

EndlessSpec == Init /\ [][(Next \/ Reuse) /\ TwoClasses]_vars /\ Fairness

=============================================================================
