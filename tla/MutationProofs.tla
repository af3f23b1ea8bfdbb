--------------------------- MODULE MutationProofs ---------------------------
(***************************************************************************)
(* Proofs about the receipt protocol of module Mutation, for any callers,  *)
(* tickets, operations and bounds.  The inductive invariant says who may   *)
(* be past the writer barrier and what such a caller, or a child that      *)
(* outlived a crash, knows about the receipt of its operation.             *)
(***************************************************************************)
EXTENDS Mutation, TLAPS

Past == {"lookup", "stage", "commit"}

\* A caller past the barrier holds the writer lock, and no orphan does.
LockInv ==
    /\ \A c \in Callers : phase[c] \in Past => writer = c /\ orphan = NoTicket
    /\ \A c \in Callers : phase[c] # "idle" => ticket[c] \in Tickets

\* What was looked up absent under the lock is still absent.
AbsentInv ==
    /\ \A c \in Callers : phase[c] \in {"stage", "commit"} =>
                              receipts[ticket[c].op] = NoReceipt
    /\ \A c \in Callers : phase[c] = "commit" => staged[c] \in Rows
    /\ orphan # NoTicket => receipts[orphan.ticket.op] = NoReceipt

IInv == TypeOK /\ LockInv /\ AbsentInv /\ EffectsMatchReceipts /\ CommittedIsReceipt

-----------------------------------------------------------------------------
\* What Return does to the call it ends, with the type facts it needs.
LEMMA SaysType == \A k \in Verdicts : Says(k) \in Verdict
  BY DEF Says, Verdict

\* Reading a receipt's rows yields a verdict: committed, or the conflict of no rows.
LEMMA OutcomeType ==
  ASSUME NEW req \in Requests, NEW rows \in Rows
  PROVE  outcome(req, rows) \in Verdict
  BY SaysType DEF outcome, Verdict, Verdicts

\* The initial state satisfies the invariant: no call runs, no receipt exists.
THEOREM InitIInv == Init => IInv
  <1> SUFFICES ASSUME Init PROVE IInv
    OBVIOUS
  <1>1. TypeOK
    BY TicketAssumption, BoundAssumption, SaysType
       DEF Init, TypeOK, Silent, Modes, Phases, Verdicts, Receipt
  <1>2. LockInv /\ AbsentInv
    BY DEF Init, LockInv, AbsentInv, Past
  <1>3. EffectsMatchReceipts /\ CommittedIsReceipt
    BY DEF Init, EffectsMatchReceipts, CommittedIsReceipt, Silent, Says
  <1> QED BY <1>1, <1>2, <1>3 DEF IInv

\* A call that returns without touching the database keeps the invariant,
\* if a Committed verdict is backed by the receipt.
LEMMA ReturnKeeps ==
  ASSUME IInv, NEW c \in Callers, NEW v \in Verdict,
         phase[c] # "idle", Return(c, v), UNCHANGED db,
         v.kind = "Committed" =>
            LET r == receipts[ticket[c].op]
            IN  /\ r # NoReceipt
                /\ r.rows = v.rows
                /\ r.req = ticket[c].req \/ mode[c] = "reconcile_operation"
  PROVE  IInv'
  <1> USE DEF IInv, db
  <1>1. TypeOK'
    BY DEF TypeOK, Return, LockInv, Modes, Phases
  <1>2. LockInv'
    BY DEF TypeOK, Return, LockInv, Past
  <1>3. AbsentInv'
    BY DEF TypeOK, Return, AbsentInv, LockInv
  <1>4. EffectsMatchReceipts'
    BY DEF EffectsMatchReceipts
  <1>5. CommittedIsReceipt'
    BY DEF CommittedIsReceipt, Return
  <1> QED BY <1>1, <1>2, <1>3, <1>4, <1>5

\* A commit makes an absent receipt durable together with its one effect.
LEMMA DurableKeeps ==
  ASSUME TypeOK, EffectsMatchReceipts,
         NEW t \in Tickets, NEW rows \in Rows,
         receipts[t.op] = NoReceipt, Durable(t, rows)
  PROVE  /\ receipts' \in [Ops -> Receipt \cup {NoReceipt}]
         /\ effects' \in [Ops -> Nat]
         /\ EffectsMatchReceipts'
         /\ \A op \in Ops : op # t.op => receipts'[op] = receipts[op]
         /\ receipts'[t.op] = [req |-> t.req, rows |-> rows]
         /\ Abstract!Apply(t.op, t.req, rows)
  <1>1. t.op \in Ops /\ t.req \in Requests
    BY TicketAssumption
  <1>2. [req |-> t.req, rows |-> rows] \in Receipt
    BY <1>1 DEF Receipt
  <1>3. [req |-> t.req, rows |-> rows] # NoReceipt
    BY <1>2, BoundAssumption DEF Receipt
  <1>4. receipts' \in [Ops -> Receipt \cup {NoReceipt}] /\ effects' \in [Ops -> Nat]
    BY <1>1, <1>2 DEF TypeOK, Durable
  <1>5. /\ \A op \in Ops : op # t.op => receipts'[op] = receipts[op]
        /\ receipts'[t.op] = [req |-> t.req, rows |-> rows]
    BY <1>1 DEF TypeOK, Durable
  <1>6. EffectsMatchReceipts'
    BY <1>1, <1>3, <1>5 DEF TypeOK, Durable, EffectsMatchReceipts
  <1>7. Abstract!Apply(t.op, t.req, rows)
    BY <1>1 DEF Durable, Abstract!Apply
  <1> QED BY <1>4, <1>5, <1>6, <1>7

\* A committing call leaves every other caller short of the barrier.
LEMMA CommitKeeps ==
  ASSUME IInv, NEW c \in Callers, NEW v \in Verdict,
         phase[c] = "commit", Durable(ticket[c], staged[c]), Return(c, v),
         v.kind = "Committed" => v.rows = staged[c]
  PROVE  IInv'
  <1> DEFINE t == ticket[c]
  <1>1. t \in Tickets /\ staged[c] \in Rows /\ receipts[t.op] = NoReceipt
    BY DEF IInv, LockInv, AbsentInv
  <1>2. /\ receipts' \in [Ops -> Receipt \cup {NoReceipt}]
        /\ effects' \in [Ops -> Nat]
        /\ EffectsMatchReceipts'
        /\ receipts'[t.op] = [req |-> t.req, rows |-> staged[c]]
    BY <1>1, DurableKeeps DEF IInv
  <1>3. t.op \in Ops /\ [req |-> t.req, rows |-> staged[c]] # NoReceipt
    BY <1>1, TicketAssumption, BoundAssumption
  <1>4. TypeOK'
    BY <1>1, <1>2 DEF IInv, TypeOK, Return, LockInv, Modes, Phases
  <1>5. LockInv'
    BY DEF IInv, TypeOK, Return, LockInv, Past
  <1>6. AbsentInv'
    BY DEF IInv, TypeOK, Return, AbsentInv, LockInv, Past
  <1>7. CommittedIsReceipt'
    BY <1>2, <1>3 DEF CommittedIsReceipt, Return
  <1> QED BY <1>2, <1>4, <1>5, <1>6, <1>7 DEF IInv

\* An orphaned child decides while nobody is past the barrier.
LEMMA OrphanKeeps ==
  ASSUME IInv, OrphanCommits \/ OrphanRollsBack
  PROVE  IInv'
  <1>0. \A c \in Callers : phase[c] \notin Past
    BY DEF IInv, LockInv, OrphanCommits, OrphanRollsBack
  <1>1. CASE OrphanRollsBack
    <2>1. TypeOK'
      BY <1>1, SaysType DEF IInv, TypeOK, OrphanRollsBack, db, calls, Silent, Modes, Verdicts
    <2>2. LockInv' /\ AbsentInv' /\ EffectsMatchReceipts'
      BY <1>0, <1>1 DEF IInv, LockInv, AbsentInv, EffectsMatchReceipts, OrphanRollsBack, db, calls, Past
    <2>3. CommittedIsReceipt'
      BY <1>1 DEF OrphanRollsBack, CommittedIsReceipt, Silent, Says
    <2> QED BY <2>1, <2>2, <2>3 DEF IInv
  <1>2. CASE OrphanCommits
    <2>1. orphan \in [ticket : Tickets, rows : Rows] /\ receipts[orphan.ticket.op] = NoReceipt
      BY <1>2 DEF IInv, TypeOK, AbsentInv, OrphanCommits
    <2>2. /\ receipts' \in [Ops -> Receipt \cup {NoReceipt}]
          /\ effects' \in [Ops -> Nat]
          /\ EffectsMatchReceipts'
      BY <1>2, <2>1, DurableKeeps DEF IInv, OrphanCommits
    <2>3. TypeOK'
      BY <1>2, <2>2, SaysType DEF IInv, TypeOK, OrphanCommits, calls, Silent, Modes, Verdicts
    <2>4. LockInv' /\ AbsentInv'
      BY <1>0, <1>2 DEF IInv, LockInv, AbsentInv, OrphanCommits, calls, Past
    <2>5. CommittedIsReceipt'
      BY <1>2 DEF OrphanCommits, CommittedIsReceipt, Silent, Says
    <2> QED BY <2>2, <2>3, <2>4, <2>5 DEF IInv
  <1> QED BY <1>1, <1>2

\* A crash keeps at most the lock holder's transaction, as an orphan.
LEMMA CrashKeeps == IInv /\ Crash => IInv'
  <1> SUFFICES ASSUME IInv, Crash PROVE IInv'
    OBVIOUS
  <1>1. writer # NoCaller /\ phase[writer] = "commit" =>
          /\ ticket[writer] \in Tickets /\ staged[writer] \in Rows
          /\ receipts[ticket[writer].op] = NoReceipt
    BY DEF IInv, TypeOK, LockInv, AbsentInv
  <1>2. TypeOK'
    BY <1>1, SaysType, BoundAssumption
       DEF IInv, TypeOK, Crash, db, Silent, Modes, Phases, Verdicts
  <1>3. LockInv'
    BY DEF LockInv, Crash, Past
  <1>4. AbsentInv'
    BY <1>1 DEF IInv, AbsentInv, Crash, db
  <1>5. EffectsMatchReceipts' /\ CommittedIsReceipt'
    BY DEF IInv, EffectsMatchReceipts, CommittedIsReceipt, Crash, db, Silent, Says
  <1> QED BY <1>2, <1>3, <1>4, <1>5 DEF IInv

\* The steps that begin a call or move it on without returning.
LEMMA MoveKeeps ==
  ASSUME IInv, NEW c \in Callers,
         \/ StartOperation(c) \/ Admit(c) \/ SubmitMiss(c)
         \/ \E rows \in Rows : Stage(c, rows)
         \/ \E t \in Tickets : Submit(c, t)
         \/ \E t \in Tickets, m \in Modes : Reconcile(c, t, m)
  PROVE  IInv'
  <1> USE SaysType DEF IInv, db, calls, Silent, Modes, Phases, Verdicts
  <1>1. CASE StartOperation(c)
    BY <1>1 DEF StartOperation, Goto, TypeOK, LockInv, AbsentInv, EffectsMatchReceipts,
                CommittedIsReceipt, Past, Says
  <1>2. CASE Admit(c)
    <2>1. \A d \in Callers : phase[d] \notin Past
      BY <1>2, BoundAssumption DEF Admit, LockInv
    <2>2. TypeOK'
      BY <1>2 DEF Admit, Goto, TypeOK
    <2>3. LockInv' /\ AbsentInv'
      BY <1>2, <2>1 DEF Admit, Goto, TypeOK, LockInv, AbsentInv, Past
    <2>4. EffectsMatchReceipts' /\ CommittedIsReceipt'
      BY <1>2 DEF Admit, Goto, EffectsMatchReceipts, CommittedIsReceipt, Says
    <2> QED BY <2>2, <2>3, <2>4
  <1>3. CASE SubmitMiss(c)
    BY <1>3 DEF SubmitMiss, Goto, TypeOK, LockInv, AbsentInv, EffectsMatchReceipts,
                CommittedIsReceipt, Past, Says
  <1>4. CASE \E rows \in Rows : Stage(c, rows)
    <2> PICK rows \in Rows : Stage(c, rows)
      BY <1>4
    <2>1. TypeOK'
      BY DEF Stage, Goto, TypeOK
    <2>2. LockInv' /\ AbsentInv'
      BY DEF Stage, Goto, TypeOK, LockInv, AbsentInv, Past
    <2>3. EffectsMatchReceipts' /\ CommittedIsReceipt'
      BY DEF Stage, Goto, EffectsMatchReceipts, CommittedIsReceipt, Says
    <2> QED BY <2>1, <2>2, <2>3
  <1>5. CASE \E t \in Tickets : Submit(c, t)
    <2> PICK t \in Tickets : Submit(c, t)
      BY <1>5
    <2>1. TypeOK'
      BY DEF Submit, TypeOK
    <2>2. LockInv' /\ AbsentInv'
      BY DEF Submit, TypeOK, LockInv, AbsentInv, Past
    <2>3. EffectsMatchReceipts' /\ CommittedIsReceipt'
      BY DEF Submit, EffectsMatchReceipts, CommittedIsReceipt, Says
    <2> QED BY <2>1, <2>2, <2>3
  <1>6. CASE \E t \in Tickets, m \in Modes : Reconcile(c, t, m)
    <2> PICK t \in Tickets, m \in Modes : Reconcile(c, t, m)
      BY <1>6
    <2>1. TypeOK'
      BY DEF Reconcile, TypeOK
    <2>2. LockInv' /\ AbsentInv'
      BY DEF Reconcile, TypeOK, LockInv, AbsentInv, Past
    <2>3. EffectsMatchReceipts' /\ CommittedIsReceipt'
      BY DEF Reconcile, EffectsMatchReceipts, CommittedIsReceipt, Says
    <2> QED BY <2>1, <2>2, <2>3
  <1> QED BY <1>1, <1>2, <1>3, <1>4, <1>5, <1>6

\* A call that ends without a receipt: nothing is claimed to be committed.
LEMMA RefusalKeeps ==
  ASSUME IInv, NEW c \in Callers,
         AdmitFails(c) \/ LookupFails(c) \/ ReconcileMiss(c) \/ StageFails(c) \/ CommitFails(c)
  PROVE  IInv'
  <1>1. PICK k \in Verdicts \ {"Committed"} :
            phase[c] # "idle" /\ Return(c, Says(k)) /\ UNCHANGED db
    BY DEF AdmitFails, LookupFails, ReconcileMiss, StageFails, CommitFails, Verdicts
  <1>2. Says(k) \in Verdict /\ Says(k).kind # "Committed"
    BY <1>1, SaysType DEF Says
  <1> QED BY <1>1, <1>2, ReturnKeeps

\* A call that ends by replaying the receipt it found.
LEMMA HitKeeps == ASSUME IInv, NEW c \in Callers, LookupHit(c) PROVE IInv'
  <1> DEFINE t == ticket[c]
             r == receipts[t.op]
             v == Replay(mode[c], t, r)
  <1>1. t \in Tickets /\ t.op \in Ops /\ r \in Receipt /\ r # NoReceipt
    BY TicketAssumption DEF IInv, TypeOK, LockInv, LookupHit
  <1>2. t.req \in Requests /\ r.req \in Requests /\ r.rows \in Rows
    BY <1>1, TicketAssumption DEF Receipt
  <1>3. v \in Verdict
    BY <1>1, <1>2, OutcomeType, SaysType DEF Replay, Verdicts
  <1>4. v.kind = "Committed" => /\ r.rows = v.rows
                                /\ r.req = t.req \/ mode[c] = "reconcile_operation"
    BY <1>2 DEF Replay, outcome, Says
  <1> HIDE DEF v
  <1>5. Return(c, v) /\ UNCHANGED db /\ phase[c] # "idle"
    BY DEF LookupHit, v
  <1> QED BY <1>1, <1>3, <1>4, <1>5, ReturnKeeps

\* Every step of the protocol preserves the invariant.
THEOREM NextIInv == IInv /\ [Next]_vars => IInv'
  <1> SUFFICES ASSUME IInv, [Next]_vars PROVE IInv'
    OBVIOUS
  <1>1. CASE \E c \in Callers, t \in Tickets : Submit(c, t)
    BY <1>1, MoveKeeps
  <1>2. CASE \E c \in Callers, t \in Tickets, m \in Modes \ {"submit"} : Reconcile(c, t, m)
    BY <1>2, MoveKeeps
  <1>3. CASE \E c \in Callers : Step(c)
    <2> PICK c \in Callers : Step(c)
      BY <1>3
    <2>1. CASE Commit(c) \/ CommitLost(c)
      <3>1. phase[c] = "commit" /\ Durable(ticket[c], staged[c])
        BY <2>1 DEF Commit, CommitLost
      <3>2. ticket[c] \in Tickets /\ staged[c] \in Rows
        BY <3>1 DEF IInv, LockInv, AbsentInv
      <3>3. outcome(ticket[c].req, staged[c]) \in Verdict /\ Says("Unknown") \in Verdict
        BY <3>2, OutcomeType, SaysType, TicketAssumption DEF Verdicts
      <3>4. \E v \in Verdict : Return(c, v) /\ (v.kind = "Committed" => v.rows = staged[c])
        BY <2>1, <3>3 DEF Commit, CommitLost, outcome, Says
      <3> QED BY <3>1, <3>4, CommitKeeps
    <2>2. CASE LookupHit(c)
      BY <2>2, HitKeeps
    <2>3. CASE AdmitFails(c) \/ LookupFails(c) \/ ReconcileMiss(c) \/ StageFails(c) \/ CommitFails(c)
      BY <2>3, RefusalKeeps
    <2>4. CASE StartOperation(c) \/ Admit(c) \/ SubmitMiss(c) \/ \E rows \in Rows : Stage(c, rows)
      BY <2>4, MoveKeeps
    <2> QED BY <2>1, <2>2, <2>3, <2>4 DEF Step
  <1>4. CASE Crash
    BY <1>4, CrashKeeps
  <1>5. CASE OrphanCommits \/ OrphanRollsBack
    BY <1>5, OrphanKeeps
  <1>6. CASE UNCHANGED vars
    BY <1>6 DEF vars, db, calls, IInv, TypeOK, LockInv, AbsentInv, EffectsMatchReceipts, CommittedIsReceipt
  <1> QED BY <1>1, <1>2, <1>3, <1>4, <1>5, <1>6 DEF Next

\* The invariant holds in every reachable state.
THEOREM Invariance == Spec => []IInv
  BY InitIInv, NextIInv, PTL DEF Spec

\* The types of all state variables hold for ever.
THEOREM TypeCorrect == Spec => []TypeOK
  BY Invariance, PTL DEF IInv

\* For any number of callers, tickets and crashes, an operation's effects are
\* committed at most once and exactly when its receipt is (submit).
THEOREM AtMostOnceEffects == Spec => []EffectsMatchReceipts
  BY Invariance, PTL DEF IInv

\* A Committed verdict always names the receipt's own rows and request.
THEOREM CommittedSound == Spec => []CommittedIsReceipt
  BY Invariance, PTL DEF IInv

-----------------------------------------------------------------------------
\* Every step is a step of the abstract store, or leaves it alone: only the
\* three commits change the database, and each finds no receipt.
LEMMA StepRefines == IInv /\ [Next]_vars => [Abstract!Next]_<<receipts, effects>>
  <1> SUFFICES ASSUME IInv, [Next]_vars
               PROVE  [Abstract!Next]_<<receipts, effects>>
    OBVIOUS
  <1>1. ASSUME NEW t \in Tickets, NEW rows \in Rows,
               receipts[t.op] = NoReceipt, Durable(t, rows)
        PROVE  Abstract!Next
    <2>1. t.op \in Ops /\ t.req \in Requests
      BY TicketAssumption
    <2>2. Abstract!Apply(t.op, t.req, rows)
      BY <1>1, DurableKeeps DEF IInv
    <2> QED BY <2>1, <2>2 DEF Abstract!Next
  <1>2. ASSUME NEW c \in Callers, Step(c)
        PROVE  Abstract!Next \/ UNCHANGED db
    <2>1. CASE Commit(c) \/ CommitLost(c)
      <3>1. phase[c] = "commit" /\ Durable(ticket[c], staged[c])
        BY <2>1 DEF Commit, CommitLost
      <3>2. ticket[c] \in Tickets /\ staged[c] \in Rows /\ receipts[ticket[c].op] = NoReceipt
        BY <3>1 DEF IInv, LockInv, AbsentInv
      <3> QED BY <3>1, <3>2, <1>1
    <2>2. CASE ~(Commit(c) \/ CommitLost(c))
      BY <1>2, <2>2 DEF Step, StartOperation, Admit, AdmitFails, LookupFails, LookupHit,
                        ReconcileMiss, SubmitMiss, StageFails, Stage, CommitFails, db
    <2> QED BY <2>1, <2>2
  <1>3. CASE OrphanCommits
    <2>1. /\ orphan.ticket \in Tickets /\ orphan.rows \in Rows
          /\ receipts[orphan.ticket.op] = NoReceipt
      BY <1>3 DEF IInv, TypeOK, AbsentInv, OrphanCommits
    <2> QED BY <1>3, <2>1, <1>1 DEF OrphanCommits
  <1>4. CASE Crash \/ OrphanRollsBack
    BY <1>4 DEF Crash, OrphanRollsBack, db
  <1>5. CASE \E c \in Callers, t \in Tickets : Submit(c, t)
    BY <1>5 DEF Submit, db
  <1>6. CASE \E c \in Callers, t \in Tickets, m \in Modes \ {"submit"} : Reconcile(c, t, m)
    BY <1>6 DEF Reconcile, db
  <1>7. CASE UNCHANGED vars
    BY <1>7 DEF vars, db
  <1> QED BY <1>2, <1>3, <1>4, <1>5, <1>6, <1>7 DEF Next, db

\* The receipt protocol implements the abstract at-most-once store.
THEOREM Refinement == Spec => ImplementsAtMostOnce
  <1>1. Init => Abstract!Init
    BY DEF Init, Abstract!Init
  <1>2. IInv /\ [Next]_vars => [Abstract!Next]_Abstract!vars
    BY StepRefines DEF Abstract!vars
  <1> QED BY <1>1, <1>2, Invariance, PTL DEF Spec, ImplementsAtMostOnce, Abstract!Spec

\* No step replaces or removes a receipt once it is written.
THEOREM PermanentReceipts == Spec => ReceiptsPermanent
  <1>1. IInv /\ [Next]_vars =>
          [\A op \in Ops : receipts[op] # NoReceipt => receipts'[op] = receipts[op]]_vars
    <2> SUFFICES ASSUME IInv, [Next]_vars, NEW op \in Ops, receipts[op] # NoReceipt
                 PROVE  receipts'[op] = receipts[op]
      BY Zenon
    <2>1. CASE UNCHANGED <<receipts, effects>>
      BY <2>1
    <2>2. CASE Abstract!Next
      BY <2>2 DEF Abstract!Next, Abstract!Apply, IInv, TypeOK
    <2> QED BY <2>1, <2>2, StepRefines
  <1> QED BY <1>1, Invariance, PTL DEF Spec, ReceiptsPermanent

-----------------------------------------------------------------------------
(* What NotCommitted says, when a ticket is not shared between threads.      *)

\* A ticket made by prepare has a fresh identity: no other ticket makes its request.
OneTicket ==
    \A t, u \in Tickets : t.op = u.op /\ t.req = u.req /\ ~t.rebuilt => u = t

\* Call c is a submit of ticket t; it is the first when attempted was unset.
Submits(c, t) == phase[c] # "idle" /\ mode[c] = "submit" /\ ticket[c] = t

\* Nothing is committed, or about to be, under the request of t.
Untouched(t) ==
    /\ ~t.rebuilt
    /\ receipts[t.op] = NoReceipt \/ receipts[t.op].req # t.req
    /\ orphan # NoTicket => orphan.ticket # t

\* An unset flag proves that no attempt began; a first attempt that runs proves
\* that there is no other.
FirstInv ==
    /\ \A t \in Tickets : ~attempted[t] => Untouched(t) /\ \A c \in Callers : ~Submits(c, t)
    /\ \A c \in Callers, t \in Tickets :
          Submits(c, t) /\ ~retried[c] =>
              Untouched(t) /\ \A d \in Callers : Submits(d, t) => d = c

\* A call is in one of the three modes from the barrier on, and only a submit stages.
ModeInv == \A c \in Callers : phase[c] \in {"stage", "commit"} => mode[c] = "submit"

NInv == IInv /\ FirstInv /\ ModeInv /\ NoncommitIsKnown

\* A step that touches no receipt, adds no orphan, begins no submit and unsets no flag.
LEMMA FirstStays ==
  ASSUME FirstInv, UNCHANGED receipts,
         orphan' = orphan \/ orphan' = NoTicket,
         \A t \in Tickets : attempted[t] => attempted'[t],
         \A c \in Callers, t \in Tickets :
             Submits(c, t)' => Submits(c, t) /\ retried'[c] = retried[c]
  PROVE  FirstInv'
  <1>1. \A t \in Tickets : Untouched(t) => Untouched(t)'
    BY DEF Untouched
  <1>2. ASSUME NEW t \in Tickets, ~attempted'[t]
        PROVE  Untouched(t)' /\ \A c \in Callers : ~Submits(c, t)'
    BY <1>1, <1>2 DEF FirstInv
  <1>3. ASSUME NEW c \in Callers, NEW t \in Tickets, Submits(c, t)', ~retried'[c]
        PROVE  Untouched(t)' /\ \A d \in Callers : Submits(d, t)' => d = c
    BY <1>1, <1>3 DEF FirstInv
  <1> QED BY <1>2, <1>3 DEF FirstInv

\* A commit of ticket u touches no ticket that was not attempted, nor one whose
\* first attempt is another call.
LEMMA FirstSurvives ==
  ASSUME IInv, FirstInv, OneTicket, NEW u \in Tickets, NEW rows \in Rows,
         receipts[u.op] = NoReceipt, Durable(u, rows),
         orphan' = orphan \/ orphan' = NoTicket, UNCHANGED attempted,
         \A c \in Callers, t \in Tickets :
             Submits(c, t)' => Submits(c, t) /\ retried'[c] = retried[c],
         \A t \in Tickets : ~attempted[t] => t # u,
         \A c \in Callers : Submits(c, u)' => retried[c]
  PROVE  FirstInv'
  <1>1. ASSUME NEW t \in Tickets, Untouched(t), t # u
        PROVE  Untouched(t)'
    <2>1. t.op \in Ops /\ t.req \in Requests
      BY TicketAssumption
    <2>2. CASE t.op = u.op
      <3>1. t.req # u.req
        BY <1>1, <2>2 DEF OneTicket, Untouched
      <3>2. receipts'[t.op] = [req |-> u.req, rows |-> rows]
        BY <2>2, DurableKeeps DEF IInv
      <3>3. receipts'[t.op].req # t.req
        BY <3>1, <3>2
      <3> QED BY <1>1, <3>3 DEF Untouched
    <2>3. CASE t.op # u.op
      <3>1. receipts'[t.op] = receipts[t.op]
        BY <2>1, <2>3, DurableKeeps DEF IInv
      <3> QED BY <1>1, <3>1 DEF Untouched
    <2> QED BY <2>2, <2>3
  <1>2. ASSUME NEW t \in Tickets, ~attempted'[t]
        PROVE  Untouched(t)' /\ \A c \in Callers : ~Submits(c, t)'
    BY <1>1, <1>2 DEF FirstInv
  <1>3. ASSUME NEW c \in Callers, NEW t \in Tickets, Submits(c, t)', ~retried'[c]
        PROVE  Untouched(t)' /\ \A d \in Callers : Submits(d, t)' => d = c
    BY <1>1, <1>3 DEF FirstInv
  <1> QED BY <1>2, <1>3 DEF FirstInv

\* A call that returns leaves the others and the tickets as they are.
LEMMA ReturnLeaves ==
  ASSUME TypeOK, NEW c \in Callers, NEW v, Return(c, v)
  PROVE  /\ UNCHANGED <<attempted, orphan>>
         /\ \A d \in Callers, t \in Tickets :
                Submits(d, t)' => Submits(d, t) /\ retried'[d] = retried[d] /\ d # c
         /\ \A d \in Callers : phase'[d] # "idle" => phase'[d] = phase[d] /\ mode'[d] = mode[d]
  BY DEF TypeOK, Return, Submits

\* A call that ends without the store being touched.
LEMMA EndStays ==
  ASSUME IInv, FirstInv, ModeInv, NEW c \in Callers, NEW v, Return(c, v), UNCHANGED db,
         v.kind = "NotCommitted" =>
             receipts[ticket[c].op] = NoReceipt \/ receipts[ticket[c].op].req # ticket[c].req
  PROVE  FirstInv' /\ ModeInv' /\ NoncommitIsKnown'
  <1>1. FirstInv'
    BY ReturnLeaves, FirstStays DEF IInv, db
  <1>2. ModeInv'
    BY ReturnLeaves DEF IInv, ModeInv
  <1>3. NoncommitIsKnown'
    BY DEF Return, NoncommitIsKnown, db
  <1> QED BY <1>1, <1>2, <1>3

\* A call that moves on within its phases.
LEMMA GotoStays ==
  ASSUME IInv, FirstInv, NEW c \in Callers, NEW p, phase[c] # "idle", Goto(c, p), UNCHANGED receipts
  PROVE  FirstInv' /\ NoncommitIsKnown'
  <1>1. \A d \in Callers, t \in Tickets : Submits(d, t)' => Submits(d, t) /\ retried'[d] = retried[d]
    BY DEF IInv, TypeOK, Goto, Submits
  <1>2. FirstInv'
    BY <1>1, FirstStays DEF Goto
  <1>3. NoncommitIsKnown'
    BY DEF Goto, NoncommitIsKnown, Silent, Says
  <1> QED BY <1>2, <1>3

\* A submit begins: it unset no flag, and is the first when it set it.
LEMMA SubmitStays ==
  ASSUME NInv, ~SharedClones, NEW c \in Callers, NEW u \in Tickets, Submit(c, u)
  PROVE  FirstInv' /\ ModeInv' /\ NoncommitIsKnown'
  <1>1. UNCHANGED <<receipts, orphan>> /\ \A t \in Tickets : Untouched(t) => Untouched(t)'
    BY DEF Submit, db, Untouched
  <1>2. /\ \A t \in Tickets : attempted'[t] = IF t = u THEN TRUE ELSE attempted[t]
        /\ phase[c] = "idle"
    BY DEF Submit, NInv, IInv, TypeOK
  <1>3. ModeInv' /\ NoncommitIsKnown'
    BY DEF Submit, calls, NInv, IInv, TypeOK, ModeInv, NoncommitIsKnown, Silent, Says
  <1>4. CASE UNCHANGED calls
    <2>1. \A d \in Callers, t \in Tickets : Submits(d, t)' <=> Submits(d, t)
      BY <1>4 DEF calls, Submits
    <2>2. \A d \in Callers : retried'[d] = retried[d]
      BY <1>4 DEF calls
    <2>3. FirstInv'
      BY <1>1, <1>2, <2>1, <2>2 DEF NInv, FirstInv
    <2> QED BY <1>3, <2>3
  <1>5. CASE ~UNCHANGED calls
    <2>1. /\ retried' = [retried EXCEPT ![c] = attempted[u]]
          /\ phase' = [phase EXCEPT ![c] = "admit"]
          /\ mode' = [mode EXCEPT ![c] = "submit"]
          /\ ticket' = [ticket EXCEPT ![c] = u]
          /\ ~FirstAttemptRuns(u)
      BY <1>5 DEF Submit
    <2>2. \A d \in Callers, t \in Tickets :
              IF d = c THEN Submits(d, t)' <=> t = u ELSE Submits(d, t)' <=> Submits(d, t)
      BY <2>1 DEF NInv, IInv, TypeOK, Submits
    <2>3. \A d \in Callers : retried'[d] = IF d = c THEN attempted[u] ELSE retried[d]
      BY <2>1 DEF NInv, IInv, TypeOK
    <2>4. ASSUME NEW t \in Tickets, ~attempted'[t]
          PROVE  Untouched(t)' /\ \A d \in Callers : ~Submits(d, t)'
      BY <1>1, <1>2, <2>2, <2>4 DEF NInv, FirstInv
    <2>5. ASSUME NEW d \in Callers, NEW t \in Tickets, Submits(d, t)', ~retried'[d]
          PROVE  Untouched(t)' /\ \A e \in Callers : Submits(e, t)' => e = d
      <3>1. CASE d = c
        BY <1>1, <2>2, <2>3, <2>5, <3>1 DEF NInv, FirstInv
      <3>2. CASE d # c
        <4>1. Submits(d, t) /\ ~retried[d]
          BY <2>2, <2>3, <2>5, <3>2
        <4>2. t # u
          BY <2>1, <4>1 DEF FirstAttemptRuns, Submits
        <4> QED BY <1>1, <2>2, <4>1, <4>2 DEF NInv, FirstInv
      <3> QED BY <3>1, <3>2
    <2> QED BY <1>3, <2>4, <2>5 DEF FirstInv
  <1> QED BY <1>4, <1>5

\* A call that commits: no first attempt of another ticket ran under its request.
LEMMA CommitStays ==
  ASSUME NInv, OneTicket, NEW c \in Callers, NEW v,
         phase[c] = "commit", Durable(ticket[c], staged[c]), Return(c, v), v.kind # "NotCommitted"
  PROVE  FirstInv' /\ ModeInv' /\ NoncommitIsKnown'
  <1>0. PICK u : u = ticket[c]
    OBVIOUS
  <1>1. u \in Tickets /\ staged[c] \in Rows /\ receipts[u.op] = NoReceipt /\ Submits(c, u)
    BY <1>0 DEF NInv, IInv, LockInv, AbsentInv, ModeInv, Submits
  <1>2. \A t \in Tickets : ~attempted[t] => t # u
    BY <1>1 DEF NInv, FirstInv
  <1>3. \A d \in Callers : Submits(d, u)' => retried[d]
    <2>1. \A d \in Callers : Submits(d, u)' => Submits(d, u) /\ d # c
      BY <1>1, ReturnLeaves DEF NInv, IInv
    <2> QED BY <1>1, <2>1 DEF NInv, FirstInv
  <1>4. FirstInv'
    <2>1. Durable(u, staged[c])
      BY <1>0
    <2> QED BY <1>1, <1>2, <1>3, <2>1, ReturnLeaves, FirstSurvives DEF NInv, IInv
  <1>5. ModeInv'
    BY ReturnLeaves DEF NInv, IInv, ModeInv
  <1>6. NoncommitIsKnown'
    BY DEF Return, NoncommitIsKnown
  <1> QED BY <1>4, <1>5, <1>6

\* An orphan carries a ticket whose flag is set.
LEMMA OrphanStays ==
  ASSUME NInv, OneTicket, OrphanCommits \/ OrphanRollsBack
  PROVE  FirstInv' /\ ModeInv' /\ NoncommitIsKnown'
  <1>1. UNCHANGED calls /\ UNCHANGED attempted /\ orphan' = NoTicket /\ result' = Silent /\ orphan # NoTicket
    BY DEF OrphanCommits, OrphanRollsBack
  <1>2. ModeInv' /\ NoncommitIsKnown'
    BY <1>1 DEF calls, NInv, ModeInv, NoncommitIsKnown, Silent, Says
  <1>3. \A d \in Callers, t \in Tickets : Submits(d, t)' => Submits(d, t) /\ retried'[d] = retried[d]
    BY <1>1 DEF calls, Submits
  <1>4. CASE OrphanRollsBack
    <2>1. UNCHANGED receipts
      BY <1>4 DEF OrphanRollsBack, db
    <2> QED BY <1>1, <1>2, <1>3, <2>1, FirstStays DEF NInv
  <1>5. CASE OrphanCommits
    <2>0. PICK u : u = orphan.ticket
      OBVIOUS
    <2>1. orphan \in [ticket : Tickets, rows : Rows] /\ receipts[u.op] = NoReceipt
      BY <1>1, <2>0 DEF NInv, IInv, TypeOK, AbsentInv
    <2>2. \A t \in Tickets : Untouched(t) => t # u
      BY <1>1, <2>0 DEF Untouched
    <2>3. \A t \in Tickets : ~attempted[t] => t # u
      BY <2>2 DEF NInv, FirstInv
    <2>4. u \in Tickets /\ orphan.rows \in Rows /\ Durable(u, orphan.rows)
      BY <1>5, <2>0, <2>1 DEF OrphanCommits
    <2>5. \A d \in Callers : Submits(d, u)' => retried[d]
      BY <1>3, <2>2, <2>4 DEF NInv, FirstInv
    <2>6. FirstInv'
      BY <1>1, <1>3, <2>1, <2>3, <2>4, <2>5, FirstSurvives DEF NInv
    <2> QED BY <1>2, <2>6
  <1> QED BY <1>4, <1>5

\* After a crash no call runs, and every ticket counts as attempted.
LEMMA CrashStays == ASSUME NInv, Crash PROVE FirstInv' /\ ModeInv' /\ NoncommitIsKnown'
  BY DEF Crash, FirstInv, ModeInv, NoncommitIsKnown, Submits, Silent, Says

\* Every step keeps the invariant, in a process that shares no tickets.
LEMMA NStep == ASSUME NInv, OneTicket, ~SharedClones, [Next]_vars PROVE NInv'
  <1>0. IInv'
    BY NextIInv DEF NInv
  <1>1. CASE \E c \in Callers, t \in Tickets : Submit(c, t)
    BY <1>0, <1>1, SubmitStays DEF NInv
  <1>2. CASE \E c \in Callers, t \in Tickets, m \in Modes \ {"submit"} : Reconcile(c, t, m)
    <2> PICK c \in Callers, u \in Tickets, m \in Modes \ {"submit"} : Reconcile(c, u, m)
      BY <1>2
    <2>1. \A d \in Callers, t \in Tickets : Submits(d, t)' => Submits(d, t) /\ retried'[d] = retried[d]
      BY DEF NInv, IInv, TypeOK, Reconcile, Submits
    <2>2. FirstInv'
      BY <2>1, FirstStays DEF NInv, Reconcile, db
    <2>3. ModeInv' /\ NoncommitIsKnown'
      BY DEF NInv, IInv, TypeOK, Reconcile, ModeInv, NoncommitIsKnown, Silent, Says
    <2> QED BY <1>0, <2>2, <2>3 DEF NInv
  <1>3. CASE \E c \in Callers : Step(c)
    <2> PICK c \in Callers : Step(c)
      BY <1>3
    <2> DEFINE r == receipts[ticket[c].op]
    <2>1. CASE Commit(c) \/ CommitLost(c)
      <3>1. phase[c] = "commit" /\ Durable(ticket[c], staged[c])
        BY <2>1 DEF Commit, CommitLost
      <3>2. \E v : Return(c, v) /\ v.kind # "NotCommitted"
        BY <2>1 DEF Commit, CommitLost, outcome, Says
      <3> QED BY <1>0, <3>1, <3>2, CommitStays DEF NInv
    <2>2. CASE LookupHit(c)
      <3>1. PICK v : v = Replay(mode[c], ticket[c], r)
        OBVIOUS
      <3>2. v.kind # "NotCommitted"
        BY <3>1 DEF Replay, outcome, Says
      <3> QED BY <1>0, <2>2, <3>1, <3>2, EndStays DEF NInv, LookupHit
    <2>3. CASE AdmitFails(c)
      <3>1. PICK v : v = Says(IF mode[c] = "submit" /\ ~retried[c] THEN "NotCommitted" ELSE "Unknown")
        OBVIOUS
      <3>2. v.kind = "NotCommitted" => Submits(c, ticket[c]) /\ ~retried[c] /\ ticket[c] \in Tickets
        BY <2>3, <3>1 DEF Says, AdmitFails, Submits, NInv, IInv, LockInv
      <3>3. v.kind = "NotCommitted" => r = NoReceipt \/ r.req # ticket[c].req
        BY <3>2 DEF NInv, FirstInv, Untouched
      <3> QED BY <1>0, <2>3, <3>1, <3>3, EndStays DEF NInv, AdmitFails
    <2>4. CASE ReconcileMiss(c) \/ StageFails(c)
      <3>1. \E v : Return(c, v) /\ UNCHANGED db
        BY <2>4 DEF ReconcileMiss, StageFails
      <3>2. r = NoReceipt
        BY <2>4 DEF ReconcileMiss, StageFails, NInv, IInv, AbsentInv
      <3> QED BY <1>0, <3>1, <3>2, EndStays DEF NInv
    <2>5. CASE LookupFails(c) \/ CommitFails(c)
      <3>1. Return(c, Says("Unknown")) /\ UNCHANGED db
        BY <2>5 DEF LookupFails, CommitFails
      <3>2. Says("Unknown").kind # "NotCommitted"
        BY DEF Says
      <3> QED BY <1>0, <3>1, <3>2, EndStays DEF NInv
    <2>6. CASE StartOperation(c) \/ Admit(c) \/ SubmitMiss(c) \/ \E rows \in Rows : Stage(c, rows)
      <3>1. \E p : Goto(c, p)
        BY <2>6 DEF StartOperation, Admit, SubmitMiss, Stage
      <3>2. phase[c] # "idle" /\ UNCHANGED receipts
        BY <2>6 DEF StartOperation, Admit, SubmitMiss, Stage, db
      <3>3. FirstInv' /\ NoncommitIsKnown'
        BY <3>1, <3>2, GotoStays DEF NInv
      <3>4. ModeInv'
        BY <2>6 DEF NInv, IInv, TypeOK, ModeInv, Goto, StartOperation, Admit, SubmitMiss, Stage
      <3> QED BY <1>0, <3>3, <3>4 DEF NInv
    <2> QED BY <2>1, <2>2, <2>3, <2>4, <2>5, <2>6 DEF Step
  <1>4. CASE Crash
    BY <1>0, <1>4, CrashStays DEF NInv
  <1>5. CASE OrphanCommits \/ OrphanRollsBack
    BY <1>0, <1>5, OrphanStays DEF NInv
  <1>6. CASE UNCHANGED vars
    <2>1. \A d \in Callers, t \in Tickets : Submits(d, t)' => Submits(d, t) /\ retried'[d] = retried[d]
      BY <1>6 DEF vars, calls, Submits
    <2>2. FirstInv'
      BY <1>6, <2>1, FirstStays DEF NInv, vars, db
    <2>3. ModeInv' /\ NoncommitIsKnown'
      BY <1>6 DEF NInv, ModeInv, NoncommitIsKnown, vars, db, calls
    <2> QED BY <1>0, <2>2, <2>3 DEF NInv
  <1> QED BY <1>1, <1>2, <1>3, <1>4, <1>5, <1>6 DEF Next

\* In a process whose threads submit each ticket one at a time, and where a
\* prepared ticket has its identity to itself, an answer NotCommitted is true at
\* the moment it is given (submit, reconcile: mutation.rs:50).
THEOREM NoncommitTrue ==
  ASSUME ~SharedClones, OneTicket
  PROVE  Spec => []NoncommitIsKnown
  <1>1. Init => NInv
    <2> SUFFICES ASSUME Init PROVE NInv
      OBVIOUS
    <2>1. IInv
      BY InitIInv
    <2>2. FirstInv
      BY TicketAssumption DEF Init, FirstInv, Untouched, Submits
    <2>3. ModeInv /\ NoncommitIsKnown
      BY DEF Init, ModeInv, NoncommitIsKnown, Silent, Says
    <2> QED BY <2>1, <2>2, <2>3 DEF NInv
  <1>2. NInv /\ [Next]_vars => NInv'
    BY NStep
  <1>3. NInv => NoncommitIsKnown
    BY DEF NInv
  <1> QED BY <1>1, <1>2, <1>3, PTL DEF Spec
=============================================================================
