--------------------------- MODULE ActionJournal ---------------------------
(***************************************************************************)
(* The durable action journal (src/src/action_journal): operations are     *)
(* admitted under a generation compare-and-swap and an hourly rate, and    *)
(* then move through a lifecycle admitted, dispatched, terminal or         *)
(* unresolved.  Every write is one guarded batch of the receipt protocol   *)
(* of module Mutation, whose promise is used here: the batch is committed  *)
(* at most once per operation, and its answer may be lost.                 *)
(***************************************************************************)
EXTENDS Naturals, FiniteSets, Sequences

CONSTANTS
    Ops,            \* OperationId values
    Actors,         \* actors that admit
    Targets,        \* (scope, equipment) pairs
    Requests,       \* previews: see RequestAssumption
    RateMax,        \* OWNED_RATE_MAX_PER_HOUR
    RateWindow,     \* RATE_WINDOW_SECS
    MaxTime,        \* bound on the wall clock
    MaxTasks,       \* capacity of the essential announcement channel
    NoRow, NoOp

\* A preview names its target, the action kind, the frozen value bits and the
\* accepted revision it was computed from.
ASSUME RequestAssumption ==
    \A q \in Requests : q.target \in Targets /\ q.kind \in {"set", "release"}

ASSUME JournalAssumption ==
    /\ IsFiniteSet(Ops)
    /\ RateMax \in Nat /\ RateWindow \in Nat
    /\ MaxTime \in Nat /\ MaxTasks \in Nat
    /\ NoOp \notin Ops

States == {"none", "admitted", "dispatched", "terminal", "unresolved"}

Row == [req : Requests, actor : Actors, expected : Nat, created : Nat,
        pred : Ops \cup {NoOp}]

ASSUME NoRowAssumption == NoRow \notin Row

VARIABLES
    rows,       \* table action_journal, with the predecessor link of 0006
    lifecycle,  \* table action_lifecycle; "none": no such row
    current,    \* table action_targets: current_generation
    now,        \* the wall clock, in seconds
    essential   \* the bounded channel that announces admissions

durable == <<rows, lifecycle, current>>
journalVars == <<durable, now, essential>>

JournalTypeOK ==
    /\ rows \in [Ops -> Row \cup {NoRow}]
    /\ lifecycle \in [Ops -> States]
    /\ current \in [Targets -> Nat]
    /\ now \in 0..MaxTime
    /\ essential \in Seq(Ops) /\ Len(essential) <= MaxTasks

JournalInit ==
    /\ rows = [op \in Ops |-> NoRow]
    /\ lifecycle = [op \in Ops |-> "none"]
    /\ current = [t \in Targets |-> 0]
    /\ now \in 0..MaxTime
    /\ essential = << >>

Rows == {op \in Ops : rows[op] # NoRow}
TargetOf(op) == rows[op].req.target
Generation(op) == rows[op].expected + 1     \* target_generation

-----------------------------------------------------------------------------
\* SET rows of a target that the hour before time t counts (rate_guard_sql,
\* with created >= t - RateWindow written without negative numbers).
Charged(target, t) ==
    {op \in Rows : /\ TargetOf(op) = target
                   /\ rows[op].req.kind = "set"
                   /\ rows[op].created + RateWindow >= t}

\* Mutant: rows stamped after the present (a clock set back) are not counted.
RateGuard_SkipsFuture(q) ==
    q.kind = "set" =>
        Cardinality({op \in Charged(q.target, now) : rows[op].created <= now}) < RateMax

\* Releases are exempt from the rate.
RateGuard(q) ==
    q.kind = "set" => Cardinality(Charged(q.target, now)) < RateMax

\* Mutant: the compare-and-swap on the generation is missing.
AdmissionBody_NoCas(op, q, actor, expected, pred) ==
    /\ pred \in Rows \cup {NoOp}
    /\ RateGuard(q)
    /\ rows' = [rows EXCEPT ![op] = [req |-> q, actor |-> actor, expected |-> expected,
                                     created |-> now, pred |-> pred]]
    /\ current' = [current EXCEPT ![q.target] = expected + 1]
    /\ lifecycle' = [lifecycle EXCEPT ![op] = "admitted"]

\* admission_body_v2: generation guard, rate guard, the three inserts; the
\* predecessor is a foreign key.  All of it or nothing.
AdmissionBody(op, q, actor, expected, pred) ==
    /\ pred \in Rows \cup {NoOp}
    /\ current[q.target] = expected
    /\ RateGuard(q)
    /\ rows' = [rows EXCEPT ![op] = [req |-> q, actor |-> actor, expected |-> expected,
                                     created |-> now, pred |-> pred]]
    /\ current' = [current EXCEPT ![q.target] = expected + 1]
    /\ lifecycle' = [lifecycle EXCEPT ![op] = "admitted"]

\* Mutant: the channel is not bounded.
Announce_Unbounded(op) == essential' = Append(essential, op)

\* Handoff::announce: a full channel refuses and the admission stands.
Announce(op) ==
    essential' = IF Len(essential) < MaxTasks THEN Append(essential, op) ELSE essential

\* submit of a new operation, committed and answered.  An operation that is
\* already journaled is replayed or conflicts: nothing changes.
Admit(op, q, actor, expected, pred) ==
    /\ op \notin Rows
    /\ AdmissionBody(op, q, actor, expected, pred)
    /\ Announce(op)
    /\ UNCHANGED now

\* The same, and the answer is lost: the caller sees Unknown.  A later retry
\* finds the receipt and does not announce.
AdmitLost(op, q, actor, expected, pred) ==
    /\ op \notin Rows
    /\ AdmissionBody(op, q, actor, expected, pred)
    /\ UNCHANGED <<essential, now>>

\* Mutant: the upsert of a transition also resets the predecessor.
Transition_DropsLink(op, state) ==
    /\ op \in Rows
    /\ lifecycle[op] = "terminal" => state = "terminal"
    /\ lifecycle' = [lifecycle EXCEPT ![op] = state]
    /\ rows' = IF lifecycle[op] = state THEN rows
               ELSE [rows EXCEPT ![op].pred = NoOp]
    /\ UNCHANGED <<current, now, essential>>

\* Mutant: terminal is an ordinary state.
Transition_ReopensTerminal(op, state) ==
    /\ op \in Rows
    /\ lifecycle' = [lifecycle EXCEPT ![op] = state]
    /\ UNCHANGED <<rows, current, now, essential>>

\* transition: terminal is final, a state already reached is not rewritten,
\* and the upsert keeps the predecessor.
Transition(op, state) ==
    /\ op \in Rows
    /\ lifecycle[op] = "terminal" => state = "terminal"
    /\ lifecycle' = [lifecycle EXCEPT ![op] = state]
    /\ UNCHANGED <<rows, current, now, essential>>

\* The consumer of the essential channel takes the oldest announcement.
Drain ==
    /\ essential # << >>
    /\ essential' = Tail(essential)
    /\ UNCHANGED <<durable, now>>

\* The wall clock runs, jumps forward or is set back.
SetClock(t) ==
    /\ t # now
    /\ now' = t
    /\ UNCHANGED <<durable, essential>>

\* The process ends and another opens the journal: the channel is new.
Reopen ==
    /\ essential' = << >>
    /\ UNCHANGED <<durable, now>>

JournalNext ==
    \/ \E op \in Ops, q \in Requests, a \in Actors,
          e \in 0..Cardinality(Ops), p \in Ops \cup {NoOp} :
            Admit(op, q, a, e, p) \/ AdmitLost(op, q, a, e, p)
    \/ \E op \in Ops, s \in States \ {"none", "admitted"} : Transition(op, s)
    \/ Drain
    \/ \E t \in 0..MaxTime : SetClock(t)
    \/ Reopen

JournalSpec == JournalInit /\ [][JournalNext]_journalVars

-----------------------------------------------------------------------------
\* SET rows of a target stamped in the closed window [t, t + RateWindow].
InWindow(target, t) ==
    {op \in Charged(target, t + RateWindow) : rows[op].created <= t + RateWindow}

\* However the clock jumps between admissions, no window of RateWindow seconds
\* of `created' stamps ever holds more than RateMax SETs of one target: the
\* guard in rate_guard_sql looks at the past only, and at every row after it.
RateBound ==
    \A target \in Targets, t \in 0..MaxTime : Cardinality(InWindow(target, t)) <= RateMax

\* The generations of a target form one line 1, 2, ..., current: each was given
\* to exactly one operation (admission_generation guard in admission_body_v2).
GenerationLine ==
    /\ \A op1, op2 \in Rows :
          TargetOf(op1) = TargetOf(op2) /\ Generation(op1) = Generation(op2) => op1 = op2
    /\ \A target \in Targets :
          {Generation(op) : op \in {p \in Rows : TargetOf(p) = target}} = 1..current[target]

\* A row is history: request, actor, stamp, generation and predecessor link
\* survive every later admission, transition, transfer and restart, and a
\* terminal operation stays terminal (transition, lifecycle.rs upsert).
HistoryKept ==
    [][\A op \in Rows : /\ rows'[op] = rows[op]
                        /\ lifecycle[op] = "terminal" => lifecycle'[op] = "terminal"]_journalVars

=============================================================================
