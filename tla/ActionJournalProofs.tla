------------------------ MODULE ActionJournalProofs -------------------------
(***************************************************************************)
(* Proofs about the durable action journal, for any operations, targets,   *)
(* requests, rate and clock.  One admission is the only step that adds a   *)
(* row; what it does is stated once, in lemmas about AdmissionBody, and    *)
(* module ActionJoinedProofs cites the same lemmas for the joined path.    *)
(***************************************************************************)
EXTENDS ActionJournal, FiniteSetTheorems, TLAPS

\* The row an admission writes.
Admitted(q, actor, expected, pred) ==
    [req |-> q, actor |-> actor, expected |-> expected, created |-> now, pred |-> pred]

\* RateBound and GenerationLine are inductive as they stand: an admission's
\* guards look at the whole table.
JournalInv == JournalTypeOK /\ RateBound /\ GenerationLine

\* The rows of one target, and the generations they were given.
RowsOf(target) == {op \in Rows : TargetOf(op) = target}
Given(target) == {Generation(op) : op \in RowsOf(target)}

-----------------------------------------------------------------------------
(* Finite sets of rows.                                                    *)

\* The number of operations is a number, and so is that of any of them.
LEMMA OpsFinite ==
    /\ IsFiniteSet(Ops) /\ Cardinality(Ops) \in Nat
    /\ \A S \in SUBSET Ops : IsFiniteSet(S) /\ Cardinality(S) \in Nat
<1>1. IsFiniteSet(Ops) /\ Cardinality(Ops) \in Nat
    BY JournalAssumption, FS_CardinalityType
<1>2. ASSUME NEW S \in SUBSET Ops PROVE IsFiniteSet(S) /\ Cardinality(S) \in Nat
    BY <1>1, FS_Subset, FS_CardinalityType
<1> QED
    BY <1>1, <1>2

\* Rows that are counted in a window are operations.
LEMMA CountedAreOps ==
    ASSUME NEW target, NEW t
    PROVE  Charged(target, t) \in SUBSET Ops /\ InWindow(target, t) \in SUBSET Ops
BY DEF Charged, InWindow, Rows

-----------------------------------------------------------------------------
(* One admission.                                                          *)

\* An admission adds one row, of the type of a row, and touches no other.
LEMMA AdmissionAddsRow ==
    ASSUME JournalTypeOK,
           NEW op \in Ops, NEW q \in Requests, NEW actor \in Actors,
           NEW expected \in Nat, NEW pred \in Ops \cup {NoOp},
           AdmissionBody(op, q, actor, expected, pred), op \notin Rows
    PROVE  /\ rows'[op] = Admitted(q, actor, expected, pred)
           /\ rows'[op].req = q /\ rows'[op].actor = actor /\ rows'[op].expected = expected
           /\ rows'[op].created = now /\ rows'[op].pred = pred
           /\ Admitted(q, actor, expected, pred) \in Row
           /\ \A other \in Ops \ {op} : rows'[other] = rows[other]
           /\ Rows' = Rows \cup {op}
           /\ current[q.target] = expected
           /\ current' = [current EXCEPT ![q.target] = expected + 1]
           /\ lifecycle' = [lifecycle EXCEPT ![op] = "admitted"]
<1>1. Admitted(q, actor, expected, pred) \in Row
    BY JournalAssumption DEF Row, JournalTypeOK, Admitted
<1>2. rows'[op] = Admitted(q, actor, expected, pred)
    BY DEF AdmissionBody, JournalTypeOK, Admitted
<1>3. /\ rows'[op].req = q /\ rows'[op].actor = actor /\ rows'[op].expected = expected
      /\ rows'[op].created = now /\ rows'[op].pred = pred
    BY <1>2 DEF Admitted
<1>4. ASSUME NEW other \in Ops \ {op} PROVE rows'[other] = rows[other]
    BY DEF AdmissionBody, JournalTypeOK
<1>5. Rows' = Rows \cup {op}
    BY <1>1, <1>2, <1>4, NoRowAssumption DEF Rows
<1> QED
    BY <1>1, <1>2, <1>3, <1>4, <1>5 DEF AdmissionBody

\* The fields of a row have their types.
LEMMA RowFields ==
    ASSUME JournalTypeOK, NEW op \in Rows
    PROVE  /\ op \in Ops /\ rows[op] \in Row
           /\ rows[op].req \in Requests /\ TargetOf(op) \in Targets
           /\ rows[op].actor \in Actors
           /\ rows[op].expected \in Nat /\ Generation(op) \in Nat
           /\ rows[op].created \in Nat
           /\ rows[op].pred \in Ops \cup {NoOp}
BY RequestAssumption DEF Rows, JournalTypeOK, Row, TargetOf, Generation

\* An admission keeps the tables typed.
LEMMA AdmissionTypes ==
    ASSUME JournalTypeOK,
           NEW op \in Ops, NEW q \in Requests, NEW actor \in Actors,
           NEW expected \in Nat, NEW pred \in Ops \cup {NoOp},
           AdmissionBody(op, q, actor, expected, pred), op \notin Rows
    PROVE  /\ rows' \in [Ops -> Row \cup {NoRow}]
           /\ lifecycle' \in [Ops -> States]
           /\ current' \in [Targets -> Nat]
<1>1. rows' = [rows EXCEPT ![op] = Admitted(q, actor, expected, pred)]
    BY DEF AdmissionBody, Admitted
<1>2. Admitted(q, actor, expected, pred) \in Row
    BY AdmissionAddsRow
<1> QED
    BY <1>1, <1>2, RequestAssumption DEF AdmissionBody, JournalTypeOK, States

\* The rows of a window that an admission leaves behind were all charged
\* against it: a window that contains its stamp reaches back less than an hour.
LEMMA WindowWasCharged ==
    ASSUME JournalTypeOK,
           NEW op \in Ops, NEW q \in Requests, NEW actor \in Actors,
           NEW expected \in Nat, NEW pred \in Ops \cup {NoOp},
           AdmissionBody(op, q, actor, expected, pred), op \notin Rows,
           NEW target \in Targets, NEW t \in 0..MaxTime
    PROVE  \/ InWindow(target, t)' \subseteq InWindow(target, t)
           \/ /\ q.kind = "set" /\ q.target = target
              /\ InWindow(target, t)' \subseteq Charged(target, now) \cup {op}
<1> DEFINE W == InWindow(target, t)
<1>1. ASSUME NEW other \in W', other # op
      PROVE  other \in W /\ other \in Rows /\ rows[other].created >= t
    <2>1. other \in Rows /\ rows'[other] = rows[other]
        BY <1>1, AdmissionAddsRow DEF InWindow, Charged, Rows
    <2>2. TargetOf(other)' = TargetOf(other)
        BY <2>1 DEF TargetOf
    <2>3. other \in W /\ rows[other].created + RateWindow >= t + RateWindow
        BY <1>1, <2>1, <2>2 DEF InWindow, Charged
    <2> QED
        BY <2>1, <2>3, RowFields, JournalAssumption
<1>2. CASE op \notin W'
    BY <1>1, <1>2
<1>3. CASE op \in W'
    <2>1. q.kind = "set" /\ q.target = target
        BY <1>3, AdmissionAddsRow DEF InWindow, Charged, TargetOf
    <2>2. now <= t + RateWindow
        BY <1>3, AdmissionAddsRow DEF InWindow
    <2>3. ASSUME NEW other \in W', other # op PROVE other \in Charged(target, now)
        <3>1. other \in W /\ rows[other].created \in Nat /\ rows[other].created >= t
            BY <1>1, <2>3, RowFields
        <3>2. rows[other].created + RateWindow >= now
            BY <3>1, <2>2, JournalAssumption DEF JournalTypeOK
        <3> QED
            BY <3>1, <3>2 DEF InWindow, Charged
    <2> QED
        BY <2>1, <2>3
<1> QED
    BY <1>2, <1>3

\* An admission keeps the rate in every window.
LEMMA AdmissionRate ==
    ASSUME JournalTypeOK, RateBound,
           NEW op \in Ops, NEW q \in Requests, NEW actor \in Actors,
           NEW expected \in Nat, NEW pred \in Ops \cup {NoOp},
           AdmissionBody(op, q, actor, expected, pred), op \notin Rows
    PROVE  RateBound'
<1> SUFFICES ASSUME NEW target \in Targets, NEW t \in 0..MaxTime
             PROVE  Cardinality(InWindow(target, t)') <= RateMax
    BY DEF RateBound
<1> DEFINE W == InWindow(target, t)
           C == Charged(target, now)
<1>0. IsFiniteSet(W) /\ IsFiniteSet(C) /\ Cardinality(W) \in Nat /\ Cardinality(C) \in Nat
    BY CountedAreOps, OpsFinite
<1>1. CASE W' \subseteq W
    <2>1. IsFiniteSet(W') /\ Cardinality(W') <= Cardinality(W)
        BY <1>0, <1>1, FS_Subset
    <2>2. Cardinality(W) <= RateMax
        BY DEF RateBound
    <2> QED
        BY <1>0, <2>1, <2>2, FS_CardinalityType, JournalAssumption
<1>2. CASE q.kind = "set" /\ q.target = target /\ W' \subseteq C \cup {op}
    <2>1. Cardinality(C) < RateMax
        BY <1>2 DEF AdmissionBody, RateGuard
    <2>2. IsFiniteSet(C \cup {op}) /\ Cardinality(C \cup {op}) <= Cardinality(C) + 1
        <3>1. /\ IsFiniteSet(C \cup {op})
              /\ Cardinality(C \cup {op}) =
                    IF op \in C THEN Cardinality(C) ELSE Cardinality(C) + 1
            BY <1>0, FS_AddElement, Zenon
        <3> QED
            BY <1>0, <3>1
    <2>3. IsFiniteSet(W') /\ Cardinality(W') <= Cardinality(C \cup {op})
        BY <1>2, <2>2, FS_Subset
    <2>4. Cardinality(W') \in Nat /\ Cardinality(C \cup {op}) \in Nat
        BY <2>2, <2>3, FS_CardinalityType
    <2> QED
        BY <1>0, <2>1, <2>2, <2>3, <2>4, JournalAssumption
<1> QED
    BY <1>1, <1>2, WindowWasCharged

\* The generation compare-and-swap extends the line of its target by one.
LEMMA AdmissionLine ==
    ASSUME JournalTypeOK, GenerationLine,
           NEW op \in Ops, NEW q \in Requests, NEW actor \in Actors,
           NEW expected \in Nat, NEW pred \in Ops \cup {NoOp},
           AdmissionBody(op, q, actor, expected, pred), op \notin Rows
    PROVE  GenerationLine'
<1>1. /\ TargetOf(op)' = q.target /\ Generation(op)' = expected + 1
      /\ Rows' = Rows \cup {op}
    BY AdmissionAddsRow DEF TargetOf, Generation
<1>2. ASSUME NEW other \in Rows
      PROVE  TargetOf(other)' = TargetOf(other) /\ Generation(other)' = Generation(other)
    BY AdmissionAddsRow DEF TargetOf, Generation, Rows
<1>3. ASSUME NEW other \in Rows, TargetOf(other) = q.target
      PROVE  Generation(other) \in 1..expected
    <2>1. Generation(other) \in Given(q.target)
        BY <1>3 DEF Given, RowsOf
    <2>2. Given(q.target) = 1..current[q.target]
        BY RequestAssumption DEF GenerationLine, Given, RowsOf
    <2> QED
        BY <2>1, <2>2, AdmissionAddsRow
<1>4. ASSUME NEW op1 \in Rows', NEW op2 \in Rows',
             TargetOf(op1)' = TargetOf(op2)', Generation(op1)' = Generation(op2)'
      PROVE  op1 = op2
    <2>1. CASE op1 \in Rows /\ op2 \in Rows
        BY <1>2, <1>4, <2>1 DEF GenerationLine
    <2>2. CASE op1 = op /\ op2 \in Rows
        BY <1>1, <1>2, <1>3, <1>4, <2>2
    <2>3. CASE op2 = op /\ op1 \in Rows
        BY <1>1, <1>2, <1>3, <1>4, <2>3
    <2> QED
        BY <1>1, <1>4, <2>1, <2>2, <2>3
<1>5. ASSUME NEW target \in Targets PROVE Given(target)' = 1..current'[target]
    <2>0. Given(target) = 1..current[target]
        BY DEF GenerationLine, Given, RowsOf
    <2>1. CASE target # q.target
        <3>1. RowsOf(target)' = RowsOf(target)
            BY <1>1, <1>2, <2>1 DEF RowsOf
        <3>2. Given(target)' = Given(target)
            BY <1>2, <3>1 DEF Given, RowsOf
        <3> QED
            BY <2>0, <2>1, <3>2, AdmissionAddsRow DEF JournalTypeOK
    <2>2. CASE target = q.target
        <3>1. RowsOf(target)' = RowsOf(target) \cup {op}
            BY <1>1, <1>2, <2>2 DEF RowsOf
        <3>2. Given(target)' = Given(target) \cup {expected + 1}
            BY <1>1, <1>2, <3>1 DEF Given, RowsOf
        <3>3. current[target] = expected /\ current'[target] = expected + 1
            BY <2>2, AdmissionAddsRow DEF JournalTypeOK
        <3> QED
            BY <2>0, <3>2, <3>3
    <2> QED
        BY <2>1, <2>2
<1> QED
    BY <1>4, <1>5 DEF GenerationLine, Given, RowsOf

-----------------------------------------------------------------------------
(* The other effects on the journal.                                       *)

\* A step that leaves the rows, the generations and the rate alone.
LEMMA SameRows ==
    ASSUME RateBound, GenerationLine, UNCHANGED <<rows, current>>
    PROVE  RateBound' /\ GenerationLine'
<1>1. Rows' = Rows
    BY DEF Rows
<1>2. ASSUME NEW target, NEW t PROVE InWindow(target, t)' = InWindow(target, t)
    BY <1>1 DEF InWindow, Charged, TargetOf
<1>3. RateBound'
    BY <1>2 DEF RateBound
<1>4. GenerationLine'
    BY <1>1 DEF GenerationLine, TargetOf, Generation
<1> QED
    BY <1>3, <1>4

\* A transition moves one row's state and nothing else.
LEMMA TransitionMoves ==
    ASSUME JournalTypeOK, NEW op \in Ops, NEW state \in States \ {"none", "admitted"},
           Transition(op, state)
    PROVE  /\ op \in Rows /\ JournalTypeOK'
           /\ UNCHANGED <<rows, current, now, essential>>
           /\ lifecycle'[op] = state
           /\ lifecycle[op] = "terminal" => state = "terminal"
           /\ \A other \in Ops \ {op} : lifecycle'[other] = lifecycle[other]
BY DEF Transition, JournalTypeOK

\* Admitting, answered or not, is an admission of a new row.
LEMMA AdmitIsAdmission ==
    ASSUME JournalTypeOK,
           NEW op \in Ops, NEW q \in Requests, NEW actor \in Actors,
           NEW expected \in Nat, NEW pred \in Ops \cup {NoOp},
           \/ Admit(op, q, actor, expected, pred)
           \/ AdmitLost(op, q, actor, expected, pred)
    PROVE  /\ AdmissionBody(op, q, actor, expected, pred) /\ op \notin Rows
           /\ JournalTypeOK' /\ now' = now
<1>1. /\ AdmissionBody(op, q, actor, expected, pred) /\ op \notin Rows /\ now' = now
      /\ Announce(op) \/ essential' = essential
    BY DEF Admit, AdmitLost
<1>2. essential' \in Seq(Ops) /\ Len(essential') <= MaxTasks
    BY <1>1, JournalAssumption DEF Announce, JournalTypeOK
<1> QED
    BY <1>1, <1>2, AdmissionTypes DEF JournalTypeOK

\* Admitting keeps the invariant.
LEMMA AdmitKeeps ==
    ASSUME JournalInv,
           NEW op \in Ops, NEW q \in Requests, NEW actor \in Actors,
           NEW expected \in Nat, NEW pred \in Ops \cup {NoOp},
           \/ Admit(op, q, actor, expected, pred)
           \/ AdmitLost(op, q, actor, expected, pred)
    PROVE  JournalInv'
BY AdmitIsAdmission, AdmissionRate, AdmissionLine DEF JournalInv

\* So does a transition.
LEMMA TransitionKeeps ==
    ASSUME JournalInv, NEW op \in Ops, NEW state \in States \ {"none", "admitted"},
           Transition(op, state)
    PROVE  JournalInv'
BY TransitionMoves, SameRows DEF JournalInv

\* So do the channel, the clock and a restart, which write nothing.
LEMMA AsideKeeps ==
    ASSUME JournalInv, Drain \/ Reopen \/ \E t \in 0..MaxTime : SetClock(t)
    PROVE  JournalInv' /\ UNCHANGED durable
<1>1. UNCHANGED durable
    BY DEF Drain, Reopen, SetClock
<1>2. now' \in 0..MaxTime
    BY DEF Drain, Reopen, SetClock, JournalInv, JournalTypeOK
<1>3. essential' \in Seq(Ops) /\ Len(essential') <= MaxTasks
    <2>1. CASE Drain
        BY <2>1, JournalAssumption DEF Drain, JournalInv, JournalTypeOK
    <2>2. CASE Reopen
        BY <2>2, JournalAssumption DEF Reopen
    <2>3. CASE \E t \in 0..MaxTime : SetClock(t)
        BY <2>3 DEF SetClock, JournalInv, JournalTypeOK
    <2> QED
        BY <2>1, <2>2, <2>3
<1>4. JournalTypeOK'
    BY <1>1, <1>2, <1>3 DEF JournalInv, JournalTypeOK, durable
<1> QED
    BY <1>1, <1>4, SameRows DEF JournalInv, durable

\* The empty journal satisfies the invariant.
LEMMA JournalInitHolds == JournalInit => JournalInv
<1> SUFFICES ASSUME JournalInit PROVE JournalInv
    OBVIOUS
<1>1. JournalTypeOK
    BY JournalAssumption DEF JournalInit, JournalTypeOK, States
<1>2. Rows = {}
    BY DEF JournalInit, Rows
<1>3. RateBound
    <2>1. ASSUME NEW target, NEW t PROVE InWindow(target, t) = {}
        BY <1>2 DEF InWindow, Charged
    <2> QED
        BY <2>1, FS_EmptySet, JournalAssumption DEF RateBound
<1>4. GenerationLine
    BY <1>2 DEF GenerationLine, JournalInit
<1> QED
    BY <1>1, <1>3, <1>4 DEF JournalInv

\* Every step of the journal keeps the invariant and its history.
LEMMA JournalStep ==
    ASSUME JournalInv, [JournalNext]_journalVars
    PROVE  /\ JournalInv'
           /\ \A op \in Rows : /\ rows'[op] = rows[op]
                               /\ lifecycle[op] = "terminal" => lifecycle'[op] = "terminal"
<1>1. CASE \E op \in Ops, q \in Requests, a \in Actors,
              e \in 0..Cardinality(Ops), p \in Ops \cup {NoOp} :
                 Admit(op, q, a, e, p) \/ AdmitLost(op, q, a, e, p)
    <2> PICK op \in Ops, q \in Requests, a \in Actors,
             e \in 0..Cardinality(Ops), p \in Ops \cup {NoOp} :
                 Admit(op, q, a, e, p) \/ AdmitLost(op, q, a, e, p)
        BY <1>1
    <2>1. e \in Nat
        BY OpsFinite
    <2>2. AdmissionBody(op, q, a, e, p) /\ op \notin Rows
        BY <2>1, AdmitIsAdmission DEF JournalInv
    <2>3. \A other \in Rows : /\ rows'[other] = rows[other]
                             /\ lifecycle'[other] = lifecycle[other]
        BY <2>1, <2>2, AdmissionAddsRow DEF JournalInv, JournalTypeOK, Rows
    <2> QED
        BY <2>1, <2>3, AdmitKeeps
<1>2. CASE \E op \in Ops, s \in States \ {"none", "admitted"} : Transition(op, s)
    BY <1>2, TransitionKeeps, TransitionMoves DEF JournalInv, Rows
<1>3. CASE Drain \/ Reopen \/ \E t \in 0..MaxTime : SetClock(t)
    BY <1>3, AsideKeeps DEF durable
<1>4. CASE UNCHANGED journalVars
    <2>1. UNCHANGED <<rows, lifecycle, current, now, essential>>
        BY <1>4 DEF journalVars, durable
    <2> QED
        BY <2>1, SameRows DEF JournalInv, JournalTypeOK
<1> QED
    BY <1>1, <1>2, <1>3, <1>4 DEF JournalNext

-----------------------------------------------------------------------------
(* What the journal promises.                                              *)

\* The invariant holds in every reachable state.
THEOREM JournalInvariant == JournalSpec => []JournalInv
BY JournalInitHolds, JournalStep, PTL DEF JournalSpec

\* The tables stay well typed: every row is a row, every state a state, and
\* the announcement channel stays within its capacity.
THEOREM JournalTyped == JournalSpec => []JournalTypeOK
BY JournalInvariant, PTL DEF JournalInv

\* However the clock jumps between admissions, no window of an hour ever holds
\* more than RateMax SETs of one target (rate_guard_sql in admission_body_v2).
THEOREM RateHolds == JournalSpec => []RateBound
BY JournalInvariant, PTL DEF JournalInv

\* The generations of a target form one line without gaps or repetitions (the
\* generation guard of admission_body_v2).
THEOREM GenerationsLine == JournalSpec => []GenerationLine
BY JournalInvariant, PTL DEF JournalInv

\* A row never changes and never disappears, and a terminal operation stays
\* terminal (the upsert of transition).
THEOREM JournalIsHistory == JournalSpec => HistoryKept
BY JournalInvariant, JournalStep, PTL DEF JournalSpec, HistoryKept
=============================================================================
