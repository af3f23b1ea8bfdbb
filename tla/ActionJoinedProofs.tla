------------------------- MODULE ActionJoinedProofs -------------------------
(***************************************************************************)
(* Proofs about the joined path of module ActionJoined, for any            *)
(* operations, actors, targets, requests, deadlines and revisions.  The    *)
(* journal part is inherited: every step of the joined path is a step of   *)
(* the journal or leaves it alone.  The rest of the invariant says what    *)
(* the journal, the owner and the peer know of one operation, and what a   *)
(* call in progress has established.                                       *)
(***************************************************************************)
EXTENDS ActionJoined, ActionJournalProofs

-----------------------------------------------------------------------------
(* The inductive invariant.                                                *)

\* The acceptance store runs ahead of the active pointer.
WorldInv ==
    /\ accepted \in 0..MaxRev /\ active \in 0..MaxRev /\ active <= accepted
    /\ held \subseteq Scopes /\ excluded \subseteq Actors

\* An operation is journaled, granted, sent and carried out in this order.
\* Its lifecycle may be moved without a grant (a lost mark, a restart), never
\* the other way round.
Course(op) ==
    /\ lifecycle[op] = "none" <=> op \notin Rows
    /\ lifecycle[op] \in {"none", "admitted"} => granted[op] = 0
    /\ granted[op] <= 1
    /\ granted[op] = 0 => op \notin permits \cup wire \cup applied /\ outcomes[op] = "none"
    /\ op \in permits => op \notin wire \cup applied /\ outcomes[op] = "none"
    /\ op \in wire => op \notin applied
    /\ outcomes[op] = "confirmed" => op \in applied
    /\ lifecycle[op] = "terminal" => op \in applied

OwnerInv ==
    /\ permits \subseteq Ops /\ wire \subseteq Ops /\ applied \subseteq Ops
    /\ outcomes \in [Ops -> Outcomes]
    /\ granted \in [Ops -> Nat]
    /\ \A op \in Ops : Course(op)

RevOf(op) == rows[op].req.rev

\* A call works on an unsent row.  A call that saw no coherent moment did not
\* begin in one, and the pointer it is about to read is another revision; at
\* the mark its row is the newest of its target, since calls are not
\* interleaved with admissions.
CallInv ==
    /\ call \in Calls \cup {NoCall}
    /\ call # NoCall =>
          /\ lifecycle[call.op] = "admitted"
          /\ ~call.coherent =>
                /\ ~(accepted = RevOf(call.op) /\ active = RevOf(call.op))
                /\ call.stage \in {"accepted", "active"}
                /\ call.stage = "active" => active # RevOf(call.op)
          /\ call.stage = "mark" => current[TargetOf(call.op)] = Generation(call.op)

JoinedInv == JournalInv /\ WorldInv /\ OwnerInv /\ CallInv /\ TransferIsNarrow

-----------------------------------------------------------------------------
(* Effects that several steps share.                                       *)

\* A call in progress works on a row of the journal.
LEMMA CallRow ==
    ASSUME JoinedInv, call # NoCall
    PROVE  /\ call \in Calls /\ call.op \in Rows /\ call.op \in Ops
           /\ lifecycle[call.op] = "admitted" /\ granted[call.op] = 0
BY DEF JoinedInv, CallInv, OwnerInv, Course, Calls

\* What the owner and the peer know is untouched.
LEMMA SameCourse ==
    ASSUME OwnerInv, UNCHANGED <<rows, lifecycle, peer, permits, outcomes, granted>>
    PROVE  OwnerInv'
<1>1. UNCHANGED <<rows, lifecycle, wire, applied, permits, outcomes, granted>>
    BY DEF peer
<1> QED
    BY <1>1 DEF OwnerInv, Course, Rows

\* The transfers recorded so far are untouched, and nobody is readmitted.
LEMMA SameTransfers ==
    ASSUME TransferIsNarrow, UNCHANGED rows, excluded \subseteq excluded'
    PROVE  TransferIsNarrow'
BY DEF TransferIsNarrow, Rows, Generation

\* A call that is over has nothing to know.
LEMMA CallOver ==
    ASSUME call' = NoCall
    PROVE  CallInv'
BY DEF CallInv

\* No call, before or after.
LEMMA StillNoCall ==
    ASSUME call = NoCall, UNCHANGED call
    PROVE  CallInv'
BY DEF CallInv

\* A new operation was never granted, sent or answered.
LEMMA AdmissionCourse ==
    ASSUME JoinedInv,
           NEW op \in Ops, NEW q \in Requests, NEW actor \in Actors,
           NEW expected \in Nat, NEW pred \in Ops \cup {NoOp},
           AdmissionBody(op, q, actor, expected, pred), op \notin Rows,
           UNCHANGED <<peer, permits, outcomes, granted>>
    PROVE  OwnerInv'
<1>1. /\ Rows' = Rows \cup {op} /\ lifecycle' = [lifecycle EXCEPT ![op] = "admitted"]
      /\ lifecycle \in [Ops -> States]
    BY AdmissionAddsRow DEF JoinedInv, JournalInv, JournalTypeOK
<1>2. UNCHANGED <<wire, applied, permits, outcomes, granted>>
    BY DEF peer
<1>3. ASSUME NEW o \in Ops PROVE Course(o)'
    <2>1. CASE o = op
        BY <1>1, <1>2, <2>1 DEF JoinedInv, OwnerInv, Course
    <2>2. CASE o # op
        <3>1. lifecycle'[o] = lifecycle[o] /\ (o \in Rows' <=> o \in Rows)
            BY <1>1, <2>2
        <3> QED
            BY <1>2, <3>1 DEF JoinedInv, OwnerInv, Course
    <2> QED
        BY <2>1, <2>2
<1> QED
    BY <1>2, <1>3 DEF JoinedInv, OwnerInv

\* The generation of a row is at most that of its target.
LEMMA GenerationAtMost ==
    ASSUME JournalInv, NEW op \in Rows
    PROVE  Generation(op) \in 1..current[TargetOf(op)]
<1>1. TargetOf(op) \in Targets
    BY RowFields DEF JournalInv
<1>2. Given(TargetOf(op)) = 1..current[TargetOf(op)]
    BY <1>1 DEF JournalInv, GenerationLine, Given, RowsOf
<1> QED
    BY <1>2 DEF Given, RowsOf

\* A new row that names no predecessor, or one that passed check_transfer.
LEMMA AdmissionTransfers ==
    ASSUME JoinedInv,
           NEW op \in Ops, NEW q \in Requests, NEW actor \in Actors,
           NEW expected \in Nat, NEW pred \in Ops \cup {NoOp},
           AdmissionBody(op, q, actor, expected, pred), op \notin Rows,
           pred # NoOp => pred \in Rows /\ CheckTransfer(pred, op, q, actor),
           UNCHANGED excluded
    PROVE  TransferIsNarrow'
<1>0. JournalTypeOK
    BY DEF JoinedInv, JournalInv
<1>1. /\ Rows' = Rows \cup {op}
      /\ rows'[op].req = q /\ rows'[op].pred = pred /\ rows'[op].actor = actor
      /\ Generation(op)' = expected + 1 /\ current[q.target] = expected
    BY <1>0, AdmissionAddsRow DEF Generation
<1>2. ASSUME NEW other \in Rows
      PROVE  rows'[other] = rows[other] /\ Generation(other)' = Generation(other)
    BY <1>0, AdmissionAddsRow, RowFields DEF Generation
<1> DEFINE Narrow(o, old) ==
               /\ old \in Rows /\ old # o
               /\ rows[old].req = rows[o].req
               /\ Generation(old) < Generation(o)
               /\ rows[old].actor \in excluded \ {rows[o].actor}
<1>3. ASSUME pred # NoOp PROVE Narrow(op, pred)'
    <2>1. /\ pred \in Rows /\ pred # op
          /\ rows[pred].req = q /\ rows[pred].actor \in excluded /\ actor # rows[pred].actor
        BY <1>3 DEF CheckTransfer
    <2>2. Generation(pred) \in 1..expected
        BY <1>1, <2>1, GenerationAtMost DEF JoinedInv, TargetOf
    <2>3. rows'[pred] = rows[pred] /\ Generation(pred)' = Generation(pred)
        BY <1>2, <2>1
    <2>4. Generation(pred)' < Generation(op)'
        BY <1>1, <2>2, <2>3
    <2>5. rows'[pred].actor \in excluded' \ {rows'[op].actor}
        BY <1>1, <2>1, <2>3
    <2> QED
        BY <1>1, <2>1, <2>3, <2>4, <2>5
<1>4. ASSUME NEW o \in Rows, rows[o].pred # NoOp PROVE Narrow(o, rows[o].pred)'
    <2>1. Narrow(o, rows[o].pred)
        BY <1>4 DEF JoinedInv, TransferIsNarrow
    <2> QED
        BY <1>1, <1>2, <2>1
<1>5. ASSUME NEW o \in Rows', rows'[o].pred # NoOp PROVE Narrow(o, rows[o].pred)'
    <2>1. CASE o = op
        BY <1>1, <1>3, <1>5, <2>1
    <2>2. CASE o \in Rows
        BY <1>2, <1>4, <1>5, <2>2
    <2> QED
        BY <1>1, <2>1, <2>2
<1> QED
    BY <1>5 DEF TransferIsNarrow

-----------------------------------------------------------------------------
(* The joined path moves the journal as the journal moves.                 *)

\* A new admission, of a preview or of a transferred obligation.
Admission(op, q, a, e, p) == Admit(op, q, a, e, p) \/ AdmitLost(op, q, a, e, p)

\* Every step of the joined path is a step of the journal or leaves it alone.
LEMMA JoinedStepsJournal ==
    ASSUME JoinedInv, [Next]_vars
    PROVE  [JournalNext]_journalVars
<1>1. ASSUME NEW op \in Ops, NEW q \in Requests, NEW a \in Actors, NEW e \in 0..Cardinality(Ops),
             \/ AdmitJoined(op, q, a, e)
             \/ \E old \in Ops : TransferNarrow(old, op, q, a, e)
      PROVE  JournalNext
    BY <1>1 DEF AdmitJoined, TransferNarrow, JournalNext
<1>2. CASE Authorize
    <2>1. CASE UNCHANGED journalVars
        BY <2>1
    <2>2. CASE call # NoCall /\ Transition(call.op, "dispatched")
        <3>1. call.op \in Ops
            BY <2>2, CallRow
        <3> QED
            BY <2>2, <3>1 DEF JournalNext, States
    <2> QED
        BY <1>2, <2>1, <2>2
        DEF Authorize, AuthorizeBegin, CheckAccepted, CheckActive, CheckGates, CheckCurrency, Goto,
            MarkDispatched, MarkFails, MarkLost, AuthorizeRefused, InStage
<1>3. ASSUME NEW op \in Ops, Deliver(op) PROVE UNCHANGED journalVars
    BY <1>3 DEF Deliver, Send, PeerApplies, PeerRefuses, AnswerTimesOut
<1>4. ASSUME NEW op \in Ops, Record(op) PROVE JournalNext
    BY <1>4 DEF Record, RecordConfirmedTerminal, RecordUnknownUnresolved, JournalNext, States
<1>5. CASE Crash
    BY <1>5 DEF Crash, JournalNext
<1>6. CASE World
    BY <1>6 DEF World
<1>7. CASE Journal
    BY <1>7 DEF Journal, JournalNext
<1>8. CASE UNCHANGED vars
    BY <1>8 DEF vars
<1> QED
    BY <1>1, <1>2, <1>3, <1>4, <1>5, <1>6, <1>7, <1>8 DEF Next

-----------------------------------------------------------------------------
(* The steps, one after the other.                                         *)

\* What has to be shown of a step beside the journal's own invariant.
Keeps == WorldInv' /\ OwnerInv' /\ CallInv' /\ TransferIsNarrow'

\* Nothing of the outside world moves.
LEMMA SameWorld ==
    ASSUME WorldInv, UNCHANGED world
    PROVE  WorldInv' /\ UNCHANGED <<accepted, active, excluded>>
BY DEF WorldInv, world

\* Admissions and transfers: only while no call is in progress.
LEMMA AdmissionKeeps ==
    ASSUME JoinedInv,
           NEW op \in Ops, NEW q \in Requests, NEW a \in Actors, NEW e \in 0..Cardinality(Ops),
           \/ AdmitJoined(op, q, a, e)
           \/ \E old \in Ops : TransferNarrow(old, op, q, a, e)
    PROVE  Keeps
<1>1. PICK p \in Ops \cup {NoOp} :
          /\ Admission(op, q, a, e, p)
          /\ p # NoOp => p \in Rows /\ CheckTransfer(p, op, q, a)
    BY DEF AdmitJoined, TransferNarrow, Admission
<1>2. call = NoCall /\ UNCHANGED <<world, peer, call, permits, outcomes, granted>>
    BY DEF AdmitJoined, TransferNarrow, owner
<1>3. e \in Nat /\ AdmissionBody(op, q, a, e, p) /\ op \notin Rows
    BY <1>1, OpsFinite, AdmitIsAdmission DEF Admission, JoinedInv, JournalInv
<1>4. WorldInv' /\ UNCHANGED excluded
    BY <1>2, SameWorld DEF JoinedInv
<1>5. OwnerInv'
    BY <1>2, <1>3, AdmissionCourse
<1>6. TransferIsNarrow'
    BY <1>1, <1>3, <1>4, AdmissionTransfers
<1> QED
    BY <1>2, <1>4, <1>5, <1>6, StillNoCall DEF Keeps

\* A call begins on an unsent row.
LEMMA BeginKeeps ==
    ASSUME JoinedInv, NEW op \in Ops, AuthorizeBegin(op)
    PROVE  Keeps
<1>1. /\ op \in Rows /\ lifecycle[op] = "admitted"
      /\ call' = [op |-> op, stage |-> "accepted",
                  coherent |-> accepted = RevOf(op) /\ active = accepted]
      /\ UNCHANGED <<journalVars, world, peer, permits, outcomes, granted>>
    BY DEF AuthorizeBegin, MayDispatch, RevOf
<1>2. UNCHANGED <<rows, lifecycle, current, accepted, active, excluded>>
    BY <1>1 DEF journalVars, durable, world
<1>3. CallInv'
    BY <1>1, <1>2 DEF CallInv, Calls, Stages, RevOf
<1> QED
    BY <1>1, <1>2, <1>3, SameWorld, SameCourse, SameTransfers DEF Keeps, JoinedInv

\* A check passes and the call goes on.
LEMMA CheckKeeps ==
    ASSUME JoinedInv, CheckAccepted \/ CheckActive \/ CheckGates \/ CheckCurrency
    PROVE  Keeps
<1>1. /\ call # NoCall /\ call \in Calls /\ call.op \in Ops /\ lifecycle[call.op] = "admitted"
      /\ UNCHANGED <<journalVars, world, peer, permits, outcomes, granted>>
    BY CallRow DEF CheckAccepted, CheckActive, CheckGates, CheckCurrency, InStage, Goto
<1>2. UNCHANGED <<rows, lifecycle, current, accepted, active, excluded>>
    BY <1>1 DEF journalVars, durable, world
<1>3. PICK s \in {"active", "gates", "currency", "mark"} :
          /\ call' = [call EXCEPT !.stage = s]
          /\ s = "active" => call.stage = "accepted" /\ accepted = RevOf(call.op)
          /\ s = "gates" => call.stage = "active" /\ active = RevOf(call.op)
          /\ s = "currency" => call.stage = "gates"
          /\ s = "mark" => /\ call.stage = "currency"
                           /\ current[TargetOf(call.op)] = Generation(call.op)
    BY DEF CheckAccepted, CheckActive, CheckGates, CheckCurrency, Goto, InStage, RevOf
<1>4. call' \in Calls /\ call'.op = call.op /\ call'.stage = s /\ call'.coherent = call.coherent
    BY <1>1, <1>3 DEF Calls, Stages
<1>5. ~call.coherent =>
          /\ ~(accepted = RevOf(call.op) /\ active = RevOf(call.op))
          /\ call.stage \in {"accepted", "active"}
          /\ call.stage = "active" => active # RevOf(call.op)
    BY <1>1 DEF JoinedInv, CallInv
<1>6. ~call.coherent => s = "active" /\ active # RevOf(call.op)
    BY <1>3, <1>5
<1>7. /\ RevOf(call.op)' = RevOf(call.op)
      /\ current[TargetOf(call.op)]' = current[TargetOf(call.op)]
      /\ Generation(call.op)' = Generation(call.op)
    BY <1>2, <1>4 DEF RevOf, TargetOf, Generation
<1>8. CallInv'
    BY <1>1, <1>2, <1>3, <1>4, <1>5, <1>6, <1>7 DEF CallInv
<1> QED
    BY <1>1, <1>2, <1>8, SameWorld, SameCourse, SameTransfers DEF Keeps, JoinedInv

\* The mark commits, and the write is returned or its answer lost; or nothing
\* is committed.
LEMMA MarkKeeps ==
    ASSUME JoinedInv, MarkDispatched \/ MarkLost \/ MarkFails \/ AuthorizeRefused
    PROVE  Keeps
<1>1. /\ call # NoCall /\ call' = NoCall /\ call.op \in Ops /\ call.op \in Rows
      /\ lifecycle[call.op] = "admitted" /\ granted[call.op] = 0
      /\ UNCHANGED <<world, peer, outcomes>>
    BY CallRow DEF MarkDispatched, MarkLost, MarkFails, AuthorizeRefused, InStage
<1>2. UNCHANGED <<accepted, active, excluded, wire, applied, outcomes>> /\ WorldInv'
    BY <1>1, SameWorld DEF JoinedInv, peer
<1>3. CASE MarkFails \/ AuthorizeRefused
    <2>1. UNCHANGED <<rows, lifecycle, permits, granted>>
        BY <1>3 DEF MarkFails, AuthorizeRefused, journalVars, durable
    <2> QED
        BY <1>1, <1>2, <2>1, SameCourse, SameTransfers, CallOver DEF Keeps, JoinedInv
<1>4. CASE MarkDispatched \/ MarkLost
    <2>1. Transition(call.op, "dispatched")
        BY <1>4 DEF MarkDispatched, MarkLost
    <2>2. /\ UNCHANGED <<rows, current>>
          /\ lifecycle'[call.op] = "dispatched"
          /\ \A o \in Ops \ {call.op} : lifecycle'[o] = lifecycle[o]
        BY <1>1, <2>1, TransitionMoves DEF JoinedInv, JournalInv, States
    <2>3. /\ granted' \in [Ops -> Nat] /\ granted'[call.op] <= 1
          /\ permits' \subseteq Ops
          /\ permits' \subseteq permits \cup {call.op}
          /\ granted'[call.op] = 0 => permits' = permits
          /\ \A o \in Ops \ {call.op} : granted'[o] = granted[o]
        BY <1>1, <1>4 DEF MarkDispatched, MarkLost, JoinedInv, OwnerInv
    <2>4. ASSUME NEW o \in Ops PROVE Course(o)'
        <3>1. CASE o = call.op
            BY <1>1, <1>2, <2>2, <2>3, <3>1 DEF JoinedInv, OwnerInv, Course, Rows
        <3>2. CASE o # call.op
            <4>1. lifecycle'[o] = lifecycle[o] /\ granted'[o] = granted[o]
                BY <2>2, <2>3, <3>2
            <4>2. (o \in permits' => o \in permits) /\ (o \in Rows' <=> o \in Rows)
                BY <2>2, <2>3, <3>2 DEF Rows
            <4> QED
                BY <1>2, <4>1, <4>2 DEF JoinedInv, OwnerInv, Course
        <3> QED
            BY <3>1, <3>2
    <2>5. OwnerInv'
        BY <1>2, <2>3, <2>4 DEF OwnerInv, JoinedInv
    <2> QED
        BY <1>1, <1>2, <2>2, <2>5, SameTransfers, CallOver DEF Keeps, JoinedInv
<1> QED
    BY <1>3, <1>4

\* Sending, and what the peer and the answer do, for one operation.
LEMMA DeliverKeeps ==
    ASSUME JoinedInv, NEW op \in Ops, Deliver(op)
    PROVE  Keeps
<1>1. /\ UNCHANGED <<journalVars, world, call, granted>>
      /\ permits' \subseteq Ops /\ wire' \subseteq Ops /\ applied' \subseteq Ops
      /\ outcomes' \in [Ops -> Outcomes]
      /\ \A o \in Ops \ {op} :
            /\ outcomes'[o] = outcomes[o]
            /\ o \in permits' <=> o \in permits
            /\ o \in wire' <=> o \in wire
            /\ o \in applied' <=> o \in applied
    BY DEF Deliver, Send, PeerApplies, PeerRefuses, AnswerTimesOut, JoinedInv, OwnerInv, Outcomes, peer
<1>2. UNCHANGED <<rows, lifecycle, current, accepted, active, excluded, granted, call>>
    BY <1>1 DEF journalVars, durable, world
<1>3. ASSUME NEW o \in Ops \ {op} PROVE Course(o)'
    BY <1>1, <1>2 DEF JoinedInv, OwnerInv, Course, Rows
<1>4. Course(op)'
    <2>0. Course(op) /\ outcomes \in [Ops -> Outcomes] /\ granted \in [Ops -> Nat]
        BY DEF JoinedInv, OwnerInv
    <2>1. CASE Send(op)
        BY <1>2, <2>0, <2>1 DEF Send, Course, Rows
    <2>2. CASE \E answered \in BOOLEAN : PeerApplies(op, answered)
        BY <1>2, <2>0, <2>2 DEF PeerApplies, Course, Rows
    <2>3. CASE PeerRefuses(op)
        BY <1>2, <2>0, <2>3 DEF PeerRefuses, Course, Rows
    <2>4. CASE AnswerTimesOut(op)
        BY <1>2, <2>0, <2>4 DEF AnswerTimesOut, Course, Rows, peer
    <2> QED
        BY <2>1, <2>2, <2>3, <2>4 DEF Deliver
<1>5. OwnerInv'
    BY <1>1, <1>2, <1>3, <1>4 DEF JoinedInv, OwnerInv
<1>6. CallInv'
    BY <1>2 DEF JoinedInv, CallInv, RevOf, TargetOf, Generation
<1> QED
    BY <1>1, <1>2, <1>5, <1>6, SameWorld, SameTransfers DEF Keeps, JoinedInv

\* An outcome is recorded, by an owner with no call in progress.
LEMMA RecordKeeps ==
    ASSUME JoinedInv, NEW op \in Ops, Record(op)
    PROVE  Keeps
<1>1. /\ call = NoCall /\ UNCHANGED <<world, peer, call, permits, granted>>
      /\ outcomes' \in {outcomes, [outcomes EXCEPT ![op] = "none"]}
    BY DEF Record, RecordConfirmedTerminal, RecordUnknownUnresolved
<1>2. UNCHANGED <<wire, applied>>
    BY <1>1 DEF peer
<1>3. PICK s \in {"terminal", "unresolved"} :
          /\ Transition(op, s)
          /\ s = "terminal" => outcomes[op] = "confirmed"
    BY DEF Record, RecordConfirmedTerminal, RecordUnknownUnresolved
<1>4. /\ op \in Rows /\ UNCHANGED rows /\ lifecycle'[op] = s
      /\ \A o \in Ops \ {op} : lifecycle'[o] = lifecycle[o]
    BY <1>3, TransitionMoves DEF JoinedInv, JournalInv, States
<1>5. ASSUME NEW o \in Ops PROVE Course(o)'
    <2>0. /\ Course(o) /\ outcomes \in [Ops -> Outcomes]
          /\ outcomes'[o] \in {outcomes[o], "none"} /\ (o \in Rows' <=> o \in Rows)
        BY <1>1, <1>4 DEF JoinedInv, OwnerInv, Rows
    <2>1. CASE o = op
        <3>1. s = "terminal" => op \in applied
            BY <1>3, <2>0, <2>1 DEF Course
        <3> QED
            BY <1>1, <1>2, <1>4, <2>0, <2>1, <3>1 DEF Course
    <2>2. CASE o # op
        BY <1>1, <1>2, <1>4, <2>0, <2>2 DEF Course
    <2> QED
        BY <2>1, <2>2
<1>6. OwnerInv'
    BY <1>1, <1>2, <1>5 DEF JoinedInv, OwnerInv, Outcomes
<1> QED
    BY <1>1, <1>4, <1>6, SameWorld, SameTransfers, StillNoCall DEF Keeps, JoinedInv

\* A crash forgets the call, the permits and the outcomes; the journal, the
\* wire and what was granted stay.
LEMMA CrashKeeps ==
    ASSUME JoinedInv, Crash
    PROVE  Keeps
<1>1. /\ UNCHANGED <<rows, lifecycle, world, wire, applied, granted>>
      /\ call' = NoCall /\ permits' = {} /\ outcomes' = [op \in Ops |-> "none"]
    BY DEF Crash, Reopen, durable, peer
<1>2. OwnerInv'
    BY <1>1 DEF JoinedInv, OwnerInv, Course, Rows, Outcomes
<1> QED
    BY <1>1, <1>2, SameWorld, SameTransfers, CallOver DEF Keeps, JoinedInv

\* Acceptances, activations, holds and exclusions.  An activation of the row's
\* own revision is the coherent moment a call may overlap.
LEMMA WorldKeeps ==
    ASSUME JoinedInv, World
    PROVE  Keeps
<1>1. UNCHANGED <<rows, lifecycle, current, peer, permits, outcomes, granted>>
    BY DEF World, journalVars, durable
<1>2. WorldInv /\ CallInv /\ OwnerInv /\ TransferIsNarrow
    BY DEF JoinedInv
<1>3. WorldInv' /\ excluded \subseteq excluded'
    BY <1>2, JoinedAssumption DEF World, Accept, Activate, Hold, Unhold, Exclude, WorldInv, Scopes
<1>4. CallInv'
    <2>1. \A o \in Ops : /\ RevOf(o)' = RevOf(o) /\ TargetOf(o)' = TargetOf(o)
                         /\ Generation(o)' = Generation(o)
        BY <1>1 DEF RevOf, TargetOf, Generation
    <2>2. CASE call = NoCall
        BY <2>2, StillNoCall DEF World, Accept, Activate, Hold, Unhold, Exclude
    <2>3. CASE call # NoCall /\ UNCHANGED <<accepted, active, call>>
        BY <1>1, <1>2, <2>3 DEF CallInv, RevOf, TargetOf, Generation
    <2>4. CASE call # NoCall /\ Accept
        <3>1. accepted' > active /\ UNCHANGED <<active, call>> /\ active \in Nat /\ accepted \in Nat
            BY <1>2, <2>4 DEF Accept, WorldInv
        <3>2. ~(accepted' = RevOf(call.op) /\ active = RevOf(call.op))
            BY <3>1
        <3> QED
            BY <1>1, <1>2, <2>4, <3>1, <3>2 DEF CallInv, RevOf, TargetOf, Generation
    <2>5. CASE call # NoCall /\ Activate
        <3>0. call \in Calls /\ UNCHANGED accepted /\ active' = accepted
            BY <2>5, CallRow DEF Activate
        <3>1. CASE accepted = RevOf(call.op)
            <4>1. /\ call' \in Calls /\ call'.op = call.op /\ call'.stage = call.stage
                  /\ call'.coherent
                BY <2>5, <3>0, <3>1 DEF Activate, Calls, RevOf
            <4> QED
                BY <1>1, <1>2, <2>5, <4>1 DEF CallInv, RevOf, TargetOf, Generation
        <3>2. CASE accepted # RevOf(call.op)
            <4>1. call' = call
                BY <2>5, <3>2 DEF Activate, RevOf
            <4> QED
                BY <1>1, <1>2, <2>5, <3>0, <3>2, <4>1 DEF CallInv, RevOf, TargetOf, Generation
        <3> QED
            BY <3>1, <3>2
    <2> QED
        BY <2>2, <2>3, <2>4, <2>5 DEF World, Hold, Unhold, Exclude
<1> QED
    BY <1>1, <1>2, <1>3, <1>4, SameCourse, SameTransfers DEF Keeps

\* The channel and the clock, and stuttering.
LEMMA AsideJoinedKeeps ==
    ASSUME JoinedInv, Journal \/ UNCHANGED vars
    PROVE  Keeps
<1>1. UNCHANGED <<rows, lifecycle, current, world, peer, call, permits, outcomes, granted>>
    BY DEF Journal, Drain, SetClock, vars, journalVars, durable, owner
<1>2. UNCHANGED <<accepted, active, excluded>> /\ WorldInv'
    BY <1>1, SameWorld DEF JoinedInv
<1>3. CallInv'
    BY <1>1, <1>2 DEF JoinedInv, CallInv, RevOf, TargetOf, Generation
<1> QED
    BY <1>1, <1>2, <1>3, SameCourse, SameTransfers DEF Keeps, JoinedInv

-----------------------------------------------------------------------------
(* Invariance, and what the joined path promises.                          *)

\* Nothing admitted, sent or known.
LEMMA JoinedInitHolds == Init => JoinedInv
<1> SUFFICES ASSUME Init PROVE JoinedInv
    OBVIOUS
<1>1. JournalInv /\ Rows = {}
    BY JournalInitHolds DEF Init, JournalInit, Rows
<1>2. WorldInv
    BY JoinedAssumption DEF Init, WorldInv
<1>3. OwnerInv
    BY <1>1 DEF Init, JournalInit, OwnerInv, Course, Outcomes
<1>4. CallInv /\ TransferIsNarrow
    BY <1>1 DEF Init, CallInv, TransferIsNarrow
<1> QED
    BY <1>1, <1>2, <1>3, <1>4 DEF JoinedInv

\* Every step keeps the invariant.
LEMMA JoinedStep == JoinedInv /\ [Next]_vars => JoinedInv'
<1> SUFFICES ASSUME JoinedInv, [Next]_vars PROVE JoinedInv'
    OBVIOUS
<1>1. JournalInv'
    BY JoinedStepsJournal, JournalStep DEF JoinedInv
<1>2. Keeps
    <2>1. CASE Authorize
        BY <2>1, BeginKeeps, CheckKeeps, MarkKeeps DEF Authorize
    <2>2. CASE ~Authorize
        BY <2>2, AdmissionKeeps, DeliverKeeps, RecordKeeps, CrashKeeps, WorldKeeps, AsideJoinedKeeps DEF Next
    <2> QED
        BY <2>1, <2>2
<1> QED
    BY <1>1, <1>2 DEF JoinedInv, Keeps

\* The invariant holds in every reachable state.
THEOREM JoinedInvariant == Spec => []JoinedInv
BY JoinedInitHolds, JoinedStep, PTL DEF Spec

\* The joined path is well typed.
THEOREM JoinedTyped == Spec => []TypeOK
<1>1. JoinedInv => TypeOK
    BY DEF JoinedInv, JournalInv, WorldInv, OwnerInv, CallInv, TypeOK
<1> QED
    BY <1>1, JoinedInvariant, PTL

\* The joined path implements the journal: whatever is proved of JournalSpec,
\* the rate and the generation line among it, holds of the whole path.
THEOREM ImplementsJournal == Spec => JournalSpec
<1>1. Init => JournalInit
    BY DEF Init
<1> QED
    BY <1>1, JoinedInvariant, JoinedStepsJournal, PTL DEF Spec, JournalSpec

\* A FrozenWrite is returned at most once per operation, across refusals,
\* retries, lost marks and crashes (refuse_resend_without_qualified_recovery
\* before mark_dispatched).
THEOREM AtMostOneGrant == Spec => []GrantedOnce
<1>1. JoinedInv => GrantedOnce
    BY DEF JoinedInv, OwnerInv, Course, GrantedOnce
<1> QED
    BY <1>1, JoinedInvariant, PTL

\* What was let go and may still reach the peer is outstanding in the journal,
\* and terminal is said only of what the peer carried out
\* (record_confirmed_terminal, record_unknown_unresolved).
THEOREM NoneForgotten == Spec => []NothingForgotten
<1>1. JoinedInv => NothingForgotten
    <2> SUFFICES ASSUME JoinedInv, NEW op \in Ops
                 PROVE  /\ granted[op] > 0 /\ op \notin applied =>
                              lifecycle[op] \in {"dispatched", "unresolved"}
                        /\ lifecycle[op] = "terminal" => op \in applied /\ op \notin wire
        BY DEF NothingForgotten
    <2>1. Course(op) /\ lifecycle[op] \in States /\ granted[op] \in Nat
        BY DEF JoinedInv, OwnerInv, JournalInv, JournalTypeOK
    <2> QED
        BY <2>1 DEF Course, States
<1> QED
    BY <1>1, JoinedInvariant, PTL

\* A call that passed both reads of require_activation_current_for_handoff
\* overlapped a moment at which its row's publication was accepted and active.
THEOREM SawPublication == Spec => []HandoffSawPublication
<1>1. JoinedInv => HandoffSawPublication
    BY DEF JoinedInv, CallInv, HandoffSawPublication, Calls
<1> QED
    BY <1>1, JoinedInvariant, PTL

\* Only the newest generation of a target is granted a write
\* (require_durable_currency before mark_dispatched).
THEOREM NewestGranted == Spec => GrantsNewest
<1>1. ASSUME JoinedInv, [Next]_vars, NEW op \in Ops, granted'[op] > granted[op],
             NEW later \in Rows, TargetOf(later) = TargetOf(op)
      PROVE  Generation(later) <= Generation(op)
    <2>1. granted[op] \in Nat
        BY <1>1 DEF JoinedInv, OwnerInv
    <2>2. granted'[op] # granted[op]
        BY <1>1, <2>1
    <2>3. MarkDispatched
        BY <1>1, <2>2
        DEF Next, AdmitJoined, TransferNarrow, Authorize, AuthorizeBegin, CheckAccepted, CheckActive, CheckGates,
            CheckCurrency, Goto, MarkFails, MarkLost, AuthorizeRefused, Deliver, Send, PeerApplies, PeerRefuses,
            AnswerTimesOut, Record, RecordConfirmedTerminal, RecordUnknownUnresolved, Crash, World, Journal, vars
    <2>4. op = call.op /\ call # NoCall /\ call.stage = "mark"
        BY <1>1, <2>2, <2>3 DEF MarkDispatched, InStage, JoinedInv, OwnerInv
    <2>5. current[TargetOf(op)] = Generation(op)
        BY <1>1, <2>4 DEF JoinedInv, CallInv
    <2>6. Generation(later) \in 1..current[TargetOf(later)]
        BY <1>1, GenerationAtMost DEF JoinedInv
    <2>7. Generation(op) \in Nat
        BY <1>1, <2>4, CallRow, RowFields DEF JoinedInv, JournalInv
    <2> QED
        BY <1>1, <2>5, <2>6, <2>7
<1>2. JoinedInv /\ [Next]_vars =>
          [\A op \in Ops : granted'[op] > granted[op] =>
              \A later \in Rows : TargetOf(later) = TargetOf(op) => Generation(later) <= Generation(op)]_vars
    BY <1>1
<1> QED
    BY <1>2, JoinedInvariant, PTL DEF Spec, GrantsNewest

\* A transferred obligation keeps its request under a later generation, and its
\* old author can send neither row (check_transfer_narrow,
\* transfer_narrow_via_new_admission).
THEOREM TransfersNarrow == Spec => []TransferIsNarrow
<1>1. JoinedInv => TransferIsNarrow
    BY DEF JoinedInv
<1> QED
    BY <1>1, JoinedInvariant, PTL
=============================================================================
