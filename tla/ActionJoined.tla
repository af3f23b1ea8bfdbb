---------------------------- MODULE ActionJoined ----------------------------
(***************************************************************************)
(* The joined path from an admitted operation to the wire and back         *)
(* (src/src/action_joined.rs with action_custody, action_publication,      *)
(* action_expiry and action_dispatch): the owner of the journal authorizes *)
(* a handoff through a series of checks, marks it dispatched, lets the     *)
(* write go, and records the outcome.  One call of the owner runs at a     *)
(* time (one writer); the clock, the accepted and active publication,      *)
(* holds and revocations change between its checks, requests and answers   *)
(* get lost or arrive late, and the process may crash at any point.        *)
(***************************************************************************)
EXTENDS ActionJournal

CONSTANTS
    Deadline,       \* DEADLINE_SECS: age at which a SET may no longer go
    MaxRev,         \* bound on accepted revisions
    NoCall

ASSUME JoinedAssumption ==
    /\ Deadline \in Nat /\ MaxRev \in Nat

Scopes == {t.scope : t \in Targets}
Stages == {"accepted", "active", "gates", "currency", "mark"}
Outcomes == {"none", "waiting", "confirmed", "uncertain"}
\* A call, and whether the publication of its row was the accepted and the
\* active one at some moment since it began.
Calls == [op : Ops, stage : Stages, coherent : BOOLEAN]

ASSUME NoCallAssumption == NoCall \notin Calls

VARIABLES
    accepted,   \* revision of the current acceptance of the scope; 0: none
    active,     \* revision of the durable active pointer; 0: none
    held,       \* scopes on hold (ScopeHolds)
    excluded,   \* actors revoked and excluded as old writers
    call,       \* the authorize_joined_* call in progress
    permits,    \* operations whose FrozenWrite the owner holds, unsent
    wire,       \* requests on their way to the peer
    applied,    \* operations whose write the peer has carried out
    outcomes,   \* what the owner knows of a sent request (Outcome)
    granted     \* how many FrozenWrites were ever returned for an operation

world == <<accepted, active, held, excluded>>
peer == <<wire, applied>>
owner == <<call, permits, outcomes>>
vars == <<journalVars, world, peer, owner, granted>>

TypeOK ==
    /\ JournalTypeOK
    /\ accepted \in 0..MaxRev /\ active \in 0..MaxRev
    /\ held \subseteq Scopes /\ excluded \subseteq Actors
    /\ call \in Calls \cup {NoCall}
    /\ permits \subseteq Ops /\ wire \subseteq Ops /\ applied \subseteq Ops
    /\ outcomes \in [Ops -> Outcomes]
    /\ granted \in [Ops -> Nat]

Init ==
    /\ JournalInit
    /\ accepted = 0 /\ active = 0
    /\ held = {} /\ excluded = {}
    /\ call = NoCall
    /\ permits = {} /\ wire = {} /\ applied = {}
    /\ outcomes = [op \in Ops |-> "none"]
    /\ granted = [op \in Ops |-> 0]

-----------------------------------------------------------------------------
\* admit_joined: the seal of the preview is verified, then Journal::admit.
AdmitJoined(op, q, actor, expected) ==
    /\ call = NoCall
    /\ Admit(op, q, actor, expected, NoOp) \/ AdmitLost(op, q, actor, expected, NoOp)
    /\ UNCHANGED <<world, peer, owner, granted>>

\* Mutant: the obligation of an actor that still writes can be transferred.
CheckTransfer_OldStillWrites(old, op, q, actor) ==
    /\ op # old
    /\ actor # rows[old].actor
    /\ actor \notin excluded
    /\ q = rows[old].req

\* check_transfer_narrow and check_transfer_equivalence: a new operation of
\* another, permitted actor, for exactly the request of the excluded one.
CheckTransfer(old, op, q, actor) ==
    /\ op # old
    /\ actor # rows[old].actor
    /\ rows[old].actor \in excluded
    /\ actor \notin excluded
    /\ q = rows[old].req

\* transfer_narrow_via_new_admission: the new row names the old as predecessor.
TransferNarrow(old, op, q, actor, expected) ==
    /\ call = NoCall
    /\ old \in Rows
    /\ q.target.scope \notin held
    /\ CheckTransfer(old, op, q, actor)
    /\ Admit(op, q, actor, expected, old) \/ AdmitLost(op, q, actor, expected, old)
    /\ UNCHANGED <<world, peer, owner, granted>>

-----------------------------------------------------------------------------
\* Mutant: an operation whose dispatch is uncertain may be sent again.
MayDispatch_Resends(op) == lifecycle[op] \in {"admitted", "unresolved"}

\* refuse_resend_without_qualified_recovery.
MayDispatch(op) == lifecycle[op] = "admitted"

InStage(stage) == call # NoCall /\ call.stage = stage

Goto(stage) ==
    /\ call' = [call EXCEPT !.stage = stage]
    /\ UNCHANGED <<journalVars, world, peer, permits, outcomes, granted>>

\* authorize_joined_setpoint and _release: the row is read again, must be
\* unsent, and the preview must be the admitted one (any other is refused).
AuthorizeBegin(op) ==
    /\ call = NoCall
    /\ op \in Rows
    /\ MayDispatch(op)
    /\ call' = [op |-> op, stage |-> "accepted",
                coherent |-> accepted = rows[op].req.rev /\ active = accepted]
    /\ UNCHANGED <<journalVars, world, peer, permits, outcomes, granted>>

\* Mutant: the active pointer alone is read.
CheckAccepted_Skipped ==
    /\ InStage("accepted")
    /\ Goto("active")

\* require_activation_current_for_handoff, its first read: current acceptance.
CheckAccepted ==
    /\ InStage("accepted")
    /\ accepted = rows[call.op].req.rev
    /\ Goto("active")

\* Its second read: the active pointer joins the same revision.
CheckActive ==
    /\ InStage("active")
    /\ active = rows[call.op].req.rev
    /\ Goto("gates")

\* assess_deadline_wall is Active: created <= now < created + Deadline.
WallActive(op) ==
    rows[op].created <= now /\ now < rows[op].created + Deadline

\* Custody, publication and expiry gates of a SET or a release: a hold stops
\* SETs only, releases have no deadline, excluded actors send nothing.  The
\* caller's Current token, impact, expiry, freshness and cancellation can
\* refuse at this point as well: AuthorizeRefused.
CheckGates ==
    /\ InStage("gates")
    /\ rows[call.op].actor \notin excluded
    /\ rows[call.op].req.kind = "set" =>
          /\ TargetOf(call.op).scope \notin held
          /\ WallActive(call.op)
    /\ Goto("currency")

\* Mutant: the durable currency is not asked.
CheckCurrency_Skipped ==
    /\ InStage("currency")
    /\ Goto("mark")

\* require_durable_currency: no later admission owns the target.
CheckCurrency ==
    /\ InStage("currency")
    /\ current[TargetOf(call.op)] = Generation(call.op)
    /\ Goto("mark")

\* mark_dispatched commits and the FrozenWrite is returned.
MarkDispatched ==
    /\ InStage("mark")
    /\ Transition(call.op, "dispatched")
    /\ granted' = [granted EXCEPT ![call.op] = @ + 1]
    /\ permits' = permits \cup {call.op}
    /\ call' = NoCall
    /\ UNCHANGED <<world, peer, outcomes>>

\* Mutant: an unknown outcome of the mark still returns the write, and the
\* mark did not commit.
MarkFails_GrantsAnyway ==
    /\ InStage("mark")
    /\ granted' = [granted EXCEPT ![call.op] = @ + 1]
    /\ permits' = permits \cup {call.op}
    /\ call' = NoCall
    /\ UNCHANGED <<journalVars, world, peer, outcomes>>

\* mark_dispatched reports an error and nothing was committed.
MarkFails ==
    /\ InStage("mark")
    /\ call' = NoCall
    /\ UNCHANGED <<journalVars, world, peer, permits, outcomes, granted>>

\* mark_dispatched commits and its answer is lost: no write is returned.
MarkLost ==
    /\ InStage("mark")
    /\ Transition(call.op, "dispatched")
    /\ call' = NoCall
    /\ UNCHANGED <<world, peer, permits, outcomes, granted>>

\* Any check refuses, or a read fails: the row keeps its state.
AuthorizeRefused ==
    /\ call # NoCall
    /\ call' = NoCall
    /\ UNCHANGED <<journalVars, world, peer, permits, outcomes, granted>>

-----------------------------------------------------------------------------
\* The holder of the FrozenWrite sends it, once (no APDU retries).
Send(op) ==
    /\ op \in permits
    /\ permits' = permits \ {op}
    /\ wire' = wire \cup {op}
    /\ outcomes' = [outcomes EXCEPT ![op] = "waiting"]
    /\ UNCHANGED <<journalVars, world, applied, call, granted>>

\* The peer carries the write out; its answer arrives if someone waits for it
\* and it is not lost.
PeerApplies(op, answered) ==
    /\ op \in wire
    /\ wire' = wire \ {op}
    /\ applied' = applied \cup {op}
    /\ outcomes' = IF answered /\ outcomes[op] = "waiting"
                     THEN [outcomes EXCEPT ![op] = "confirmed"] ELSE outcomes
    /\ UNCHANGED <<journalVars, world, call, permits, granted>>

\* The request is lost or refused by the peer.
PeerRefuses(op) ==
    /\ op \in wire
    /\ wire' = wire \ {op}
    /\ outcomes' = IF outcomes[op] = "waiting"
                     THEN [outcomes EXCEPT ![op] = "uncertain"] ELSE outcomes
    /\ UNCHANGED <<journalVars, world, applied, call, permits, granted>>

\* The owner stops waiting; the request may still be carried out later.
AnswerTimesOut(op) ==
    /\ outcomes[op] = "waiting"
    /\ outcomes' = [outcomes EXCEPT ![op] = "uncertain"]
    /\ UNCHANGED <<journalVars, world, peer, call, permits, granted>>

\* Mutant: a timeout is taken for success.
RecordConfirmedTerminal_AnyOutcome(op) ==
    /\ call = NoCall
    /\ outcomes[op] \in {"confirmed", "uncertain"}
    /\ Transition(op, "terminal")
    /\ outcomes' = [outcomes EXCEPT ![op] = "none"]
    /\ UNCHANGED <<world, peer, call, permits, granted>>

\* record_confirmed_terminal: only Confirmed of this very operation is
\* terminal.  A failed or lost mark leaves the outcome with the owner.
RecordConfirmedTerminal(op) ==
    /\ call = NoCall
    /\ outcomes[op] = "confirmed"
    /\ Transition(op, "terminal")
    /\ outcomes' \in {outcomes, [outcomes EXCEPT ![op] = "none"]}
    /\ UNCHANGED <<world, peer, call, permits, granted>>

\* record_unknown_unresolved, of an uncertain outcome or of a row that a
\* fresh process finds outstanding.
RecordUnknownUnresolved(op) ==
    /\ call = NoCall
    /\ op \in Rows
    /\ outcomes[op] = "uncertain" \/ (outcomes[op] = "none" /\ op \notin permits)
    /\ Transition(op, "unresolved")
    /\ outcomes' = [outcomes EXCEPT ![op] = "none"]
    /\ UNCHANGED <<world, peer, call, permits, granted>>

-----------------------------------------------------------------------------
\* The process dies: calls, permits, outcomes and the channel are gone, the
\* journal and what is on the wire stay.
Crash ==
    /\ Reopen
    /\ call' = NoCall
    /\ permits' = {}
    /\ outcomes' = [op \in Ops |-> "none"]
    /\ UNCHANGED <<world, peer, granted>>

\* The acceptance store, the operators and the access gate, meanwhile.
Accept ==
    /\ accepted < MaxRev
    /\ accepted' = accepted + 1
    /\ UNCHANGED <<active, held, excluded, call>>

\* Only the current acceptance can be activated, and only once.
Activate ==
    /\ active # accepted
    /\ active' = accepted
    /\ call' = IF call # NoCall /\ accepted = rows[call.op].req.rev
                 THEN [call EXCEPT !.coherent = TRUE] ELSE call
    /\ UNCHANGED <<accepted, held, excluded>>

Hold(s) ==
    /\ held' = held \cup {s}
    /\ UNCHANGED <<accepted, active, excluded, call>>

Unhold(s) ==
    /\ held' = held \ {s}
    /\ UNCHANGED <<accepted, active, excluded, call>>

Exclude(a) ==
    /\ excluded' = excluded \cup {a}
    /\ UNCHANGED <<accepted, active, held, call>>

World ==
    /\ \/ Accept \/ Activate
       \/ \E s \in Scopes : Hold(s) \/ Unhold(s)
       \/ \E a \in Actors : Exclude(a)
    /\ UNCHANGED <<journalVars, peer, permits, outcomes, granted>>

Journal ==
    /\ Drain \/ \E t \in 0..MaxTime : SetClock(t)
    /\ UNCHANGED <<world, peer, owner, granted>>

Authorize ==
    \/ \E op \in Ops : AuthorizeBegin(op)
    \/ CheckAccepted \/ CheckActive \/ CheckGates \/ CheckCurrency
    \/ MarkDispatched \/ MarkFails \/ MarkLost \/ AuthorizeRefused

Deliver(op) ==
    \/ Send(op)
    \/ \E answered \in BOOLEAN : PeerApplies(op, answered)
    \/ PeerRefuses(op) \/ AnswerTimesOut(op)

Record(op) == RecordConfirmedTerminal(op) \/ RecordUnknownUnresolved(op)

Next ==
    \/ \E op \in Ops, q \in Requests, a \in Actors, e \in 0..Cardinality(Ops) :
          \/ AdmitJoined(op, q, a, e)
          \/ \E old \in Ops : TransferNarrow(old, op, q, a, e)
    \/ Authorize
    \/ \E op \in Ops : Deliver(op) \/ Record(op)
    \/ Crash \/ World \/ Journal

Spec == Init /\ [][Next]_vars

-----------------------------------------------------------------------------
\* A FrozenWrite is returned at most once per operation, across refusals,
\* retries, lost marks and crashes ("uncertain-not-resend").
GrantedOnce == \A op \in Ops : granted[op] <= 1

\* What may still reach the peer, or reached it unconfirmed, is never taken
\* for settled or for unsent: it is outstanding, and a restart finds it.
\* Terminal is said only of a write the peer carried out.
NothingForgotten ==
    \A op \in Ops :
        /\ granted[op] > 0 /\ op \notin applied => lifecycle[op] \in {"dispatched", "unresolved"}
        /\ lifecycle[op] = "terminal" => op \in applied /\ op \notin wire

\* A FrozenWrite is returned only to the newest generation of its target: once
\* a later admission is committed, the earlier one can no longer be sent.
GrantsNewest ==
    [][\A op \in Ops : granted'[op] > granted[op] =>
          \A later \in Rows : TargetOf(later) = TargetOf(op) => Generation(later) <= Generation(op)]_vars

\* The acceptance and the active pointer are read one after the other while
\* both move.  Even so, a call that passed the two reads overlapped a moment at
\* which its row's publication was accepted and active at once
\* (require_activation_current_for_handoff).
HandoffSawPublication ==
    call # NoCall /\ call.stage \in {"gates", "currency", "mark"} => call.coherent

\* A transferred obligation: same target and request, a later generation, and
\* another author, who was not excluded while the old one was; the excluded
\* author of the old row can send neither.
TransferIsNarrow ==
    \A op \in Rows : LET old == rows[op].pred IN
        old # NoOp => /\ old \in Rows /\ old # op
                      /\ rows[old].req = rows[op].req
                      /\ Generation(old) < Generation(op)
                      /\ rows[old].actor \in excluded \ {rows[op].actor}

=============================================================================
