------------------------------- MODULE Binding -------------------------------
(***************************************************************************)
(* The binding registry (src/src/binding): equipment, spaces, sources,     *)
(* points, proposals, retirements and findings as one durable history.     *)
(*                                                                         *)
(* Every mutation replays the history, checks against it, and writes one   *)
(* row guarded by the exact history that was replayed.  A proposal or a    *)
(* finding also captures the access history, authenticates, and carries    *)
(* that guard and the credential's expiry.  Proposals and findings have an *)
(* operation identity under which any process may try them again.          *)
(***************************************************************************)
EXTENDS Naturals, Sequences, FiniteSets

CONSTANTS
    Registries,         \* processes with an open registry
    Installed,          \* installed identities
    Addresses,          \* equipment addresses
    Points,             \* point records that may be recorded
    Candidates,         \* proposals callers make, well formed or not, of no status yet
    Operations,         \* operation identities
    Begun,              \* histories an earlier run may have left
    MAX_REVISION,       \* largest BindingRevision
    MaxHistory,         \* bound on the rows
    MaxAccess,          \* bound on changes of the access history
    NoWork

ASSUME BindingAssumption ==
    /\ {MAX_REVISION, MaxHistory, MaxAccess} \subseteq Nat
    /\ NoWork \notin Operations

VARIABLES
    history,    \* the binding rows; entitled is history
    work,       \* the row each process is about to submit, and its guards
    intents,    \* what each operation identity was used for
    told,       \* the row each operation was reported committed at
    access      \* the access history: its version, and what became of the credential

bindingVars == <<history, work, intents, told, access>>

BindingInit ==
    /\ history \in Begun
    /\ work = [r \in Registries |-> NoWork]
    /\ intents = [o \in Operations |-> NoWork]
    /\ told = [o \in Operations |-> 0]
    /\ access = [version |-> 0, revoked |-> FALSE, expired |-> FALSE]

-----------------------------------------------------------------------------
\* What replay rebuilds from a history.
Rows(h, kind) == {i \in DOMAIN h : h[i].kind = kind}
identities(h) == {h[i].body.id : i \in Rows(h, "equipment") \cup Rows(h, "place")}
equipment(h) == {h[i].body.id : i \in Rows(h, "equipment")}
points(h) == {h[i].body.point : i \in Rows(h, "point")}
bindings(h) == {h[i].body.binding : i \in Rows(h, "propose")}
retired(h) == {h[i].body.id : i \in Rows(h, "retire")}
address_of(h, id) == h[CHOOSE i \in Rows(h, "equipment") : h[i].body.id = id].body.address

\* Equipment recorded at an address that was retired before.
reassessment(h) ==
    {h[i].body.id : i \in {j \in Rows(h, "equipment") :
                        \E k \in Rows(h, "retire") : k < j /\ h[k].body.address = h[j].body.address}}

\* bump_revision on every row but a finding, saturating.
revision(h) ==
    LET n == Len(h) - Cardinality(Rows(h, "finding"))
    IN  IF n > MAX_REVISION THEN MAX_REVISION ELSE n

\* replay_finding: the citable generation is the binding revision.
replay_finding(row) == row.kind = "finding" => row.body.finding.generation = row.revision

\* replay: any gap in the sequence or in the revisions refuses the history.
replay(h) ==
    \A i \in DOMAIN h :
        /\ h[i].sequence = i
        /\ h[i].revision = revision(SubSeq(h, 1, i - 1))
        /\ replay_finding(h[i])

\* propose: the structural checks against the recorded point.
propose(b, point) ==
    /\ b.scope = point.scope
    /\ b.class = point.class
    /\ b.unit = point.unit
    /\ b.requested = b.effective
    /\ b.feedback # "ambiguous"

\* Mutant: a retirement since the proposal was made is not looked at.
resolve_Retired(h, b) ==
    /\ b.equipment \notin reassessment(h)
    /\ \E p \in points(h) : p.equipment = b.equipment /\ propose(b, p)

\* resolve: a cached proposal against the replayed truth.
resolve(h, b) ==
    /\ b.equipment \notin retired(h)
    /\ b.equipment \notin reassessment(h)
    /\ \E p \in points(h) : p.equipment = b.equipment /\ propose(b, p)

-----------------------------------------------------------------------------
\* prepare_row: sequence and revision follow the replayed history.  Whether the
\* caller is entitled is known when the row is committed.
prepare_row(r, kind, body, op, at) ==
    /\ kind # "finding" => revision(history) < MAX_REVISION
    /\ work' = [work EXCEPT ![r] =
                  [at |-> at, op |-> op, guard |-> history,
                   captured |-> IF at = "captured" THEN access.version ELSE 0,
                   row |-> [sequence |-> Len(history) + 1, revision |-> revision(history), op |-> op,
                            kind |-> kind, body |-> body, entitled |-> FALSE]]]

\* record_equipment, record_space and record_source: one namespace of
\* identities.
record_equipment(r, id, address) ==
    /\ work[r] = NoWork /\ Len(history) < MaxHistory
    /\ replay(history)
    /\ id \notin identities(history)
    /\ prepare_row(r, "equipment", [id |-> id, address |-> address], NoWork, "unguarded")
    /\ UNCHANGED <<history, intents, told, access>>

record_place(r, id) ==
    /\ work[r] = NoWork /\ Len(history) < MaxHistory
    /\ replay(history)
    /\ id \notin identities(history)
    /\ prepare_row(r, "place", [id |-> id], NoWork, "unguarded")
    /\ UNCHANGED <<history, intents, told, access>>

\* record_point: of equipment that need not be recorded yet.
record_point(r, p) ==
    /\ work[r] = NoWork /\ Len(history) < MaxHistory
    /\ replay(history)
    /\ ~\E q \in points(history) : q.equipment = p.equipment
    /\ prepare_row(r, "point", [point |-> p], NoWork, "unguarded")
    /\ UNCHANGED <<history, intents, told, access>>

retire(r, id) ==
    /\ work[r] = NoWork /\ Len(history) < MaxHistory
    /\ replay(history)
    /\ id \in equipment(history) \ retired(history)
    /\ prepare_row(r, "retire", [id |-> id, address |-> address_of(history, id)], NoWork, "unguarded")
    /\ UNCHANGED <<history, intents, told, access>>

\* A new identity for work on a binding as it is at the current revision.
intend(o, kind, b) ==
    /\ intents[o] = NoWork
    /\ replay(history)
    /\ intents' = [intents EXCEPT ![o] = [kind |-> kind, binding |-> b, revision |-> revision(history)]]
    /\ UNCHANGED <<history, work, told, access>>

\* propose_with_credential: against the recorded point, before submit_proposal.
propose_with_credential(o, b) ==
    /\ b.equipment \notin reassessment(history)
    /\ \E p \in points(history) : p.equipment = b.equipment /\ propose(b, p)
    /\ intend(o, "propose", [b EXCEPT !.status = "valid"])

\* import_binding makes the same checks of a conversion's unit and endpoint.
import_binding(b, point) == propose(b, point)

import_with_credential(o, b) ==
    /\ b.equipment \notin reassessment(history)
    /\ \E p \in points(history) : p.equipment = b.equipment /\ import_binding(b, p)
    /\ intend(o, "propose", [b EXCEPT !.status = "imported"])

\* emit_finding: of any binding a caller may have kept.
emit_finding(o, b) ==
    \E status \in {"valid", "imported"} : intend(o, "finding", [b EXCEPT !.status = status])

\* The receipt of an operation identity.
receipt(o) == {i \in DOMAIN history : history[i].op = o}

\* reconcile_proposal, also the first step of a submission: a receipt is
\* answered with the original commit.
reconcile_proposal(r, o) ==
    /\ work[r] = NoWork /\ intents[o] # NoWork
    /\ replay(history)
    /\ \E i \in receipt(o) :
          /\ history[i].body.binding = intents[o].binding /\ history[i].revision = intents[o].revision
          /\ told' = [told EXCEPT ![o] = i]
    /\ UNCHANGED <<history, work, intents, access>>

\* What submit_proposal and emit_finding_operation require of the replayed
\* history before they capture the access history.
Submittable(r, o, kind) ==
    /\ work[r] = NoWork /\ Len(history) < MaxHistory
    /\ intents[o] # NoWork /\ intents[o].kind = kind
    /\ replay(history)
    /\ receipt(o) = {}
    /\ revision(history) = intents[o].revision
    /\ resolve(history, intents[o].binding)
    /\ UNCHANGED <<history, intents, told, access>>

submit_proposal(r, o) ==
    /\ Submittable(r, o, "propose")
    /\ prepare_row(r, "propose", [binding |-> intents[o].binding], o, "captured")

\* The identity of a finding is derived from its binding and revision.
for_binding(b, rev) == [of |-> b, generation |-> rev]

emit_finding_operation(r, o) ==
    LET b == intents[o].binding
    IN  /\ Submittable(r, o, "finding")
        /\ b \in bindings(history)
        /\ prepare_row(r, "finding", [binding |-> b, finding |-> for_binding(b, revision(history))],
                       o, "captured")

\* Mutant: the access history is captured after the credential was checked.
authority_CapturesLate(r) ==
    /\ work[r] # NoWork /\ work[r].at = "captured"
    /\ ~access.revoked /\ ~access.expired
    /\ work' = [work EXCEPT ![r].at = "unguarded"]
    /\ UNCHANGED <<history, intents, told, access>>

\* authority: enter_review or enter_publish, after the capture.
authority(r) ==
    /\ work[r] # NoWork /\ work[r].at = "captured"
    /\ ~access.revoked /\ ~access.expired
    /\ work' = [work EXCEPT ![r].at = "guarded"]
    /\ UNCHANGED <<history, intents, told, access>>

\* Mutant: the guard looks for the replayed rows and not for others.
Intact_Prefix(w) == Len(history) >= Len(w.guard) /\ SubSeq(history, 1, Len(w.guard)) = w.guard

\* The guard of replay: count and bytes of every row.
Intact(w) == history = w.guard

\* The submitted transaction: receipt, history guard, access guard, expiry.
\* Its answer may be lost.
submitted(r) ==
    LET w == work[r]
        entitled == w.op = NoWork \/ (~access.revoked /\ ~access.expired)
    IN  /\ w # NoWork /\ w.at \in {"guarded", "unguarded"}
        /\ w.op = NoWork \/ receipt(w.op) = {}
        /\ Intact(w)
        /\ w.at = "guarded" => access.version = w.captured /\ ~access.expired
        /\ history' = Append(history, [w.row EXCEPT !.entitled = entitled])
        /\ work' = [work EXCEPT ![r] = NoWork]
        /\ \/ w.op # NoWork /\ told' = [told EXCEPT ![w.op] = Len(history')]
           \/ UNCHANGED told
        /\ UNCHANGED <<intents, access>>

\* Another process committed the same request meanwhile: its receipt answers.
submitted_before(r) ==
    LET w == work[r]
    IN  /\ w # NoWork /\ w.at = "guarded"
        /\ \E i \in receipt(w.op) :
              /\ SubSeq(history, 1, i - 1) = w.guard
              /\ told' = [told EXCEPT ![w.op] = i]
        /\ work' = [work EXCEPT ![r] = NoWork]
        /\ UNCHANGED <<history, intents, access>>

\* A refusal, a conflict, or the process dies.
give_up(r) ==
    /\ work[r] # NoWork
    /\ work' = [work EXCEPT ![r] = NoWork]
    /\ UNCHANGED <<history, intents, told, access>>

\* The access history grows, with or without touching this credential; its
\* expiry passes.
AccessChanges ==
    /\ access.version < MaxAccess
    /\ \E revoked \in {access.revoked, TRUE} :
          access' = [access EXCEPT !.version = @ + 1, !.revoked = revoked]
    /\ UNCHANGED <<history, work, intents, told>>

Expires ==
    /\ ~access.expired
    /\ access' = [access EXCEPT !.expired = TRUE]
    /\ UNCHANGED <<history, work, intents, told>>

BindingNext ==
    \/ \E r \in Registries :
          \/ \E id \in Installed :
                \/ \E a \in Addresses : record_equipment(r, id, a)
                \/ record_place(r, id) \/ retire(r, id)
          \/ \E p \in Points : record_point(r, p)
          \/ \E o \in Operations :
                submit_proposal(r, o) \/ emit_finding_operation(r, o) \/ reconcile_proposal(r, o)
          \/ authority(r) \/ submitted(r) \/ submitted_before(r) \/ give_up(r)
    \/ \E o \in Operations, b \in Candidates :
          propose_with_credential(o, b) \/ import_with_credential(o, b) \/ emit_finding(o, b)
    \/ AccessChanges
    \/ Expires

BindingSpec == BindingInit /\ [][BindingNext]_bindingVars

-----------------------------------------------------------------------------
\* A proposal or a finding that was true when its row was committed: its equipment
\* neither retired nor awaiting reassessment, its point matching, a finding's
\* proposal durable at the same revision.
TrueOf(h, row) ==
    LET b == row.body.binding
    IN  /\ b.equipment \notin retired(h) \cup reassessment(h)
        /\ \E p \in points(h) : p.equipment = b.equipment /\ propose(b, p)
        /\ row.revision = revision(h)
        /\ row.kind = "finding" => b \in bindings(h)

\* What of a history was true and entitled as it was committed, row by row.
HistoryTrue(h) ==
    /\ replay(h)
    /\ \A i, j \in DOMAIN h : i # j =>
          /\ {i, j} \subseteq Rows(h, "equipment") \cup Rows(h, "place") => h[i].body.id # h[j].body.id
          /\ h[i].op = NoWork \/ h[i].op # h[j].op
    /\ \A i \in Rows(h, "propose") \cup Rows(h, "finding") :
          h[i].entitled /\ TrueOf(SubSeq(h, 1, i - 1), h[i])

\* An earlier run leaves what this one keeps.
ASSUME BegunAssumption ==
    \A h \in Begun : HistoryTrue(h) /\ h \in Seq({h[i] : i \in DOMAIN h})

\* Whatever the processes interleave, the history can be replayed, an identity
\* is recorded once, an operation commits once and is reported at its row, and
\* every proposal and finding was true and its credential live when it was
\* committed (replay, submit_proposal, emit_finding_operation, prepare_row).
BindingTruth ==
    /\ HistoryTrue(history)
    /\ \A o \in Operations : told[o] # 0 =>
          /\ told[o] \in receipt(o)
          /\ history[told[o]].body.binding = intents[o].binding
=============================================================================
