---------------------------- MODULE Publication -----------------------------
(***************************************************************************)
(* Acceptance and activation of the publications of one scope (src/src/    *)
(* accept/store.rs, activation.rs, publication.rs).  A caller reads, checks *)
(* and builds a ticket, and later submits it: the ticket's transaction      *)
(* repeats the checks that matter as guards on the exact rows read.  Other  *)
(* callers, the registry, the access gate, the seal store and the clock     *)
(* move between any two of its reads; answers get lost; a caller may be     *)
(* cancelled or die anywhere and come back with the same request.           *)
(*                                                                          *)
(* An event and the receipt of its operation are one transaction (module    *)
(* Mutation), so the receipt of an operation is the event that names it.    *)
(* A commit by a child that outlived its process is the commit, at that     *)
(* moment, of another caller: callers need not be of one process.           *)
(***************************************************************************)
EXTENDS Naturals, Sequences

CONSTANTS
    Callers,
    Ops,                \* operation identities, shared by both kinds of event
    Seals,              \* publications: a staged config and its seal
    AcceptRequests,     \* AcceptanceRequest values callers use
    ActivateRequests,   \* ActivationRequest values, truthful or not
    BindingOf,          \* registry revision each publication was staged at
    MaxAccepted,        \* MAX_ACCEPTED
    MaxRows,            \* bound on access rows and on registry rows
    NoRequest

ASSUME RequestAssumption ==
    /\ AcceptRequests \subseteq [op : Ops, expected : Nat, seal : Seals]
    /\ ActivateRequests \subseteq [op : Ops, expected : Nat, acc : AcceptRequests]
    /\ AcceptRequests \cap ActivateRequests = {}
    /\ NoRequest \notin AcceptRequests \cup ActivateRequests

ASSUME LimitAssumption ==
    /\ MaxAccepted \in Nat /\ MaxRows \in Nat
    /\ BindingOf \in [Seals -> Nat]

VARIABLES
    publication,    \* "none", "staged", "sealed" or "released", per seal
    access,         \* access history: number of rows, and whether it permits
    expired,        \* the credential's end has passed on the database clock
    registry,       \* binding history: number of rows, and its revision
    accepts,        \* the scope's acceptance events, in order
    actives,        \* the scope's activation events, in order
    pc,             \* where each caller is
    req,            \* its request
    round,          \* which pass of checks it runs, see Rounds
    guard,          \* what its ticket was built from
    seen,           \* lengths of the two chains as its last reads saw them
    answer          \* what the last submit of its ticket told it

chains == <<accepts, actives>>
world == <<publication, access, expired, registry>>
calls == <<pc, req, round, guard, seen, answer>>
vars == <<world, chains, calls>>

Requests == AcceptRequests \cup ActivateRequests
PCs == {"idle", "verify", "capture", "enter", "lookup", "first", "second", "order",
        "seal", "pending", "reconcile", "commit", "resolve"}
\* prepare and replay build or return without a ticket; submit checks the
\* ticket before its transaction, resubmit finds it already committed.
Rounds == {"prepare", "replay", "submit", "resubmit"}
Answers == {"none", "committed", "lost", "unknown"}
NoGuard == [access |-> 0, registry |-> 0, revision |-> 0]
Unseen == [active |-> 0, accepted |-> 0]

IsAccept(q) == q \in AcceptRequests
SealOf(q) == IF IsAccept(q) THEN q.seal ELSE q.acc.seal
NextRow == Len(accepts) + Len(actives) + 1
\* The accepted revision an activation names.
Revision(e) == e.req.acc.expected + 1

GuardRows == [access : Nat, registry : Nat, revision : Nat]
AcceptEvent == [row : Nat, req : AcceptRequests, guard : GuardRows]
ActiveEvent == [row : Nat, req : ActivateRequests]

TypeOK ==
    /\ publication \in [Seals -> {"none", "staged", "sealed", "released"}]
    /\ access \in [rows : Nat, permits : BOOLEAN]
    /\ expired \in BOOLEAN
    /\ registry \in [rows : Nat, revision : Nat]
    /\ accepts \in Seq(AcceptEvent) /\ Len(accepts) <= MaxAccepted
    /\ actives \in Seq(ActiveEvent) /\ Len(actives) <= MaxAccepted
    /\ pc \in [Callers -> PCs]
    /\ req \in [Callers -> Requests \cup {NoRequest}]
    /\ round \in [Callers -> Rounds]
    /\ guard \in [Callers -> GuardRows]
    /\ seen \in [Callers -> [active : Nat, accepted : Nat]]
    /\ answer \in [Callers -> Answers]

Init ==
    /\ publication = [s \in Seals |-> "none"]
    /\ access = [rows |-> 0, permits |-> TRUE]
    /\ expired = FALSE
    /\ registry = [rows |-> 0, revision |-> 0]
    /\ accepts = <<>> /\ actives = <<>>
    /\ pc = [c \in Callers |-> "idle"]
    /\ req = [c \in Callers |-> NoRequest]
    /\ round = [c \in Callers |-> "prepare"]
    /\ guard = [c \in Callers |-> NoGuard]
    /\ seen = [c \in Callers |-> Unseen]
    /\ answer = [c \in Callers |-> "none"]

-----------------------------------------------------------------------------
\* Steps of a call: begin with request q, move on, build the ticket, return
\* with the ticket kept, and forget everything.
Begin(c, q, at, g) ==
    /\ pc[c] = "idle"
    /\ pc' = [pc EXCEPT ![c] = at]
    /\ req' = [req EXCEPT ![c] = q]
    /\ guard' = [guard EXCEPT ![c] = g]
    /\ UNCHANGED <<round, seen, answer>>

Goto(c, at) ==
    /\ pc' = [pc EXCEPT ![c] = at]
    /\ UNCHANGED <<req, round, guard, seen, answer>>

Pass(c, r, at) ==
    /\ pc' = [pc EXCEPT ![c] = at]
    /\ round' = [round EXCEPT ![c] = r]
    /\ UNCHANGED <<req, guard, seen, answer>>

Keep(c, g, a) ==
    /\ pc' = [pc EXCEPT ![c] = "pending"]
    /\ round' = [round EXCEPT ![c] = "submit"]
    /\ guard' = [guard EXCEPT ![c] = g]
    /\ seen' = [seen EXCEPT ![c] = Unseen]
    /\ answer' = [answer EXCEPT ![c] = a]
    /\ UNCHANGED req

Forget(c) ==
    /\ pc' = [pc EXCEPT ![c] = "idle"]
    /\ req' = [req EXCEPT ![c] = NoRequest]
    /\ round' = [round EXCEPT ![c] = "prepare"]
    /\ guard' = [guard EXCEPT ![c] = NoGuard]
    /\ seen' = [seen EXCEPT ![c] = Unseen]
    /\ answer' = [answer EXCEPT ![c] = "none"]

HasTicket(c) == round[c] \in {"submit", "resubmit"}
Return(c, a) == IF HasTicket(c) THEN Keep(c, guard[c], a) ELSE Forget(c)

\* Any read, check or custody lock before the transaction refuses or fails.
Refuse(c) ==
    /\ pc[c] \notin {"idle", "pending", "commit", "resolve"}
    /\ Return(c, "none")
    /\ UNCHANGED <<world, chains>>

\* The caller is cancelled, dies, or drops its ticket.
Drop(c) ==
    /\ pc[c] # "idle"
    /\ Forget(c)
    /\ UNCHANGED <<world, chains>>

-----------------------------------------------------------------------------
\* Mutant: the limit on revisions is not checked.
PrepareAccept_NoLimit(c, q) ==
    /\ publication[q.seal] \in {"sealed", "released"}
    /\ registry.revision = BindingOf[q.seal]
    /\ Begin(c, q, "verify", [NoGuard EXCEPT !.registry = registry.rows])
    /\ UNCHANGED <<world, chains>>

\* prepare: revision below the limit, the registry replayed (its rows are the
\* guard) and at the publication's revision.  A Sealed value was sealed once.
PrepareAccept(c, q) ==
    /\ publication[q.seal] \in {"sealed", "released"}
    /\ q.expected < MaxAccepted
    /\ registry.revision = BindingOf[q.seal]
    /\ Begin(c, q, "verify", [NoGuard EXCEPT !.registry = registry.rows])
    /\ UNCHANGED <<world, chains>>

Available(q) == publication[SealOf(q)] = "sealed"

\* Sealed::verify, before the ticket is built and again before its transaction.
VerifySeal(c) ==
    /\ pc[c] = "verify"
    /\ Available(req[c])
    /\ Goto(c, IF HasTicket(c) THEN "commit" ELSE "capture")
    /\ UNCHANGED <<world, chains>>

\* authority: the access rows are captured first ...
CaptureAuthority(c) ==
    /\ pc[c] = "capture"
    /\ guard' = [guard EXCEPT ![c].access = access.rows]
    /\ pc' = [pc EXCEPT ![c] = "enter"]
    /\ UNCHANGED <<world, chains, req, round, seen, answer>>

\* ... then the credential is authenticated: the ticket is complete.
EnterPublish(c) ==
    /\ pc[c] = "enter"
    /\ access.permits /\ ~expired
    /\ Keep(c, guard[c], "none")
    /\ UNCHANGED <<world, chains>>

-----------------------------------------------------------------------------
\* prepare_activation called by itself.
PrepareActivation(c, q) ==
    /\ q.expected < MaxAccepted
    /\ Begin(c, q, "first", NoGuard)
    /\ UNCHANGED <<world, chains>>

\* activate: first the operation's receipt is looked up.
Activate(c, q) ==
    /\ Begin(c, q, "lookup", NoGuard)
    /\ UNCHANGED <<world, chains>>

OpsIn(chain) == {chain[i].req.op : i \in 1..Len(chain)}
Used(op) == op \in OpsIn(accepts) \cup OpsIn(actives)

\* read_activation_commit: the receipt's row is an activation of this request.
IsEvent(q) ==
    IF IsAccept(q) THEN \E i \in 1..Len(accepts) : accepts[i].req = q
                   ELSE \E i \in 1..Len(actives) : actives[i].req = q

LookupMiss(c) ==
    /\ pc[c] = "lookup"
    /\ ~Used(req[c].op)
    /\ req[c].expected < MaxAccepted
    /\ Pass(c, "prepare", "first")
    /\ UNCHANGED <<world, chains>>

LookupHit(c) ==
    /\ pc[c] = "lookup"
    /\ IsEvent(req[c])
    /\ Pass(c, "replay", "first")
    /\ UNCHANGED <<world, chains>>

-----------------------------------------------------------------------------
\* Mutant: the accepted chain is read before the activations that join it.
ReadOrder_AcceptedFirst == <<"accepted", "active">>

\* activation_history: "Read active rows FIRST".
ReadOrder == <<"active", "accepted">>

LengthOf(chain) == IF chain = "active" THEN Len(actives) ELSE Len(accepts)

\* The two SELECTs of activation_history, each its own read transaction.
ReadChain(c) ==
    /\ pc[c] \in {"first", "second"}
    /\ LET chain == ReadOrder[IF pc[c] = "first" THEN 1 ELSE 2] IN
          seen' = [seen EXCEPT ![c][chain] = LengthOf(chain)]
    /\ pc' = [pc EXCEPT ![c] = IF pc[c] = "first" THEN "second" ELSE "order"]
    /\ UNCHANGED <<world, chains, req, round, guard, answer>>

\* Every activation of the first n names an acceptance of the first m that
\* was committed before it, and their revisions grow.
Joined(n, m) ==
    \A i \in 1..n :
        /\ \E j \in 1..m : /\ accepts[j].req = actives[i].req.acc
                           /\ accepts[j].row < actives[i].row
        /\ i > 1 => Revision(actives[i - 1]) < Revision(actives[i])

\* Mutant: the newest acceptance can be activated once more.
OrderHolds_Again(q, replay, n, k) ==
    /\ \/ replay /\ n > 0 /\ actives[n].req = q
       \/ q.expected = n
    /\ k > 0 /\ accepts[k].req = q.acc

\* check_activation_order on the n activations read and the current
\* acceptance k: expected generation, current acceptance, not active already.
OrderHolds(q, replay, n, k) ==
    /\ \/ replay /\ n > 0 /\ actives[n].req = q
       \/ q.expected = n
    /\ k > 0 /\ accepts[k].req = q.acc
    /\ ~replay /\ n > 0 => Revision(actives[n]) # k

\* The third read of check_activation_order, and its checks.  In the prepare
\* pass the acceptance read here goes into the ticket.
CheckActivationOrder(c) ==
    /\ pc[c] = "order"
    /\ Joined(seen[c].active, seen[c].accepted)
    /\ OrderHolds(req[c], round[c] \in {"replay", "resubmit"}, seen[c].active, Len(accepts))
    /\ pc' = [pc EXCEPT ![c] = "seal"]
    /\ guard' = IF round[c] = "prepare"
                  THEN [guard EXCEPT ![c].revision = Len(accepts)] ELSE guard
    /\ seen' = [seen EXCEPT ![c] = Unseen]
    /\ UNCHANGED <<world, chains, req, round, answer>>

\* activation_seal and verify_activation_seal; what follows depends on the pass.
ActivationSeal(c) ==
    /\ pc[c] = "seal"
    /\ Available(req[c])
    /\ CASE round[c] = "prepare" -> Keep(c, guard[c], "none")
         [] round[c] = "replay" -> Forget(c)
         [] round[c] = "submit" -> Goto(c, "commit")
         [] round[c] = "resubmit" -> Keep(c, guard[c], "committed")
    /\ UNCHANGED <<world, chains>>

-----------------------------------------------------------------------------
\* submit and submit_activation, of a ticket once or again.
Submit(c) ==
    /\ pc[c] = "pending"
    /\ pc' = [pc EXCEPT ![c] = "reconcile"]
    /\ answer' = [answer EXCEPT ![c] = "none"]
    /\ UNCHANGED <<world, chains, req, round, guard, seen>>

\* The receipt of the operation holds the bytes of this very ticket: for an
\* acceptance these include the access and registry rows it is guarded by.
SameTicket(c) ==
    IF IsAccept(req[c])
      THEN \E i \in 1..Len(accepts) : accepts[i].req = req[c] /\ accepts[i].guard = guard[c]
      ELSE IsEvent(req[c])

\* The receipt lookup that opens a submit: an acceptance that is there is read
\* and returned, an activation has to pass its checks once more.
Reconcile(c) ==
    /\ pc[c] = "reconcile"
    /\ \/ /\ ~Used(req[c].op)
          /\ Goto(c, IF IsAccept(req[c]) THEN "verify" ELSE "first")
       \/ /\ SameTicket(c) /\ IsAccept(req[c])
          /\ Keep(c, guard[c], "committed")
       \/ /\ SameTicket(c) /\ ~IsAccept(req[c])
          /\ Pass(c, "resubmit", "first")
    /\ UNCHANGED <<world, chains>>

\* Mutant: the transaction trusts the authority that was captured.
AcceptGuards_CachedGrant(q, g) ==
    /\ g.registry = registry.rows
    /\ publication[q.seal] = "sealed"
    /\ Len(accepts) = q.expected

\* The guards of an acceptance's transaction: authority, registry and
\* publication unchanged, credential live, expected revision still the count.
AcceptGuards(q, g) ==
    /\ g.access = access.rows
    /\ g.registry = registry.rows
    /\ publication[q.seal] = "sealed"
    /\ ~expired
    /\ Len(accepts) = q.expected

\* Mutant: only the active generation is compared and swapped.
ActivateGuards_GenerationOnly(q, g) ==
    /\ Len(actives) = q.expected
    /\ publication[q.acc.seal] = "sealed"

\* Of an activation's: generation, current acceptance, publication.
ActivateGuards(q, g) ==
    /\ Len(actives) = q.expected
    /\ Len(accepts) = g.revision
    /\ accepts[g.revision].req = q.acc
    /\ publication[q.acc.seal] = "sealed"

Guards(c) == IF IsAccept(req[c]) THEN AcceptGuards(req[c], guard[c])
                                 ELSE ActivateGuards(req[c], guard[c])

\* The transaction: event and receipt.
Insert(c) ==
    IF IsAccept(req[c])
      THEN /\ accepts' = Append(accepts, [row |-> NextRow, req |-> req[c], guard |-> guard[c]])
           /\ UNCHANGED actives
      ELSE /\ actives' = Append(actives, [row |-> NextRow, req |-> req[c]])
           /\ UNCHANGED accepts

\* The store's submit: the event is inserted; the answer may be lost.
Commit(c) ==
    /\ pc[c] = "commit"
    /\ ~Used(req[c].op)
    /\ Guards(c)
    /\ Insert(c)
    /\ Keep(c, guard[c], "committed") \/ Goto(c, "resolve")
    /\ UNCHANGED world

\* A guard fails: the transaction is rolled back, and its caller told so.
CommitRefused(c) ==
    /\ pc[c] = "commit"
    /\ ~Used(req[c].op)
    /\ ~Guards(c)
    /\ Keep(c, guard[c], "lost")
    /\ UNCHANGED <<world, chains>>

\* Meanwhile the operation was used: by this ticket, or by another (Conflict).
CommitReplayed(c) ==
    /\ pc[c] = "commit"
    /\ Used(req[c].op)
    /\ Keep(c, guard[c], IF SameTicket(c) THEN "committed" ELSE "none")
    /\ UNCHANGED <<world, chains>>

\* Admission fails (a known noncommit), or the outcome is unknown and nothing
\* was committed.
CommitFails(c) ==
    /\ pc[c] = "commit"
    /\ Keep(c, guard[c], "none") \/ Goto(c, "resolve")
    /\ UNCHANGED <<world, chains>>

\* Mutant: an unknown outcome is reported as a lost race.
Resolve_AsLost(c) ==
    /\ pc[c] = "resolve"
    /\ Keep(c, guard[c], "lost")
    /\ UNCHANGED <<world, chains>>

\* After Unknown, reconcile under the writer lock decides, or fails as well.
Resolve(c) ==
    /\ pc[c] = "resolve"
    /\ \/ Keep(c, guard[c], IF SameTicket(c) THEN "committed" ELSE "none")
       \/ Keep(c, guard[c], "unknown")
    /\ UNCHANGED <<world, chains>>

-----------------------------------------------------------------------------
\* stage: immutable bytes under a new identity; a changed draft needs another.
Stage(s) ==
    /\ publication[s] = "none"
    /\ publication' = [publication EXCEPT ![s] = "staged"]
    /\ UNCHANGED <<access, expired, registry>>

\* The seal store publishes what was staged, and may release it: for good.
Publish(s) ==
    /\ publication[s] = "staged"
    /\ publication' = [publication EXCEPT ![s] = "sealed"]
    /\ UNCHANGED <<access, expired, registry>>

Release(s) ==
    /\ publication[s] = "sealed"
    /\ publication' = [publication EXCEPT ![s] = "released"]
    /\ UNCHANGED <<access, expired, registry>>

\* Grant, rotation, revocation: one more access row.
AccessRow(permits) ==
    /\ access.rows < MaxRows
    /\ access' = [rows |-> access.rows + 1, permits |-> permits]
    /\ UNCHANGED <<publication, expired, registry>>

\* The credential's end passes: no row says so.
Expire ==
    /\ ~expired
    /\ expired' = TRUE
    /\ UNCHANGED <<publication, access, registry>>

\* A registry write; a finding leaves the revision, everything else bumps it.
RegistryRow(bump) ==
    /\ registry.rows < MaxRows
    /\ registry' = [rows |-> registry.rows + 1, revision |-> registry.revision + bump]
    /\ UNCHANGED <<publication, access, expired>>

World ==
    /\ \/ \E s \in Seals : Stage(s) \/ Publish(s) \/ Release(s)
       \/ \E p \in BOOLEAN : AccessRow(p)
       \/ Expire
       \/ \E bump \in {0, 1} : RegistryRow(bump)
    /\ UNCHANGED <<chains, calls>>

Step(c) ==
    \/ \E q \in AcceptRequests : PrepareAccept(c, q)
    \/ \E q \in ActivateRequests : PrepareActivation(c, q) \/ Activate(c, q)
    \/ VerifySeal(c) \/ CaptureAuthority(c) \/ EnterPublish(c)
    \/ LookupMiss(c) \/ LookupHit(c)
    \/ ReadChain(c) \/ CheckActivationOrder(c) \/ ActivationSeal(c)
    \/ Submit(c) \/ Reconcile(c)
    \/ Commit(c) \/ CommitRefused(c) \/ CommitReplayed(c) \/ CommitFails(c)
    \/ Resolve(c) \/ Refuse(c) \/ Drop(c)

Next == World \/ \E c \in Callers : Step(c)

Spec == Init /\ [][Next]_vars

-----------------------------------------------------------------------------
\* The two chains fit together at all times: every activation names an
\* acceptance committed before it, revisions of successive activations grow,
\* and no operation identity has two events.
ChainsJoin ==
    /\ Joined(Len(actives), Len(accepts))
    /\ \A i \in 1..Len(actives) : actives[i].req.expected = i - 1
    /\ \A j \in 1..Len(accepts) : accepts[j].req.expected = j - 1
    /\ OpsIn(accepts) \cap OpsIn(actives) = {}

\* A reader whose two SELECTs straddle commits of others never finds an
\* activation without its acceptance ("accepted join/order" is not reported
\* for a valid history).
ReadsNeverTorn ==
    \A c \in Callers : pc[c] = "order" => Joined(seen[c].active, seen[c].accepted)

\* No acceptance is committed on a cached grant: at that very moment the
\* credential permits it and is live, the registry is at the publication's
\* revision and the publication is not released.
AcceptsAuthorized ==
    [][Len(accepts') > Len(accepts) =>
          LET q == accepts'[Len(accepts')].req IN
          /\ access.permits /\ ~expired
          /\ registry.revision = BindingOf[q.seal]
          /\ publication[q.seal] = "sealed"]_vars

\* "committed" is answered only for an event with exactly the caller's
\* request, and "lost" to an activation is final: that request has no event,
\* then or later ("The CAS definitely did not commit").
AnswersTrue ==
    \A c \in Callers :
        /\ answer[c] = "committed" => IsEvent(req[c])
        /\ answer[c] = "lost" /\ ~IsAccept(req[c]) => ~IsEvent(req[c])

ActiveRevision == IF actives = <<>> THEN 0 ELSE Revision(actives[Len(actives)])

P == INSTANCE Pointer WITH accepted <- Len(accepts), active <- ActiveRevision

\* Acceptance and activation implement the two atomic steps of module Pointer.
ImplementsPointer == P!Spec

=============================================================================
