# A TLA+ verification of Verdant

Verdant is a building-operations agent: it senses equipment over BACnet and
Modbus, keeps what it knows in SQLite, publishes reviewed configurations, and
sends a narrow kind of action (set a point, release it) to equipment. Most of
its code is about not lying after a failure: an answer that was lost is
*unknown*, a write that may have gone out is never sent again, a runtime that
has not joined its threads is not stopped, a clock that was set back does not
make old data fresh. This directory models that part of the code in TLA+, checks
it with TLC on small instances and proves theorems about it with TLAPS.

Line numbers in comments, in PROJECT.json and below refer to the sources at
the commit this directory accompanies.

## 1. The system

### 1.1 Components, their state and operations

| Component | State it keeps | Operations that change it |
|---|---|---|
| `storage/sqlite` files (admission, connection) | the database file, its links and lock, a stamp per handle | open, initialize and publish, migrate, reopen by path |
| `storage/sqlite` receipts (mutation, execution) | table `storage_receipts`, SQLite's writer lock, a counter of running children, the `attempted` flag of a ticket | `submit`, `reconcile`, `reconcile_operation` |
| `storage/sqlite` outbox | `outbox`, claims, derived marks, WAL | insert, claim, acknowledge, requeue, mark_recalculated, checkpoint |
| `storage` observation writer | durable state, observations, pins, gaps, ticket receipts it prunes | prepare, submit, retained outcome |
| `storage` handoff | a bounded channel | announce, receive |
| `action_journal` | `action_journal`, `action_lifecycle`, `action_targets`, predecessor links | prepare/submit, transition (`mark_*`), open |
| `action_joined` with `action_custody`, `action_publication`, `action_expiry` | scope holds, exclusion of old writers, the frozen write handed to the transport | admit, authorize set/release, transfer, record confirmed / unknown |
| `action_dispatch` | one prepared send, its readbacks | prepare, authorize, execute, poll, cancel, inspect |
| `action_recovery` | none (decisions over rows and readbacks) | classify, assess a conflicting request |
| `action_preview` | a `SealOrder` | check_custody, decode, reconstruct (marker and owners' forms), preview |
| `accept` | one event and receipt per acceptance, the active pointer with its generation | prepare/submit/reconcile of acceptance and activation |
| `access` | the admission log, the review gate | bootstrap, issue, rotate, revoke, enter |
| `api` | intent journal, cancellations, recovery credentials | draft, edit, seal, accept, finding, cancel, provision, recover |
| `binding` | registry with its history | record, propose, retire, emit a finding, replay |
| `observation` | durable window (spool, pins, gaps), receiver, producers | open, select, capture, settle, evict, pin, close; start, emit, resume, current |
| `seal`, `native` | seal history, checkpoint generations, custody lock and marker | seal, release, open, checkpoint, prune |
| `runtime` controller | state, session, queue, jobs, results, budget, lease | begin_start, enqueue, dispatch_next, cancel, poll, take_result, stop, Drop |
| `runtime/bacnet`, `runtime/modbus` | one slot, a subscription with its coverage | admit, open, subscribe, renew, drain, revalidate, reconnect, stop |
| `semantics` | binding set, native graph | convert and apply, reconcile a plan |
| `action_manifest`, `config`, `domain`, `main` | none | parsing, data types, printing |

### 1.2 How they interact

Everything durable goes through one primitive: a *ticket* (operation identity
and request) submitted to the SQLite store, which runs the body and writes a
receipt in one transaction. The journal, the acceptance store, the access
store, the binding writer, the API's intents and the observation writer each
build guarded batches on it and rely on its promise (module `AtMostOnce`). The
joined action path calls the journal, the acceptance store (two reads), the
custody, publication and expiry gates, and hands a `FrozenWrite` to the
transport, whose preparation and exchange are `action_dispatch`. The runtime
reads the active publication through its `Owners`, and runs each job in a
thread that owns clones of the lease and of its budget reservations. Nothing
spans the SQLite store and the native store: seals hold the two together with a
custody lock and a marker.

### 1.3 What is hard, and what has to hold

* *Storage*: an answer is lost after the COMMIT; a retry cannot get the lock;
  the process dies with a child in COMMIT; another file is put at the path; two
  processes create the store at once. Effects at most once; every answer true
  when given; no call hangs; one store per handle; claims in somebody's reach.
* *Journal*: admissions race on one generation; the clock is set back; the
  channel is full; a crash falls between commit and announcement. One line of
  generations, the hourly rate, an immutable history.
* *Joined path and dispatch*: a dozen checks in a row while the publication,
  holds, revocations and clocks move; the mark, the send and the
  acknowledgement are separate steps. A write is granted once, to the newest
  operation, within its deadline, and never forgotten; a confirmation is true.
* *Acceptance, access, binding, API*: a caller checks, builds a ticket and
  submits it much later, while others accept, issue, revoke, retire, cancel.
  Nothing commits on a stale check; retries answer what happened.
* *Observation*: receipts of old tickets are pruned, rows evicted, clocks wrong,
  checkpoints restored from backup. No silent hole, no value served as fresh
  that is not, no identity used twice.
* *Seals*: prune, open and seal run on two stores without a common transaction.
  A live seal keeps everything it names.
* *Runtime*: threads finish before, during and after cancel, hold, stop and
  drop; a device forgets, a renewal's future is dropped. The budget is exact,
  nothing stale is delivered, `Stopped` means joined, one owner at a time, a
  stop completes, coverage is not claimed that the device does not give.

PROJECT.json lists the hazards one by one with their lines and the properties
that watch them.

## 2. The modules

| Module | Models | Run by |
|---|---|---|
| `AtMostOnce` | what a store promises about an operation identity | refined by `Mutation` |
| `Mutation` | the receipt protocol of `storage/sqlite` | `MCMutation` |
| `MutationProofs` | theorems about `Mutation` | TLAPS |
| `StoreFile` | creation, opening and replacement of the database file | `MCOperations` |
| `Outbox` | outbox rows, claims, derived marks, WAL and size bounds | `MCOperations` |
| `Access` | the admission log and the gate that reads it | `MCOperations` |
| `Binding` | the binding registry | `MCOperations` |
| `Recovery` | recovery credentials of the API | `MCOperations` |
| `Semantics` | conversion of a site, reconciliation of a plan | `MCOperations` |
| `ActionJournal` | `action_journal` and the handoff channel | `MCAction` |
| `ActionJournalProofs` | theorems about `ActionJournal` | TLAPS |
| `Preview` | `action_preview`: seal order, checks, encoding | `MCAction` |
| `Dispatch` (extends `Preview`) | `action_dispatch` with expiry, the peer and recovery | `MCAction`, `MCDispatch` |
| `DispatchProofs` | theorems about `Preview` and `Dispatch` | TLAPS |
| `ActionJoined` (extends `ActionJournal`) | `action_joined` with its gates, transport and peer | `MCActionJoined` |
| `ActionJoinedProofs` (extends `ActionJournalProofs`) | theorems about `ActionJoined` | TLAPS |
| `ApiJournal` | intents of `api`, their effects and cancellation | `MCActionJoined` |
| `Pointer` | what the acceptance store promises: revisions by one, an active pointer that jumps to the newest | refined by `Publication` |
| `Publication` | `accept`: acceptance and activation of one scope, with the authority, registry and seals they are guarded by | `MCPublication` |
| `PublicationProofs` | theorems about `Publication` | TLAPS |
| `Seal` | seals, native checkpoints, custody and prune | `MCPublication` |
| `OperationsProofs` | theorems about `StoreFile`, `Outbox`, `Recovery`, `ApiJournal`, `Seal`, `Semantics`, `Access` and `Binding` | TLAPS |
| `ObservationWindow` | the durable window over its writer | `MCObservation`, `MCObservationWindow` |
| `Receiver` | normalization, the receiver, clocks and freshness | `MCObservation` |
| `ObservationProofs` | theorems about `ObservationWindow` and `Receiver` | TLAPS |
| `Runtime` | the runtime controller, its threads, the subscription slot | `MCRuntime`, `MCRuntimeCoverage` |
| `RuntimeProofs` | theorems about `Runtime` and `Subscription` | TLAPS |
| `Subscription` | one COV subscription and its device | `MCRuntimeCoverage` |

All modules model one side of an interface each and name the other in their
header. An action is one exchange with another party: a statement sent to the
sqlite3 child, an answer, a message, a thread's step. Everything a handler does
between two of those is one action.

### 2.1 Mutation

`receipts` is the committed content of `storage_receipts`, `effects` counts the
committed transactions that ran an operation's body (no such counter is in the
code: it is what the receipts are there to bound). `phase` is where each
calling thread is: `admit` (waiting for a running slot), `barrier` (child
started, BEGIN IMMEDIATE not yet granted), `lookup`, `stage`, `commit`. Each
exchange with the sqlite3 child is one step. `Return` stands for dropping the
connection, which kills and reaps the child, so the lock is free and an
uncommitted transaction gone when the caller gets its answer. The COMMIT has
three ends: done and answered, done and not answered, not done. A crash turns a
child that was sent its COMMIT into an `orphan` that keeps the lock and decides
alone; after it all tickets count as attempted, because they are rebuilt with
`with_operation`. Rows are numbers; 0 is the `Change` of no rows, a conflict.

`SharedClones` says whether a thread may submit a clone of a ticket while the
first attempt of that ticket is still inside `submit`. See the first finding.

### 2.2 StoreFile

`disk` holds every file that ever existed with its store identity, the schema it
has reached and its links; `leaf` is what the database path names. A process
that finds no leaf builds one under a private name (`initialize`, `make_store`)
and publishes it with a link that never replaces (`publish`, `unlink`); one that
finds one opens, upgrades and admits it (`existing`, `upgrade`,
`upgrade_commit`, `admit_once`). `handle` is what an open store remembers: the
stamp, the identity and the count of its handles. Each later `connect` opens the
path again, and `Replace` puts another file there at any moment. `misplaced`
records a commit into another file than the one opened.

### 2.3 Outbox

Rows are `queued`, `claimed` by a token or `acked`. Inserts and claims go by
ticket and may be submitted again; acknowledgements and requeues have none.
`covered` remembers how many rows of an entity there were when it was last
recalculated. Space is counted in two units, the WAL and the main file.

### 2.4 Access

`log` is the admission history in id order. `prepared` is a batch between the
read it was checked against and its submit, with its two guards: the exact log
(count and bytes of all rows) and the earliest expiry. `policy`, `ceiling`,
`generation` and key names are small values; a hash is what it is the hash of.
The wall clock moves both ways. `authored` is a history variable: who wrote each
row, when, and on top of how many rows. `AccessSound` judges every row by the log as
it was at its commit, not at its read.

### 2.5 Binding

`history` is the registry's rows in id order; everything else is `replay` of it.
`work` is the row a process is about to submit with the guard of the replayed
history and, for proposals and findings, of the access history captured before
authentication. Operation identities of proposals and findings may be tried
again by any process (`reconcile_proposal`), with the answer lost or not. A row
carries whether its credential was live at its commit (`entitled`, a history field).
`Begun` are the registries a run may find; they were written by the same code, which
`BegunAssumption` states and TLC evaluates.

### 2.6 ApiJournal

A call goes from `authorized` through the append of its intent to `dispatchable`
and to its owner's commit; each of these is a step, between any two of which the
process may die, other coordinators journal or cancel, and the caller's grant be
taken away. Drafts, edits, seals, acceptances and findings name their parents.
`effects` are the owners' receipts, `cancels` the cancellation rows, `halted` the
operations cancelled before any dispatch.

### 2.7 Recovery

`ledger` is the access history reduced to issues and revocations with the reason
text they were written with. `provision_recovery`, `rebootstrap` and
`rotate_account` journal, look whether the credential is there and was issued by
this very operation, and otherwise issue it under a guard; `rotate_again` is the
retry with the key that the first call revoked.

### 2.8 Semantics

Two parts. Conversion: `Sites` are sets of external candidates, `apply` converts
and applies a whole site or refuses it. Materialization: an `attempt` inserts the
missing rows of a plan one commit at a time; each may fail before or after its
commit, and plans with other reports may follow.

### 2.9 ActionJournal

Tables are functions of operations and targets. An admission is one guarded
batch and so one action (its atomicity is what `Mutation` establishes), in two
forms, answered (`Admit`) and lost (`AdmitLost`); the retry of a lost one finds
its receipt and changes nothing. `RateWindow` and the clock are small numbers;
the clock jumps to any value. `Transition` is the upsert of `lifecycle.rs`
behind its check that terminal is final.

### 2.10 Preview and Dispatch

`Preview` is the `SealOrder` with both of its ways, the marker calls that set
flags and the owners' calls that ask for the profile, in any order and with any
profile, and the checks a preview has to pass. Reals lie on a grid and their text
on a coarser one, because the code compares values by text in one place and by
bits in another.

`Dispatch` follows one admitted row: `authorize_set`/`authorize_release` (expiry,
lifecycle, generation, frozen preview, ceiling, in the code's order), `execute`
(a new look at the row and the durable deadline), the port, the packet, the
peer, the acknowledgement, the two readbacks, and what `action_recovery`
concludes from them. `link` and `acks` are what is under way; the peer handles a
request whenever it gets to it, and may not answer. Clocks pass, are set back
and restart. `clock.age` is the true age of the row, which no code can see.

### 2.11 ActionJoined

One call of the owner runs at a time: `Journal` is owned by one writer and the
code says so (`action_joined.rs:140`). Between the checks of
that call everything else moves: the clock, acceptances and activations, holds
and exclusions. `coherent` is a history variable: whether the row's publication
was accepted and active at one moment since the call began. `permits` are
returned writes that were not yet sent; `wire`, `applied` and `outcomes` are the
network, the peer and what the owner learnt. A crash loses the owner's memory
and keeps the journal and the wire. Caller-supplied inputs that can only refuse
(impact, freshness, expiry state, cancellation, token) are `AuthorizeRefused`.

### 2.12 Publication

`accepts` and `actives` are the two event chains of one scope in the outbox, in
row order. A caller works through a call step by step (`pc`), each read of the
database or of the seal store being one step: `verify` (the seal), `capture` and
`enter` (access rows first, then authentication), `lookup` (the receipt that
opens `activate`), `first` and `second` (the two SELECTs of
`activation_history`), `order` (the read and the checks of
`check_activation_order`), `seal`. It then keeps a ticket (`pending`), which it
may submit any number of times: `reconcile`, the checks again, `commit`, and
`resolve` when the outcome was unknown. `guard` is what the ticket's SQL
compares: counts of access and registry rows (rows are only ever added, so the
count stands for the exact rows), or the accepted revision. An event and its
receipt are one transaction (`Mutation`), so the receipt of an operation is the
event that carries its name. Any check may also fail (`Refuse`), and a caller
may be cancelled or die anywhere (`Drop`) and come back with the same request.
`answer` is what the last submit told it: `committed`, `lost` (a guard failed
and the transaction was rolled back), `unknown`, or another error (`none`).

The world moves freely: publications are staged, sealed and released, access
rows are added with any effect on the credential, the credential expires without
a row, the registry is written. Requests are not assumed truthful: they may
expect any revision, name an acceptance that never happened, or reuse the
operation of the other kind. `ActionJoined` and `Runtime` take acceptance and
activation as two atomic steps; module `Pointer` states them and `Publication`
implements it.

### 2.13 Seal

`native` has, per native store, its generations, the selected one, and whether
its process has the guard and the marker of the application; `task` is the holder
of its custody lock. Staging, the admission under the lock and the database
statement are steps of their own, as are the two halves of a prune. A process may
die in any of them: its child may still commit (`orphans`), and a native store
may come back without the application. `late` are identities committed by such an
orphan after a prune had run: the seal is in the history, its generation may be
gone. The code detects that on the next use and `SealsRetained` excludes it.

### 2.14 ObservationWindow

Each operation of a handle loads one snapshot (`db`), computes the whole next
image as the code does (evict, gaps, pins, current values, sequence, revision)
and submits it under the guard that the durable state is unchanged; the phases of
the store call are those of `Mutation`, with receipts pruned after each commit.
`swept` records the gaps of evicted rows one by one, as `custody.rs:61` does, and
the whole eviction is refused when the ledger of gaps overflows on the way, even
if merging would have made room at its end.
`retained_outcome` decides what the absence of a receipt means. `clock` has a boot
and a monotonic time, for the leases of pins.

### 2.15 Receiver

A raw read is received under one reading of the clocks, normalized and emitted
under later ones. `reading` are the host's clocks, `real` the time that really
passed; faults set the wall back, stop the monotonic clock in a suspend or reboot
the host. `ledger` is the receiver's entry of a producer, `kept` a checkpoint that
a caller restores, possibly out of date, and `held` every producer handed out,
fenced ones too. A read is joined with whatever context its caller hands in;
`matches` lets only one of the key, revision and generations of the envelope pass
(`origin`; the activation stands for the revision and the generations).

### 2.16 Runtime

The controller is one thread (`&mut self`), so each of its methods is an action;
`poll` is one action per visited job and slot, because threads finish between
the visits. A job's thread moves through `begin`, `verified`, `reading`, `read`,
`done`. `gen` stands for the active publication and the authority of the
credential. The one subscription slot is `permit`, `connecting` (a Modbus client,
which borrows a sensing place while it connects), `open`, `receiving`, `joined`; `lost` is a COV permit dropped unopened and `abandoned` an owner
dropped unclosed. A Modbus slot gives its reservation back when it is finished,
a COV slot when the runtime and its owner have both dropped it.

`lease` are the holders of a clone of the one lease of the stores: the Runtime,
each job and the slot. A clone is moved into a thread when it is spawned, comes back
with its result and goes at the join; a slot has its own from admission until it
is finished (Modbus) or dropped by its owner (COV). `Drop` leaves the unfinished threads
and an owned slot behind with their clones (`abandoned`, `Survivors`), which end in
their own time. `Inert` builds the next Runtime when nobody holds a clone: nothing
else is in its guard, and `OneOwner` says that the holders are exactly those
who can still reach the stores. `expired`, `disturbed` and `asked` record deadlines, publications that
moved during a read, and accepted cancellations. The state `Disabled` (a Runtime
without stores, which refuses everything) is left out.

The slot there is a black box that receives; `Subscription` opens it.

### 2.17 Subscription

`cover` is the `Subscription` value with its deadlines and coverage, `inbox` the
bounded broadcast channel between the client and the owner, `call` the operation
that waits at an await and may be dropped there, `asks` and `air` requests and
notifications under way, `device` the property and what is left of each
subscription. Instants are kept as the time left until them. A dropped future
leaves its request under way, so a device may serve an identity the owner has
given up.

## 3. The runs

| Run | Instance | Shows |
|---|---|---|
| `mutation` | 2 threads, 2 operations, 4 tickets (one operation twice with different bodies, a rebuilt `Change`, a foreign store), 1 crash | at-most-once effects, truthful answers, permanent receipts, refinement of `AtMostOnce`, every call returns |
| `mutation_clones` | the same with `SharedClones` | the first finding |
| `operations` | files: 2 processes, 3 files, every earlier schema; outbox: 2 clients, 2 rows, 2 claim tickets; access: 2 callers, 3 requests, a horizon of 4 rows; binding: 2 processes, 2 operations, 5 rows, an empty history and one with a retired address; recovery: 2 desks, 4 calls, a stranger, 4 rows; semantics: 10 sites, 3 plans, 2 reports, 3 attempts | one store per handle, a sound queue, authority at the commit, a true registry, one credential per recovery, whole imports |
| `action` | journal: 3 operations on 1 target, 2 SETs per window, 3 ticks, channel of 1; preview: 2 profiles, 4 drafts; dispatch: 5 rows, 3 routes, 1 restart | the rate, the generation line, the history; seals match their proof; what reaches the wire, and what is answered |
| `action_joined` | 2 operations, 2 actors, 2 revisions, 2 ticks, unlimited crashes; API: 2 coordinators, 6 calls, 3 intents, 1 change of authority | granted once, nothing forgotten, newest only, coherent publication; one chain of revisions, effects as intended |
| `dispatch_cancel` | the dispatch of `action` | the fourth finding |
| `publication` | 2 callers, 2 publications, limit of 2 revisions, 9 requests, 2 access or registry rows; seals: 2 native stores, 3 content rows, 1 live seal, 3 seal rows, 2 generations each, 1 death | chains join, reads are never torn, answers are true, no acceptance on a stale grant, refinement of `Pointer`; live seals keep what they name |
| `runtime` | 2 work items, 2 starts, 2 generations, a COV slot that competes with sensing work, unlimited drops; a subscription with 2 values, 2 identities, a channel of 1, 1 trouble | budget, quiet stop, sound results, the lease held by its users; honest coverage |
| `runtime_live` | 2 items of sensing or optional work at a time, without end, beside a Modbus slot, for one place to run | every stop completes; mandatory work settles, optional work unless mandatory work keeps coming |
| `runtime_cov` | 1 work item beside a COV slot | the second finding |
| `observation` | 2 handles, a spool of 3 with 1 reserved slot, 1 pin, 3 commits beyond the first journal, 1 crash, receipts pruned at a horizon; receiver: 2 activations, 3 replies in any combination and 9 odd ones one at a time, 3 clocks | no hole, proven absence, held rows stay; one identity per position, nothing stale, unfit or of another binding served |
| `observation_fencing` | 2 handles, no crash | the third finding |

*Sums.* `operations`, `action`, `action_joined`, `publication`, `runtime` and
`observation` explore several components that share no state: one component
moves and the others rest in one of their initial states (variable `moving`,
which no step changes; `observation` says the same of its two without it). The
states of such a run are the sum, not the product, of the components' states, and
each property is checked in all states of its own component. Where one model
value stands for a caller of several components, only the component that moves
uses it, so exchanging it is a symmetry of each.

*Why the bounds are enough to be interesting.* Two threads are the fewest that
contend for the lock, and two tickets of one operation the fewest that can
conflict; one crash is enough to leave an orphan beside retries. Three files are
the one opened, the one an operator puts in its place, and one created beside it.
Two outbox rows with a largest claim of two fill one ticket, and a second ticket
meets what the first left. Four access rows are a bootstrap and one batch that
races with another, and the horizon. Five registry rows allow equipment, point,
proposal, retirement and finding. Three operations are the fewest that exceed a
rate of two, and three ticks give a window an outside on both sides. Two
operations on one target are the fewest that supersede or transfer. Two callers
are the fewest that race on a pointer; two revisions are the fewest of which one
supersedes the other, and a third request meets the limit. Two access or registry
rows allow a grant to be taken away and given back. A spool of three with one
reserved slot makes a capture evict, and the reserve decide. Two identities of a
subscription let a late request of the first meet the second.

*Constraints* cut states that add nothing to the question of the run. `Announced`
(`action`): the channel is followed up to the second admission, which can already
find it full. `Alone` (`publication`): while authority or the registry moves only
one caller is in a call, since what the other could do to it there is a row of
those tables, which the run has; two such rows in all. `OneTrouble` (the same run):
around seals one death, one change of authority or one doubled row. `Bounds`
(`observation`): crashes are followed on the fresh store, odd replies (one that
is no finite Real) singly and, like resumes, with the clocks at rest, and the third commit neither after a crash nor after a tick.

*Work without end.* `runtime_live` gives the number of an item that is settled and
taken out again (`Reuse`), so that two items at a time are followed by others for ever.
Sensing work stands for all mandatory work there (`TwoClasses`); `runtime` has the three
classes, without liveness. `dispatch_next` takes eligible mandatory work first
(`runtime/mod.rs:255-259`), so optional work can starve behind a stream of it: with the
plain `Waits(1) ~> ~Waits(1)` TLC finds such a behaviour. `WorkSettles` therefore
says three things: mandatory work that waits ends, settled by a result or a stop; so does a
job; and optional work leaves the queue unless eligible mandatory work is there again and
again. Neither a late item ahead of it nor a slot that borrows the only running place, to
connect or to read, keeps either waiting.

*Deadlock* is checked in `mutation`, `action`, `publication`, `runtime` and the two
liveness runs. `operations`, `action_joined`, `observation`, `observation_fencing`
and `dispatch_cancel` end where the bounds of the model do (its rows, intents or
commits used up, its only credential revoked, its packet settled) and say
CHECK_DEADLOCK FALSE.

*Symmetry.* Operations, actors, callers, desks and coordinators are symmetric in
the safety runs; the liveness properties are checked without symmetry.

*Fairness.* `Mutation!FairSpec`: every step of a call in progress is taken,
because each runs against a wall deadline that kills its child; an orphan ends.
`Runtime!FairSpec`: threads run and their adapter honours its deadline;
the deadline of each item passes; a controller that keeps its Runtime polls and dispatches it, as
`runtime/mod.rs` requires of it; the owner of a cancelled slot closes or drops
what it holds, and a cancelled connect ends (`select!` on `Slot::cancelled`). Fairness is
per item, so that none is kept going by others. It does not ask that a slot gives its
place back before it is cancelled: late items are eligible without a place. No fairness is assumed of `stop`, of work being admitted, or of
an owner that was dropped.

## 4. What is proved

`MutationProofs`, for all callers, operations, requests, tickets and bounds that
meet the assumptions `TicketAssumption` and `BoundAssumption` (typing of
constants; the markers for "none" are no data):

* `TypeCorrect`: `Spec => []TypeOK`;
* `AtMostOnceEffects`: `Spec => []EffectsMatchReceipts`;
* `CommittedSound`: `Spec => []CommittedIsReceipt`;
* `PermanentReceipts`: `Spec => ReceiptsPermanent`;
* `Refinement`: `Spec => ImplementsAtMostOnce`.

`EffectsMatchReceipts` is not inductive: nothing in it stops a caller that is
about to commit from finding a receipt there already. The inductive invariant
`IInv` adds `LockInv` (a caller past the barrier holds the writer lock, and no
orphan exists beside it) and `AbsentInv` (what such a caller, or an orphan, saw
absent is still absent). `LockInv` is preserved because only `Admit` passes the
barrier and it needs the lock and no orphan; `AbsentInv` because only the holder
of the lock, or the orphan, writes a receipt. `ReturnKeeps` and `DurableKeeps`
are the two lemmas that all actions share: nearly every action either ends a
call or makes one transaction durable. The theorems hold with and without
`SharedClones`: clones break what an answer says, never what is stored.

* `NoncommitTrue`: `Spec => []NoncommitIsKnown`, under `~SharedClones` and `OneTicket`.

The fifth property is about answers, and needs more: `OneTicket` says that two tickets of
one operation and request are one ticket or one of them was rebuilt. The code
provides it, since `prepare` mints a fresh identity (`mutation.rs:44`) and a ticket
rebuilt from an identity starts as attempted (`mutation.rs:35-37`); it leaves out a
caller who rebuilds a ticket while the original is still being submitted for the
first time, whose original then knows as little as a clone does. The invariant
adds, for a call whose ticket was not attempted before, that no other call and no
orphan can have written its receipt.

`PublicationProofs`, for all callers, seals, requests (truthful or not) and
limits that meet `RequestAssumption` and `LimitAssumption` (typing of constants;
the two kinds of request are disjoint):

* `PublicationTyped`: `Spec => []TypeOK`, with the limit on both chains;
* `ChainsAlwaysJoin`: `Spec => []ChainsJoin`;
* `NeverTorn`: `Spec => []ReadsNeverTorn`;
* `TrueAnswers`: `Spec => []AnswersTrue`;
* `AuthorizedAccepts`: `Spec => AcceptsAuthorized`;
* `PointerRefinement`: `Spec => ImplementsPointer`.

None of these is inductive: each says something of a commit, a read or an answer
that follows from what a caller checked many steps earlier. `IInv` therefore
says of every call what its past checks still guarantee, as one predicate
`Fits` of its position, request, round, guard, sightings and answer: the limit
was checked (`Placed`), what was seen of a chain is a prefix of it
(`SeenIsPast`), a guard whose row count still matches still means what it meant
(`AcceptTicket`), the named acceptance is in the chain and is not the active one
unless another activation came in between (`ActivateTicket`), a publication once
found available is sealed or released (`Published`), and a request told `lost`
is `Dead`: no later transaction can pass its guards (`Answered`). The proof has
two halves. `FitsStays`: whatever the world and other callers do (`Evolves`:
chains and histories only grow, seals are only released, no dead request is
committed) keeps `Fits` of a call that does not move. One lemma per action: a
call that moves gets a `Fits` of its new position. The step lemmas are small
because a step of a call is one of five shapes (`BeginBecomes` to
`ForgetBecomes`) and all but `Commit` leave the database alone (`QuietStep`).

`ActionJournalProofs`, for all operations, actors, targets, requests, rates, windows
and channel sizes (`RequestAssumption`, `JournalAssumption`, `NoRowAssumption`:
typing, finitely many operations, markers are no data):

* `JournalTyped`: `JournalSpec => []JournalTypeOK`;
* `RateHolds`: `JournalSpec => []RateBound`;
* `GenerationsLine`: `JournalSpec => []GenerationLine`;
* `JournalIsHistory`: `JournalSpec => HistoryKept`.

Both invariants are inductive with the types, because an admission's guards look
at the whole table; the work is counting. A new row is in the windows that end at
its clock reading or later, and of those the fullest is one that the guard has
counted (`AdmissionRate`), whatever the clock did since the earlier rows were
written. What an admission does is stated once, in lemmas about `AdmissionBody`.

`ActionJoinedProofs`, for all of that and all deadlines and revisions
(`JoinedAssumption`, `NoCallAssumption`):

* `ImplementsJournal`: `Spec => JournalSpec`, so all of the above holds of the path;
* `AtMostOneGrant`: `Spec => []GrantedOnce`;
* `NoneForgotten`: `Spec => []NothingForgotten`;
* `SawPublication`: `Spec => []HandoffSawPublication`;
* `NewestGranted`: `Spec => GrantsNewest`;
* `TransfersNarrow`: `Spec => []TransferIsNarrow`, which no run states.

`JoinedInv` adds to the journal's invariant the course of an operation (`Course`:
journaled, granted, sent, carried out, in this order, with the lifecycle free to run
ahead of the grant but not behind it), and what a call in progress has
established (`CallInv`: its row is unsent; if it saw no coherent moment yet, the pointer
it is about to read is of another revision; at the mark its row is the newest of
its target). The last clause is where "one writer" matters: no admission comes between
the currency check and the mark.

`DispatchProofs`, for all rows, previews, profiles, routes, durations, grids and bounds
(`PreviewAssumption`: both ends of the range are on the grid; `DispatchAssumption`:
numbers are numbers):

* `SealProof`: `PreviewSpec => []SealMatchesProof`;
* `DispatchIsSound`: `DispatchSpec => []DispatchSound`.

`PreviewInv` is that verified means the profile held, and that what was shown was
rounded within the range. `DispatchInv` says per position of a deal which gates
it has passed (`GateInv`, on the times the code looked at), that one write is on its
way, arrived or not made (`WireInv`), how many packets the peer can have counted
(`CountInv`), that a valid reading was taken with nothing under way and so still
holds (`ReadInv`), and who may say confirmed, announced or qualified (`AnswerInv`).

`OperationsProofs`, for eight components, each for all values of its constants:

* `OneStorePerHandle`: `StoreSpec => []OneStore` (`StoreFileAssumption`). What is at a
  position of `opener` is the file it was admitted to; the disk only grows
  (`DiskGrows`), a file keeps its identity, and a file that leaves the path is
  remembered, so that a handle is on the file at the path or on a replaced one.
* `QueueSound`: `OutboxSpec => []OutboxSound` (`OutboxAssumption`, with a replay horizon
  that is not zero). A row is owned exactly when it is not queued, every claimed row is in
  a claim's receipt, a clean mark covers every row of its entity.
* `RecoveriesProven`: `RecoverySpec => []RecoveryProven` (`RecoveryAssumption`: nobody
  else writes the reason text of a recovery operation; a rotation names the capability
  of the key it replaces). `DeskSound` says what a desk has found out, and that
  it stands as long as the ledger has the length it read.
* `JournalSound`: `ApiSpec => []ApiJournalSound` (`ApiAssumption`). A session's past checks
  hold as long as neither the journal nor the version of the grants moved; what is
  dispatched is journaled as it is and was not halted. Pages tile the journal by
  a count of positions (`PageTiles`).
* `SealsAreRetained`: `SealSpec => []SealsRetained` (`SealAssumption`: finitely many row
  keys, closed under children). No transaction spans the two stores, so `SealInv`
  carries two facts. A live seal that no orphan committed has the application's marker at
  its native store, so no prune without the application gets in. While a prune holds the
  custody lock, no such seal of its store is live: it looked under the lock, and a
  seal needs the lock. A submitted statement carries the length of the history it
  read and is admissible only while that is the length (`Submitted`, `Ready`).
* `ImportsAreWhole`: `SemanticsSpec => []SemanticsSound`. The binding set is the
  conversion of the input accepted last. In the graph a key has one row and an
  edge its ends; the missing rows of the plan under way are absent and all its others are
  there as planned; plans settled before stay whole (`SemanticsInv`). It rests on
  the lemmas that a key determines its row within a plan, whatever the report, and that an
  insertion adds one row and disturbs none.
* `AuthorityHolds`: `AccessSpec => []AccessSound` (`AccessAssumption`). `LogLine`: the
  issues of a capability form one line of generations, all but the newest are
  revoked, and no key or generation is used twice. `BatchSound`: a prepared batch would turn
  the log it was read from into such a log, and its author is entitled there until
  the earliest expiry of the batch. The guard compares the log, the submit the clock; so
  the commit is on what was read, and every row was written with authority on the
  prefix below it.
* `BindingsTrue`: `BindingSpec => []BindingTruth` (`BindingAssumption`,
  `BegunAssumption`). A prepared row is next and true on the history it is guarded
  by, and its credential is live unless the access history moved since it was captured
  (`WorkTrue`): a stale check, a stale capture or a second commit of an operation
  each meet a guard that moved.

`RuntimeProofs`, for all budgets, numbers of work, starts and generations and both
kinds of slot (`RuntimeAssumption`, `NoneAssumption`):

* `RuntimeTyped`: `Spec => []TypeOK`, with the budget within its limits;
* `ReservationsExact`: `Spec => []BudgetExact`;
* `StopIsQuiet`: `Spec => []StoppedIsQuiet`;
* `ResultsHold`: `Spec => []ResultsSound`;
* `OwnersApart`: `Spec => []OneOwner`, from `LeaseInvariant`.

`RuntimeInv` has four parts besides the types and bounds. `Numbered`: a unit of work is
queued, a job or a result, and never two of these. `ByState`: what each state of the
runtime rules out. `Sound`: a job or result is of this incarnation, and none that was
disturbed or whose cancellation was accepted succeeds. `Counted`: the budget, as the
cardinalities of the three disjoint sets plus the slot. Every step then moves one number
from one set to another, and each such move is one lemma on cardinalities. `LeaseInv` is
a layer of its own on it: who can reach the stores changes only where a thread is spawned
or joined (`LeaseJobs`), the slot admitted, finished or dropped (`LeaseSlot`), the
Runtime built or dropped (`LeaseLife`) or an abandoned holder ends (`LeaseExits`), and
each of these steps changes the clones alike; every other step leaves both
alone, because a job that moves on stays a job (`EditsKeepLive`).

* `CoverageIsHonest`: `SubscriptionSpec => []CoverageHonest`, for all values, lifetimes,
  margins, channel capacities and numbers of identities (`FixtureBounds`, what
  `FixtureOptions::new` lets pass, and `SampleAssumption`).

`SubscriptionInv` has two parts. `Calm` is about the owner at rest: coverage is claimed
only before an unsubscribe and only for as long as the device has it; the device knows no
identity to come; and, while it has this one and nothing was lost, the newest of this
identity's notifications, on its way or in the channel, tells what the device holds
(`NewestTells`), or there is none and the current sample does. `Calling` is about
the request that is awaited: it is of this identity, a granted lifetime is one the device
still has when counted from the request, and a value read is the device's while
no notification is younger. An operation up to its next await only gives coverage
up (`Moves`), so one lemma serves them all (`OwnerStep`); the exceptions are the grant,
the read, a new identity and the drain. The drain is a recursion over the
channel: that the recursive function exists, and what it has done after m
notifications (`DrainedTo`), go by a least counterexample (`UpTo`).

`ObservationProofs`, for all contexts, reads, keys, handles, bounds, clock faults and crashes
(`ReceiverAssumption`, `WindowAssumption`: numbers are numbers; a Boolean and an
integer are finite, `MAX_AGE` is not zero, the marker for "none" is no state):

* `PositionsNameOnce`: `ReceiverSpec => []IdentityOnce`;
* `ServedIsFit`: `ReceiverSpec => []ServedFit`;
* `NoHoles`: `Spec => []WindowAccounted`;
* `AbsenceIsProof`: `Spec => []AbsenceProven`;
* `HeldStays`: `Spec => HeldRowsStay`.

`ReceiverInv`: each position was given out once and lies below its producer's next, the
ledger's producer is one somebody holds, the reading of a clock that never failed is the
time that passed, what was joined was read under its context, and what was decoded
as fit is a usable reply in the unit of it. `WindowInv` is about tickets, since a ticket holds a whole next journal
that may be committed much later, by a call, a capture or an orphan. `TicketSound`: it turns
an accounted journal into an accounted one, keeping what is held, and *while the durable
journal has the revision it was loaded at, that journal is the one it was loaded from*.
The guard compares revisions; this is why it is enough. `Logged`: a committed ticket's
receipt is kept inside the horizon; so a missing one is outside it, or the ticket
did not commit. The journal's own lemmas say that adding a gap
to disjoint gaps leaves disjoint gaps that cover one position more (`GapAdded`), and
by that, over the recursive function, that an eviction covers exactly what it removed
(`SweepCovers`).

Type correctness is stated by the first theorem of a module, or is part of its
inductive invariant, and is not repeated in the runs.

Only model-checked:

* the liveness properties (`CallsReturn`, `StopCompletes`, `WorkSettles`), out of this
  prover's reach because they need fairness and ENABLED;
* the four properties that the code violates (section 5).

## 5. Findings

1. `mutation_clones`. `PreparedMutation` is `Clone` and its clones share one
   `attempted` flag, which `submit` reads at its start and uses when its own
   admission fails. With a clone submitted by another thread in between, the
   first call reports `NotCommitted` for a committed operation, against
   `mutation.rs:50`. Callers that submit a ticket from one thread at a time are
   not affected, which is what run `mutation` shows.
2. `runtime_cov`. A COV permit that is admitted and cancelled before it is
   opened is dropped by the early return of `Subscription::open`
   (`cov.rs:169-170`) without `finish`; the slot stays listed, and every later
   `stop` is `Unresolved`. The Modbus permit has a `Drop` for this
   (`modbus/admission.rs:69`), and run `runtime_live` shows that with it every
   stop completes.
3. `observation_fencing`. `open_synthetic` takes the epoch it read plus one, and the
   ticket it prepares depends on the state it read and nothing else. Two opens that
   read the same state prepare the same ticket; the second submit finds the receipt
   of the first and is told Committed (`window.rs:240`). Both windows then hold the
   lease that was to fence one of them, against "durable fencing state" of
   `0003_observations.sql:8`. Their commits still exclude each other by revision, so
   no journal is torn.
4. `dispatch_cancel`. A cancelled send that fails is answered `Cancelled` unless the
   peer has *received* a request (`harness.rs:605` with `sent_count`), while
   `harness_provenance.rs:12` says that only a send before any packet is `Cancelled`.
   A packet that is on its way is neither, and its write may still happen.

Met while modelling, and modelled as the code is, without a run of their own:

* `preview.rs` says of the owners' path that only it yields `is_verified`;
  `check_custody_with` and the marker `decode` followed by `reconstruct_with` yield it
  too, without `decode_with`. What `SealMatchesProof` says holds all the same, since
  `reconstruct_with` asks for report and plan.
* `action_recovery`'s check of a backup has a StaleGeneration branch that an earlier
  comparison makes unreachable, and looks at neither the wire bits nor the kind.
* A death between the creation of the custody marker and its bytes leaves a marker
  that refuses every later open and prune.
* A seal history whose last permitted row is a seal can never release it.

## 6. What is not modelled

`config`, `domain`, `action_manifest` and the command line: parsing, data types and
printing, without state that outlives a call. Within the modelled components:

* Encodings, canonical bytes, digests and key hashing are data: a digest is what it
  is the digest of. SQL of a migration is one step. The text of previews, reports and
  descriptors is left out, but for the coarse text of a value in `Preview`.
* SQLite is taken to be what the code takes it for (one writer, atomic commit); the
  network and the peer may lose, delay or carry out a request.
* Concurrent transitions on one `Journal` from two threads are outside its documented
  discipline. The reading a caller takes before `mark_recalculated` is not in the code.
  Both hazards are listed.
* `outstanding_page` of the journal pages by OFFSET over a set that shrinks; it changes
  no state. A start that fails before its stores are open leaves a `Runtime` that only
  refuses (`Disabled`).
* `Recovery` assumes that no other issuer writes the reason text of a recovery
  operation (`RecoveryAssumption`). `Seal` keeps one limit of the closure's walk (nodes) and folds the access
  and binding histories into one version. `Subscription` leaves out a channel whose
  sender is gone. Pins of an earlier boot, which `pins.rs:27` lets block the reaping of
  others, appear in `ObservationWindow` through its one reboot.
* BACnet discovery and a Modbus exchange are one request and one answer inside a work
  item; the fixtures and the loopback peers are test equipment, except for the peer
  that `Dispatch` needs.
* The native engine is external: the model has its generations and what a prune may
  delete, not its lifecycle gate, settings or reports.

## 7. The plan

Every safety property that a passing run checks is a theorem, and so are both
refinements; where the code breaks a documented promise (section 5), the theorems of section
4 say what it keeps all the same. What is left to prove joins components that are now
proved apart: that the slot of `Runtime` is what `Subscription` shows of itself (a
refinement), and that the history a seal names is the one `Access` and `Binding` write.
To be modelled, if time allows: the lifecycle of the native handle, and a channel closed
under a subscription.
