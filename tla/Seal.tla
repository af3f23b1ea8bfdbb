-------------------------------- MODULE Seal --------------------------------
(***************************************************************************)
(* Seals and the native bytes they retain (src/src/seal/store.rs,          *)
(* references.rs, manifest.rs; src/src/native/maintenance.rs, handle.rs).  *)
(*                                                                         *)
(* A seal is a row of the application database that names the rows of its  *)
(* closure and checkpoint generations of a native store.  Nothing spans    *)
(* the two stores: a custody lock of the native owner, a guard the         *)
(* application installs and a sidecar marker keep a prune from deleting    *)
(* what a live seal names.  Processes die anywhere and come back, with or  *)
(* without the application; a statement their database child was given may *)
(* still commit after they died.  A digest is what it is the digest of.    *)
(***************************************************************************)
EXTENDS Naturals, Sequences, FiniteSets

CONSTANTS
    Natives,          \* native stores, each with its own process
    RowKeys,          \* addresses of content rows
    Children,         \* the rows that each content row names
    Findings,         \* those that are valid binding findings of the scope
    Later,            \* addresses whose rows are inserted during the run, twice at most
    Publishes,        \* operations that seal, with the root they seal
    Releases,         \* operations that release
    MAX_LIVE_SEALS, MAX_HISTORY, MAX_NODES,
    MaxCheckpoints,   \* bound on the generations of a native store
    MaxAuthority,     \* bound on the changes of access or binding history
    MaxDeaths,        \* bound on the deaths of processes
    NoTask

ASSUME SealAssumption ==
    /\ {MAX_LIVE_SEALS, MAX_HISTORY, MAX_NODES, MaxCheckpoints, MaxAuthority, MaxDeaths}
           \subseteq Nat
    /\ Children \in [RowKeys -> SUBSET RowKeys] /\ Findings \union Later \subseteq RowKeys
    /\ IsFiniteSet(RowKeys) /\ \A p \in Publishes : p.root \in RowKeys

VARIABLES
    native,     \* per native store: its generations, and its process and custody
    task,       \* what holds the custody lock of each native store
    copies,     \* how many rows each address has
    seals,      \* the seal history
    receiptOf,  \* the receipts of operations: the identity they committed
    grantRows,  \* version of the access and binding histories
    orphans,    \* statements whose process died while they ran
    late,       \* identities committed by an orphan (history)
    deaths

sealVars == <<native, task, copies, seals, receiptOf, grantRows, orphans, late, deaths>>

SealOps == {p.op : p \in Publishes} \union Releases
NoReceipt == [root |-> "none"]

SealInit ==
    /\ native = [n \in Natives |-> [gens |-> {1}, head |-> 1, up |-> TRUE,
                                    guard |-> FALSE, marker |-> "absent"]]
    /\ task = [n \in Natives |-> NoTask]
    /\ copies = [k \in RowKeys |-> IF k \in Later THEN 0 ELSE 1]
    /\ seals = <<>>
    /\ receiptOf = [o \in SealOps |-> NoReceipt]
    /\ grantRows = 0
    /\ orphans = {} /\ late = {} /\ deaths = 0

-----------------------------------------------------------------------------
\* The history of seals.
SealedIn(h) == {h[i].identity : i \in {j \in DOMAIN h : h[j].kind = "seal"}}
ReleasedIn(h) == {h[i].identity : i \in {j \in DOMAIN h : h[j].kind = "release"}}
live(h) == SealedIn(h) \ ReleasedIn(h)

\* History::read refuses every other history, and with it every operation.
history_read(h) ==
    /\ Len(h) <= MAX_HISTORY
    /\ Cardinality(live(h)) <= MAX_LIVE_SEALS
    /\ \A i, j \in DOMAIN h : h[i] = h[j] => i = j
    /\ \A i \in DOMAIN h : h[i].kind = "release" =>
         \E j \in 1..(i - 1) : h[j].kind = "seal" /\ h[j].identity = h[i].identity

finding_fingerprint(k) == k \in Findings

\* A finding names no row; a content node names its children.
children(k) == IF k \in Findings THEN {} ELSE Children[k]

\* The rows that the walk visits from the roots, and whether one reaches itself.
visit(roots) ==
    LET step[d \in 0..Cardinality(RowKeys)] ==
          IF d = 0 THEN roots ELSE step[d - 1] \union UNION {children(k) : k \in step[d - 1]}
    IN step[Cardinality(RowKeys)]
Cyclic(k) == k \in visit(children(k))

\* closure: every row once, no cycle, a finding among them.
closure(root) ==
    /\ \A k \in visit({root}) : copies[k] = 1 /\ ~Cyclic(k)
    /\ Cardinality(visit({root})) <= MAX_NODES
    /\ \E k \in visit({root}) : finding_fingerprint(k)

\* NativeRef::verify: the artifacts of the generation are there, in this store.
native_verify(n, identity) == identity.native = n /\ identity.gen \in native[n].gens

\* Manifest::stage, and verify after the commit and before each capture.
manifest_stage(n, identity) == closure(identity.root) /\ native_verify(n, identity)

-----------------------------------------------------------------------------
\* The native store: a checkpoint needs no custody.

Rest == <<copies, seals, receiptOf, grantRows, orphans, late>>

\* checkpoint: selects a new generation; one with nothing written since the last
\* selection uses that one again and changes nothing.
checkpoint_native(n) ==
    /\ native[n].up /\ native[n].head < MaxCheckpoints
    /\ native' = [native EXCEPT ![n].head = @ + 1, ![n].gens = @ \union {native[n].head + 1}]
    /\ UNCHANGED <<task, deaths, Rest>>

\* NativeRef::capture is a checkpoint that finds the custody lock free.
capture(n) == task[n] = NoTask /\ checkpoint_native(n)

-----------------------------------------------------------------------------
\* Custody.  The lock is taken at once or the call is refused as busy.

Locks(n, t) == task[n] = NoTask /\ task' = [task EXCEPT ![n] = t]
Unlocks(n) == task' = [task EXCEPT ![n] = NoTask]
Moves(n, t) == task' = [task EXCEPT ![n] = t]

\* SealStore::open: the marker is created, or is the one of this pair of stores,
\* and the guard is installed in the lock that prune takes.
open_seals(n) ==
    /\ native[n].up /\ ~native[n].guard /\ task[n] = NoTask
    /\ native[n].marker # "partial" /\ history_read(seals)
    /\ native' = [native EXCEPT ![n].marker = "ours", ![n].guard = TRUE]
    /\ UNCHANGED <<task, deaths, Rest>>

\* The process dies between the creation of the marker and its bytes.
DiesInOpen(n) ==
    /\ native[n].up /\ ~native[n].guard /\ task[n] = NoTask /\ native[n].marker = "absent"
    /\ deaths < MaxDeaths /\ deaths' = deaths + 1
    /\ native' = [native EXCEPT ![n].marker = "partial", ![n].up = FALSE]
    /\ UNCHANGED <<task, Rest>>

require_guard(n) == native[n].up /\ native[n].guard /\ native[n].marker = "ours"

\* seal: the lock, the authority, then the manifest with the guard on its rows.
seal_stage(n, p, gen) ==
    LET identity == [native |-> n, gen |-> gen, root |-> p.root]
    IN /\ require_guard(n)
       /\ Locks(n, [at |-> "staged", op |-> p.op, identity |-> identity, kind |-> "seal",
                    authority |-> grantRows, count |-> 0])
       /\ manifest_stage(n, identity)
       /\ UNCHANGED <<native, deaths, Rest>>

\* The operation may have been committed before, or its content under another one.
seal_admit(n) ==
    LET t == task[n]
    IN /\ t # NoTask /\ t.at = "staged" /\ history_read(seals)
       /\ \/ receiptOf[t.op] # NoReceipt /\ Unlocks(n)
          \/ /\ receiptOf[t.op] = NoReceipt /\ t.identity \in SealedIn(seals)
             /\ IF t.identity \in ReleasedIn(seals) THEN Unlocks(n)
                ELSE Moves(n, [t EXCEPT !.at = "submit", !.kind = "alias", !.count = Len(seals)])
          \/ /\ receiptOf[t.op] = NoReceipt /\ t.identity \notin SealedIn(seals)
             /\ IF Cardinality(live(seals)) < MAX_LIVE_SEALS /\ Len(seals) < MAX_HISTORY
                THEN Moves(n, [t EXCEPT !.at = "submit", !.count = Len(seals)])
                ELSE Unlocks(n)
       /\ UNCHANGED <<native, deaths, Rest>>

release_seal(n, op, identity) ==
    /\ require_guard(n) /\ history_read(seals)
    /\ identity \in live(seals) /\ Len(seals) < MAX_HISTORY
    /\ Locks(n, [at |-> "submit", op |-> op, identity |-> identity, kind |-> "release",
                 authority |-> grantRows, count |-> Len(seals)])
    /\ UNCHANGED <<native, deaths, Rest>>

\* Mutant: the number of seal rows read is not in the condition.
history_guard_None(t) == TRUE

history_guard(t) == Len(seals) = t.count

\* The rows of the closure as they were staged: none missing, none doubled.
references_guard(t) == \A k \in visit({t.identity.root}) : copies[k] = 1

\* The condition of the statement, evaluated by the database at the commit.
CommitHolds(t) ==
    /\ receiptOf[t.op] = NoReceipt /\ grantRows = t.authority /\ history_guard(t)
    /\ t.kind # "release" => references_guard(t)

SealCommits(t) ==
    /\ seals' = IF t.kind = "alias" THEN seals
                ELSE Append(seals, [kind |-> t.kind, identity |-> t.identity])
    /\ receiptOf' = [receiptOf EXCEPT ![t.op] = t.identity]

\* Committed; or not, with the refusal or the failure the caller is told.
submit_seal(n) ==
    /\ task[n] # NoTask /\ task[n].at = "submit"
    /\ Unlocks(n)
    /\ \/ CommitHolds(task[n]) /\ SealCommits(task[n])
       \/ UNCHANGED <<seals, receiptOf>>
    /\ UNCHANGED <<native, copies, grantRows, orphans, late, deaths>>

-----------------------------------------------------------------------------
\* Mutant: without the application there is nothing to ask.
unguarded_Free(n) == TRUE

\* Mutant: the guard looks at nothing but its marker.
check_prune_Marker == TRUE

\* ApplicationGuard::check_prune: no live seal anywhere in the history.
check_prune == history_read(seals) /\ live(seals) = {}

\* Without the application, only the absence of its marker permits a prune.
unguarded(n) == native[n].marker = "absent"

prune_begins(n) ==
    /\ native[n].up
    /\ IF native[n].guard THEN native[n].marker = "ours" /\ check_prune ELSE unguarded(n)
    /\ Locks(n, [at |-> "prune", op |-> "none", identity |-> NoReceipt, kind |-> "prune",
                 authority |-> 0, count |-> 0])
    /\ UNCHANGED <<native, deaths, Rest>>

\* Selene deletes what is not its selection, all of it or only some.
prune_deletes(n) ==
    /\ task[n] # NoTask /\ task[n].at = "prune"
    /\ \E kept \in SUBSET native[n].gens :
         /\ native[n].head \in kept
         /\ native' = [native EXCEPT ![n].gens = kept]
    /\ Unlocks(n)
    /\ UNCHANGED <<deaths, Rest>>

-----------------------------------------------------------------------------
\* The process of a native store dies, and comes back without the application.
ProcessDies(n) ==
    /\ native[n].up /\ deaths < MaxDeaths /\ deaths' = deaths + 1
    /\ native' = [native EXCEPT ![n].up = FALSE, ![n].guard = FALSE]
    /\ Unlocks(n)
    /\ orphans' = IF task[n] # NoTask /\ task[n].at = "submit"
                  THEN orphans \union {task[n]} ELSE orphans
    /\ UNCHANGED <<copies, seals, receiptOf, grantRows, late>>

open_native(n) ==
    /\ ~native[n].up
    /\ native' = [native EXCEPT ![n].up = TRUE, ![n].guard = FALSE]
    /\ UNCHANGED <<task, deaths, Rest>>

OrphanCommits(t) ==
    /\ t \in orphans /\ orphans' = orphans \ {t}
    /\ CommitHolds(t) /\ SealCommits(t)
    /\ late' = IF t.kind = "seal" THEN late \union {t.identity} ELSE late
    /\ UNCHANGED <<native, task, copies, grantRows, deaths>>

\* Others insert content rows, and write the access or the binding history.
RowInserted(k) ==
    /\ copies[k] < 2 /\ copies' = [copies EXCEPT ![k] = @ + 1]
    /\ UNCHANGED <<native, task, seals, receiptOf, grantRows, orphans, late, deaths>>

AuthorityMoves ==
    /\ grantRows < MaxAuthority /\ grantRows' = grantRows + 1
    /\ UNCHANGED <<native, task, copies, seals, receiptOf, orphans, late, deaths>>

SealNext ==
    \/ \E n \in Natives :
         \/ checkpoint_native(n) \/ capture(n) \/ open_seals(n) \/ DiesInOpen(n)
         \/ \E p \in Publishes, gen \in 1..native[n].head : seal_stage(n, p, gen)
         \/ seal_admit(n)
         \/ \E op \in Releases, i \in SealedIn(seals) : release_seal(n, op, i)
         \/ submit_seal(n) \/ prune_begins(n) \/ prune_deletes(n) \/ ProcessDies(n) \/ open_native(n)
    \/ \E t \in orphans : OrphanCommits(t)
    \/ \E k \in Later : RowInserted(k)
    \/ AuthorityMoves

SealSpec == SealInit /\ [][SealNext]_sealVars

-----------------------------------------------------------------------------
\* capture_simulation answers for a live seal, but for rows doubled since.
Retained(identity) ==
    /\ identity.gen \in native[identity.native].gens
    /\ \A k \in visit({identity.root}) : copies[k] >= 1 /\ ~Cyclic(k)

\* The history stays readable, so no operation is refused for good; every live seal
\* keeps its rows and its native generations through prunes, deaths and reopenings
\* without the application, unless an orphan committed it; and a receipt names a
\* seal of the history (store.rs: seal, release, check_prune; maintenance.rs: prune).
SealsRetained ==
    /\ history_read(seals)
    /\ \A identity \in live(seals) \ late : Retained(identity)
    /\ \A o \in SealOps : receiptOf[o] # NoReceipt => receiptOf[o] \in SealedIn(seals)
=============================================================================
