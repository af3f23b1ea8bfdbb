------------------------------- MODULE Outbox -------------------------------
(***************************************************************************)
(* The outbox of the SQLite store (src/src/storage/sqlite/mod.rs): rows    *)
(* queued, claimed and acknowledged, the dirty marks of derived values,    *)
(* and the space and maintenance budgets.                                  *)
(*                                                                         *)
(* Inserts and claims are prepared tickets whose answer may be lost and    *)
(* which are submitted again; acknowledgments and requeues have no ticket. *)
(* A client may die holding claims, and another acts on its behalf.        *)
(***************************************************************************)
EXTENDS Naturals, Sequences, FiniteSets, FiniteSetsExt

CONSTANTS
    Tokens,             \* claim tokens, one per client
    Entities,
    Limits,             \* limits callers ask for
    MAX_REPLAY_ROWS, MAX_WAL, MAX_DB,
    MaxRows,            \* bound on inserts
    MaxTickets,         \* bound on claim tickets
    Absent

ASSUME OutboxAssumption ==
    /\ {MAX_WAL, MAX_DB, MaxRows, MaxTickets} \cup Limits \subseteq Nat
    /\ MAX_REPLAY_ROWS \in Nat \ {0}
    /\ Absent \notin Tokens \cup [dirty : BOOLEAN]
    /\ \A rows \in SUBSET (1..MaxRows) : rows # Absent
    /\ Absent \notin [op : {"insert"}, entity : Entities, row : Nat]
                     \cup [op : {"claim"}, limit : Nat, id : Nat]

VARIABLES
    outbox,     \* the rows in id order
    marks,      \* derived_marks
    claims,     \* receipts of claim tickets: the rows they claimed, in order made
    wal,        \* size of the -wal file
    main,       \* size of the main file
    client,     \* each client's kept ticket and the rows it was handed
    covered     \* rows of each entity that its last recalculation saw (history)

outboxVars == <<outbox, marks, claims, wal, main, client, covered>>

Fresh_client == [ticket |-> Absent, rows |-> {}]

OutboxInit ==
    /\ outbox = <<>>
    /\ marks = [e \in Entities |-> Absent]
    /\ claims = <<>>
    /\ wal = 0
    /\ main = 0
    /\ client = [t \in Tokens |-> Fresh_client]
    /\ covered = [e \in Entities |-> 0]

Of(e) == {i \in DOMAIN outbox : outbox[i].entity = e}
Queued == {i \in DOMAIN outbox : outbox[i].status = "queued"}
Oldest(rows, n) == {i \in rows : Cardinality({j \in rows : j < i}) < n}

\* maintenance_reason: the WAL or the whole is over its threshold.
maintenance_reason == wal > MAX_WAL \/ main + wal > MAX_DB

\* Every commit adds to the WAL; above the threshold how much no longer matters.
Grown == Min({wal + 1, MAX_WAL + 1})

\* One more unit of payload must fit.
SpaceExhausted == main + wal + 1 > MAX_DB

-----------------------------------------------------------------------------
\* prepare_insert refuses before anything is written.
prepare_insert(t, e) ==
    /\ client[t].ticket = Absent
    /\ Len(outbox) < MaxRows
    /\ ~maintenance_reason /\ ~SpaceExhausted
    /\ client' = [client EXCEPT ![t].ticket = [op |-> "insert", entity |-> e, row |-> 0]]
    /\ UNCHANGED <<outbox, marks, claims, wal, main, covered>>

\* Mutant: only a missing mark is created.
dirtied_New(e) == IF marks[e] = Absent THEN [marks EXCEPT ![e] = [dirty |-> TRUE]] ELSE marks

\* The mark of an inserted row's entity: made, or made dirty again.
dirtied(e) == [marks EXCEPT ![e] = [dirty |-> TRUE]]

\* The transaction of an insert: the preconditions are rechecked under the
\* writer lock, row and dirty mark are committed together.  A ticket submitted
\* again finds its receipt.
insert(t) ==
    LET k == client[t].ticket
    IN  /\ k # Absent /\ k.op = "insert"
        /\ IF k.row # 0
             THEN /\ client' = [client EXCEPT ![t].ticket = Absent]
                  /\ UNCHANGED <<outbox, marks, wal>>
             ELSE /\ Len(outbox) < MaxRows
                  /\ ~maintenance_reason /\ main + 1 <= MAX_DB
                  /\ outbox' = Append(outbox, [entity |-> k.entity, status |-> "queued",
                                               by |-> Absent, acker |-> Absent])
                  /\ marks' = dirtied(k.entity)
                  /\ wal' = Grown
                  /\ \E lost \in BOOLEAN :
                        client' = [client EXCEPT ![t].ticket =
                                     IF lost THEN [k EXCEPT !.row = Len(outbox')] ELSE Absent]
    /\ UNCHANGED <<claims, main, covered>>

\* The caller gives a refused insert up.
insert_refused(t) ==
    /\ client[t].ticket # Absent /\ client[t].ticket.op = "insert"
    /\ maintenance_reason \/ main + 1 > MAX_DB
    /\ client' = [client EXCEPT ![t].ticket = Absent]
    /\ UNCHANGED <<outbox, marks, claims, wal, main, covered>>

\* prepare_claim: at least one row, at most the finite horizon.
effective(limit) == Min({limit, MAX_REPLAY_ROWS})

prepare_claim(t, limit) ==
    /\ client[t].ticket = Absent /\ limit > 0
    /\ Len(claims) < MaxTickets
    /\ claims' = Append(claims, Absent)
    /\ client' = [client EXCEPT ![t].ticket =
                    [op |-> "claim", limit |-> effective(limit), id |-> Len(claims')]]
    /\ UNCHANGED <<outbox, marks, wal, main, covered>>

\* Mutant: a claim submitted again claims again.
claimed_before_Never(k) == FALSE

\* The receipt of a claim ticket, if it committed.
claimed_before(k) == claims[k.id] # Absent

\* claim_queued: the oldest queued rows become this token's; a retry returns
\* the original snapshot.  The answer may be lost.
claim_queued(t) ==
    LET k == client[t].ticket
        now == Oldest(Queued, k.limit)
    IN  /\ k # Absent /\ k.op = "claim"
        /\ IF claimed_before(k)
             THEN /\ client' = [client EXCEPT ![t] =
                                  [ticket |-> Absent, rows |-> @.rows \cup claims[k.id]]]
                  /\ UNCHANGED <<outbox, claims, wal>>
             ELSE /\ outbox' = [i \in DOMAIN outbox |->
                                  IF i \in now THEN [outbox[i] EXCEPT !.status = "claimed", !.by = t]
                                  ELSE outbox[i]]
                  /\ claims' = [claims EXCEPT ![k.id] = now]
                  /\ wal' = Grown
                  /\ \E lost \in BOOLEAN :
                        client' = IF lost THEN client
                                  ELSE [client EXCEPT ![t] =
                                          [ticket |-> Absent, rows |-> @.rows \cup now]]
    /\ UNCHANGED <<marks, main, covered>>

\* Mutant: the owner of the claim is not compared.
Owned_AnyToken(i, t) == outbox[i].status = "claimed"

\* Mutant: the status is not compared, only the token.
Owned_AnyStatus(i, t) == outbox[i].by = t

\* The condition of acknowledge and requeue_claim.
Owned(i, t) == outbox[i].status = "claimed" /\ outbox[i].by = t

\* acknowledge: zero affected rows is a conflict.  The client forgets the row
\* when it has an answer.
acknowledge(t, i) ==
    /\ outbox' = IF Owned(i, t)
                   THEN [outbox EXCEPT ![i].status = "acked", ![i].acker = t] ELSE outbox
    /\ wal' = IF Owned(i, t) THEN Grown ELSE wal
    /\ \E lost \in BOOLEAN :
          client' = IF lost THEN client ELSE [client EXCEPT ![t].rows = @ \ {i}]
    /\ UNCHANGED <<marks, claims, main, covered>>

\* requeue_claim, by anyone who once saw the claim in a report: it may have
\* been acknowledged or handed to another since, which is a conflict.
requeue_claim(i, t) ==
    /\ Owned(i, t)
    /\ outbox' = [outbox EXCEPT ![i].status = "queued", ![i].by = Absent]
    /\ wal' = Grown
    /\ UNCHANGED <<marks, claims, main, client, covered>>

\* mark_recalculated, of the current schema generation: only a known entity.
mark_recalculated(e) ==
    /\ marks[e] # Absent
    /\ marks' = [marks EXCEPT ![e].dirty = FALSE]
    /\ wal' = Grown
    /\ covered' = [covered EXCEPT ![e] = Cardinality(Of(e))]
    /\ UNCHANGED <<outbox, claims, main, client>>

\* checkpoint: the WAL is truncated unless another connection blocks it.
checkpoint_wal ==
    /\ wal > 0
    /\ wal' = 0
    /\ main' = Max({main, Len(outbox)})
    /\ UNCHANGED <<outbox, marks, claims, client, covered>>

\* close: a checkpoint and the final sizes; a client that closes keeps nothing.
close_store(t) ==
    /\ client[t].ticket = Absent /\ client[t].rows = {}
    /\ checkpoint_wal

\* A client dies: its ticket and the rows it was handed are gone.
ClientDies(t) ==
    /\ client[t] # Fresh_client
    /\ client' = [client EXCEPT ![t] = Fresh_client]
    /\ UNCHANGED <<outbox, marks, claims, wal, main, covered>>

-----------------------------------------------------------------------------
\* What the read-only operations return.
replay_queued(limit) == Oldest(Queued, effective(limit))
dangling_claims == {i \in DOMAIN outbox : outbox[i].status = "claimed"}
dirty_entities == {e \in Entities : marks[e] # Absent /\ marks[e].dirty}
report ==
    [queued |-> Cardinality(Queued), claimed |-> Cardinality(dangling_claims),
     acked |-> Len(outbox) - Cardinality(Queued \cup dangling_claims)]

OutboxNext ==
    \/ \E t \in Tokens :
          \/ \E e \in Entities : prepare_insert(t, e)
          \/ insert(t) \/ insert_refused(t)
          \/ \E limit \in Limits : prepare_claim(t, limit)
          \/ claim_queued(t)
          \/ \E i \in client[t].rows : acknowledge(t, i)
          \/ \E i \in DOMAIN outbox : requeue_claim(i, t)
          \/ close_store(t) \/ ClientDies(t)
    \/ \E e \in Entities : mark_recalculated(e)
    \/ checkpoint_wal

OutboxSpec == OutboxInit /\ [][OutboxNext]_outboxVars

-----------------------------------------------------------------------------
\* The queue is sound through lost answers, retries, deaths and requeues: every
\* acknowledged row was acknowledged by the token that owned its claim and is never
\* queued again, however often a claim ticket is submitted its receipt names all it
\* took, so no claim is out of its owner's reach, and an entity is clean only when
\* its last recalculation followed all its rows (insert, claim_queued, acknowledge,
\* requeue_claim, mark_recalculated).
OutboxSound ==
    /\ \A i \in DOMAIN outbox :
          /\ outbox[i].status = "queued" <=> outbox[i].by = Absent
          /\ outbox[i].status = "acked" <=> outbox[i].acker # Absent
          /\ outbox[i].status = "acked" => outbox[i].acker = outbox[i].by
          /\ outbox[i].entity \notin dirty_entities =>
                covered[outbox[i].entity] = Cardinality(Of(outbox[i].entity))
    /\ \A i \in dangling_claims : \E n \in DOMAIN claims : claims[n] # Absent /\ i \in claims[n]
    /\ \A n \in DOMAIN claims : claims[n] # Absent => Cardinality(claims[n]) <= MAX_REPLAY_ROWS
    /\ report.queued + report.claimed + report.acked = Len(outbox)
    /\ \A limit \in Limits \ {0} : replay_queued(limit) = {} <=> Queued = {}
=============================================================================
