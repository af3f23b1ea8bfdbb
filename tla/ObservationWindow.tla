------------------------- MODULE ObservationWindow -------------------------
(***************************************************************************)
(* The durable observation window (src/src/observation/window.rs,          *)
(* spool.rs, pins.rs, custody.rs) over its writer                          *)
(* (src/src/storage/observation_writer.rs).                                *)
(*                                                                         *)
(* Every operation loads one snapshot of the journal, computes a new image *)
(* from it, prepares a ticket whose guard is that the durable state is     *)
(* still the loaded one, and submits it.  Between the load and the submit  *)
(* any other handle may commit.  Receipts of old tickets are pruned, so    *)
(* the absence of a receipt proves a noncommit inside a horizon only.      *)
(***************************************************************************)
EXTENDS Integers, FiniteSets, FiniteSetsExt

CONSTANTS
    Handles,        \* Window values, each used by one thread
    Keys,           \* installed binding keys
    Bindings,       \* BindingContext: its key and active generation
    Inputs,         \* what can be captured: binding, receipt evidence, class
    REPLAY_ROWS, WINDOW_SLOTS, SPOOL_SLOTS, RESERVE_SLOTS,
    PIN_LIMIT, EVICT_ROWS, GAP_LIMIT, LIFETIME,
    MaxCommits,     \* bound on the commits of a behaviour
    MaxTime,        \* bound on the clock
    MaxCrashes,     \* bound on process crashes
    None

\* The state row of a journal.
WindowStates == [rev : Nat, epoch : Nat, next : Nat, gen : Nat,
                 selected : [Keys -> Bindings \cup {None}], current : [Keys -> Nat \cup {None}]]

ASSUME WindowAssumption ==
    /\ None \notin WindowStates
    /\ {REPLAY_ROWS, WINDOW_SLOTS, SPOOL_SLOTS, RESERVE_SLOTS, PIN_LIMIT, EVICT_ROWS,
        GAP_LIMIT, LIFETIME, MaxCommits, MaxTime, MaxCrashes} \subseteq Nat
    /\ \A b \in Bindings : b.key \in Keys /\ b.act \in Nat
    /\ \A i \in Inputs : i.binding \in Bindings /\ i.mandatory \in BOOLEAN

VARIABLES
    db,         \* the journal: obw:state, observations, pins and gaps
    receipts,   \* retained attempt receipts, of tickets still in use
    log,        \* tickets in use that have committed (history)
    clock,      \* boot and monotonic time
    lease,      \* the epoch each open Window was granted, 0 when not open
    captured,   \* the Capture the caller keeps
    token,      \* the PinToken each caller keeps
    call,       \* the store call each handle is inside of
    orphan,     \* ticket of a store child that outlived its process
    commits,    \* commits so far
    crashes

vars == <<db, receipts, log, clock, lease, captured, token, call, orphan, commits, crashes>>

Empty == [state |-> None, rows |-> {}, pins |-> {}, gaps |-> {}]
Fresh == [rev |-> 0, epoch |-> 0, next |-> 0, gen |-> 0,
          selected |-> [k \in Keys |-> None], current |-> [k \in Keys |-> None]]

Init ==
    /\ db = Empty
    /\ receipts = {}
    /\ log = {}
    /\ clock = [boot |-> 1, t |-> 0]
    /\ lease = [h \in Handles |-> 0]
    /\ captured = None
    /\ token = [h \in Handles |-> None]
    /\ call = [h \in Handles |-> None]
    /\ orphan = None
    /\ commits = 0
    /\ crashes = 0

-----------------------------------------------------------------------------
\* The writer: tickets, their guard and what a commit does.

Seqs(rows) == {r.seq : r \in rows}

\* Mutant: the guard of a prepared ticket is only that a journal exists.
Guard_Exists(ticket, d) ==
    IF ticket.old.state = None THEN d = Empty ELSE d.state # None

\* The guard of a ticket: the state row is byte for byte the loaded one; for
\* a first open the whole journal is absent.
Guard(ticket, d) ==
    IF ticket.old.state = None THEN d = Empty ELSE d.state = ticket.old.state

\* The body of a ticket applied to d: removed pins and rows are deleted, new
\* and changed rows upserted, new pins inserted, changed gaps replaced.
Body(ticket, d) ==
    LET old == ticket.old
        new == ticket.new
        gone == Seqs(old.rows) \ Seqs(new.rows)
        put == new.rows \ old.rows
    IN  [state |-> new.state,
         rows |-> {r \in d.rows : r.seq \notin gone \cup Seqs(put)} \cup put,
         pins |-> (d.pins \ (old.pins \ new.pins)) \cup (new.pins \ old.pins),
         gaps |-> IF new.gaps = old.gaps THEN d.gaps ELSE new.gaps]

\* The foreign key of pins: a pinned row cannot be deleted.
PinsHaveRows(d) == \A p \in d.pins : \E r \in d.rows : r.seq = p.seq /\ r.gen = p.gen

\* prepare refuses a revision that does not advance by one.
Ticket(old, new) == [rev |-> new.state.rev, old |-> old, new |-> new]

\* advance: the new state carries the next revision.
advance(image) == [image EXCEPT !.state.rev = @ + 1]

\* Receipts a commit of revision rev leaves behind.
Retained(rev) == {t \in receipts : t.rev + REPLAY_ROWS > rev}

\* Mutant: a NotCommitted is passed on at the edge of the horizon too.
retained_outcome_Late(rev) ==
    /\ db.state # None
    /\ \/ db.state.rev < rev
       \/ db.state.rev - rev <= REPLAY_ROWS

\* retained_outcome: absence of a receipt is believed inside the horizon only.
retained_outcome(rev) ==
    /\ db.state # None
    /\ \/ db.state.rev < rev
       \/ db.state.rev - rev < REPLAY_ROWS

\* Handle h enters the store with a ticket.
Enter(h, op, ticket) ==
    call' = [call EXCEPT ![h] = [op |-> op, ticket |-> ticket, phase |-> "store", past |-> FALSE]]

\* The store call of h returns: an open yields its lease, a pin its token; a
\* Capture is kept until its outcome is decided.
Return(h, kind) ==
    LET c == call[h]
        done == kind = "Committed"
    IN  /\ call' = [call EXCEPT ![h] = None]
        /\ lease' = IF c.op = "open" /\ done
                      THEN [lease EXCEPT ![h] = c.ticket.new.state.epoch] ELSE lease
        /\ token' = IF c.op = "pin" /\ done
                      THEN [token EXCEPT ![h] =
                              CHOOSE p \in c.ticket.new.pins \ c.ticket.old.pins : TRUE]
                      ELSE token
        /\ captured' = IF captured # None /\ captured.ticket = c.ticket /\ kind \in {"Committed", "Conflict"}
                         THEN None ELSE captured
        /\ UNCHANGED <<clock, orphan, crashes>>

\* Tickets somebody may still submit or reconcile.
InUse ==
    ({orphan} \cup {call[h].ticket : h \in {i \in Handles : call[i] # None}} \cup
     {c.ticket : c \in {captured} \ {None}}) \ {None}

\* The transaction of a ticket commits with its receipt.  Receipts no ticket
\* in use can meet any more are left out of the model: a new ticket carries a
\* later revision than every receipt.
Commit(ticket) ==
    /\ db' = Body(ticket, db)
    /\ receipts' = {t \in Retained(ticket.rev) \cup {ticket} : \E u \in InUse : u.rev = t.rev}
    /\ log' = (log \cup {ticket}) \cap InUse
    /\ commits' = commits + 1

\* Whether the transaction of a ticket can commit now.
Commits(ticket) ==
    /\ \A t \in receipts : t.rev # ticket.rev
    /\ Guard(ticket, db)
    /\ PinsHaveRows(Body(ticket, db))

\* SqliteStore::submit meets the ticket's own receipt, or that of another
\* request under the same ticket identity.
StoreReplays(h) ==
    /\ call[h] # None /\ call[h].phase = "store"
    /\ \E t \in receipts :
          /\ t.rev = call[h].ticket.rev
          /\ Return(h, IF t = call[h].ticket THEN "Committed" ELSE "Conflict")
    /\ UNCHANGED <<db, receipts, log, commits>>

\* The body runs and commits; the answer may be lost.
StoreCommits(h) ==
    /\ call[h] # None /\ call[h].phase = "store" /\ call[h].op # "reconcile"
    /\ Commits(call[h].ticket)
    /\ Commit(call[h].ticket)
    /\ \E kind \in {"Committed", "Unknown"} : Return(h, kind)

\* The store could not be admitted or the commit failed: a ticket made with
\* with_operation counts as attempted, so the outcome is unknown.
StoreFails(h) ==
    /\ call[h] # None /\ call[h].phase = "store"
    /\ Return(h, "Unknown")
    /\ UNCHANGED <<db, receipts, log, commits>>

\* No receipt at the writer barrier, and the guard fails or the call was a
\* reconciliation: the store says NotCommitted, which retained_outcome weighs
\* against a second, later snapshot.
StoreDenies(h) ==
    /\ call[h] # None /\ call[h].phase = "store"
    /\ \A t \in receipts : t.rev # call[h].ticket.rev
    /\ call[h].op = "reconcile" \/ ~Commits(call[h].ticket)
    /\ call' = [call EXCEPT ![h].phase = "horizon", ![h].past = call[h].ticket \in log]
    /\ UNCHANGED <<db, receipts, log, commits, clock, lease, captured, token,
                   orphan, crashes>>

WeighsAbsence(h) ==
    /\ call[h] # None /\ call[h].phase = "horizon"
    /\ Return(h, IF retained_outcome(call[h].ticket.rev) THEN "NotCommitted" ELSE "Unknown")
    /\ UNCHANGED <<db, receipts, log, commits>>

-----------------------------------------------------------------------------
\* The window.

idle(h) == call[h] = None

\* Window::load: a handle whose lease is not the durable epoch is refused.
load(h) == db.state # None /\ db.state.epoch = lease[h] /\ lease[h] > 0

\* elapsed: the age of an origin under reading now; ambiguous over a boot.
elapsed(origin, now) == now.t - origin.t
Unambiguous(origin, now) == now.boot = origin.boot /\ now.t >= origin.t

\* A prepared change of the loaded image, committed by `committed'.
Change(h, op, image) ==
    /\ commits < MaxCommits
    /\ Enter(h, op, Ticket(db, advance(image)))

\* checkpoint: the continuity evidence an operator may keep.
checkpoint(d) == [generation |-> d.state.gen, next |-> d.state.next]

\* open_synthetic: every open takes the next epoch; the generation is kept
\* only when the intact checkpoint is the journal's own.  A checkpoint that
\* was overtaken is as good as none.  A slot is reused for a new Window once
\* its own is closed or fenced.
open_synthetic(h, intact) ==
    /\ idle(h) /\ ~load(h)
    /\ LET f == IF db.state = None THEN Fresh ELSE db.state
           e == f.epoch + 1
           proven == db.state # None /\ intact = checkpoint(db)
       IN  /\ commits < MaxCommits
           /\ Enter(h, "open", Ticket(db, advance([db EXCEPT !.state =
                  [f EXCEPT !.epoch = e, !.gen = IF proven THEN @ ELSE e]])))
    /\ UNCHANGED <<db, receipts, log, commits, clock, lease, captured, token, orphan, crashes>>

\* select_binding: a newer activation of a known key, or a new key while the
\* window has a slot; the key has no current value until the next capture.
select_binding(h, b) ==
    /\ idle(h) /\ load(h)
    /\ LET s == db.state.selected
       IN  /\ s[b.key] # b
           /\ IF s[b.key] # None
                THEN b.act > s[b.key].act
                ELSE Cardinality({k \in Keys : s[k] # None}) < WINDOW_SLOTS
    /\ Change(h, "select", [db EXCEPT !.state.selected[b.key] = b, !.state.current[b.key] = None])
    /\ UNCHANGED <<db, receipts, log, commits, clock, lease, captured, token, orphan, crashes>>

\* A capture replaces the current one of its key when its receipt is no
\* earlier by mark, receipt time and (if both carry one) source time.
newer(e, p) ==
    /\ e.boot = p.boot /\ e.mark >= p.mark
    /\ e.receipt >= p.receipt
    /\ ~(e.source # None /\ p.source # None /\ e.source < p.source)

Optional(rows) == {r \in rows : ~r.input.mandatory}

\* The spool refuses: no slot at all, or none outside the mandatory reserve.
SpoolFull(rows, mandatory) ==
    \/ Cardinality(rows) >= SPOOL_SLOTS
    \/ ~mandatory /\ Cardinality(Optional(rows)) >= SPOOL_SLOTS - RESERVE_SLOTS

CurrentAfter(o) ==
    LET b == o.input.binding
        c == db.state.current[b.key]
        previous == CHOOSE r \in db.rows : r.seq = c
    IN  IF db.state.selected[b.key] = b /\ (c = None \/ newer(o.input.evidence, previous.input.evidence))
          THEN [db.state.current EXCEPT ![b.key] = o.seq]
          ELSE db.state.current

\* identify attaches the next position to an observation without reserving
\* it; prepare_capture refuses one that is no longer the next.  The sequence
\* advances only with the durable append.
prepare_capture(h, input) ==
    /\ idle(h) /\ load(h)
    /\ ~SpoolFull(db.rows, input.mandatory)
    /\ commits < MaxCommits
    /\ LET row == [seq |-> db.state.next, gen |-> db.state.gen, by |-> h,
                   input |-> input, settled |-> FALSE]
           new == advance([db EXCEPT !.rows = @ \cup {row},
                                     !.state.next = @ + 1,
                                     !.state.current = CurrentAfter(row)])
       IN  captured' = [ticket |-> Ticket(db, new), origin |-> clock]
    /\ UNCHANGED <<db, receipts, log, commits, clock, lease, token, call, orphan, crashes>>

\* submit_capture: an expired or ambiguous capture is never dispatched.
submit_capture(h) ==
    /\ idle(h) /\ load(h)
    /\ captured # None
    /\ Unambiguous(captured.origin, clock)
    /\ elapsed(captured.origin, clock) < LIFETIME
    /\ Enter(h, "capture", captured.ticket)
    /\ UNCHANGED <<db, receipts, log, commits, clock, lease, captured, token, orphan, crashes>>

\* reconcile_capture, and reconcile_saved_capture on its persisted bytes.
reconcile_capture(h) ==
    /\ idle(h) /\ load(h)
    /\ captured # None
    /\ Enter(h, "reconcile", captured.ticket)
    /\ UNCHANGED <<db, receipts, log, commits, clock, lease, captured, token, orphan, crashes>>

\* settle: the local acknowledgment that makes a mandatory row evictable.
settle(h, r) ==
    /\ idle(h) /\ load(h)
    /\ Change(h, "settle", [db EXCEPT !.rows = (@ \ {r}) \cup {[r EXCEPT !.settled = TRUE]}])
    /\ UNCHANGED <<db, receipts, log, commits, clock, lease, captured, token, orphan, crashes>>

\* reap refuses when the age of any pin is ambiguous, else drops expired ones.
CanReap(pins, now) == \A p \in pins : Unambiguous(p.origin, now)
reap(pins, now) == {p \in pins : elapsed(p.origin, now) < LIFETIME}

pin(h, r) ==
    /\ idle(h) /\ load(h)
    /\ CanReap(db.pins, clock)
    /\ LET kept == reap(db.pins, clock)
       IN  /\ Cardinality(kept) < PIN_LIMIT
           /\ Change(h, "pin", [db EXCEPT !.pins = kept \cup
                  {[lease |-> lease[h], admit |-> db.state.rev + 1, seq |-> r.seq,
                    gen |-> r.gen, origin |-> clock]}])
    /\ UNCHANGED <<db, receipts, log, commits, clock, lease, captured, token, orphan, crashes>>

release_pin(h) ==
    /\ idle(h) /\ load(h)
    /\ token[h] \in db.pins
    /\ Change(h, "release", [db EXCEPT !.pins = @ \ {token[h]}])
    /\ UNCHANGED <<db, receipts, log, commits, clock, lease, captured, token, orphan, crashes>>

\* add_gap: evicted positions join adjacent gaps.
add_gap(gaps, seq) ==
    LET joined == {g \in gaps : g.to + 1 = seq \/ g.from = seq + 1}
        ends == {seq} \cup UNION {{g.from, g.to} : g \in joined}
    IN  (gaps \ joined) \cup {[from |-> Min(ends), to |-> Max(ends)]}

\* Mutant: eviction forgets which rows are current.
Evictable_Current(d, pins) ==
    {r \in d.rows :
        /\ Cardinality({q \in d.rows : q.seq > r.seq}) >= WINDOW_SLOTS
        /\ ~r.input.mandatory \/ r.settled
        /\ \A p \in pins : p.seq # r.seq}

\* Rows evict may remove: not among the newest, not mandatory and unsettled,
\* not current, not pinned.
Evictable(d, pins) ==
    {r \in d.rows :
        /\ Cardinality({q \in d.rows : q.seq > r.seq}) >= WINDOW_SLOTS
        /\ ~r.input.mandatory \/ r.settled
        /\ \A k \in Keys : d.state.current[k] # r.seq
        /\ \A p \in pins : p.seq # r.seq}

\* The oldest evictable rows, at most EVICT_ROWS of them.
Evicted(d, pins) ==
    LET e == Evictable(d, pins)
    IN  {r \in e : Cardinality({q \in e : q.seq < r.seq}) < EVICT_ROWS}

\* The gap ledger once the evicted rows below each position joined it, the
\* oldest first.
swept(d, gone) ==
    LET ledgers[n \in 0 .. d.state.next] ==
          IF n = 0 THEN d.gaps
          ELSE IF n - 1 \in Seqs(gone) THEN add_gap(ledgers[n - 1], n - 1)
          ELSE ledgers[n - 1]
    IN  ledgers

\* evict: refused when the gap ledger overflows on the way, a no-op when
\* neither a pin expired nor a row can go.
evict(h) ==
    /\ idle(h) /\ load(h)
    /\ CanReap(db.pins, clock)
    /\ LET pins == reap(db.pins, clock)
           gone == Evicted(db, pins)
           gaps == swept(db, gone)
       IN  /\ pins # db.pins \/ gone # {}
           /\ \A n \in DOMAIN gaps : Cardinality(gaps[n]) <= GAP_LIMIT
           /\ Change(h, "evict", [db EXCEPT !.pins = pins, !.rows = @ \ gone,
                                           !.gaps = gaps[db.state.next]])
    /\ UNCHANGED <<db, receipts, log, commits, clock, lease, captured, token, orphan, crashes>>

-----------------------------------------------------------------------------
\* What the read-only operations return on a loaded image d.

Refuse(code) == [refused |-> code]

current(d, k) ==
    LET c == d.state.current[k]
    IN  IF c # None /\ \A r \in d.rows : r.seq # c
          THEN Refuse("current-reference-missing")
          ELSE [found |-> {r \in d.rows : c # None /\ r.seq = c}]

\* materialize: the pinned row, of a pin that is held and not expired.
materialize(d, p, now) ==
    LET found == {r \in d.rows : r.seq = p.seq /\ r.gen = p.gen}
    IN  IF p \notin d.pins THEN Refuse("pin-not-held")
        ELSE IF ~Unambiguous(p.origin, now) THEN Refuse("clock-ambiguous")
        ELSE IF elapsed(p.origin, now) >= LIFETIME THEN Refuse("pin-expired")
        ELSE IF found = {} THEN Refuse("pin-data-missing")
        ELSE [found |-> found]

\* replay: the page [from, next) with its records and clipped gaps, refused
\* when a position in it is neither.
replay(d, from, limit) ==
    LET next == Min({from + Min({limit, REPLAY_ROWS}), d.state.next})
        page == from .. next - 1
        gaps == {g \in d.gaps : g.from < next /\ g.to >= from}
    IN  IF \A s \in page : s \in Seqs(d.rows) \/ \E g \in gaps : s \in g.from .. g.to
          THEN [records |-> {r \in d.rows : r.seq \in page},
                next |-> next, more |-> next < d.state.next,
                gaps |-> {[from |-> Max({g.from, from}), to |-> Min({g.to, next - 1})] : g \in gaps}]
          ELSE Refuse("unaccounted-history-gap")

-----------------------------------------------------------------------------
\* The environment: time passes (only ages matter), processes crash, orphaned
\* children end.

Tick ==
    /\ clock.t < MaxTime
    /\ db.pins # {} \/ captured # None
    /\ clock' = [clock EXCEPT !.t = @ + 1]
    /\ UNCHANGED <<db, receipts, log, commits, lease, captured, token, call, orphan, crashes>>

\* The process dies while a store call is writing, perhaps with the machine.  Handles,
\* tokens and calls are gone, a child whose COMMIT was sent decides on its
\* own; the reconciliation bytes of a Capture were persisted before dispatch.
Crash(h, reboot) ==
    /\ crashes < MaxCrashes
    /\ call[h] # None /\ call[h].phase = "store" /\ call[h].op # "reconcile"
    /\ crashes' = crashes + 1
    /\ clock' = IF reboot THEN [boot |-> clock.boot + 1, t |-> 0] ELSE clock
    /\ lease' = [i \in Handles |-> 0]
    /\ token' = [i \in Handles |-> None]
    /\ call' = [i \in Handles |-> None]
    /\ orphan' = IF reboot THEN None ELSE call[h].ticket
    /\ UNCHANGED <<db, receipts, log, commits, captured>>

OrphanEnds ==
    /\ orphan # None
    /\ orphan' = None
    /\ \/ Commits(orphan) /\ Commit(orphan)
       \/ UNCHANGED <<db, receipts, log, commits>>
    /\ UNCHANGED <<clock, lease, captured, token, call, crashes>>

-----------------------------------------------------------------------------
Store(h) ==
    StoreReplays(h) \/ StoreCommits(h) \/ StoreFails(h) \/ StoreDenies(h) \/ WeighsAbsence(h)

Operate(h) ==
    \/ \E intact \in {None} \cup {checkpoint(d) : d \in {db} \ {Empty}} : open_synthetic(h, intact)
    \/ \E i \in Inputs : prepare_capture(h, i)
    \/ \E b \in Bindings : select_binding(h, b)
    \/ submit_capture(h) \/ reconcile_capture(h)
    \/ \E r \in db.rows : settle(h, r) \/ pin(h, r)
    \/ release_pin(h) \/ evict(h)

Next ==
    \/ \E h \in Handles : Store(h) \/ Operate(h)
    \/ Tick
    \/ \E h \in Handles, reboot \in BOOLEAN : Crash(h, reboot)
    \/ OrphanEnds

Spec == Init /\ [][Next]_vars

-----------------------------------------------------------------------------
\* No reader ever meets a hole: each position below the tail is a retained row
\* or inside exactly one gap, every page of replay is served, every current
\* value and every held pin finds its row (custody.rs, window.rs, pins.rs).
WindowAccounted ==
    db.state # None =>
        /\ \A s \in 0 .. db.state.next - 1 :
              Cardinality({r \in db.rows : r.seq = s}) +
              Cardinality({g \in db.gaps : s \in g.from .. g.to}) = 1
        /\ \A from \in 0 .. db.state.next, limit \in 1 .. REPLAY_ROWS :
              replay(db, from, limit) # Refuse("unaccounted-history-gap")
        /\ \A k \in Keys : current(db, k) # Refuse("current-reference-missing")
        /\ \A p \in db.pins : materialize(db, p, clock) # Refuse("pin-data-missing")

\* A NotCommitted answer is true: when the writer barrier found no receipt,
\* the ticket had not committed, although receipts are pruned
\* (retained_outcome).
AbsenceProven ==
    \A h \in Handles :
        call[h] # None /\ call[h].phase = "horizon" /\ retained_outcome(call[h].ticket.rev)
            => ~call[h].past

\* What is held stays: a commit keeps every mandatory row until it is settled
\* and every pinned row until the pin expires or is released, holds the rows to
\* the spool, raises the revision by one and never lowers the tail, so no commit
\* is lost under another (evict, prepare_capture, load).
HeldRowsStay ==
    [][db' # db =>
          /\ \A r \in db.rows :
                (r.input.mandatory /\ ~r.settled) \/ (\E p \in db.pins \cap db'.pins : p.seq = r.seq)
                   => r.seq \in Seqs(db'.rows)
          /\ Cardinality(db'.rows) <= SPOOL_SLOTS
          /\ db.state # None => /\ db'.state.rev = db.state.rev + 1
                                /\ db'.state.next >= db.state.next]_vars

\* At most one open Window holds the durable epoch ("durable fencing state",
\* migrations/sqlite/0003_observations.sql).
SoleOwner ==
    \A h, i \in Handles :
        h # i /\ db.state # None => ~(lease[h] = db.state.epoch /\ lease[i] = db.state.epoch)

=============================================================================
