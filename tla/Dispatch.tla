------------------------------ MODULE Dispatch ------------------------------
(***************************************************************************)
(* The handoff of one admitted operation to the controller: the gates of   *)
(* action_expiry and action_dispatch, the exchange of the loopback harness *)
(* with its peer, and how action_recovery reads the result.                *)
(*                                                                         *)
(* The gates see a row of the journal, a preview and a reading of the      *)
(* present; between authorization, preparation and the send the wall clock *)
(* moves or is set back, the host restarts, the caller cancels and the     *)
(* deadline passes.  The peer receives what was sent when it gets to it.   *)
(***************************************************************************)
EXTENDS Preview, Sequences, Integers

CONSTANTS
    Admissions,         \* rows an operation may have
    Presented,          \* previews and readings the caller presents with it
    Routes,             \* endpoints that are parsed
    PeerPort,           \* the port of the peer's socket
    ServicePorts,       \* ports that are never used
    DEADLINE_SECS, DURATION_SECS,
    MaxAge,             \* bound on the time that passes
    MaxBoots,           \* bound on restarts
    Nil                 \* BACnet NULL, and no value

ASSUME DispatchAssumption ==
    /\ {DEADLINE_SECS, DURATION_SECS, MaxAge, MaxBoots, PeerPort} \cup ServicePorts \subseteq Nat
    \* created_at_unix is an instant
    /\ \A a \in Admissions : a.created \in Nat

VARIABLES
    row,        \* the admitted row (Admitted)
    clock,      \* wall and monotonic time, boot, and the true age of the row
    flags,      \* the caller's cancellation, and whether the deadline has passed
    deal,       \* the caller's progress
    link,       \* requests on their way to the peer
    acks,       \* acknowledgements on their way back
    peer8,      \* the peer: mode, its priority slots, requests it received
    emitted,    \* writes that were put on the wire (history)
    recovered   \* what recovery last concluded

dispatchVars == <<row, clock, flags, deal, link, acks, peer8, emitted, recovered>>

Resting == [at |-> "idle", kind |-> "none", result |-> "none", answer |-> "none",
            slot |-> [valid |-> FALSE, value |-> Nil], pv |-> [valid |-> FALSE, value |-> Nil],
            sends |-> 0,
            since |-> 0,        \* age of the row when it was authorized (history)
            wall |-> 0]         \* the wall when it was prepared (history)

\* PeerTable: the slot at priority 8, empty, and a higher one that may mask it.
\* A peer that does not confirm drops the acknowledgement of what it accepted.
DispatchInit ==
    /\ row \in Admissions
    /\ clock = [wall |-> row.created, mono |-> 0, boot |-> 0, age |-> 0]
    /\ flags = [cancelled |-> FALSE, late |-> FALSE]
    /\ deal = Resting
    /\ link = <<>> /\ acks = 0
    /\ peer8 \in [confirms : BOOLEAN, slot : {Nil}, above : {Nil, RANGE_MAX}, received : {0}]
    /\ emitted = {}
    /\ recovered = "nothing"

-----------------------------------------------------------------------------
\* FrozenRoute::parse
parse(r) ==
    /\ r.realm \in {"ahu-1", "vav-101"}
    /\ r.host = "loopback"
    /\ r.port >= 1024 /\ r.port \notin ServicePorts

\* DispatchCancel::check
check == ~flags.late /\ ~flags.cancelled

check_lifecycle_for_dispatch == row.lifecycle # "terminal"

check_frozen_preview(p) ==
    /\ Encodable(p.requested, p.wire)
    /\ p.bits = Real32(p.wire)

\* Both the present ceiling and the one admitted, in the present role.
check_ceiling(c) == check_access(c.ceiling, c.role) /\ check_access(row.ceiling, c.role)

is_identical_retry(p) ==
    /\ ~row.legacy
    /\ row.text = p.text /\ row.bits = p.bits
    /\ row.kind = action_kind(p.release) /\ row.release = p.release

verify_content(p, c, r) ==
    /\ ~row.legacy
    /\ check_ceiling(c)
    /\ c.actor = row.actor
    /\ row.target = p.target
    /\ r.realm = row.target.equipment
    /\ c.binding = row.target.binding /\ c.accepted = row.target.accepted
    /\ c.status \in {"imported", "valid"}
    /\ is_identical_retry(p)
    /\ row.deadline = DEADLINE_SECS

verify_generation(c) ==
    /\ c.generation = row.expected
    /\ row.expected + 1 = row.generation

-----------------------------------------------------------------------------
\* assess_deadline_wall, at the wall's present.
assess_deadline_wall ==
    LET elapsed == clock.wall - row.created
    IN  CASE elapsed < 0 -> "indeterminate"
          [] elapsed >= row.deadline -> "expired"
          [] OTHER -> "active"

\* Mutant: marks of different boots are compared.
assess_expiry_AnyBoot ==
    IF clock.mono >= DURATION_SECS THEN "expired" ELSE "active"

\* assess_expiry since the mark of the admission, made in boot 0 at 0.
assess_expiry ==
    CASE clock.boot # 0 -> "indeterminate"
      [] clock.boot = 0 /\ clock.mono >= DURATION_SECS -> "expired"
      [] OTHER -> "active"

decide_set_allowed(freshness) == assess_expiry = "active" /\ freshness = "fresh"

decide_set_with_wall_anchor(freshness) ==
    assess_deadline_wall = "active" /\ decide_set_allowed(freshness)

\* Mutant: preparation does not look at the wall again.
verify_durable_wall_for_set_Skipped == TRUE

verify_durable_wall_for_set ==
    clock.wall >= row.created /\ clock.wall - row.created < row.deadline

prepare_setpoint(p, c, r) ==
    /\ check_lifecycle_for_dispatch
    /\ check_frozen_preview(p)
    /\ verify_content(p, c, r)
    /\ verify_generation(c)
    /\ verify_durable_wall_for_set
    /\ row.kind = "set" /\ action_kind(p.release) = "set"
    /\ check
    /\ row.bits = p.bits

\* null_wire: only an admitted release encodes NULL.
prepare_release(p, c, r) ==
    /\ check_lifecycle_for_dispatch
    /\ check_frozen_preview(p)
    /\ verify_content(p, c, r)
    /\ verify_generation(c)
    /\ check
    /\ p.release.admitted

\* authorize_set: the durable wall, the monotonic expiry and freshness, then
\* preparation.
authorize_set(x, r, freshness) ==
    /\ deal.at = "idle"
    /\ parse(r)
    /\ decide_set_with_wall_anchor(freshness)
    /\ prepare_setpoint(x.preview, x.current, r)
    /\ deal' = [deal EXCEPT !.at = "authorized", !.kind = "set", !.since = clock.age]
    /\ recovered' = "nothing"
    /\ UNCHANGED <<row, clock, flags, link, acks, peer8, emitted>>

\* authorize_release: whatever the clocks say.
authorize_release(x, r) ==
    /\ deal.at = "idle"
    /\ parse(r)
    /\ prepare_release(x.preview, x.current, r)
    /\ deal' = [deal EXCEPT !.at = "authorized", !.kind = "release", !.since = clock.age]
    /\ recovered' = "nothing"
    /\ UNCHANGED <<row, clock, flags, link, acks, peer8, emitted>>

prepared(x, r) ==
    IF deal.kind = "set" THEN prepare_setpoint(x.preview, x.current, r)
                         ELSE prepare_release(x.preview, x.current, r)

\* execute_setpoint and execute_release up to the handoff: every gate again.
execute(x, r) ==
    /\ deal.at = "authorized"
    /\ parse(r)
    /\ prepared(x, r)
    /\ deal' = [deal EXCEPT !.at = "opening", !.wall = clock.wall]
    /\ UNCHANGED <<row, clock, flags, link, acks, peer8, emitted, recovered>>

\* Any gate that fails answers without a send.
refused(x, r) ==
    /\ deal.at = "authorized"
    /\ ~prepared(x, r)
    /\ deal' = [deal EXCEPT !.at = "done", !.answer = "refused"]
    /\ UNCHANGED <<row, clock, flags, link, acks, peer8, emitted, recovered>>

-----------------------------------------------------------------------------
\* Fixture::port and the client's start: only to the peer's own address.
port(r) ==
    /\ deal.at = "opening"
    /\ r.port = PeerPort
    /\ \/ deal' = [deal EXCEPT !.at = "sending"]
       \/ deal' = [deal EXCEPT !.at = "settling", !.result = "encoding"]
    /\ UNCHANGED <<row, clock, flags, link, acks, peer8, emitted, recovered>>

\* send_unicast: the last look at the cancellation.
send_unicast ==
    /\ deal.at = "sending"
    /\ IF check
         THEN /\ link' = Append(link, IF deal.kind = "set" THEN row.bits ELSE Nil)
              /\ emitted' = emitted \cup {[kind |-> deal.kind, since |-> deal.since, wall |-> deal.wall]}
              /\ deal' = [deal EXCEPT !.at = "waiting"]
         ELSE /\ deal' = [deal EXCEPT !.at = "settling", !.result = "encoding"]
              /\ UNCHANGED <<link, emitted, recovered>>
    /\ UNCHANGED <<row, clock, flags, acks, peer8, recovered>>

\* The peer's task: captured, written to the slot, and acknowledged or not.
handle_request ==
    /\ link # <<>>
    /\ link' = Tail(link)
    /\ peer8' = [peer8 EXCEPT !.slot = Head(link), !.received = @ + 1]
    /\ acks' = IF peer8.confirms THEN acks + 1 ELSE acks
    /\ UNCHANGED <<row, clock, flags, deal, emitted, recovered>>

\* confirmed_write: the answer, the client's timeout (no retries), or the poll
\* that finds the call cancelled or late; whichever comes first.
acknowledged ==
    /\ deal.at = "waiting" /\ acks > 0
    /\ acks' = acks - 1
    /\ deal' = [deal EXCEPT !.at = "settling", !.result = "ok"]
    /\ UNCHANGED <<row, clock, flags, link, peer8, emitted, recovered>>

apdu_timeout ==
    /\ deal.at = "waiting"
    /\ deal' = [deal EXCEPT !.at = "settling", !.result = "timeout"]
    /\ UNCHANGED <<row, clock, flags, link, acks, peer8, emitted, recovered>>

poll ==
    /\ deal.at \in {"sending", "waiting"}
    /\ ~check
    /\ deal' = [deal EXCEPT !.at = "settling", !.result = "encoding"]
    /\ UNCHANGED <<row, clock, flags, link, acks, peer8, emitted, recovered>>

\* emission_established: some request reached the peer's capture.
emission_established == peer8.received > 0

\* Mutant: a cancelled call was not attempted.
settle_Cancelled ==
    /\ deal.at = "settling"
    /\ deal' = CASE deal.result = "timeout" -> [deal EXCEPT !.at = "done", !.answer = "unknown"]
                 [] ~check -> [deal EXCEPT !.at = "done", !.answer = "cancelled"]
                 [] OTHER -> [deal EXCEPT !.at = "reading"]
    /\ UNCHANGED <<row, clock, flags, link, acks, peer8, emitted, recovered>>

\* After the client stopped: an acknowledged write is never given up for a
\* later cancellation, a lost answer is unknown, a cancelled call is unknown
\* when the peer captured anything and not attempted otherwise.
settle ==
    /\ deal.at = "settling"
    /\ deal' = CASE deal.result = "timeout" -> [deal EXCEPT !.at = "done", !.answer = "unknown"]
                 [] deal.result = "encoding" /\ ~check ->
                       [deal EXCEPT !.at = "done",
                                    !.answer = IF emission_established THEN "unknown" ELSE "cancelled"]
                 [] OTHER -> [deal EXCEPT !.at = "reading"]
    /\ UNCHANGED <<row, clock, flags, link, acks, peer8, emitted, recovered>>

\* PeerTable::effective: the highest slot that is set, or the relinquish default.
effective ==
    IF peer8.above # Nil THEN peer8.above
    ELSE IF peer8.slot # Nil THEN peer8.slot ELSE RANGE_MIN

\* confirmed_read: a read queues behind what was sent; a call that is cancelled
\* or late by the end has no readback.
confirmed_read(value) ==
    {[valid |-> FALSE, value |-> Nil]} \cup
        (IF check /\ link = <<>> THEN {[valid |-> TRUE, value |-> value]} ELSE {})

\* A read without an answer may have reached the peer.
Captured(read) == {peer8.received + 1} \cup (IF read.valid THEN {} ELSE {peer8.received})

\* Slot and present value are read apart and keep their own validity.
read_slot ==
    /\ deal.at = "reading"
    /\ \E s \in confirmed_read(peer8.slot), n \in {peer8.received, peer8.received + 1} :
          /\ n \in Captured(s)
          /\ deal' = [deal EXCEPT !.at = "reading pv", !.slot = s]
          /\ peer8' = [peer8 EXCEPT !.received = n]
    /\ UNCHANGED <<row, clock, flags, link, acks, emitted, recovered>>

\* Outcome::new with the audit of what the peer received, or the inspection.
read_pv ==
    /\ deal.at = "reading pv"
    /\ \E v \in confirmed_read(effective), n \in {peer8.received, peer8.received + 1} :
          /\ n \in Captured(v)
          /\ deal' = [deal EXCEPT !.at = "done", !.pv = v, !.sends = n, !.answer =
                          CASE deal.kind = "inspect" -> "inspection"
                            [] deal.kind # "inspect" /\ deal.result = "ok" -> "confirmed"
                            [] OTHER -> "invalid"]
          /\ peer8' = [peer8 EXCEPT !.received = n]
    /\ UNCHANGED <<row, clock, flags, link, acks, emitted, recovered>>

\* inspect_identical: an identical retry reads and never writes.
inspect_identical(x, r) ==
    /\ deal.at = "done" /\ deal.kind \in {"set", "release"}
    /\ parse(r) /\ r.port = PeerPort
    /\ check_frozen_preview(x.preview)
    /\ verify_content(x.preview, x.current, r)
    /\ verify_generation(x.current)
    /\ check
    /\ is_identical_retry(x.preview)
    /\ deal' = [deal EXCEPT !.at = "reading", !.kind = "inspect"]
    /\ UNCHANGED <<row, clock, flags, link, acks, peer8, emitted, recovered>>

-----------------------------------------------------------------------------
\* authorize_cancel: exactly the generation that was admitted.
cancel_pending(x) ==
    /\ x.current.generation = row.expected
    /\ flags' = [flags EXCEPT !.cancelled = TRUE]
    /\ UNCHANGED <<row, clock, deal, link, acks, peer8, emitted, recovered>>

-----------------------------------------------------------------------------
\* Recovery.  classify_peer_protocol: only a confirmed answer is acceptance.
classify_peer_protocol(answer) == IF answer = "confirmed" THEN "accepted" ELSE "reconcile"

\* check_peer_accepted_before_journal: the result is announced after the peer.
announce ==
    /\ classify_peer_protocol(deal.answer) = "accepted"
    /\ recovered' = "announced"
    /\ UNCHANGED <<row, clock, flags, deal, link, acks, peer8, emitted>>

\* Mutant: an expired lease is taken for quiescence.
Quiescent_Lease(claim) == claim \in {"ObservedJoin", "LeaseExpired"}

\* Only a join that was observed; a dropped handle or an expired lease is none.
Quiescent(claim) == claim = "ObservedJoin"

\* assess_conflicting_request, with the peer and the transport reconciled by
\* require_reconciled_peer_and_transport.  A join is observed once the call's
\* client has stopped.
assess_conflicting_request(x, r, claim) ==
    /\ claim = "ObservedJoin" => deal.at = "done"
    /\ Quiescent(claim)
    /\ parse(r) /\ verify_content(x.preview, x.current, r) /\ verify_generation(x.current)
    /\ recovered' = "qualified"
    /\ UNCHANGED <<row, clock, flags, deal, link, acks, peer8, emitted>>

\* verify_backup_against_current: the store's, and the row in every field the
\* ledger compares.
verify_backup(b, same_store) ==
    /\ deal.at = "idle"
    /\ same_store
    /\ b.op = row.op /\ b.text = row.text
    /\ b.expected = row.expected /\ b.generation = row.generation
    /\ b.target.scope = row.target.scope /\ b.target.equipment = row.target.equipment
    /\ recovered' = "intact"
    /\ UNCHANGED <<row, clock, flags, deal, link, acks, peer8, emitted>>

\* Time passes, the wall is set back; nothing reads a clock after preparation.
\* The deadline passes at any time.
Passes ==
    /\ deal.at \in {"idle", "authorized"}
    /\ clock.age < MaxAge
    /\ clock' = [clock EXCEPT !.wall = @ + 1, !.mono = @ + 1, !.age = @ + 1]
    /\ UNCHANGED <<row, flags, deal, link, acks, peer8, emitted, recovered>>

SetBack ==
    /\ deal.at \in {"idle", "authorized"}
    /\ clock.wall > 0
    /\ clock' = [clock EXCEPT !.wall = @ - 1]
    /\ UNCHANGED <<row, flags, deal, link, acks, peer8, emitted, recovered>>

Late ==
    /\ flags' = [flags EXCEPT !.late = TRUE]
    /\ UNCHANGED <<row, clock, deal, link, acks, peer8, emitted, recovered>>

\* The host restarts: permits die (PendingRelease is memory only), the row and
\* what it says of the operation stay.
Restart ==
    /\ deal.at \in {"idle", "authorized"}
    /\ clock.boot < MaxBoots
    /\ clock' = [clock EXCEPT !.boot = @ + 1, !.mono = 0]
    /\ flags' = [cancelled |-> FALSE, late |-> FALSE]
    /\ deal' = Resting
    /\ UNCHANGED <<row, link, acks, peer8, emitted, recovered>>

DispatchSteps ==
    \/ \E x \in Presented, r \in Routes :
          \/ \E freshness \in {"fresh", "stale", "unknown"} : authorize_set(x, r, freshness)
          \/ authorize_release(x, r)
          \/ execute(x, r) \/ refused(x, r) \/ inspect_identical(x, r)
          \/ \E claim \in {"ObservedJoin", "HandleDropped", "LeaseExpired"} :
                assess_conflicting_request(x, r, claim)
    \/ \E x \in Presented : cancel_pending(x)
    \/ \E b \in Admissions, same_store \in BOOLEAN : verify_backup(b, same_store)
    \/ announce
    \/ \E r \in Routes : port(r)
    \/ send_unicast \/ handle_request \/ acknowledged \/ apdu_timeout \/ poll
    \/ settle \/ read_slot \/ read_pv
    \/ Passes \/ SetBack \/ Late \/ Restart

DispatchSpec == DispatchInit /\ [][DispatchSteps]_dispatchVars

-----------------------------------------------------------------------------
Written == {link[i] : i \in DOMAIN link} \cup (IF emitted # {} /\ link = <<>> THEN {peer8.slot} ELSE {})

\* Whatever the clocks, the host and the caller do between the gates: a SET
\* goes out only for a SET admission that is neither legacy nor terminal, with
\* its exact bits, prepared within the wall's deadline and authorized while the
\* row was truly younger than its duration; NULL goes out only for an admitted
\* release; nothing is sent twice.  An acknowledged write is answered as
\* confirmed, whatever is cancelled afterwards; an answer of confirmed, and a
\* valid readback with it, is what the peer holds; and a later request is let
\* in only after the call's owner was joined
\* (prepare_setpoint, prepare_release, execute_setpoint, assess_conflicting_request).
DispatchSound ==
    /\ Len(link) + acks <= 1
    /\ \A e \in emitted :
          /\ row.lifecycle # "terminal" /\ ~row.legacy /\ e.kind = row.kind
          /\ e.kind = "set" =>
                /\ e.since < DURATION_SECS
                /\ e.wall - row.created \in 0 .. row.deadline - 1
          /\ Written = {IF e.kind = "set" THEN row.bits ELSE Nil}
    /\ deal.result = "ok" /\ deal.at = "done" => deal.answer \in {"confirmed", "inspection"}
    /\ deal.answer = "confirmed" =>
          /\ emitted # {} /\ link = <<>> /\ deal.sends <= 3
          /\ deal.slot.valid => deal.slot.value = peer8.slot
          /\ deal.pv.valid => deal.pv.value = effective
    /\ recovered = "announced" => peer8.slot = (IF row.kind = "set" THEN row.bits ELSE Nil)
    /\ recovered = "qualified" => deal.at \notin {"opening", "sending", "waiting", "settling"}

\* "Encoding + cancel after a send is possibly-emitted (Unknown), not
\* Cancelled; only pre-send (no packet) is Cancelled" (harness_provenance).
CancelledIsUnsent == deal.answer = "cancelled" => emitted = {}
=============================================================================
