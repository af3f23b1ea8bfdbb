--------------------------- MODULE DispatchProofs ---------------------------
(***************************************************************************)
(* Proofs about the preview of an operation and the dispatch of one that   *)
(* was admitted, for any rows, previews, routes, durations and bounds.     *)
(* What a preview seals is what its proof says; the inductive invariant of *)
(* the dispatch ties what is on the wire and in the peer's slot to what    *)
(* was admitted and to the gates that were passed before it was sent.      *)
(***************************************************************************)
EXTENDS Dispatch, TLAPS

\* Division by a grid, as the rounding uses it.
LEMMA GridDivision ==
  ASSUME NEW a \in Nat, NEW g \in Nat \ {0}
  PROVE  a \div g \in Nat /\ g * (a \div g) <= a /\ a < g * (a \div g) + g
  OBVIOUS

\* Multiples of a grid are compared like their factors.
LEMMA GridOrder ==
  ASSUME NEW a \in Nat, NEW b \in Nat, NEW g \in Nat \ {0}
  PROVE  /\ a <= b => g * a <= g * b
         /\ g * a < g * b + g => a <= b
  <1>1. a <= b => g * a <= g * b
    OBVIOUS
  <1>2. ASSUME g * a < g * b + g PROVE a <= b
    BY <1>2
  <1>3. QED
    BY <1>1, <1>2

\* A multiple is rounded to itself.
LEMMA RoundedMultiple ==
  ASSUME NEW k \in Nat, NEW g \in Nat \ {0}
  PROVE  Rounded(g * k, g) = g * k
  <1>1. PICK h \in Nat : h = g \div 2 /\ h < g
    OBVIOUS
  <1>2. PICK m \in Nat : m = g * k
    OBVIOUS
  <1>3. PICK q \in Nat : q = (m + h) \div g /\ g * q <= m + h /\ m + h < g * q + g
    <2>1. m + h \in Nat
      OBVIOUS
    <2>2. QED
      BY <2>1, GridDivision
  <1>4. g * k < g * q + g
    <2>1. m <= m + h
      OBVIOUS
    <2>2. g * q \in Nat
      OBVIOUS
    <2>3. QED
      BY <1>2, <1>3, <2>1, <2>2
  <1>5. g * q < g * k + g
    <2>1. g * q \in Nat
      OBVIOUS
    <2>2. QED
      BY <1>1, <1>2, <1>3, <2>1
  <1>6. q = k
    <2>1. k <= q /\ q <= k
      BY <1>4, <1>5, GridOrder
    <2>2. QED
      BY <2>1
  <1>7. Rounded(g * k, g) = q * g
    BY <1>1, <1>2, <1>3 DEF Rounded
  <1>8. QED
    BY <1>6, <1>7

\* Rounding stays between multiples of the grid, and what it yields is one.
LEMMA RoundedWithin ==
  ASSUME NEW g \in Nat \ {0}, NEW low \in Nat, NEW high \in Nat, NEW x \in Nat,
         g * low <= x, x <= g * high
  PROVE  /\ Rounded(x, g) \in g * low .. g * high
         /\ Rounded(Rounded(x, g), g) = Rounded(x, g)
  <1>1. PICK h \in Nat : h = g \div 2 /\ h < g
    OBVIOUS
  <1>2. PICK k \in Nat : k = (x + h) \div g /\ g * k <= x + h /\ x + h < g * k + g
    <2>1. x + h \in Nat
      OBVIOUS
    <2>2. QED
      BY <2>1, GridDivision
  <1>3. Rounded(x, g) = g * k
    BY <1>1, <1>2 DEF Rounded
  <1>4. low <= k
    <2>1. g * low \in Nat /\ g * k \in Nat
      OBVIOUS
    <2>2. g * low < g * k + g
      BY <1>1, <1>2, <2>1
    <2>3. QED
      BY <2>2, GridOrder
  <1>5. k <= high
    <2>1. g * high \in Nat /\ g * k \in Nat
      OBVIOUS
    <2>2. g * k < g * high + g
      BY <1>1, <1>2, <2>1
    <2>3. QED
      BY <2>2, GridOrder
  <1>6. g * low <= g * k /\ g * k <= g * high
    BY <1>4, <1>5, GridOrder
  <1>7. Rounded(x, g) \in g * low .. g * high
    <2>1. g * low \in Nat /\ g * k \in Nat /\ g * high \in Nat
      OBVIOUS
    <2>2. QED
      BY <1>3, <1>6, <2>1
  <1>8. QED
    BY <1>3, <1>7, RoundedMultiple

\* The range has its ends on the grid of Reals, so a wire value within it is a
\* Real within it.
LEMMA EncodableBits ==
  ASSUME NEW requested, NEW wire, Encodable(requested, wire)
  PROVE  Real32(wire) \in RANGE_MIN .. RANGE_MAX /\ Real32(Real32(wire)) = Real32(wire)
  <1>1. /\ RANGE_MIN \in Nat /\ RANGE_MAX \in Nat /\ RealGrid \in Nat \ {0}
        /\ RANGE_MIN % RealGrid = 0 /\ RANGE_MAX % RealGrid = 0
    BY PreviewAssumption
  <1>2. wire \in Nat /\ RANGE_MIN <= wire /\ wire <= RANGE_MAX
    BY <1>1 DEF Encodable
  <1>3. PICK low \in Nat : RANGE_MIN = RealGrid * low
    <2>1. RANGE_MIN = RealGrid * (RANGE_MIN \div RealGrid) /\ RANGE_MIN \div RealGrid \in Nat
      BY <1>1
    <2>2. QED
      BY <2>1
  <1>4. PICK high \in Nat : RANGE_MAX = RealGrid * high
    <2>1. RANGE_MAX = RealGrid * (RANGE_MAX \div RealGrid) /\ RANGE_MAX \div RealGrid \in Nat
      BY <1>1
    <2>2. QED
      BY <2>1
  <1>5. QED
    BY <1>1, <1>2, <1>3, <1>4, RoundedWithin DEF Real32

\* Verified is the profile held, with its ledger and the report last verified.
SealInv ==
    /\ seal \in [custody : BOOLEAN, decoded : BOOLEAN, reconstructed : BOOLEAN,
                 verified : BOOLEAN, profile : Profiles \cup {NoProfile},
                 ledger : Profiles \cup {NoProfile}]
    /\ seal.ledger = seal.profile
    /\ seal.verified => attested = seal.profile

PreviewInv ==
    /\ SealInv
    /\ \A p \in shown :
          /\ p.made.seal_verified => p.made.digest = p.proof
          /\ p.made.bits \in RANGE_MIN .. RANGE_MAX /\ Real32(p.made.bits) = p.made.bits

\* Rebinding to a profile keeps a proof only if it was of that profile.
LEMMA RebindSeal ==
  ASSUME SealInv, NEW p \in Profiles, NEW q \in Profiles, check_custody_with(p, q)
  PROVE  SealInv'
  <1>1. /\ seal' = [custody |-> TRUE, profile |-> p, ledger |-> p,
                    decoded |-> seal.profile = p /\ seal.decoded,
                    reconstructed |-> seal.profile = p /\ seal.reconstructed,
                    verified |-> seal.profile = p /\ seal.verified]
        /\ UNCHANGED attested
    BY DEF check_custody_with, rebind_custody
  <1>2. /\ (seal.profile = p /\ seal.decoded) \in BOOLEAN
        /\ (seal.profile = p /\ seal.reconstructed) \in BOOLEAN
        /\ (seal.profile = p /\ seal.verified) \in BOOLEAN
    OBVIOUS
  <1>3. seal' \in [custody : BOOLEAN, decoded : BOOLEAN, reconstructed : BOOLEAN,
                   verified : BOOLEAN, profile : Profiles \cup {NoProfile},
                   ledger : Profiles \cup {NoProfile}]
    BY <1>1, <1>2
  <1>4. /\ seal'.ledger = p /\ seal'.profile = p
        /\ seal'.verified = (seal.profile = p /\ seal.verified)
    BY <1>1
  <1>5. QED
    BY <1>1, <1>3, <1>4 DEF SealInv

\* Every step of the author keeps the invariant.
LEMMA PreviewStep ==
  ASSUME PreviewInv, [PreviewNext]_previewVars
  PROVE  PreviewInv'
  <1>1. CASE UNCHANGED previewVars
    BY <1>1 DEF PreviewInv, SealInv, previewVars
  <1>2. CASE check_custody \/ decode \/ reconstruct
    <2>1. SealInv'
      BY <1>2 DEF PreviewInv, SealInv, check_custody, decode, reconstruct
    <2>2. UNCHANGED shown
      BY <1>2 DEF check_custody, decode, reconstruct
    <2>3. QED
      BY <2>1, <2>2 DEF PreviewInv
  <1>3. ASSUME NEW p \in Profiles, NEW q \in Profiles, check_custody_with(p, q)
        PROVE  PreviewInv'
    <2>1. SealInv'
      BY <1>3, RebindSeal DEF PreviewInv
    <2>2. UNCHANGED shown
      BY <1>3 DEF check_custody_with
    <2>3. QED
      BY <2>1, <2>2 DEF PreviewInv
  <1>4. ASSUME NEW p \in Profiles, decode_with(p) \/ reconstruct_with(p)
        PROVE  PreviewInv'
    <2>1. SealInv'
      BY <1>4 DEF PreviewInv, SealInv, decode_with, reconstruct_with
    <2>2. UNCHANGED shown
      BY <1>4 DEF decode_with, reconstruct_with
    <2>3. QED
      BY <2>1, <2>2 DEF PreviewInv
  <1>5. ASSUME NEW d \in Drafts, preview(d)
        PROVE  PreviewInv'
    <2>1. UNCHANGED <<seal, attested>>
      BY <1>5 DEF preview
    <2>2. PICK m : m = Made(d, is_verified, seal.profile)
      OBVIOUS
    <2>3. shown' = {[made |-> m, proof |-> attested]}
      BY <1>5, <2>2 DEF preview
    <2>4. /\ m.seal_verified = is_verified /\ m.digest = seal.profile
          /\ m.bits = Real32(wire_of(d))
      BY <2>2 DEF Made
    <2>5. is_verified => attested = seal.profile
      BY DEF PreviewInv, SealInv, is_verified
    <2>6. m.bits \in RANGE_MIN .. RANGE_MAX /\ Real32(m.bits) = m.bits
      BY <1>5, <2>4, EncodableBits DEF preview, Previewable
    <2>7. \A p \in shown' : p.made = m /\ p.proof = attested
      BY <2>3
    <2>8. SealInv'
      BY <2>1 DEF PreviewInv, SealInv
    <2>9. QED
      BY <2>4, <2>5, <2>6, <2>7, <2>8 DEF PreviewInv
  <1>6. QED
    BY <1>1, <1>2, <1>3, <1>4, <1>5 DEF PreviewNext

\* For every profile, draft, range and grid: verified means the profile whose
\* report was last verified, and a preview encodes a Real of the range.
THEOREM SealProof == PreviewSpec => []SealMatchesProof
  <1>1. PreviewInit => PreviewInv
    BY DEF PreviewInit, PreviewInv, SealInv, Unsealed
  <1>2. PreviewInv /\ [PreviewNext]_previewVars => PreviewInv'
    BY PreviewStep
  <1>3. PreviewInv => SealMatchesProof
    BY DEF PreviewInv, SealInv, SealMatchesProof, is_verified
  <1>4. QED
    BY <1>1, <1>2, <1>3, PTL DEF PreviewSpec

-----------------------------------------------------------------------------
\* What an admitted operation writes: its bits, or NULL for a release.
Due == IF row.kind = "set" THEN row.bits ELSE Nil

Readings == [valid : BOOLEAN, value : {Nil, row.bits, RANGE_MIN, RANGE_MAX}]

Unsent == {"idle", "authorized", "opening", "sending"}
Moments == Unsent \cup {"waiting", "settling", "reading", "reading pv", "done"}

Deals ==
    [at : Moments, kind : {"none", "set", "release", "inspect"},
     result : {"none", "ok", "timeout", "encoding"},
     answer : {"none", "refused", "unknown", "cancelled", "inspection", "confirmed", "invalid"},
     slot : Readings, pv : Readings, sends : Nat, since : Nat, wall : Int]

DispatchTypes ==
    /\ row \in Admissions
    /\ clock \in [wall : Int, mono : Nat, boot : Nat, age : Nat]
    /\ flags \in [cancelled : BOOLEAN, late : BOOLEAN]
    /\ deal \in Deals
    /\ link \in {<<>>, <<Due>>}
    /\ acks \in {0, 1}
    /\ peer8 \in [confirms : BOOLEAN, slot : {Nil, row.bits}, above : {Nil, RANGE_MAX},
                  received : Nat]
    /\ emitted \subseteq [kind : {"set", "release"}, since : Nat, wall : Int]
    /\ recovered \in {"nothing", "intact", "announced", "qualified"}

\* Within one boot the monotonic clock is the age of the row.
MarkInv == clock.boot = 0 => clock.mono = clock.age

\* Before the send nothing has happened that the peer or recovery could tell.
UnsentInv ==
    deal.at \in Unsent =>
        /\ link = <<>> /\ acks = 0 /\ emitted = {} /\ peer8.received = 0
        /\ ~deal.slot.valid /\ ~deal.pv.valid
        /\ deal.result = "none" /\ deal.answer = "none"
        /\ recovered \in {"nothing", "intact"}

\* What a write with this kind and these times passed.
Passed(kind, since, wall) ==
    /\ row.lifecycle # "terminal" /\ ~row.legacy /\ kind = row.kind
    /\ kind = "set" =>
          /\ since < DURATION_SECS
          /\ wall - row.created \in 0 .. row.deadline - 1

\* Authorization looked at the age, preparation at the wall and the row.
GateInv ==
    /\ deal.at \in {"authorized", "opening", "sending"} =>
          /\ deal.kind \in {"set", "release"}
          /\ deal.kind = "set" => deal.since < DURATION_SECS
    /\ deal.at \in {"opening", "sending"} => Passed(deal.kind, deal.since, deal.wall)
    /\ \A e \in emitted : Passed(e.kind, e.since, e.wall)

\* One write is on its way, or arrived and still stands.
WireInv ==
    /\ emitted # {} => link = <<Due>> \/ peer8.slot = Due
    /\ link # <<>> => emitted # {} /\ acks = 0
    /\ acks > 0 \/ deal.result = "ok" => link = <<>> /\ emitted # {}
    /\ deal.result = "ok" => acks = 0

\* What the peer captured: the write, and one read after the other.
CountInv ==
    deal.kind # "inspect" =>
        /\ deal.at \in {"waiting", "settling", "reading"} =>
              peer8.received <= 1 /\ (link # <<>> => peer8.received = 0)
        /\ deal.at = "reading pv" =>
              peer8.received <= 2 /\ (link # <<>> => peer8.received <= 1)

\* A valid reading was taken with nothing under way, so it still holds.
ReadInv ==
    /\ deal.slot.valid => link = <<>> /\ deal.slot.value = peer8.slot
    /\ deal.pv.valid => link = <<>> /\ deal.pv.value = effective

\* Who says confirmed, announced or qualified, and when.
AnswerInv ==
    /\ deal.at = "waiting" => deal.result = "none"
    /\ deal.result = "ok" /\ deal.at = "done" => deal.answer \in {"confirmed", "inspection"}
    /\ deal.answer = "confirmed" => deal.result = "ok" /\ deal.sends <= 3
    /\ recovered = "announced" => deal.result = "ok"
    /\ recovered = "qualified" => deal.at \in {"done", "reading", "reading pv"}

DispatchInv ==
    DispatchTypes /\ MarkInv /\ UnsentInv /\ GateInv /\ WireInv /\ CountInv /\ ReadInv /\ AnswerInv

-----------------------------------------------------------------------------
\* Before anything happens the invariant holds of whatever row was admitted.
LEMMA InitDispatchInv == DispatchInit => DispatchInv
  <1> SUFFICES ASSUME DispatchInit PROVE DispatchInv
    OBVIOUS
  <1>1. row.created \in Nat
    BY DispatchAssumption DEF DispatchInit
  <1>2. DispatchTypes
    BY <1>1 DEF DispatchInit, DispatchTypes, Deals, Moments, Unsent, Readings, Resting
  <1>3. MarkInv /\ UnsentInv /\ GateInv /\ WireInv /\ CountInv /\ ReadInv /\ AnswerInv
    BY DEF DispatchInit, Resting, MarkInv, UnsentInv, GateInv, WireInv, CountInv, ReadInv,
           AnswerInv, Unsent
  <1>4. QED
    BY <1>2, <1>3 DEF DispatchInv


\* What is due, and the type of the caller's progress, follow the row alone.
LEMMA SameRow ==
  ASSUME UNCHANGED row
  PROVE  Due' = Due /\ Readings' = Readings /\ Deals' = Deals
  BY DEF Due, Readings, Deals

\* A step of the caller that keeps the wire and the peer keeps the types.
LEMMA DealTypes ==
  ASSUME DispatchTypes, UNCHANGED <<row, clock, flags, link, peer8, emitted>>,
         deal' \in Deals, acks' \in {0, 1},
         recovered' \in {"nothing", "intact", "announced", "qualified"}
  PROVE  DispatchTypes'
  BY SameRow DEF DispatchTypes

\* authorize_set passes the mark and the duration; nothing else has happened.
LEMMA AuthorizeSetStep ==
  ASSUME DispatchInv, NEW x \in Presented, NEW r \in Routes, NEW f, authorize_set(x, r, f)
  PROVE  DispatchInv'
  <1>1. clock.boot = 0 /\ ~(clock.mono >= DURATION_SECS)
    BY DEF authorize_set, decide_set_with_wall_anchor, decide_set_allowed, assess_expiry
  <1>2. clock.age < DURATION_SECS /\ clock.age \in Nat
    <2>1. clock.mono = clock.age /\ clock.age \in Nat
      BY <1>1 DEF DispatchInv, DispatchTypes, MarkInv
    <2>2. DURATION_SECS \in Nat
      BY DispatchAssumption
    <2>3. QED
      BY <1>1, <2>1, <2>2
  <1>3. DispatchTypes'
    BY <1>2, ZenonT(30) DEF DispatchInv, DispatchTypes, Deals, Moments, Unsent, Readings, Due, authorize_set
  <1>4. deal.at = "idle" /\ deal \in Deals
    BY DEF DispatchInv, DispatchTypes, authorize_set
  <1>5. /\ deal'.at = "authorized" /\ deal'.kind = "set" /\ deal'.since = clock.age
        /\ deal'.slot = deal.slot /\ deal'.pv = deal.pv
        /\ deal'.result = deal.result /\ deal'.answer = deal.answer
    BY <1>4 DEF authorize_set, Deals
  <1>6. UNCHANGED <<row, clock, flags, link, acks, peer8, emitted>> /\ recovered' = "nothing"
    BY DEF authorize_set
  <1>7. QED
    BY <1>2, <1>3, <1>4, <1>5, <1>6
    DEF DispatchInv, MarkInv, UnsentInv, GateInv, WireInv, CountInv, ReadInv, AnswerInv,
        Unsent, Passed, Due, effective

\* authorize_release looks at no clock.
LEMMA AuthorizeReleaseStep ==
  ASSUME DispatchInv, NEW x \in Presented, NEW r \in Routes, authorize_release(x, r)
  PROVE  DispatchInv'
  <1>3. DispatchTypes'
    BY ZenonT(30) DEF DispatchInv, DispatchTypes, Deals, Moments, Unsent, Readings, Due, authorize_release
  <1>4. deal.at = "idle" /\ deal \in Deals
    BY DEF DispatchInv, DispatchTypes, authorize_release
  <1>5. /\ deal'.at = "authorized" /\ deal'.kind = "release"
        /\ deal'.slot = deal.slot /\ deal'.pv = deal.pv
        /\ deal'.result = deal.result /\ deal'.answer = deal.answer
    BY <1>4 DEF authorize_release, Deals
  <1>6. UNCHANGED <<row, clock, flags, link, acks, peer8, emitted>> /\ recovered' = "nothing"
    BY DEF authorize_release
  <1>7. QED
    BY <1>3, <1>4, <1>5, <1>6
    DEF DispatchInv, MarkInv, UnsentInv, GateInv, WireInv, CountInv, ReadInv, AnswerInv,
        Unsent, Passed, Due, effective

\* What preparation passed: the row is neither terminal nor legacy, is of the
\* kind that was authorized, and a SET is within the wall's deadline.
LEMMA PreparedPassed ==
  ASSUME DispatchInv, NEW x \in Presented, NEW r \in Routes, prepared(x, r),
         deal.kind \in {"set", "release"}, deal.kind = "set" => deal.since < DURATION_SECS
  PROVE  Passed(deal.kind, deal.since, clock.wall)
  <1>1. /\ row.created \in Nat /\ clock.wall \in Int /\ DEADLINE_SECS \in Nat
        /\ row.lifecycle # "terminal"
    BY DispatchAssumption DEF DispatchInv, DispatchTypes, prepared, prepare_setpoint,
       prepare_release, check_lifecycle_for_dispatch
  <1>2. verify_content(x.preview, x.current, r)
    BY DEF prepared, prepare_setpoint, prepare_release
  <1>3. /\ ~row.legacy /\ row.deadline = DEADLINE_SECS
        /\ row.kind = action_kind(x.preview.release)
    BY <1>2 DEF verify_content, is_identical_retry
  <1>4. CASE deal.kind = "set"
    <2>1. row.kind = "set" /\ verify_durable_wall_for_set
      BY <1>4 DEF prepared, prepare_setpoint
    <2>2. clock.wall - row.created \in 0 .. row.deadline - 1
      BY <2>1, <1>1, <1>3 DEF verify_durable_wall_for_set
    <2>3. QED
      BY <1>1, <1>3, <1>4, <2>1, <2>2 DEF Passed
  <1>5. CASE deal.kind = "release"
    <2>1. row.kind = "release"
      BY <1>3, <1>5 DEF prepared, prepare_release, action_kind
    <2>2. QED
      BY <1>1, <1>3, <1>5, <2>1 DEF Passed
  <1>6. QED
    BY <1>4, <1>5

\* The handoff remembers the wall it was prepared at.
LEMMA ExecuteStep ==
  ASSUME DispatchInv, NEW x \in Presented, NEW r \in Routes, execute(x, r)
  PROVE  DispatchInv'
  <1>1. deal.at = "authorized" /\ deal \in Deals /\ prepared(x, r)
    BY DEF DispatchInv, DispatchTypes, execute
  <1>2. Passed(deal.kind, deal.since, clock.wall)
    BY <1>1, PreparedPassed DEF DispatchInv, GateInv
  <1>3. DispatchTypes'
    BY ZenonT(30) DEF DispatchInv, DispatchTypes, Deals, Moments, Unsent, Readings, Due, execute
  <1>5. /\ deal'.at = "opening" /\ deal'.kind = deal.kind /\ deal'.since = deal.since
        /\ deal'.wall = clock.wall
        /\ deal'.slot = deal.slot /\ deal'.pv = deal.pv
        /\ deal'.result = deal.result /\ deal'.answer = deal.answer
    BY <1>1 DEF execute, Deals
  <1>6. UNCHANGED <<row, clock, flags, link, acks, peer8, emitted, recovered>>
    BY DEF execute
  <1>7. QED
    BY <1>1, <1>2, <1>3, <1>5, <1>6
    DEF DispatchInv, MarkInv, UnsentInv, GateInv, WireInv, CountInv, ReadInv, AnswerInv,
        Unsent, Passed, Due, effective

\* A gate that fails ends the call before anything is sent.
LEMMA RefusedStep ==
  ASSUME DispatchInv, NEW x \in Presented, NEW r \in Routes, refused(x, r)
  PROVE  DispatchInv'
  <1>1. deal.at = "authorized" /\ deal \in Deals
    BY DEF DispatchInv, DispatchTypes, refused
  <1>3. DispatchTypes'
    BY ZenonT(30) DEF DispatchInv, DispatchTypes, Deals, Moments, Unsent, Readings, Due, refused
  <1>5. /\ deal'.at = "done" /\ deal'.answer = "refused" /\ deal'.kind = deal.kind
        /\ deal'.slot = deal.slot /\ deal'.pv = deal.pv
        /\ deal'.result = deal.result
    BY <1>1 DEF refused, Deals
  <1>6. UNCHANGED <<row, clock, flags, link, acks, peer8, emitted, recovered>>
    BY DEF refused
  <1>7. QED
    BY <1>1, <1>3, <1>5, <1>6
    DEF DispatchInv, MarkInv, UnsentInv, GateInv, WireInv, CountInv, ReadInv, AnswerInv,
        Unsent, Passed, Due, effective

\* The client starts towards the peer's own address, or does not.
LEMMA PortStep ==
  ASSUME DispatchInv, NEW r \in Routes, port(r)
  PROVE  DispatchInv'
  <1>1. deal.at = "opening" /\ deal \in Deals
    BY DEF DispatchInv, DispatchTypes, port
  <1>2. deal' \in Deals
    BY <1>1 DEF port, Deals, Moments, Unsent
  <1>5. /\ deal'.kind = deal.kind /\ deal'.since = deal.since /\ deal'.wall = deal.wall
        /\ deal'.slot = deal.slot /\ deal'.pv = deal.pv /\ deal'.answer = deal.answer
        /\ \/ deal'.at = "sending" /\ deal'.result = deal.result
           \/ deal'.at = "settling" /\ deal'.result = "encoding"
    BY <1>1 DEF port, Deals
  <1>6. UNCHANGED <<row, clock, flags, link, acks, peer8, emitted, recovered>>
    BY DEF port
  <1>7. DispatchTypes'
    BY <1>2, <1>6, DealTypes DEF DispatchInv, DispatchTypes
  <1>8. MarkInv' /\ UnsentInv' /\ GateInv'
    BY <1>1, <1>5, <1>6 DEF DispatchInv, MarkInv, UnsentInv, GateInv, Unsent, Passed
  <1>9. WireInv' /\ CountInv' /\ ReadInv' /\ AnswerInv'
    <2>1. /\ link = <<>> /\ acks = 0 /\ emitted = {} /\ peer8.received = 0
          /\ ~deal.slot.valid /\ ~deal.pv.valid /\ deal.result = "none"
          /\ deal.answer = "none" /\ recovered \in {"nothing", "intact"}
      BY <1>1 DEF DispatchInv, UnsentInv, Unsent
    <2>2. CountInv'
      <3>1. peer8.received <= 1 /\ link = <<>>
        BY <2>1
      <3>2. deal'.at # "reading pv" /\ peer8' = peer8 /\ link' = link
        BY <1>5, <1>6
      <3>3. QED
        BY <3>1, <3>2 DEF CountInv
    <2>3. WireInv'
      BY <1>5, <1>6, <2>1 DEF WireInv
    <2>4. ReadInv' /\ AnswerInv'
      BY <1>5, <1>6, <2>1 DEF ReadInv, AnswerInv
    <2>5. QED
      BY <2>2, <2>3, <2>4
  <1>10. QED
    BY <1>7, <1>8, <1>9 DEF DispatchInv

\* The send puts what is due on an empty wire, once, or gives the call up.
LEMMA SendStep ==
  ASSUME DispatchInv, send_unicast
  PROVE  DispatchInv'
  <1>1. /\ deal.at = "sending" /\ deal \in Deals /\ link = <<>> /\ acks = 0 /\ emitted = {}
        /\ peer8.received = 0 /\ deal.kind \in {"set", "release"}
        /\ Passed(deal.kind, deal.since, deal.wall)
        /\ ~deal.slot.valid /\ ~deal.pv.valid
        /\ deal.result = "none" /\ deal.answer = "none"
        /\ recovered \in {"nothing", "intact"}
    BY DEF DispatchInv, DispatchTypes, UnsentInv, GateInv, Unsent, send_unicast
  <1>2. UNCHANGED <<row, clock, flags, acks, peer8, recovered>>
    BY DEF send_unicast
  <1>3. CASE check
    <2>1. link' = <<Due>>
      <3>1. link' = Append(<<>>, Due)
        BY <1>1, <1>3 DEF send_unicast, Due, Passed
      <3>2. QED
        BY <3>1
    <2>2. /\ emitted' = {[kind |-> deal.kind, since |-> deal.since, wall |-> deal.wall]}
          /\ deal' = [deal EXCEPT !.at = "waiting"]
      BY <1>1, <1>3 DEF send_unicast
    <2>3. /\ deal'.at = "waiting" /\ deal'.kind = deal.kind
          /\ deal'.slot = deal.slot /\ deal'.pv = deal.pv
          /\ deal'.answer = deal.answer /\ deal'.result = deal.result
          /\ deal' \in Deals
      BY <1>1, <2>2 DEF Deals, Moments
    <2>4. DispatchTypes'
      <3>1. /\ Due' = Due /\ Deals' = Deals
        BY <1>2 DEF Due, Deals, Readings
      <3>2. emitted' \subseteq [kind : {"set", "release"}, since : Nat, wall : Int]
        BY <1>1, <2>2 DEF Deals
      <3>3. QED
        BY <1>2, <2>1, <2>3, <3>1, <3>2 DEF DispatchInv, DispatchTypes
    <2>5. GateInv'
      <3>1. \A e \in emitted' : Passed(e.kind, e.since, e.wall)
        BY <1>1, <2>2
      <3>2. QED
        BY <1>2, <2>3, <3>1 DEF GateInv, Passed
    <2>6. MarkInv' /\ UnsentInv' /\ WireInv' /\ CountInv' /\ ReadInv' /\ AnswerInv'
      BY <1>1, <1>2, <2>1, <2>2, <2>3
      DEF DispatchInv, MarkInv, UnsentInv, WireInv, CountInv, ReadInv, AnswerInv, Unsent, Due
    <2>7. QED
      BY <2>4, <2>5, <2>6 DEF DispatchInv
  <1>4. CASE ~check
    <2>1. /\ deal' = [deal EXCEPT !.at = "settling", !.result = "encoding"]
          /\ UNCHANGED <<link, emitted>>
      BY <1>4 DEF send_unicast
    <2>2. /\ deal'.at = "settling" /\ deal'.result = "encoding" /\ deal'.kind = deal.kind
          /\ deal'.slot = deal.slot /\ deal'.pv = deal.pv /\ deal'.answer = deal.answer
      BY <1>1, <2>1 DEF Deals
    <2>3. deal' \in Deals
      BY <1>1, <2>1 DEF Deals, Moments, Unsent
    <2>4. DispatchTypes'
      BY <1>1, <1>2, <2>1, <2>3, DealTypes DEF DispatchInv, DispatchTypes
    <2>5. MarkInv' /\ UnsentInv' /\ GateInv'
      BY <1>1, <1>2, <2>1, <2>2 DEF DispatchInv, MarkInv, UnsentInv, GateInv, Unsent
    <2>6. WireInv' /\ CountInv' /\ ReadInv' /\ AnswerInv'
      BY <1>1, <1>2, <2>1, <2>2
      DEF DispatchInv, WireInv, CountInv, ReadInv, AnswerInv, Unsent
    <2>7. QED
      BY <2>4, <2>5, <2>6 DEF DispatchInv
  <1>5. QED
    BY <1>3, <1>4

\* The peer takes the one write, and acknowledges it or not.
LEMMA HandleStep ==
  ASSUME DispatchInv, handle_request
  PROVE  DispatchInv'
  <1>0. link = <<Due>>
    BY DEF DispatchInv, DispatchTypes, handle_request
  <1>1. link = <<Due>> /\ Head(link) = Due /\ link' = <<>>
    <2>1. Head(<<Due>>) = Due /\ Tail(<<Due>>) = <<>>
      OBVIOUS
    <2>2. QED
      BY <1>0, <2>1 DEF handle_request
  <1>2. /\ emitted # {} /\ acks = 0 /\ deal.result # "ok" /\ deal.at \notin Unsent
        /\ deal \in Deals /\ peer8.received \in Nat
    BY <1>1 DEF DispatchInv, DispatchTypes, UnsentInv, WireInv, handle_request
  <1>3. /\ peer8' = [peer8 EXCEPT !.slot = Due, !.received = peer8.received + 1]
        /\ acks' \in {0, 1}
        /\ UNCHANGED <<row, clock, flags, deal, emitted, recovered>>
    BY <1>1, <1>2 DEF handle_request
  <1>5. Due' = Due /\ Deals' = Deals
    BY <1>3, SameRow
  <1>4. /\ peer8'.slot = Due /\ peer8'.received = peer8.received + 1
        /\ DispatchTypes'
    <2>1. peer8 \in [confirms : BOOLEAN, slot : {Nil, row.bits}, above : {Nil, RANGE_MAX},
                    received : Nat]
      BY DEF DispatchInv, DispatchTypes
    <2>2. Due \in {Nil, row.bits}
      BY DEF Due
    <2>3. peer8.received + 1 \in Nat /\ peer8' = [peer8 EXCEPT !.slot = Due,
                                                             !.received = peer8.received + 1]
      BY <1>2, <1>3
    <2>5. /\ peer8' \in [confirms : BOOLEAN, slot : {Nil, row.bits},
                          above : {Nil, RANGE_MAX}, received : Nat]
          /\ peer8'.slot = Due /\ peer8'.received = peer8.received + 1
      BY <2>1, <2>2, <2>3
    <2>4. QED
      BY <1>1, <1>3, <1>5, <2>5 DEF DispatchInv, DispatchTypes
  <1>6. MarkInv' /\ UnsentInv' /\ GateInv' /\ WireInv' /\ ReadInv' /\ AnswerInv'
    BY <1>1, <1>2, <1>3, <1>4, <1>5
    DEF DispatchInv, MarkInv, UnsentInv, GateInv, WireInv, ReadInv, AnswerInv, Passed
  <1>7. CountInv'
    <2>1. /\ UNCHANGED deal /\ peer8'.received = peer8.received + 1 /\ link' = <<>>
          /\ link # <<>> /\ peer8.received \in Nat
      BY <1>1, <1>2, <1>3, <1>4
    <2>2. CountInv
      BY DEF DispatchInv
    <2>3. SUFFICES ASSUME deal.kind # "inspect"
                   PROVE  /\ deal.at \in {"waiting", "settling", "reading"} =>
                                peer8'.received <= 1
                          /\ deal.at = "reading pv" => peer8'.received <= 2
      BY <2>1 DEF CountInv
    <2>4. ASSUME deal.at \in {"waiting", "settling", "reading"}
          PROVE  peer8'.received <= 1
      <3>1. peer8.received = 0
        BY <2>1, <2>2, <2>3, <2>4 DEF CountInv
      <3>2. QED
        BY <2>1, <3>1
    <2>5. ASSUME deal.at = "reading pv"
          PROVE  peer8'.received <= 2
      <3>1. peer8.received <= 1
        BY <2>1, <2>2, <2>3, <2>5 DEF CountInv
      <3>2. QED
        BY <2>1, <3>1
    <2>6. QED
      BY <2>4, <2>5
  <1>8. QED
    BY <1>4, <1>6, <1>7 DEF DispatchInv

\* The acknowledgement is of a write that arrived.
LEMMA AcknowledgedStep ==
  ASSUME DispatchInv, acknowledged
  PROVE  DispatchInv'
  <1>1. /\ deal.at = "waiting" /\ deal \in Deals /\ acks = 1 /\ link = <<>> /\ emitted # {}
        /\ deal.result # "ok"
    BY DEF DispatchInv, DispatchTypes, WireInv, acknowledged
  <1>2. acks' = 0 /\ UNCHANGED <<row, clock, flags, link, peer8, emitted, recovered>>
    BY <1>1 DEF acknowledged
  <1>3. deal' \in Deals
    BY <1>1 DEF acknowledged, Deals, Moments
  <1>4. DispatchTypes'
    BY <1>2, <1>3, DealTypes DEF DispatchInv, DispatchTypes
  <1>5. /\ deal'.at = "settling" /\ deal'.result = "ok" /\ deal'.kind = deal.kind
        /\ deal'.slot = deal.slot /\ deal'.pv = deal.pv /\ deal'.answer = deal.answer
        /\ deal'.sends = deal.sends
    BY <1>1 DEF acknowledged, Deals
  <1>7. MarkInv' /\ UnsentInv' /\ GateInv'
    BY <1>1, <1>2, <1>5 DEF DispatchInv, MarkInv, UnsentInv, GateInv, Unsent, Passed
  <1>8. WireInv' /\ CountInv' /\ ReadInv' /\ AnswerInv'
    BY <1>1, <1>2, <1>5, SameRow
    DEF DispatchInv, WireInv, CountInv, ReadInv, AnswerInv, Unsent, effective
  <1>9. QED
    BY <1>4, <1>7, <1>8 DEF DispatchInv

\* The client gives up: the wire is as it was.
LEMMA GiveUpStep ==
  ASSUME DispatchInv, apdu_timeout \/ poll
  PROVE  DispatchInv'
  <1>1. deal.at \in {"sending", "waiting"} /\ deal \in Deals
    BY DEF DispatchInv, DispatchTypes, apdu_timeout, poll
  <1>2. UNCHANGED <<row, clock, flags, link, acks, peer8, emitted, recovered>>
    BY DEF apdu_timeout, poll
  <1>3. deal' \in Deals
    BY <1>1 DEF apdu_timeout, poll, Deals, Moments
  <1>4. DispatchTypes'
    BY <1>2, <1>3, DealTypes DEF DispatchInv, DispatchTypes
  <1>5. /\ deal'.at = "settling" /\ deal'.result \in {"timeout", "encoding"}
        /\ deal'.kind = deal.kind /\ deal'.slot = deal.slot /\ deal'.pv = deal.pv
        /\ deal'.answer = deal.answer /\ deal'.sends = deal.sends
    BY <1>1 DEF apdu_timeout, poll, Deals
  <1>7. MarkInv' /\ UnsentInv' /\ GateInv'
    BY <1>1, <1>2, <1>5 DEF DispatchInv, MarkInv, UnsentInv, GateInv, Unsent, Passed
  <1>8. WireInv' /\ ReadInv'
    BY <1>2, <1>5, SameRow DEF DispatchInv, WireInv, ReadInv, effective
  <1>10. CountInv'
    <2>1. /\ deal.at = "sending" => peer8.received = 0 /\ link = <<>>
          /\ CountInv
      BY DEF DispatchInv, UnsentInv, Unsent
    <2>2. deal'.at = "settling" /\ deal'.kind = deal.kind /\ peer8' = peer8 /\ link' = link
      BY <1>2, <1>5
    <2>3. SUFFICES ASSUME deal.kind # "inspect"
                   PROVE  peer8.received <= 1 /\ (link # <<>> => peer8.received = 0)
      BY <2>2 DEF CountInv
    <2>4. CASE deal.at = "sending"
      <3>1. peer8.received = 0
        BY <2>1, <2>4
      <3>2. QED
        BY <3>1
    <2>5. CASE deal.at = "waiting"
      BY <2>1, <2>3, <2>5 DEF CountInv
    <2>6. QED
      BY <1>1, <2>4, <2>5
  <1>11. AnswerInv'
    <2>1. /\ deal.at = "sending" => deal.answer = "none" /\ recovered \in {"nothing", "intact"}
          /\ AnswerInv
      BY DEF DispatchInv, UnsentInv, Unsent
    <2>2. QED
      BY <1>1, <1>2, <1>5, <2>1 DEF AnswerInv
  <1>9. QED
    BY <1>4, <1>7, <1>8, <1>10, <1>11 DEF DispatchInv

\* Settling answers, or goes on to read back; an acknowledged write goes on.
LEMMA SettleStep ==
  ASSUME DispatchInv, settle
  PROVE  DispatchInv'
  <1>1. deal.at = "settling" /\ deal \in Deals
    BY DEF DispatchInv, DispatchTypes, settle
  <1>2. UNCHANGED <<row, clock, flags, link, acks, peer8, emitted, recovered>>
    BY DEF settle
  <1>3. \/ /\ deal.result # "ok"
           /\ \/ deal' = [deal EXCEPT !.at = "done", !.answer = "unknown"]
              \/ deal' = [deal EXCEPT !.at = "done", !.answer = "cancelled"]
        \/ deal' = [deal EXCEPT !.at = "reading"]
    <2>1. CASE deal.result = "timeout"
      BY <2>1 DEF settle
    <2>2. CASE deal.result = "encoding" /\ ~check
      BY <2>2 DEF settle
    <2>3. CASE deal.result # "timeout" /\ ~(deal.result = "encoding" /\ ~check)
      BY <2>3 DEF settle
    <2>4. QED
      BY <2>1, <2>2, <2>3
  <1>4. deal' \in Deals
    BY <1>1, <1>3 DEF Deals, Moments
  <1>5. /\ deal'.kind = deal.kind /\ deal'.slot = deal.slot /\ deal'.pv = deal.pv
        /\ deal'.result = deal.result /\ deal'.sends = deal.sends
        /\ \/ /\ deal'.at = "done" /\ deal.result # "ok"
              /\ deal'.answer \in {"unknown", "cancelled"}
           \/ deal'.at = "reading" /\ deal'.answer = deal.answer
    BY <1>1, <1>3 DEF Deals
  <1>6. DispatchTypes'
    BY <1>2, <1>4, DealTypes DEF DispatchInv, DispatchTypes
  <1>7. MarkInv' /\ UnsentInv' /\ GateInv'
    BY <1>1, <1>2, <1>5 DEF DispatchInv, MarkInv, UnsentInv, GateInv, Unsent, Passed
  <1>8. WireInv' /\ ReadInv' /\ AnswerInv'
    BY <1>1, <1>2, <1>5, SameRow DEF DispatchInv, WireInv, ReadInv, AnswerInv, effective
  <1>9. CountInv'
    BY <1>1, <1>2, <1>5 DEF DispatchInv, CountInv
  <1>10. QED
    BY <1>6, <1>7, <1>8, <1>9 DEF DispatchInv

\* A reading is invalid, or what the peer holds with nothing under way.
LEMMA ReadingIs ==
  ASSUME DispatchTypes, NEW value \in {Nil, row.bits, RANGE_MIN, RANGE_MAX},
         NEW v \in confirmed_read(value)
  PROVE  v \in Readings /\ (v.valid => link = <<>> /\ v.value = value)
  <1>1. \/ v = [valid |-> FALSE, value |-> Nil]
        \/ v = [valid |-> TRUE, value |-> value] /\ link = <<>>
    BY DEF confirmed_read
  <1>2. CASE v = [valid |-> FALSE, value |-> Nil]
    BY <1>2 DEF Readings
  <1>3. CASE v = [valid |-> TRUE, value |-> value] /\ link = <<>>
    BY <1>3 DEF Readings
  <1>4. QED
    BY <1>1, <1>2, <1>3

\* The effective value is one the peer's table can hold.
LEMMA EffectiveType ==
  ASSUME DispatchTypes
  PROVE  effective \in {Nil, row.bits, RANGE_MIN, RANGE_MAX}
  <1>1. peer8.above \in {Nil, RANGE_MAX} /\ peer8.slot \in {Nil, row.bits}
    BY DEF DispatchTypes
  <1>2. CASE peer8.above # Nil
    BY <1>1, <1>2 DEF effective
  <1>3. CASE peer8.above = Nil /\ peer8.slot # Nil
    BY <1>1, <1>3 DEF effective
  <1>4. CASE peer8.above = Nil /\ peer8.slot = Nil
    BY <1>4 DEF effective
  <1>5. QED
    BY <1>2, <1>3, <1>4

\* What a capture leaves of the peer: its slots, and one request more or none.
LEMMA CaptureKeeps ==
  ASSUME DispatchTypes, UNCHANGED row, NEW n \in Nat,
         peer8' = [peer8 EXCEPT !.received = n]
  PROVE  /\ peer8' \in [confirms : BOOLEAN, slot : {Nil, row'.bits}, above : {Nil, RANGE_MAX},
                        received : Nat]
         /\ peer8'.slot = peer8.slot /\ peer8'.received = n /\ effective' = effective
  <1>1. peer8 \in [confirms : BOOLEAN, slot : {Nil, row.bits}, above : {Nil, RANGE_MAX},
                   received : Nat]
    BY DEF DispatchTypes
  <1>2. /\ peer8' \in [confirms : BOOLEAN, slot : {Nil, row.bits}, above : {Nil, RANGE_MAX},
                       received : Nat]
        /\ peer8'.slot = peer8.slot /\ peer8'.received = n /\ peer8'.above = peer8.above
    BY <1>1
  <1>3. QED
    BY <1>2 DEF effective

\* The slot is read: at most one request more than the write.
LEMMA ReadSlotStep ==
  ASSUME DispatchInv, read_slot
  PROVE  DispatchInv'
  <1>1. deal.at = "reading" /\ deal \in Deals /\ peer8.received \in Nat /\ peer8.slot \in {Nil, row.bits}
    BY DEF DispatchInv, DispatchTypes, read_slot
  <1>2. UNCHANGED <<row, clock, flags, link, acks, emitted, recovered>>
    BY DEF read_slot
  <1>3. PICK s \in confirmed_read(peer8.slot), n \in {peer8.received, peer8.received + 1} :
              /\ deal' = [deal EXCEPT !.at = "reading pv", !.slot = s]
              /\ peer8' = [peer8 EXCEPT !.received = n]
    BY DEF read_slot
  <1>4. s \in Readings /\ (s.valid => link = <<>> /\ s.value = peer8.slot)
    BY <1>1, ReadingIs DEF DispatchInv
  <1>5. n \in Nat /\ n <= peer8.received + 1
    BY <1>1
  <1>6. /\ peer8' \in [confirms : BOOLEAN, slot : {Nil, row'.bits}, above : {Nil, RANGE_MAX},
                       received : Nat]
        /\ peer8'.slot = peer8.slot /\ peer8'.received = n /\ effective' = effective
    BY <1>2, <1>3, <1>5, CaptureKeeps DEF DispatchInv
  <1>7. /\ deal' \in Deals
        /\ deal'.at = "reading pv" /\ deal'.kind = deal.kind /\ deal'.slot = s
        /\ deal'.pv = deal.pv /\ deal'.result = deal.result /\ deal'.answer = deal.answer
        /\ deal'.sends = deal.sends
    BY <1>1, <1>3, <1>4 DEF Deals, Moments
  <1>8. DispatchTypes'
    BY <1>2, <1>6, <1>7, SameRow DEF DispatchInv, DispatchTypes
  <1>9. MarkInv' /\ UnsentInv' /\ GateInv' /\ WireInv' /\ ReadInv' /\ AnswerInv'
    BY <1>1, <1>2, <1>4, <1>6, <1>7, SameRow
    DEF DispatchInv, MarkInv, UnsentInv, GateInv, WireInv, ReadInv, AnswerInv, Unsent, Passed
  <1>10. CountInv'
    <2>1. SUFFICES ASSUME deal.kind # "inspect"
                   PROVE  n <= 2 /\ (link # <<>> => n <= 1)
      BY <1>2, <1>6, <1>7 DEF CountInv
    <2>2. peer8.received <= 1
      BY <1>1, <2>1 DEF DispatchInv, CountInv
    <2>3. n <= 2
      BY <1>1, <1>5, <2>2
    <2>4. ASSUME link # <<>> PROVE n <= 1
      <3>1. peer8.received = 0
        BY <1>1, <2>1, <2>4 DEF DispatchInv, CountInv
      <3>2. QED
        BY <1>5, <3>1
    <2>5. QED
      BY <2>3, <2>4
  <1>11. QED
    BY <1>8, <1>9, <1>10 DEF DispatchInv

\* The present value is read and the call is answered: confirmed only of an
\* acknowledged write, after at most three captures.
LEMMA ReadPvStep ==
  ASSUME DispatchInv, read_pv
  PROVE  DispatchInv'
  <1>1. deal.at = "reading pv" /\ deal \in Deals /\ peer8.received \in Nat
    BY DEF DispatchInv, DispatchTypes, read_pv
  <1>2. UNCHANGED <<row, clock, flags, link, acks, emitted, recovered>>
    BY DEF read_pv
  <1>3. PICK v \in confirmed_read(effective), n \in {peer8.received, peer8.received + 1} :
              /\ deal' = [deal EXCEPT !.at = "done", !.pv = v, !.sends = n, !.answer =
                              CASE deal.kind = "inspect" -> "inspection"
                                [] deal.kind # "inspect" /\ deal.result = "ok" -> "confirmed"
                                [] OTHER -> "invalid"]
              /\ peer8' = [peer8 EXCEPT !.received = n]
    BY DEF read_pv
  <1>4. v \in Readings /\ (v.valid => link = <<>> /\ v.value = effective)
    BY EffectiveType, ReadingIs DEF DispatchInv
  <1>5. n \in Nat /\ n <= peer8.received + 1
    <2>1. peer8.received \in Nat
      BY <1>1
    <2>2. n = peer8.received \/ n = peer8.received + 1
      OBVIOUS
    <2>3. QED
      BY <2>1, <2>2
  <1>6. /\ peer8' \in [confirms : BOOLEAN, slot : {Nil, row'.bits}, above : {Nil, RANGE_MAX},
                       received : Nat]
        /\ peer8'.slot = peer8.slot /\ peer8'.received = n /\ effective' = effective
    BY <1>2, <1>3, <1>5, CaptureKeeps DEF DispatchInv
  <1>7. PICK a \in {"inspection", "confirmed", "invalid"} :
              /\ deal' = [deal EXCEPT !.at = "done", !.pv = v, !.sends = n, !.answer = a]
              /\ deal.result = "ok" => a \in {"confirmed", "inspection"}
              /\ a = "confirmed" => deal.result = "ok" /\ deal.kind # "inspect"
    <2>1. PICK a : a = CASE deal.kind = "inspect" -> "inspection"
                         [] deal.kind # "inspect" /\ deal.result = "ok" -> "confirmed"
                         [] OTHER -> "invalid"
      OBVIOUS
    <2>2. deal' = [deal EXCEPT !.at = "done", !.pv = v, !.sends = n, !.answer = a]
      BY <1>3, <2>1
    <2>3. /\ a \in {"inspection", "confirmed", "invalid"}
          /\ deal.result = "ok" => a \in {"confirmed", "inspection"}
          /\ a = "confirmed" => deal.result = "ok" /\ deal.kind # "inspect"
      <3>1. CASE deal.kind = "inspect"
        BY <2>1, <3>1
      <3>2. CASE deal.kind # "inspect" /\ deal.result = "ok"
        BY <2>1, <3>2
      <3>3. CASE deal.kind # "inspect" /\ deal.result # "ok"
        BY <2>1, <3>3
      <3>4. QED
        BY <3>1, <3>2, <3>3
    <2>4. QED
      BY <2>2, <2>3
  <1>8. /\ deal' \in Deals
        /\ deal'.at = "done" /\ deal'.kind = deal.kind /\ deal'.slot = deal.slot
        /\ deal'.pv = v /\ deal'.result = deal.result /\ deal'.answer = a
        /\ deal'.sends = n
    BY <1>1, <1>4, <1>5, <1>7 DEF Deals, Moments
  <1>9. DispatchTypes'
    BY <1>2, <1>6, <1>8, SameRow DEF DispatchInv, DispatchTypes
  <1>10. MarkInv' /\ UnsentInv' /\ GateInv' /\ WireInv' /\ ReadInv' /\ CountInv'
    BY <1>1, <1>2, <1>4, <1>6, <1>8, SameRow
    DEF DispatchInv, MarkInv, UnsentInv, GateInv, WireInv, ReadInv, CountInv, Unsent, Passed
  <1>11. AnswerInv'
    <2>1. ASSUME a = "confirmed" PROVE n <= 3
      <3>1. peer8.received <= 2
        BY <1>1, <1>7, <2>1 DEF DispatchInv, CountInv
      <3>2. peer8.received \in Nat
        BY <1>1
      <3>3. QED
        BY <1>5, <3>1, <3>2
    <2>2. QED
      BY <1>2, <1>7, <1>8, <2>1 DEF DispatchInv, AnswerInv
  <1>12. QED
    BY <1>9, <1>10, <1>11 DEF DispatchInv

\* An inspection starts where a call was answered, and only reads.
LEMMA InspectStep ==
  ASSUME DispatchInv, NEW x \in Presented, NEW r \in Routes, inspect_identical(x, r)
  PROVE  DispatchInv'
  <1>1. deal.at = "done" /\ deal \in Deals
    BY DEF DispatchInv, DispatchTypes, inspect_identical
  <1>2. UNCHANGED <<row, clock, flags, link, acks, peer8, emitted, recovered>>
    BY DEF inspect_identical
  <1>3. /\ deal' \in Deals
        /\ deal'.at = "reading" /\ deal'.kind = "inspect" /\ deal'.slot = deal.slot
        /\ deal'.pv = deal.pv /\ deal'.result = deal.result /\ deal'.answer = deal.answer
        /\ deal'.sends = deal.sends
    BY <1>1 DEF inspect_identical, Deals, Moments
  <1>4. DispatchTypes'
    BY <1>2, <1>3, DealTypes DEF DispatchInv, DispatchTypes
  <1>5. MarkInv' /\ UnsentInv' /\ GateInv' /\ WireInv' /\ ReadInv' /\ CountInv' /\ AnswerInv'
    BY <1>1, <1>2, <1>3, SameRow
    DEF DispatchInv, MarkInv, UnsentInv, GateInv, WireInv, ReadInv, CountInv, AnswerInv,
        Unsent, Passed, effective
  <1>6. QED
    BY <1>4, <1>5 DEF DispatchInv

\* A step that leaves the caller, the wire and the peer alone keeps all but the
\* clocks and what recovery concluded.
LEMMA AsideStep ==
  ASSUME DispatchInv, UNCHANGED <<row, deal, link, acks, peer8, emitted>>,
         clock' \in [wall : Int, mono : Nat, boot : Nat, age : Nat], MarkInv',
         flags' \in [cancelled : BOOLEAN, late : BOOLEAN],
         \/ recovered' = recovered
         \/ recovered' = "intact"
         \/ recovered' = "announced" /\ deal.result = "ok"
         \/ recovered' = "qualified" /\ deal.at = "done"
  PROVE  DispatchInv'
  <1>1. DispatchTypes'
    BY SameRow DEF DispatchInv, DispatchTypes
  <1>2. GateInv' /\ WireInv' /\ ReadInv' /\ CountInv'
    BY SameRow DEF DispatchInv, GateInv, WireInv, ReadInv, CountInv, Passed, effective
  <1>3. UnsentInv' /\ AnswerInv'
    BY DEF DispatchInv, UnsentInv, AnswerInv, Unsent
  <1>4. QED
    BY <1>1, <1>2, <1>3 DEF DispatchInv

\* Cancelling and the deadline set a flag.
LEMMA FlagStep ==
  ASSUME DispatchInv, NEW x, cancel_pending(x) \/ Late
  PROVE  DispatchInv'
  <1>1. /\ UNCHANGED <<row, clock, deal, link, acks, peer8, emitted, recovered>>
        /\ flags' \in [cancelled : BOOLEAN, late : BOOLEAN]
    BY DEF cancel_pending, Late, DispatchInv, DispatchTypes
  <1>2. MarkInv' /\ clock' \in [wall : Int, mono : Nat, boot : Nat, age : Nat]
    BY <1>1 DEF DispatchInv, DispatchTypes, MarkInv
  <1>3. QED
    BY <1>1, <1>2, AsideStep

\* Recovery announces a confirmed answer, which is of an acknowledged write; it
\* qualifies a later request once the call was joined; a backup is compared
\* before anything is sent.
LEMMA RecoverStep ==
  ASSUME DispatchInv,
         \/ announce
         \/ \E x \in Presented, r \in Routes, claim \in {"ObservedJoin", "HandleDropped", "LeaseExpired"} :
               assess_conflicting_request(x, r, claim)
         \/ \E b \in Admissions, same_store \in BOOLEAN : verify_backup(b, same_store)
  PROVE  DispatchInv'
  <1>1. UNCHANGED <<row, clock, flags, deal, link, acks, peer8, emitted>>
    BY DEF announce, assess_conflicting_request, verify_backup
  <1>2. /\ MarkInv' /\ clock' \in [wall : Int, mono : Nat, boot : Nat, age : Nat]
        /\ flags' \in [cancelled : BOOLEAN, late : BOOLEAN]
    BY <1>1 DEF DispatchInv, DispatchTypes, MarkInv
  <1>3. \/ recovered' = "announced" /\ deal.result = "ok"
        \/ recovered' = "qualified" /\ deal.at = "done"
        \/ recovered' = "intact"
    BY DEF announce, assess_conflicting_request, verify_backup, classify_peer_protocol,
           Quiescent, DispatchInv, AnswerInv
  <1>4. QED
    BY <1>1, <1>2, <1>3, AsideStep

\* Within one boot time moves the mark and the age alike; the wall may go back.
LEMMA ClockStep ==
  ASSUME DispatchInv, Passes \/ SetBack
  PROVE  DispatchInv'
  <1>1. UNCHANGED <<row, flags, deal, link, acks, peer8, emitted, recovered>>
    BY DEF Passes, SetBack
  <1>2. /\ clock \in [wall : Int, mono : Nat, boot : Nat, age : Nat]
        /\ flags \in [cancelled : BOOLEAN, late : BOOLEAN]
        /\ MarkInv
    BY DEF DispatchInv, DispatchTypes
  <1>3. clock' \in [wall : Int, mono : Nat, boot : Nat, age : Nat] /\ MarkInv'
    <2>1. CASE Passes
      <3>1. clock' = [clock EXCEPT !.wall = clock.wall + 1, !.mono = clock.mono + 1,
                                   !.age = clock.age + 1]
        BY <2>1 DEF Passes
      <3>4. clock.wall + 1 \in Int /\ clock.mono + 1 \in Nat /\ clock.age + 1 \in Nat
        BY <1>2
      <3>2. /\ clock' \in [wall : Int, mono : Nat, boot : Nat, age : Nat]
            /\ clock'.boot = clock.boot /\ clock'.mono = clock.mono + 1
            /\ clock'.age = clock.age + 1
        <4>1. clock \in [wall : Int, mono : Nat, boot : Nat, age : Nat]
          BY <1>2
        <4>2. QED
          BY <3>1, <3>4, <4>1
      <3>3. QED
        BY <1>2, <3>2 DEF MarkInv
    <2>2. CASE SetBack
      <3>1. clock' = [clock EXCEPT !.wall = clock.wall - 1]
        BY <2>2 DEF SetBack
      <3>2. QED
        BY <1>2, <3>1 DEF MarkInv
    <2>3. QED
      BY <2>1, <2>2
  <1>4. QED
    BY <1>1, <1>2, <1>3, AsideStep

\* A restart kills the permit, and with another boot the mark says nothing.
LEMMA RestartStep ==
  ASSUME DispatchInv, Restart
  PROVE  DispatchInv'
  <1>1. deal.at \in Unsent /\ clock \in [wall : Int, mono : Nat, boot : Nat, age : Nat]
    BY DEF DispatchInv, DispatchTypes, Restart, Unsent
  <1>2. /\ UNCHANGED <<row, link, acks, peer8, emitted, recovered>>
        /\ deal' = Resting
        /\ clock' = [clock EXCEPT !.boot = clock.boot + 1, !.mono = 0]
        /\ flags' = [cancelled |-> FALSE, late |-> FALSE]
    BY DEF Restart
  <1>3. /\ link = <<>> /\ acks = 0 /\ emitted = {} /\ peer8.received = 0
        /\ recovered \in {"nothing", "intact"}
    BY <1>1 DEF DispatchInv, UnsentInv
  <1>4. clock' \in [wall : Int, mono : Nat, boot : Nat, age : Nat] /\ MarkInv'
    <2>1. clock.boot \in Nat /\ clock.boot + 1 \in Nat /\ 0 \in Nat
      BY <1>1
    <2>2. clock \in [wall : Int, mono : Nat, boot : Nat, age : Nat]
      BY <1>1
    <2>3. /\ clock' \in [wall : Int, mono : Nat, boot : Nat, age : Nat]
          /\ clock'.boot = clock.boot + 1
      BY <1>2, <2>1, <2>2
    <2>4. clock'.boot # 0
      BY <2>1, <2>3
    <2>5. QED
      BY <2>3, <2>4 DEF MarkInv
  <1>5. Resting \in Deals
    BY DEF Resting, Deals, Moments, Unsent, Readings
  <1>6. DispatchTypes'
    BY <1>2, <1>3, <1>4, <1>5, SameRow DEF DispatchInv, DispatchTypes
  <1>7. UnsentInv' /\ GateInv' /\ WireInv' /\ ReadInv' /\ CountInv' /\ AnswerInv'
    BY <1>2, <1>3
    DEF Resting, UnsentInv, GateInv, WireInv, ReadInv, CountInv, AnswerInv, Unsent
  <1>8. QED
    BY <1>4, <1>6, <1>7 DEF DispatchInv

\* Every step of the dispatch, and of the peer and the clocks, keeps the invariant.
LEMMA DispatchStep ==
  ASSUME DispatchInv, [DispatchSteps]_dispatchVars
  PROVE  DispatchInv'
  <1>1. CASE UNCHANGED dispatchVars
    <2>1. UNCHANGED <<row, clock, flags, deal, link, acks, peer8, emitted, recovered>>
      BY <1>1 DEF dispatchVars
    <2>2. /\ MarkInv' /\ clock' \in [wall : Int, mono : Nat, boot : Nat, age : Nat]
          /\ flags' \in [cancelled : BOOLEAN, late : BOOLEAN]
      BY <2>1 DEF DispatchInv, DispatchTypes, MarkInv
    <2>3. QED
      BY <2>1, <2>2, AsideStep
  <1>2. ASSUME NEW x \in Presented, NEW r \in Routes,
               \/ \E freshness \in {"fresh", "stale", "unknown"} : authorize_set(x, r, freshness)
               \/ authorize_release(x, r)
               \/ execute(x, r) \/ refused(x, r) \/ inspect_identical(x, r)
        PROVE  DispatchInv'
    BY <1>2, AuthorizeSetStep, AuthorizeReleaseStep, ExecuteStep, RefusedStep, InspectStep
  <1>3. CASE \/ announce
             \/ \E x \in Presented, r \in Routes,
                   claim \in {"ObservedJoin", "HandleDropped", "LeaseExpired"} :
                   assess_conflicting_request(x, r, claim)
             \/ \E b \in Admissions, same_store \in BOOLEAN : verify_backup(b, same_store)
    BY <1>3, RecoverStep
  <1>4. CASE (\E x \in Presented : cancel_pending(x)) \/ Late
    BY <1>4, FlagStep
  <1>5. CASE \E r \in Routes : port(r)
    BY <1>5, PortStep
  <1>6. CASE send_unicast \/ handle_request \/ acknowledged \/ apdu_timeout \/ poll
    BY <1>6, SendStep, HandleStep, AcknowledgedStep, GiveUpStep
  <1>7. CASE settle \/ read_slot \/ read_pv
    BY <1>7, SettleStep, ReadSlotStep, ReadPvStep
  <1>8. CASE Passes \/ SetBack \/ Restart
    BY <1>8, ClockStep, RestartStep
  <1>9. QED
    BY <1>1, <1>2, <1>3, <1>4, <1>5, <1>6, <1>7, <1>8 DEF DispatchSteps

\* The inductive invariant, for every row, preview, route and bound.
THEOREM DispatchInvariant == DispatchSpec => []DispatchInv
  <1>1. DispatchInit => DispatchInv
    BY InitDispatchInv
  <1>2. DispatchInv /\ [DispatchSteps]_dispatchVars => DispatchInv'
    BY DispatchStep
  <1>3. QED
    BY <1>1, <1>2, PTL DEF DispatchSpec

-----------------------------------------------------------------------------
\* What was written is what is due, on the wire or in the slot.
LEMMA WrittenIsDue ==
  ASSUME DispatchInv, emitted # {}
  PROVE  Written = {Due}
  <1>1. CASE link = <<>>
    <2>1. peer8.slot = Due
      BY <1>1 DEF DispatchInv, WireInv
    <2>2. {link[i] : i \in DOMAIN link} = {}
      BY <1>1
    <2>3. QED
      BY <1>1, <2>1, <2>2 DEF Written
  <1>2. CASE link = <<Due>>
    <2>1. {link[i] : i \in DOMAIN link} = {Due}
      BY <1>2
    <2>2. link # <<>>
      BY <1>2
    <2>3. QED
      BY <2>1, <2>2 DEF Written
  <1>3. QED
    BY <1>1, <1>2 DEF DispatchInv, DispatchTypes

\* The invariant gives what the model claims of the dispatch, its peer and recovery.
LEMMA InvSound == DispatchInv => DispatchSound
  <1> SUFFICES ASSUME DispatchInv PROVE DispatchSound
    OBVIOUS
  <1>1. Len(link) + acks <= 1
    <2>1. CASE link = <<>>
      BY <2>1 DEF DispatchInv, DispatchTypes
    <2>2. CASE link = <<Due>>
      <3>1. link # <<>> /\ Len(link) = 1
        BY <2>2
      <3>2. acks = 0
        BY <3>1 DEF DispatchInv, WireInv
      <3>3. QED
        BY <3>1, <3>2
    <2>3. QED
      BY <2>1, <2>2 DEF DispatchInv, DispatchTypes
  <1>2. ASSUME NEW e \in emitted
        PROVE  /\ row.lifecycle # "terminal" /\ ~row.legacy /\ e.kind = row.kind
               /\ e.kind = "set" =>
                     /\ e.since < DURATION_SECS
                     /\ e.wall - row.created \in 0 .. row.deadline - 1
               /\ Written = {IF e.kind = "set" THEN row.bits ELSE Nil}
    <2>1. Passed(e.kind, e.since, e.wall)
      BY DEF DispatchInv, GateInv
    <2>2. Written = {Due}
      BY WrittenIsDue
    <2>3. QED
      BY <2>1, <2>2 DEF Passed, Due
  <1>3. deal.result = "ok" /\ deal.at = "done" => deal.answer \in {"confirmed", "inspection"}
    BY DEF DispatchInv, AnswerInv
  <1>4. deal.answer = "confirmed" =>
          /\ emitted # {} /\ link = <<>> /\ deal.sends <= 3
          /\ deal.slot.valid => deal.slot.value = peer8.slot
          /\ deal.pv.valid => deal.pv.value = effective
    BY DEF DispatchInv, AnswerInv, WireInv, ReadInv
  <1>5. recovered = "announced" => peer8.slot = (IF row.kind = "set" THEN row.bits ELSE Nil)
    <2>1. ASSUME recovered = "announced" PROVE peer8.slot = Due
      <3>1. deal.result = "ok"
        BY <2>1 DEF DispatchInv, AnswerInv
      <3>2. link = <<>> /\ emitted # {}
        BY <3>1 DEF DispatchInv, WireInv
      <3>3. link # <<Due>>
        BY <3>2
      <3>4. QED
        BY <3>2, <3>3 DEF DispatchInv, WireInv
    <2>2. QED
      BY <2>1 DEF Due
  <1>6. recovered = "qualified" => deal.at \notin {"opening", "sending", "waiting", "settling"}
    BY DEF DispatchInv, AnswerInv
  <1>7. QED
    BY <1>1, <1>2, <1>3, <1>4, <1>5, <1>6 DEF DispatchSound

\* For every row, preview, route and bound: what goes out was admitted, fits the
\* clocks it was looked at with, and goes out once; confirmed, announced and
\* qualified say what the peer and the call bear out.
THEOREM DispatchIsSound == DispatchSpec => []DispatchSound
  BY DispatchInvariant, InvSound, PTL
=============================================================================
