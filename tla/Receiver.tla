------------------------------ MODULE Receiver ------------------------------
(***************************************************************************)
(* Normalization of raw reads and the synthetic receiver                   *)
(* (src/src/observation/mod.rs, normalize.rs, time.rs, identity.rs and     *)
(* index.rs).                                                              *)
(*                                                                         *)
(* A raw read is received under one clock reading, normalized under a      *)
(* later one and emitted later still by a producer that may have been      *)
(* fenced meanwhile.  Clocks step, stop while the host is suspended and    *)
(* restart with it; restored producer checkpoints may be out of date.      *)
(***************************************************************************)
EXTENDS Integers, Sequences, FiniteSets

CONSTANTS
    Contexts,       \* BindingContext: key, active generation act, unit
    Reads,          \* raw reads: property outcomes with units, codec, source lag
    LIMIT,          \* capacity of the receiver
    MAX_AGE, MAX_WALL_SKEW,
    MaxReal,        \* bound on real time
    MaxSteps,       \* bound on clock faults
    MaxAllocations, \* bound on starts and resumes
    Nothing

ASSUME ReceiverAssumption ==
    /\ {LIMIT, MAX_WALL_SKEW, MaxReal, MaxSteps, MaxAllocations} \subseteq Nat
    /\ MAX_AGE \in Nat \ {0}
    /\ \A c \in Contexts : c.act \in Nat
    /\ \A r \in Reads :
          /\ r.lag \in Nat \cup {Nothing}
          /\ r.outcome.kind = "Value" =>
                LET b == r.outcome.bytes
                IN  /\ {b.sized, b.context, b.canonical, b.exact} \subseteq BOOLEAN
                    /\ {b.tag, b.lvt, b.width} \subseteq Nat
                    \* a Boolean and an integer of any width are finite
                    /\ b.tag \in {1, 2, 3} => b.body = "finite"

VARIABLES
    allocation,     \* generations and leases handed out
    ledger,         \* the receiver's entry for the producer
    held,           \* Producer values in callers' hands, fenced ones included
    kept,           \* the checkpoint the caller retained
    records,        \* stored observations with their sticky freshness
    bindings,       \* selected context of each key
    latest,         \* the record that is current for each key
    raw,            \* a read on its way: received, then pending
    reading,        \* the host's clocks
    real,           \* real time
    faults,         \* clock faults so far, by clock
    served          \* the answer of the current just made, if any

receiverVars == <<allocation, ledger, held, kept, records, bindings, latest, raw,
                  reading, real, faults, served>>

KeySet == {c.key : c \in Contexts}

ReceiverInit ==
    /\ allocation = 0
    /\ ledger = Nothing
    /\ held = {}
    /\ kept = Nothing
    /\ records = <<>>
    /\ bindings = [k \in KeySet |-> Nothing]
    /\ latest = [k \in KeySet |-> 0]
    /\ raw = Nothing
    /\ reading = [boot |-> 1, mono |-> 0, wall |-> 2, confirmed |-> TRUE]
    /\ real = 0
    /\ faults = [wall |-> 0, mono |-> 0]
    /\ served = Nothing

-----------------------------------------------------------------------------
\* normalize.rs

\* Units this profile knows: an engineering-units token is looked up exactly,
\* an absent or other token is an unknown unit.
Engineering == [t \in {62, 98, 53, 87} |->
                  CASE t = 62 -> "degC" [] t = 98 -> "percent" [] t = 53 -> "Pa" [] t = 87 -> "L/s"]
unit(provenance) ==
    CASE provenance.from = "binding" -> provenance.unit
      [] provenance.from = "engineering" /\ provenance.token \in DOMAIN Engineering ->
            Engineering[provenance.token]
      [] OTHER -> "unknown"

\* scalar: the quality of application-tagged bytes b, which carry the fields of
\* the first octet (context bit, tag, length/value/type), whether the bytes
\* are within MAX_VALUE_BYTES, whether an extended length is canonical, whether
\* the length is exact, the body's width and what the body holds.
scalar(b, codec) ==
    IF ~b.sized THEN "Invalid"
    ELSE IF b.context \/ b.tag >= 13 THEN "Unknown"
    ELSE IF b.lvt > 5 THEN "Invalid"
    ELSE IF codec = "ExactDecimalText" /\ b.tag # 7 THEN "Unknown"
    ELSE IF b.tag = 1 THEN IF b.exact /\ b.lvt <= 1 THEN "Valid" ELSE "Invalid"
    ELSE IF (b.lvt = 5 /\ ~b.canonical) \/ ~b.exact THEN "Invalid"
    ELSE
      CASE b.tag = 0 /\ b.width = 0 -> "Missing"
        [] b.tag \in {2, 3} /\ b.width \in 1 .. 8 -> "Valid"
        [] <<b.tag, b.width>> \in {<<4, 4>>, <<5, 8>>} ->
              IF b.body = "finite" THEN "Valid" ELSE "NonFinite"
        [] b.tag = 7 ->
              (CASE b.body = "charset" -> "Unknown"
                 [] b.body = "utf8" -> IF codec = "ExactDecimalText" THEN "Invalid" ELSE "Text"
                 [] b.body = "decimal" -> IF codec = "ExactDecimalText" THEN "Valid" ELSE "Text"
                 [] OTHER -> "Invalid")
        [] OTHER -> IF b.tag <= 5 THEN "Invalid" ELSE "Unknown"

\* Mutant: text that is valid is fit for a calculation.
decode_TextFits(outcome, u, codec) ==
    IF outcome.kind # "Value" THEN "Transport"
    ELSE LET q == scalar(outcome.bytes, codec)
         IN  IF q \in {"Missing", "Invalid", "NonFinite"} THEN q
             ELSE IF q = "Unknown" THEN "Unsupported"
             ELSE IF u = "unknown" THEN "UnknownUnit"
             ELSE "SyntheticValueOnly"

\* decode: the suitability of a property outcome.  Text is valid but never fit
\* for a calculation.
decode(outcome, u, codec) ==
    IF outcome.kind # "Value" THEN "Transport"
    ELSE LET q == scalar(outcome.bytes, codec)
         IN  IF q \in {"Missing", "Invalid", "NonFinite"} THEN q
             ELSE IF q = "Unknown" THEN "Unsupported"
             ELSE IF u = "unknown" THEN "UnknownUnit"
             ELSE IF q = "Text" THEN "Unsupported"
             ELSE "SyntheticValueOnly"

-----------------------------------------------------------------------------
\* time.rs

\* MonotonicMark::elapsed_since is refused across boots and backwards.
Elapses(now, origin) == now.boot = origin.boot /\ now.mono >= origin.mono

\* TimeEvidence::new: wall order that contradicts itself is kept as ambiguous.
TimeEvidence(source, receipt, ingestion) ==
    [source |-> source, receipt |-> receipt, ingestion |-> ingestion,
     ambiguous |-> (source # Nothing /\ source > receipt.wall) \/ receipt.wall > ingestion.wall]

AbsDiff(a, b) == IF a >= b THEN a - b ELSE b - a

\* FreshnessPolicy::assess
assess(e, now) ==
    LET elapsed_mono == now.mono - e.receipt.mono
        wall_age == now.wall - e.receipt.wall
        source_age == IF e.source = Nothing THEN 0 ELSE now.wall - e.source
    IN  IF \/ ~e.ingestion.confirmed \/ ~now.confirmed \/ e.ambiguous
           \/ ~Elapses(now, e.receipt) \/ ~Elapses(now, e.ingestion)
           \/ wall_age < 0 \/ AbsDiff(elapsed_mono, wall_age) > MAX_WALL_SKEW
           \/ source_age < 0
        THEN "Unknown"
        ELSE IF elapsed_mono >= MAX_AGE \/ wall_age >= MAX_AGE \/ source_age >= MAX_AGE
        THEN "Stale"
        ELSE "Fresh"

\* Mutant: staleness is recomputed at every reading.
retain_Reassess(old, assessed) == assessed

\* Freshness::retain: uncertainty and staleness are sticky.
retain(old, assessed) == IF old = "Fresh" THEN assessed ELSE old

-----------------------------------------------------------------------------
\* A read is received with its wall time and monotonic mark.
Receive(c, r) ==
    /\ raw = Nothing
    /\ Len(records) < LIMIT
    /\ raw' = [stage |-> "received", origin |-> c, read |-> r, receipt |-> reading, at |-> real]
    /\ served' = Nothing
    /\ UNCHANGED <<allocation, ledger, held, kept, records, bindings, latest, reading, real, faults>>

\* Mutant: a read of another activation or session of the same key is joined.
matches_KeyOnly(c, origin) == c.key = origin.key

\* BindingContext::matches: the context handed in is of the key, revisions and
\* generations that the envelope was read under.
matches(c, origin) == c.key = origin.key /\ c.act = origin.act

\* from_bacnet: the caller joins the read with a context, be it one selected
\* since; the selected property must be in the batch exactly once.
from_bacnet(c) ==
    /\ raw # Nothing /\ raw.stage = "received"
    /\ matches(c, raw.origin) /\ raw.read.matching = 1
    /\ LET r == raw.read
           u == unit(r.units)
           d == decode(r.outcome, u, r.codec)
           source == IF r.lag = Nothing THEN Nothing ELSE raw.receipt.wall - r.lag
           e == TimeEvidence(source, raw.receipt, reading)
       IN  raw' = [stage |-> "pending", origin |-> raw.origin, context |-> c, read |-> r,
                   at |-> raw.at, time |-> e, freshness |-> assess(e, reading),
                   suitability |-> IF d = "SyntheticValueOnly" /\ u # c.unit
                                     THEN "WrongUnit" ELSE d]
    /\ served' = Nothing
    /\ UNCHANGED <<allocation, ledger, held, kept, records, bindings, latest, reading, real, faults>>

\* A read under another context, or whose selected property is absent or
\* repeated, is refused, and its caller gives it up.
from_bacnet_refused(c) ==
    /\ raw # Nothing /\ raw.stage = "received"
    /\ ~matches(c, raw.origin) \/ raw.read.matching # 1
    /\ raw' = Nothing
    /\ served' = Nothing
    /\ UNCHANGED <<allocation, ledger, held, kept, records, bindings, latest, reading, real, faults>>

-----------------------------------------------------------------------------
\* index.rs

\* start: only for a producer the receiver has no ledger of.
start ==
    /\ ledger = Nothing /\ allocation < MaxAllocations
    /\ allocation' = allocation + 1
    /\ ledger' = [generation |-> allocation', next |-> 0, lease |-> allocation']
    /\ held' = held \cup {ledger'}
    /\ served' = Nothing
    /\ UNCHANGED <<kept, records, bindings, latest, raw, reading, real, faults>>

checkpoint_of(p) == [generation |-> p.generation, next |-> p.next]

\* Mutant: a restored checkpoint of the producer's generation is believed.
resumed_Trusted(restored, fresh) ==
    IF restored.generation = ledger.generation THEN restored ELSE [generation |-> fresh, next |-> 0]

\* The checkpoint a resume continues from: the restored one when it is exactly
\* the receiver's, else a fresh generation.
resumed(restored, fresh) ==
    IF restored = checkpoint_of(ledger) THEN restored ELSE [generation |-> fresh, next |-> 0]

\* resume: every resume fences the producers still held.
resume(restored) ==
    /\ ledger # Nothing /\ allocation < MaxAllocations
    /\ allocation' = allocation + 1
    /\ LET c == resumed(restored, allocation')
       IN  ledger' = [generation |-> c.generation, next |-> c.next, lease |-> allocation']
    /\ held' = held \cup {ledger'}
    /\ served' = Nothing
    /\ UNCHANGED <<kept, records, bindings, latest, raw, reading, real, faults>>

\* Producer::checkpoint, kept by its caller.
checkpoint_kept(p) ==
    /\ kept' = checkpoint_of(p)
    /\ served' = Nothing
    /\ UNCHANGED <<allocation, ledger, held, records, bindings, latest, raw, reading, real, faults>>

\* Whether record new displaces record old as current: not when its receipt
\* mark is earlier or of another boot, its receipt earlier or its source time
\* earlier.
Displaces(new, old) ==
    /\ Elapses(new.time.receipt, old.time.receipt)
    /\ new.time.receipt.wall >= old.time.receipt.wall
    /\ ~(/\ new.time.source # Nothing /\ old.time.source # Nothing
         /\ new.time.source < old.time.source)

\* consider record i, given the selection b and the records.
consider(cur, b, recs, i) ==
    LET k == recs[i].context.key
    IN  IF b[k] = recs[i].context /\ (cur[k] = 0 \/ Displaces(recs[i], recs[cur[k]]))
          THEN [cur EXCEPT ![k] = i] ELSE cur

\* rebuild_current
rebuild_current(b, recs) ==
    LET rebuilt[i \in 0 .. Len(recs)] ==
          IF i = 0 THEN [k \in KeySet |-> 0] ELSE consider(rebuilt[i - 1], b, recs, i)
    IN  rebuilt[Len(recs)]

\* select_binding: a compare-and-swap on the selected context; only a newer
\* activation replaces it.
select(expected, c) ==
    /\ bindings[c.key] = expected
    /\ expected # c
    /\ expected # Nothing => c.act > expected.act
    /\ bindings' = [bindings EXCEPT ![c.key] = c]
    /\ latest' = rebuild_current(bindings', records)
    /\ served' = Nothing
    /\ UNCHANGED <<allocation, ledger, held, kept, records, raw, reading, real, faults>>

\* emit: the producer's checkpoint and lease are the ledger's; the record takes
\* its position and only then does the producer advance, with the ledger.
emit(p) ==
    /\ raw # Nothing /\ raw.stage = "pending"
    /\ ledger = p
    /\ Len(records) < LIMIT
    /\ LET n == [p EXCEPT !.next = @ + 1]
       IN  /\ ledger' = n
           /\ held' = (held \ {p}) \cup {n}
    /\ records' = Append(records, [id |-> [generation |-> p.generation, seq |-> p.next],
                                   origin |-> raw.origin, context |-> raw.context,
                                   read |-> raw.read, at |-> raw.at, time |-> raw.time, freshness |-> raw.freshness,
                                   suitability |-> raw.suitability])
    /\ latest' = consider(latest, bindings, records', Len(records'))
    /\ raw' = Nothing
    /\ served' = Nothing
    /\ UNCHANGED <<allocation, kept, bindings, reading, real, faults>>

\* current: freshness is reassessed, stays what it was once it was not Fresh,
\* and decides with the decoded suitability what a dependent may use.
current_value(k) ==
    /\ latest[k] # 0
    /\ LET i == latest[k]
           f == retain(records[i].freshness, assess(records[i].time, reading))
           s == records[i].suitability
       IN  /\ records' = [records EXCEPT ![i].freshness = f]
           /\ served' = [record |-> i, key |-> k, was |-> records[i].freshness,
                         suitability |-> IF s = "SyntheticValueOnly" /\ f # "Fresh"
                                           THEN "NotFresh" ELSE s]
    /\ UNCHANGED <<allocation, ledger, held, kept, bindings, latest, raw, reading, real, faults>>

\* into_image and reopen: the current values are rebuilt from the records.
reopen ==
    /\ latest' = rebuild_current(bindings, records)
    /\ served' = Nothing
    /\ UNCHANGED <<allocation, ledger, held, kept, records, bindings, raw, reading, real, faults>>

\* reconcile: what the receiver says of an observation its caller kept.
reconcile(id, content) ==
    LET old == {i \in DOMAIN records : records[i].id = id}
    IN  CASE old = {} -> "no matching scoped identity"
          [] \E i \in old : [records[i] EXCEPT !.freshness = content.freshness] # content ->
                "same identity, different content"
          [] OTHER -> "SameContent"

-----------------------------------------------------------------------------
\* The host's clocks.

Passes(r) ==
    /\ real < MaxReal
    /\ real' = real + 1
    /\ served' = Nothing
    /\ reading' = r
    /\ UNCHANGED <<allocation, ledger, held, kept, records, bindings, latest, raw>>

ClockAdvances ==
    /\ Passes([reading EXCEPT !.mono = @ + 1, !.wall = @ + 1])
    /\ UNCHANGED faults

\* Suspended: the monotonic clock stands still, and the host may know of it.
Suspends ==
    /\ faults.mono < MaxSteps
    /\ \E known \in BOOLEAN : Passes([reading EXCEPT !.wall = @ + 1, !.confirmed = ~known])
    /\ faults' = [faults EXCEPT !.mono = @ + 1]

\* Continuity is established again.
Confirms ==
    /\ ~reading.confirmed
    /\ reading' = [reading EXCEPT !.confirmed = TRUE]
    /\ served' = Nothing
    /\ UNCHANGED <<allocation, ledger, held, kept, records, bindings, latest, raw, real, faults>>

\* The wall clock is set back.
WallSteps ==
    /\ faults.wall < MaxSteps
    /\ Passes([reading EXCEPT !.mono = @ + 1])
    /\ faults' = [faults EXCEPT !.wall = @ + 1]

Reboots ==
    /\ faults.mono < MaxSteps
    /\ Passes([boot |-> reading.boot + 1, mono |-> 0, wall |-> reading.wall + 1, confirmed |-> TRUE])
    /\ faults' = [faults EXCEPT !.mono = @ + 1]

ReceiverNext ==
    \/ \E c \in Contexts, r \in Reads : Receive(c, r)
    \/ \E c \in Contexts : from_bacnet(c) \/ from_bacnet_refused(c)
    \/ start
    \/ kept # Nothing /\ resume(kept)
    \/ \E p \in held : checkpoint_kept(p) \/ emit(p)
    \/ \E c \in Contexts : \E expected \in {Nothing, bindings[c.key]} : select(expected, c)
    \/ \E k \in KeySet : current_value(k)
    \/ reopen
    \/ ClockAdvances \/ Suspends \/ Confirms \/ WallSteps \/ Reboots

ReceiverSpec == ReceiverInit /\ [][ReceiverNext]_receiverVars

-----------------------------------------------------------------------------
\* A position names one observation for ever, whatever checkpoint a producer
\* was restored from, so reconciliation of a kept observation never finds
\* other content under its identity (resume, emit, next_id).
IdentityOnce ==
    \A i \in DOMAIN records :
        /\ \A j \in DOMAIN records : records[i].id = records[j].id => i = j
        /\ reconcile(records[i].id, records[i]) = "SameContent"

\* A reference for what a reply must be to be usable: a finite scalar of exact
\* length, not text under the Scalar codec.
Usable(r) ==
    /\ r.outcome.kind = "Value"
    /\ LET b == r.outcome.bytes
       IN  /\ b.sized /\ ~b.context /\ b.exact
           /\ b.tag \in {1, 2, 3, 4, 5, 7} /\ b.lvt <= 5
           /\ b.tag = 7 <=> r.codec = "ExactDecimalText"
           /\ b.body \in {"finite", "decimal"}
           /\ b.lvt = 5 => b.canonical

\* A value is handed to a dependent only if it is a usable reply in the unit of
\* the binding selected now, was read under that binding, was Fresh at every earlier reading, and, unless
\* the wall and the monotonic clock both went wrong, really is younger than
\* MAX_AGE: a clock set back, a suspend or a reboot alone never makes old data
\* fresh (matches, decode, assess, retain, current).
ServedFit ==
    served # Nothing /\ served.suitability = "SyntheticValueOnly" =>
        LET r == records[served.record]
        IN  /\ Usable(r.read)
            /\ r.context = bindings[r.context.key]
            /\ r.origin.key = r.context.key /\ r.origin.act = r.context.act
            /\ unit(r.read.units) = r.context.unit
            /\ served.was = "Fresh"
            /\ faults.wall = 0 \/ faults.mono = 0 => real - r.at < MAX_AGE

=============================================================================
