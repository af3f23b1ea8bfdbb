-------------------------- MODULE ObservationProofs --------------------------
(***************************************************************************)
(* Proofs about the observation receiver and the durable window, for every *)
(* number of contexts, reads, producers, handles, allocations, clock       *)
(* faults, commits and crashes: a position names one observation for ever; *)
(* what is handed out as fit for a calculation is a usable reply, in the   *)
(* unit selected now, and young; the durable journal has no hole, its      *)
(* commits keep what is held, and a NotCommitted answer is true.           *)
(***************************************************************************)
EXTENDS Receiver, ObservationWindow, FiniteSetTheorems, WellFoundedInduction, TLAPS

\* The host's clocks, and the positions and producers of a receiver.
Clock == [boot : Nat, mono : Nat, wall : Nat, confirmed : BOOLEAN]
Position == [generation : Nat, seq : Nat]
Producer == [generation : Nat, next : Nat, lease : Nat]

\* What an observation says of its time, its freshness and its suitability.
Evidence == [source : Int \cup {Nothing}, receipt : Clock, ingestion : Clock, ambiguous : BOOLEAN]
Freshnesses == {"Fresh", "Stale", "Unknown"}
Suitabilities == {"Transport", "Missing", "Invalid", "NonFinite", "Unsupported", "UnknownUnit",
                  "SyntheticValueOnly", "WrongUnit"}
Observation == [id : Position, origin : Contexts, context : Contexts, read : Reads, at : Nat,
                time : Evidence, freshness : Freshnesses, suitability : Suitabilities]

\* A clock that never went wrong tells real time.
Timed(c, at) ==
    /\ c \in Clock /\ at \in Nat
    /\ faults.mono = 0 => c.mono = at
    /\ faults.wall = 0 => c.wall = at + 2

\* What was joined is of its context, and what was decoded as fit is a usable
\* reply in the unit of that context.
Suited(x) ==
    /\ x.origin.key = x.context.key /\ x.origin.act = x.context.act
    /\ x.suitability = "SyntheticValueOnly" => Usable(x.read) /\ unit(x.read.units) = x.context.unit

\* A read on its way.
RawSound ==
    raw # Nothing =>
        /\ raw.stage \in {"received", "pending"} /\ raw.origin \in Contexts /\ raw.read \in Reads
        /\ raw.stage = "received" => Timed(raw.receipt, raw.at)
        /\ raw.stage = "pending" =>
              /\ raw.context \in Contexts
              /\ raw.time \in Evidence /\ Timed(raw.time.receipt, raw.at)
              /\ raw.freshness \in Freshnesses /\ raw.suitability \in Suitabilities /\ Suited(raw)

\* The records, whose positions were each given out once.
RecordsSound ==
    /\ records \in Seq(Observation)
    /\ \A i \in DOMAIN records :
          /\ Timed(records[i].time.receipt, records[i].at) /\ Suited(records[i])
          /\ records[i].id.generation <= allocation
          /\ ledger \in Producer /\ records[i].id.generation = ledger.generation =>
                records[i].id.seq < ledger.next
          /\ \A j \in DOMAIN records : records[i].id = records[j].id => i = j

\* The producer of the ledger is held by a caller, and no producer is of a
\* generation not yet allocated.
LedgerSound ==
    /\ allocation \in Nat /\ held \subseteq Producer
    /\ ledger # Nothing => ledger \in held
    /\ \A p \in held : p.generation <= allocation

\* The current records are of the contexts selected.
Selected(cur, b, recs) ==
    /\ DOMAIN cur = KeySet
    /\ \A k \in KeySet : cur[k] # 0 =>
          /\ cur[k] \in DOMAIN recs
          /\ recs[cur[k]].context = b[k] /\ recs[cur[k]].context.key = k

ClocksSound ==
    /\ real \in Nat /\ faults \in [wall : Nat, mono : Nat]
    /\ Timed(reading, real)

ReceiverInv ==
    /\ LedgerSound /\ RecordsSound /\ RawSound /\ ClocksSound
    /\ Selected(latest, bindings, records)
    /\ ServedFit


-----------------------------------------------------------------------------
\* What scalar finds valid is a finite scalar of exact length, of the codec.
LEMMA ScalarValid ==
  ASSUME NEW r \in Reads, r.outcome.kind = "Value", NEW b, b = r.outcome.bytes
  PROVE  /\ scalar(b, r.codec) \in {"Invalid", "Unknown", "Missing", "Valid", "NonFinite", "Text"}
         /\ scalar(b, r.codec) = "Valid" =>
               /\ b.sized /\ ~b.context /\ b.exact /\ b.lvt <= 5
               /\ b.tag \in {1, 2, 3, 4, 5, 7} /\ b.body \in {"finite", "decimal"}
               /\ b.tag = 7 <=> r.codec = "ExactDecimalText"
               /\ b.lvt = 5 => b.canonical
  <1>1. /\ b.sized \in BOOLEAN /\ b.context \in BOOLEAN /\ b.canonical \in BOOLEAN /\ b.exact \in BOOLEAN
        /\ b.tag \in Nat /\ b.lvt \in Nat /\ b.width \in Nat
        /\ b.tag \in {1, 2, 3} => b.body = "finite"
    BY ReceiverAssumption
  <1>2. CASE ~b.sized \/ b.context \/ b.tag >= 13 \/ b.lvt > 5 \/ (r.codec = "ExactDecimalText" /\ b.tag # 7)
    <2>1. scalar(b, r.codec) \in {"Invalid", "Unknown"}
      BY <1>1, <1>2 DEF scalar
    <2>2. QED
      BY <2>1
  <1>3. CASE /\ b.sized /\ ~b.context /\ ~(b.tag >= 13) /\ ~(b.lvt > 5)
             /\ ~(r.codec = "ExactDecimalText" /\ b.tag # 7)
    <2>1. CASE b.tag = 1
      <3>1. scalar(b, r.codec) = IF b.exact /\ b.lvt <= 1 THEN "Valid" ELSE "Invalid"
        BY <1>1, <1>3, <2>1 DEF scalar
      <3>2. QED
        BY <1>1, <1>3, <2>1, <3>1
    <2>2. CASE b.tag # 1 /\ ((b.lvt = 5 /\ ~b.canonical) \/ ~b.exact)
      <3>1. scalar(b, r.codec) = "Invalid"
        BY <1>1, <1>3, <2>2 DEF scalar
      <3>2. QED
        BY <3>1
    <2>3. CASE b.tag # 1 /\ ~((b.lvt = 5 /\ ~b.canonical) \/ ~b.exact)
      <3>1. CASE b.tag = 0 \/ b.tag = 6 \/ (b.tag > 7 /\ b.tag < 13)
        <4>1. scalar(b, r.codec) \in {"Missing", "Invalid", "Unknown"}
          BY <1>1, <1>3, <2>3, <3>1 DEF scalar
        <4>2. QED
          BY <4>1
      <3>2. CASE b.tag \in {2, 3}
        <4>1. scalar(b, r.codec) \in {"Valid", "Invalid"}
          BY <1>1, <1>3, <2>3, <3>2 DEF scalar
        <4>2. QED
          BY <1>1, <1>3, <2>3, <3>2, <4>1
      <3>3. CASE b.tag \in {4, 5}
        <4>1. \/ scalar(b, r.codec) \in {"NonFinite", "Invalid"}
              \/ scalar(b, r.codec) = "Valid" /\ b.body = "finite"
          BY <1>1, <1>3, <2>3, <3>3 DEF scalar
        <4>2. QED
          BY <1>1, <1>3, <2>3, <3>3, <4>1
      <3>4. CASE b.tag = 7
        <4>1. \/ scalar(b, r.codec) \in {"Unknown", "Invalid", "Text"}
              \/ scalar(b, r.codec) = "Valid" /\ b.body = "decimal" /\ r.codec = "ExactDecimalText"
          BY <1>1, <1>3, <2>3, <3>4 DEF scalar
        <4>2. QED
          BY <1>1, <1>3, <2>3, <3>4, <4>1
      <3>5. QED
        BY <1>1, <1>3, <2>3, <3>1, <3>2, <3>3, <3>4
    <2>4. QED
      BY <2>1, <2>2, <2>3
  <1>4. QED
    BY <1>2, <1>3

\* What decode finds fit is a usable reply.
LEMMA DecodeUsable ==
  ASSUME NEW r \in Reads, NEW u, NEW d, d = decode(r.outcome, u, r.codec)
  PROVE  d \in Suitabilities /\ (d = "SyntheticValueOnly" => Usable(r))
  <1>1. CASE r.outcome.kind # "Value"
    BY <1>1 DEF decode, Suitabilities
  <1>2. CASE r.outcome.kind = "Value"
    <2>1. PICK b : b = r.outcome.bytes
      OBVIOUS
    <2>2. PICK q : q = scalar(b, r.codec)
      OBVIOUS
    <2>3. /\ q \in {"Invalid", "Unknown", "Missing", "Valid", "NonFinite", "Text"}
          /\ q = "Valid" =>
               /\ b.sized /\ ~b.context /\ b.exact /\ b.lvt <= 5
               /\ b.tag \in {1, 2, 3, 4, 5, 7} /\ b.body \in {"finite", "decimal"}
               /\ b.tag = 7 <=> r.codec = "ExactDecimalText"
               /\ b.lvt = 5 => b.canonical
      BY <1>2, <2>1, <2>2, ScalarValid
    <2>4. d = IF q \in {"Missing", "Invalid", "NonFinite"} THEN q
              ELSE IF q = "Unknown" THEN "Unsupported"
              ELSE IF u = "unknown" THEN "UnknownUnit"
              ELSE IF q = "Text" THEN "Unsupported"
              ELSE "SyntheticValueOnly"
      BY <1>2, <2>1, <2>2 DEF decode
    <2>5. d \in Suitabilities /\ (d = "SyntheticValueOnly" => q = "Valid")
      BY <2>3, <2>4 DEF Suitabilities
    <2>6. q = "Valid" => Usable(r)
      BY <1>2, <2>1, <2>3 DEF Usable
    <2>7. QED
      BY <2>5, <2>6
  <1>3. QED
    BY <1>1, <1>2

\* What is assessed as fresh was received less than MAX_AGE ago by both clocks.
LEMMA AssessFresh ==
  ASSUME NEW e \in Evidence, NEW now \in Clock
  PROVE  /\ assess(e, now) \in Freshnesses
         /\ assess(e, now) = "Fresh" => /\ now.mono - e.receipt.mono < MAX_AGE
                                        /\ now.wall - e.receipt.wall < MAX_AGE
  <1>1. assess(e, now) \in Freshnesses
    BY DEF assess, Freshnesses
  <1>2. /\ e.receipt.mono \in Nat /\ e.receipt.wall \in Nat /\ now.mono \in Nat /\ now.wall \in Nat
        /\ MAX_AGE \in Nat
    BY ReceiverAssumption DEF Evidence, Clock
  <1>3. ASSUME assess(e, now) = "Fresh"
        PROVE  ~(now.mono - e.receipt.mono >= MAX_AGE) /\ ~(now.wall - e.receipt.wall >= MAX_AGE)
    BY <1>3 DEF assess
  <1>4. QED
    BY <1>1, <1>2, <1>3


\* A set of positions has a last one.
LEMMA LastExists ==
    ASSUME NEW n \in Nat, NEW S \in SUBSET (1..n), S # {}
    PROVE  \E m \in S : \A k \in S : k <= m
<1> DEFINE Above == {k..n : k \in S}
<1>1. IsFiniteSet(1..n) /\ IsWellFoundedOn(StrictSubsetOrdering(1..n), SUBSET (1..n))
    <2>1. IsFiniteSet(1..n)
        BY FS_Interval
    <2>2. IsWellFoundedOn(StrictSubsetOrdering(1..n), FiniteSubsetsOf(1..n))
        BY FS_StrictSubsetOrderingWellFounded
    <2>3. FiniteSubsetsOf(1..n) = SUBSET (1..n)
        BY <2>1, FS_FiniteSubsetsOfFinite
    <2> QED
        BY <2>1, <2>2, <2>3
<1>2. Above \subseteq SUBSET (1..n) /\ Above # {}
    <2>1. ASSUME NEW k \in S PROVE k..n \in SUBSET (1..n)
        OBVIOUS
    <2>2. PICK k \in S : TRUE
        OBVIOUS
    <2>3. k..n \in Above
        OBVIOUS
    <2> QED
        BY <2>1, <2>3
<1>3. PICK B \in Above : \A C \in Above : ~(<<C, B>> \in StrictSubsetOrdering(1..n))
    BY <1>1, <1>2, WFMin
<1>4. PICK m \in S : B = m..n
    OBVIOUS
<1>5. ASSUME NEW k \in S PROVE k <= m
    <2>1. SUFFICES ASSUME m < k PROVE FALSE
        OBVIOUS
    <2>2. k..n \in Above /\ k..n \subseteq m..n /\ m \in m..n /\ m \notin k..n
        BY <2>1
    <2>3. <<k..n, B>> \in StrictSubsetOrdering(1..n)
        BY <1>2, <1>4, <2>2 DEF StrictSubsetOrdering
    <2> QED
        BY <1>3, <2>2, <2>3
<1> QED
    BY <1>4, <1>5


\* Considering a record keeps what is current selected.
LEMMA ConsiderSelects ==
  ASSUME NEW recs, NEW b, NEW cur, Selected(cur, b, recs), NEW i \in DOMAIN recs
  PROVE  Selected(consider(cur, b, recs, i), b, recs)
  <1>1. PICK k : k = recs[i].context.key
    OBVIOUS
  <1>2. CASE b[k] = recs[i].context /\ (cur[k] = 0 \/ Displaces(recs[i], recs[cur[k]]))
    <2>1. consider(cur, b, recs, i) = [cur EXCEPT ![k] = i]
      BY <1>1, <1>2 DEF consider
    <2>2. PICK g : g = [cur EXCEPT ![k] = i]
      OBVIOUS
    <2>3. Selected(g, b, recs)
      BY <1>1, <1>2, <2>2 DEF Selected
    <2>4. QED
      BY <2>1, <2>2, <2>3
  <1>3. CASE ~(b[k] = recs[i].context /\ (cur[k] = 0 \/ Displaces(recs[i], recs[cur[k]])))
    <2>1. consider(cur, b, recs, i) = cur
      BY <1>1, <1>3 DEF consider
    <2>2. QED
      BY <2>1
  <1>4. QED
    BY <1>2, <1>3

\* The current records after the first N have been considered.
Rebuilt(b, recs, N, f) ==
    f = [i \in 0..N |-> IF i = 0 THEN [k \in KeySet |-> 0] ELSE consider(f[i - 1], b, recs, i)]

\* One more record can be considered.
LEMMA RebuiltFurther ==
  ASSUME NEW b, NEW recs, NEW n \in Nat \ {0}, NEW g, Rebuilt(b, recs, n - 1, g)
  PROVE  \E f : Rebuilt(b, recs, n, f)
  <1>1. PICK e : e = consider(g[n - 1], b, recs, n)
    OBVIOUS
  <1>2. n - 1 \in 0..(n - 1) /\ n - 1 \in Nat
    OBVIOUS
  <1>3. PICK f : f = [d \in 0..n |-> IF d = n THEN e ELSE g[d]]
    OBVIOUS
  <1>4. \A d \in 0..n : d # n => d \in 0..(n - 1)
    BY <1>2
  <1>5. \A d \in 0..n : d # 0 => d - 1 \in 0..(n - 1) /\ d - 1 \in 0..n /\ d - 1 # n
    BY <1>2
  <1>6. f[n] = e
    BY <1>3
  <1>7. \A d \in 0..(n - 1) : f[d] = g[d]
    <2>1. \A d \in 0..(n - 1) : d \in 0..n /\ d # n
      BY <1>2
    <2>2. QED
      BY <2>1, <1>3
  <1>8. ASSUME NEW d \in 0..n
        PROVE  f[d] = IF d = 0 THEN [k \in KeySet |-> 0] ELSE consider(f[d - 1], b, recs, d)
    <2>1. CASE d = n
      <3>1. f[d] = e /\ f[d - 1] = g[n - 1] /\ d # 0
        BY <2>1, <1>2, <1>6, <1>7
      <3>2. QED
        BY <2>1, <3>1, <1>1
    <2>2. CASE d # n
      <3>1. d \in 0..(n - 1)
        BY <2>2, <1>4
      <3>2. g[d] = IF d = 0 THEN [k \in KeySet |-> 0] ELSE consider(g[d - 1], b, recs, d)
        BY <3>1 DEF Rebuilt
      <3>3. f[d] = g[d] /\ (d # 0 => f[d - 1] = g[d - 1])
        BY <3>1, <1>5, <1>7
      <3>4. QED
        BY <3>2, <3>3
    <2>3. QED
      BY <2>1, <2>2
  <1>9. f = [d \in 0..n |-> IF d = 0 THEN [k \in KeySet |-> 0] ELSE consider(f[d - 1], b, recs, d)]
    <2>1. f = [d \in 0..n |-> f[d]]
      BY <1>3
    <2>2. QED
      BY <2>1, <1>8, Zenon
  <1>10. Rebuilt(b, recs, n, f)
    BY <1>9 DEF Rebuilt
  <1>11. QED
    BY <1>10

\* All of them can.
LEMMA RebuiltExists ==
  ASSUME NEW b, NEW recs, NEW N \in Nat
  PROVE  \E f : Rebuilt(b, recs, N, f)
  <1> DEFINE Done(n) == \E f : Rebuilt(b, recs, n, f)
  <1>1. Done(0)
    <2>1. PICK f : f = [d \in 0..0 |-> [k \in KeySet |-> 0]]
      OBVIOUS
    <2>2. Rebuilt(b, recs, 0, f)
      BY <2>1 DEF Rebuilt
    <2>3. QED
      BY <2>2
  <1>2. ASSUME NEW n \in Nat \ {0}, Done(n - 1) PROVE Done(n)
    BY <1>2, RebuiltFurther
  <1> DEFINE S == {n \in 1..(N + 1) : Done(n - 1)}
  <1> HIDE DEF Done
  <1>3. 1 \in S
    <2>1. 1 \in 1..(N + 1) /\ 1 - 1 = 0
      OBVIOUS
    <2>2. QED
      BY <1>1, <2>1
  <1>4. PICK m \in S : \A k \in S : k <= m
    <2>1. N + 1 \in Nat /\ S \subseteq 1..(N + 1)
      OBVIOUS
    <2>2. QED
      BY <1>3, <2>1, LastExists
  <1>5. m = N + 1
    <2>1. SUFFICES ASSUME m # N + 1 PROVE FALSE
      OBVIOUS
    <2>2. m \in 1..N /\ m \in Nat \ {0} /\ m + 1 \in 1..(N + 1) /\ (m + 1) - 1 = m
      BY <2>1
    <2>3. Done(m)
      BY <1>2, <2>2
    <2>4. m + 1 \in S
      BY <2>2, <2>3
    <2>5. QED
      BY <1>4, <2>2, <2>4
  <1>6. Done(N)
    <2>1. m - 1 = N
      BY <1>5
    <2>2. QED
      BY <1>4, <2>1
  <1>7. QED
    BY <1>6 DEF Done

\* What a rebuild makes current is selected.
LEMMA RebuildSelects ==
  ASSUME NEW b, NEW recs \in Seq(Observation)
  PROVE  Selected(rebuild_current(b, recs), b, recs)
  <1>1. PICK N \in Nat : N = Len(recs) /\ DOMAIN recs = 1..N
    OBVIOUS
  <1>2. PICK f : f = CHOOSE rebuilt : Rebuilt(b, recs, N, rebuilt)
    OBVIOUS
  <1>3. rebuild_current(b, recs) = f[N]
    BY <1>1, <1>2 DEF rebuild_current, Rebuilt
  <1>4. \E g : Rebuilt(b, recs, N, g)
    BY RebuiltExists
  <1>5. Rebuilt(b, recs, N, f)
    BY <1>2, <1>4, Zenon
  <1> DEFINE Done(n) == Selected(f[n], b, recs)
  <1>6. Done(0)
    <2>1. 0 \in 0..N
      OBVIOUS
    <2>2. f[0] = [k \in KeySet |-> 0]
      BY <1>5, <2>1 DEF Rebuilt
    <2>3. QED
      BY <2>2 DEF Selected
  <1>7. ASSUME NEW n \in 1..N, Done(n - 1) PROVE Done(n)
    <2>1. n \in 0..N /\ n # 0 /\ n \in DOMAIN recs
      BY <1>1
    <2>2. f[n] = consider(f[n - 1], b, recs, n)
      BY <1>5, <2>1 DEF Rebuilt
    <2>3. QED
      BY <1>7, <2>1, <2>2, ConsiderSelects
  <1> DEFINE S == {n \in 1..(N + 1) : Done(n - 1)}
  <1> HIDE DEF Done
  <1>8. 1 \in S
    <2>1. 1 \in 1..(N + 1) /\ 1 - 1 = 0
      OBVIOUS
    <2>2. QED
      BY <1>6, <2>1
  <1>9. PICK m \in S : \A k \in S : k <= m
    <2>1. N + 1 \in Nat /\ S \subseteq 1..(N + 1)
      OBVIOUS
    <2>2. QED
      BY <1>8, <2>1, LastExists
  <1>10. m = N + 1
    <2>1. SUFFICES ASSUME m # N + 1 PROVE FALSE
      OBVIOUS
    <2>2. m \in 1..N /\ m + 1 \in 1..(N + 1) /\ (m + 1) - 1 = m
      BY <2>1
    <2>3. Done(m)
      BY <1>7, <1>9, <2>2
    <2>4. m + 1 \in S
      BY <2>2, <2>3
    <2>5. QED
      BY <1>9, <2>2, <2>4
  <1>11. Done(N)
    <2>1. m - 1 = N
      BY <1>10
    <2>2. QED
      BY <1>9, <2>1
  <1>12. QED
    BY <1>3, <1>11 DEF Done


-----------------------------------------------------------------------------
\* What a clock told stays told while the record of its faults only grows.
LEMMA TimedStays ==
  ASSUME NEW c, NEW at, Timed(c, at),
         faults'.mono = 0 => faults.mono = 0, faults'.wall = 0 => faults.wall = 0
  PROVE  /\ c \in Clock /\ at \in Nat
         /\ faults'.mono = 0 => c.mono = at
         /\ faults'.wall = 0 => c.wall = at + 2
  BY DEF Timed

\* The records are sound after a step that leaves them, the allocations and
\* the ledger alone.
LEMMA RecordsStay ==
  ASSUME ReceiverInv, UNCHANGED <<records, ledger, allocation>>,
         faults'.mono = 0 => faults.mono = 0, faults'.wall = 0 => faults.wall = 0
  PROVE  RecordsSound'
  <1>1. \A i \in DOMAIN records : Timed(records[i].time.receipt, records[i].at)'
    <2>1. TAKE i \in DOMAIN records
    <2>2. PICK c, at : c = records[i].time.receipt /\ at = records[i].at
      OBVIOUS
    <2>3. Timed(c, at)
      BY <2>2 DEF ReceiverInv, RecordsSound
    <2>4. /\ c \in Clock /\ at \in Nat
          /\ faults'.mono = 0 => c.mono = at
          /\ faults'.wall = 0 => c.wall = at + 2
      BY <2>3, TimedStays
    <2>5. QED
      BY <2>2, <2>4 DEF Timed
  <1>2. QED
    BY <1>1 DEF ReceiverInv, RecordsSound, Suited

\* So is a read on its way that stays as it is.
LEMMA RawStays ==
  ASSUME ReceiverInv, raw' = raw \/ raw' = Nothing,
         faults'.mono = 0 => faults.mono = 0, faults'.wall = 0 => faults.wall = 0
  PROVE  RawSound'
  <1>1. CASE raw' = Nothing
    BY <1>1 DEF RawSound
  <1>2. CASE raw' = raw /\ raw # Nothing
    <2>1. RawSound
      BY DEF ReceiverInv
    <2>2. raw.stage = "received" => Timed(raw.receipt, raw.at)'
      <3>1. SUFFICES ASSUME raw.stage = "received" PROVE Timed(raw.receipt, raw.at)'
        OBVIOUS
      <3>2. PICK c, at : c = raw.receipt /\ at = raw.at
        OBVIOUS
      <3>3. Timed(c, at)
        BY <1>2, <2>1, <3>1, <3>2 DEF RawSound
      <3>4. /\ c \in Clock /\ at \in Nat
            /\ faults'.mono = 0 => c.mono = at
            /\ faults'.wall = 0 => c.wall = at + 2
        BY <3>3, TimedStays
      <3>5. QED
        BY <1>2, <3>2, <3>4 DEF Timed
    <2>3. raw.stage = "pending" => Timed(raw.time.receipt, raw.at)'
      <3>1. SUFFICES ASSUME raw.stage = "pending" PROVE Timed(raw.time.receipt, raw.at)'
        OBVIOUS
      <3>2. PICK c, at : c = raw.time.receipt /\ at = raw.at
        OBVIOUS
      <3>3. Timed(c, at)
        BY <1>2, <2>1, <3>1, <3>2 DEF RawSound
      <3>4. /\ c \in Clock /\ at \in Nat
            /\ faults'.mono = 0 => c.mono = at
            /\ faults'.wall = 0 => c.wall = at + 2
        BY <3>3, TimedStays
      <3>5. QED
        BY <1>2, <3>2, <3>4 DEF Timed
    <2>4. QED
      BY <1>2, <2>1, <2>2, <2>3 DEF RawSound, Suited
  <1>3. QED
    BY <1>1, <1>2

\* Nothing is served by a step other than a reading.
LEMMA NothingServed ==
  ASSUME served' = Nothing
  PROVE  ServedFit'
  BY DEF ServedFit


-----------------------------------------------------------------------------
\* A step of the clocks that tells them right leaves the rest sound.
LEMMA ClocksMove ==
  ASSUME ReceiverInv, ClocksSound', served' = Nothing,
         UNCHANGED <<allocation, ledger, held, records, bindings, latest, raw>>,
         faults'.mono = 0 => faults.mono = 0, faults'.wall = 0 => faults.wall = 0
  PROVE  ReceiverInv'
  <1>1. LedgerSound'
    BY DEF ReceiverInv, LedgerSound
  <1>2. RecordsSound' /\ RawSound'
    BY RecordsStay, RawStays
  <1>3. Selected(latest, bindings, records)'
    BY DEF ReceiverInv, Selected
  <1>4. QED
    BY <1>1, <1>2, <1>3, NothingServed DEF ReceiverInv

\* What the clocks read before a step.
LEMMA ClocksBefore ==
  ASSUME ReceiverInv
  PROVE  /\ real \in Nat /\ faults \in [wall : Nat, mono : Nat]
         /\ faults.wall \in Nat /\ faults.mono \in Nat
         /\ reading \in Clock /\ reading.boot \in Nat /\ reading.mono \in Nat
         /\ reading.wall \in Nat /\ reading.confirmed \in BOOLEAN
         /\ faults.mono = 0 => reading.mono = real
         /\ faults.wall = 0 => reading.wall = real + 2
  BY DEF ReceiverInv, ClocksSound, Timed, Clock

\* Time passes.
LEMMA AdvanceKeeps == ReceiverInv /\ ClockAdvances => ReceiverInv'
  <1> SUFFICES ASSUME ReceiverInv, ClockAdvances PROVE ReceiverInv'
    OBVIOUS
  <1>1. PICK r : r = [reading EXCEPT !.mono = @ + 1, !.wall = @ + 1]
    OBVIOUS
  <1>2. r \in Clock /\ r.mono = reading.mono + 1 /\ r.wall = reading.wall + 1
    <2>1. PICK m, w : m = reading.mono + 1 /\ w = reading.wall + 1
      OBVIOUS
    <2>2. m \in Nat /\ w \in Nat
      BY <2>1, ClocksBefore
    <2>3. r = [reading EXCEPT !.mono = m, !.wall = w]
      BY <1>1, <2>1
    <2>4. r \in Clock /\ r.mono = m /\ r.wall = w
      BY <2>2, <2>3, ClocksBefore DEF Clock
    <2>5. QED
      BY <2>1, <2>4
  <1>3. reading' = r /\ real' = real + 1 /\ faults' = faults
    BY <1>1 DEF ClockAdvances, Passes
  <1>4. /\ faults.mono = 0 => r.mono = real + 1
        /\ faults.wall = 0 => r.wall = (real + 1) + 2
        /\ real + 1 \in Nat
    BY <1>2, ClocksBefore
  <1>5. ClocksSound'
    BY <1>2, <1>3, <1>4, ClocksBefore DEF ClocksSound, Timed
  <1>6. QED
    BY <1>3, <1>5, ClocksMove DEF ClockAdvances, Passes

\* The host is suspended.
LEMMA SuspendKeeps == ReceiverInv /\ Suspends => ReceiverInv'
  <1> SUFFICES ASSUME ReceiverInv, Suspends PROVE ReceiverInv'
    OBVIOUS
  <1>1. PICK known \in BOOLEAN : Passes([reading EXCEPT !.wall = @ + 1, !.confirmed = ~known])
    BY DEF Suspends
  <1>2. PICK r : r = [reading EXCEPT !.wall = @ + 1, !.confirmed = ~known]
    OBVIOUS
  <1>3. PICK g : g = [faults EXCEPT !.mono = @ + 1]
    OBVIOUS
  <1>4. r \in Clock /\ r.wall = reading.wall + 1
    <2>1. PICK w, b : w = reading.wall + 1 /\ b = ~known
      OBVIOUS
    <2>2. w \in Nat /\ b \in BOOLEAN
      BY <2>1, ClocksBefore
    <2>3. r = [reading EXCEPT !.wall = w, !.confirmed = b]
      BY <1>2, <2>1
    <2>4. r \in Clock /\ r.wall = w
      BY <2>2, <2>3, ClocksBefore DEF Clock
    <2>5. QED
      BY <2>1, <2>4
  <1>5. g \in [wall : Nat, mono : Nat] /\ g.mono = faults.mono + 1 /\ g.wall = faults.wall
    BY <1>3, ClocksBefore
  <1>6. reading' = r /\ real' = real + 1 /\ faults' = g
    BY <1>1, <1>2, <1>3 DEF Suspends, Passes
  <1>7. /\ g.mono # 0
        /\ g.wall = 0 => r.wall = (real + 1) + 2
        /\ real + 1 \in Nat
    BY <1>4, <1>5, ClocksBefore
  <1>8. ClocksSound'
    BY <1>4, <1>5, <1>6, <1>7 DEF ClocksSound, Timed
  <1>9. /\ served' = Nothing
        /\ UNCHANGED <<allocation, ledger, held, records, bindings, latest, raw>>
        /\ faults'.mono = 0 => faults.mono = 0
        /\ faults'.wall = 0 => faults.wall = 0
    BY <1>1, <1>5, <1>6, <1>7 DEF Passes
  <1>10. QED
    BY <1>8, <1>9, ClocksMove

\* Continuity is confirmed.
LEMMA ConfirmKeeps == ReceiverInv /\ Confirms => ReceiverInv'
  <1> SUFFICES ASSUME ReceiverInv, Confirms PROVE ReceiverInv'
    OBVIOUS
  <1>1. PICK r : r = [reading EXCEPT !.confirmed = TRUE]
    OBVIOUS
  <1>2. r \in Clock /\ r.mono = reading.mono /\ r.wall = reading.wall
    BY <1>1, ClocksBefore DEF Clock
  <1>3. reading' = r /\ real' = real /\ faults' = faults
    BY <1>1 DEF Confirms
  <1>4. ClocksSound'
    BY <1>2, <1>3, ClocksBefore DEF ClocksSound, Timed
  <1>5. QED
    BY <1>3, <1>4, ClocksMove DEF Confirms

\* The wall clock is set back.
LEMMA WallStepKeeps == ReceiverInv /\ WallSteps => ReceiverInv'
  <1> SUFFICES ASSUME ReceiverInv, WallSteps PROVE ReceiverInv'
    OBVIOUS
  <1>1. PICK r : r = [reading EXCEPT !.mono = @ + 1]
    OBVIOUS
  <1>2. PICK g : g = [faults EXCEPT !.wall = @ + 1]
    OBVIOUS
  <1>3. r \in Clock /\ r.mono = reading.mono + 1
    BY <1>1, ClocksBefore DEF Clock
  <1>4. g \in [wall : Nat, mono : Nat] /\ g.wall = faults.wall + 1 /\ g.mono = faults.mono
    BY <1>2, ClocksBefore
  <1>5. reading' = r /\ real' = real + 1 /\ faults' = g
    BY <1>1, <1>2 DEF WallSteps, Passes
  <1>6. /\ g.wall # 0
        /\ g.mono = 0 => r.mono = real + 1
        /\ real + 1 \in Nat
    BY <1>3, <1>4, ClocksBefore
  <1>7. ClocksSound'
    BY <1>3, <1>4, <1>5, <1>6 DEF ClocksSound, Timed
  <1>8. /\ served' = Nothing
        /\ UNCHANGED <<allocation, ledger, held, records, bindings, latest, raw>>
        /\ faults'.mono = 0 => faults.mono = 0
        /\ faults'.wall = 0 => faults.wall = 0
    BY <1>4, <1>5, <1>6 DEF WallSteps, Passes
  <1>9. QED
    BY <1>7, <1>8, ClocksMove

\* The host is rebooted.
LEMMA RebootKeeps == ReceiverInv /\ Reboots => ReceiverInv'
  <1> SUFFICES ASSUME ReceiverInv, Reboots PROVE ReceiverInv'
    OBVIOUS
  <1>1. PICK r : r = [boot |-> reading.boot + 1, mono |-> 0, wall |-> reading.wall + 1,
                      confirmed |-> TRUE]
    OBVIOUS
  <1>2. PICK g : g = [faults EXCEPT !.mono = @ + 1]
    OBVIOUS
  <1>3. r \in Clock /\ r.wall = reading.wall + 1
    BY <1>1, ClocksBefore DEF Clock
  <1>4. g \in [wall : Nat, mono : Nat] /\ g.mono = faults.mono + 1 /\ g.wall = faults.wall
    BY <1>2, ClocksBefore
  <1>5. reading' = r /\ real' = real + 1 /\ faults' = g
    BY <1>1, <1>2 DEF Reboots, Passes
  <1>6. /\ g.mono # 0
        /\ g.wall = 0 => r.wall = (real + 1) + 2
        /\ real + 1 \in Nat
    BY <1>3, <1>4, ClocksBefore
  <1>7. ClocksSound'
    BY <1>3, <1>4, <1>5, <1>6 DEF ClocksSound, Timed
  <1>8. /\ served' = Nothing
        /\ UNCHANGED <<allocation, ledger, held, records, bindings, latest, raw>>
        /\ faults'.mono = 0 => faults.mono = 0
        /\ faults'.wall = 0 => faults.wall = 0
    BY <1>4, <1>5, <1>6 DEF Reboots, Passes
  <1>9. QED
    BY <1>7, <1>8, ClocksMove


-----------------------------------------------------------------------------
\* The clocks stay sound while no time passes.
LEMMA ClocksStay ==
  ASSUME ReceiverInv, UNCHANGED <<reading, real, faults>>
  PROVE  /\ ClocksSound'
         /\ faults'.mono = 0 => faults.mono = 0
         /\ faults'.wall = 0 => faults.wall = 0
  BY DEF ReceiverInv, ClocksSound, Timed

\* A read moves towards its record while nothing else does.
LEMMA RawMoves ==
  ASSUME ReceiverInv, RawSound', served' = Nothing,
         UNCHANGED <<allocation, ledger, held, records, bindings, latest, reading, real, faults>>
  PROVE  ReceiverInv'
  <1>1. LedgerSound'
    BY DEF ReceiverInv, LedgerSound
  <1>2. RecordsSound' /\ ClocksSound'
    BY RecordsStay, ClocksStay
  <1>3. Selected(latest, bindings, records)'
    BY DEF ReceiverInv, Selected
  <1>4. QED
    BY <1>1, <1>2, <1>3, NothingServed DEF ReceiverInv

\* A read is received.
LEMMA ReceiveKeeps ==
  ASSUME ReceiverInv, NEW c \in Contexts, NEW r \in Reads, Receive(c, r)
  PROVE  ReceiverInv'
  <1>1. PICK v : v = [stage |-> "received", origin |-> c, read |-> r, receipt |-> reading, at |-> real]
    OBVIOUS
  <1>2. /\ v.stage = "received" /\ v.origin = c /\ v.read = r /\ v.receipt = reading /\ v.at = real
        /\ v.stage # "pending"
    BY <1>1
  <1>3. raw' = v
    BY <1>1 DEF Receive
  <1>4. Timed(reading, real)' /\ reading' = reading /\ real' = real
    BY DEF Receive, ReceiverInv, ClocksSound, Timed
  <1>5. RawSound'
    BY <1>2, <1>3, <1>4 DEF RawSound, Timed
  <1>6. QED
    BY <1>5, RawMoves DEF Receive

\* A read of another context, or whose property is absent or repeated, is refused.
LEMMA RefuseKeeps ==
  ASSUME ReceiverInv, NEW c \in Contexts, from_bacnet_refused(c)
  PROVE  ReceiverInv'
  <1>1. RawSound'
    BY DEF from_bacnet_refused, RawSound
  <1>2. QED
    BY <1>1, RawMoves DEF from_bacnet_refused

\* A received read is normalized.
LEMMA NormalizeKeeps ==
  ASSUME ReceiverInv, NEW c \in Contexts, from_bacnet(c)
  PROVE  ReceiverInv'
  <1>1. PICK r, g, w, at : r = raw.read /\ g = raw.origin /\ w = raw.receipt /\ at = raw.at
    OBVIOUS
  <1>2. /\ r \in Reads /\ g \in Contexts /\ Timed(w, at)
        /\ g.key = c.key /\ g.act = c.act
        /\ w \in Clock /\ w.wall \in Nat /\ reading \in Clock
    BY <1>1, ClocksBefore DEF from_bacnet, matches, ReceiverInv, RawSound, Timed, Clock
  <1>3. PICK u : u = unit(r.units)
    OBVIOUS
  <1>4. PICK d : d = decode(r.outcome, u, r.codec)
    OBVIOUS
  <1>5. d \in Suitabilities /\ (d = "SyntheticValueOnly" => Usable(r))
    BY <1>2, <1>4, DecodeUsable
  <1>6. PICK source : source = IF r.lag = Nothing THEN Nothing ELSE w.wall - r.lag
    OBVIOUS
  <1>7. source \in Int \cup {Nothing}
    <2>1. r.lag \in Nat \cup {Nothing}
      BY <1>2, ReceiverAssumption
    <2>2. CASE r.lag = Nothing
      BY <1>6, <2>2
    <2>3. CASE r.lag # Nothing
      <3>1. r.lag \in Nat /\ source = w.wall - r.lag
        BY <1>6, <2>1, <2>3
      <3>2. source \in Int
        BY <1>2, <3>1
      <3>3. QED
        BY <3>2
    <2>4. QED
      BY <2>2, <2>3
  <1>8. PICK e : e = TimeEvidence(source, w, reading)
    OBVIOUS
  <1>9. e \in Evidence /\ e.receipt = w
    <2>1. PICK a : a = ((source # Nothing /\ source > w.wall) \/ w.wall > reading.wall)
      OBVIOUS
    <2>2. a \in BOOLEAN
      BY <2>1
    <2>3. e = [source |-> source, receipt |-> w, ingestion |-> reading, ambiguous |-> a]
      BY <1>8, <2>1 DEF TimeEvidence
    <2>4. QED
      BY <1>2, <1>7, <2>2, <2>3 DEF Evidence
  <1>10. PICK f : f = assess(e, reading)
    OBVIOUS
  <1>11. f \in Freshnesses
    BY <1>2, <1>9, <1>10, AssessFresh
  <1>12. PICK s : s = IF d = "SyntheticValueOnly" /\ u # c.unit THEN "WrongUnit" ELSE d
    OBVIOUS
  <1>13. /\ s \in Suitabilities
         /\ s = "SyntheticValueOnly" => Usable(r) /\ unit(r.units) = c.unit
    BY <1>3, <1>5, <1>12 DEF Suitabilities
  <1>14. PICK v : v = [stage |-> "pending", origin |-> g, context |-> c, read |-> r, at |-> at,
                       time |-> e, freshness |-> f, suitability |-> s]
    OBVIOUS
  <1>15. raw' = v
    BY <1>1, <1>3, <1>4, <1>6, <1>8, <1>10, <1>12, <1>14 DEF from_bacnet
  <1>16. /\ v.stage = "pending" /\ v.origin = g /\ v.context = c /\ v.read = r /\ v.at = at /\ v.time = e
         /\ v.freshness = f /\ v.suitability = s /\ v.stage # "received"
    BY <1>14
  <1>17. Timed(w, at)'
    BY <1>2 DEF from_bacnet, Timed
  <1>18. Suited(raw)'
    BY <1>2, <1>13, <1>15, <1>16 DEF Suited
  <1>19. Timed(raw.time.receipt, raw.at)'
    <2>1. raw'.time.receipt = w /\ raw'.at = at
      BY <1>9, <1>15, <1>16
    <2>2. QED
      BY <1>17, <2>1 DEF Timed
  <1>20. RawSound'
    BY <1>2, <1>9, <1>11, <1>13, <1>15, <1>16, <1>18, <1>19 DEF RawSound
  <1>21. QED
    BY <1>20, RawMoves DEF from_bacnet


-----------------------------------------------------------------------------
\* The positions already given out lie before those of a new ledger, so a
\* step that allocates leaves the records sound.
LEMMA RecordsAllocate ==
  ASSUME ReceiverInv, UNCHANGED <<records, reading, real, faults>>,
         NEW l \in Producer, ledger' = l, allocation' = allocation + 1,
         \/ l.generation = allocation + 1
         \/ ledger \in Producer /\ l.generation = ledger.generation /\ l.next = ledger.next
  PROVE  RecordsSound'
  <1>1. RecordsSound /\ allocation \in Nat /\ allocation' \in Nat
    BY DEF ReceiverInv, LedgerSound
  <1>2. ASSUME NEW i \in DOMAIN records
        PROVE  /\ records[i].id.generation <= allocation + 1
               /\ records[i].id.generation = l.generation => records[i].id.seq < l.next
    <2>1. PICK g, s : g = records[i].id.generation /\ s = records[i].id.seq
      OBVIOUS
    <2>2. g \in Nat /\ s \in Nat
      <3>1. records[i] \in Observation
        BY <1>1 DEF RecordsSound
      <3>2. records[i].id \in Position
        BY <3>1 DEF Observation
      <3>3. QED
        BY <2>1, <3>2 DEF Position
    <2>3. g <= allocation /\ (ledger \in Producer /\ g = ledger.generation => s < ledger.next)
      BY <1>1, <2>1 DEF RecordsSound
    <2>4. g <= allocation + 1 /\ g # allocation + 1
      BY <1>1, <2>2, <2>3
    <2>5. g = l.generation => s < l.next
      BY <2>3, <2>4
    <2>6. QED
      BY <2>1, <2>4, <2>5
  <1>3. \A i \in DOMAIN records : /\ Timed(records[i].time.receipt, records[i].at)'
                                  /\ Suited(records[i])
                                  /\ \A j \in DOMAIN records : records[i].id = records[j].id => i = j
    BY <1>1 DEF RecordsSound, Timed
  <1>4. QED
    BY <1>1, <1>2, <1>3 DEF RecordsSound, Suited

\* An allocation leaves everything else as it is.
LEMMA AllocationKeeps ==
  ASSUME ReceiverInv, UNCHANGED <<records, bindings, latest, raw, reading, real, faults>>,
         served' = Nothing,
         NEW l \in Producer, ledger' = l, allocation' = allocation + 1, held' = held \cup {l},
         l.generation <= allocation + 1,
         \/ l.generation = allocation + 1
         \/ ledger \in Producer /\ l.generation = ledger.generation /\ l.next = ledger.next
  PROVE  ReceiverInv'
  <1>1. LedgerSound'
    <2>1. allocation \in Nat /\ held \subseteq Producer /\ \A p \in held : p.generation <= allocation
      BY DEF ReceiverInv, LedgerSound
    <2>2. \A p \in held : p.generation \in Nat
      BY <2>1 DEF Producer
    <2>3. \A p \in held \cup {l} : p.generation <= allocation + 1
      BY <2>1, <2>2
    <2>4. QED
      BY <2>1, <2>3 DEF LedgerSound
  <1>2. RecordsSound'
    BY RecordsAllocate
  <1>3. ClocksSound' /\ RawSound'
    BY ClocksStay, RawStays
  <1>4. Selected(latest, bindings, records)'
    BY DEF ReceiverInv, Selected
  <1>5. QED
    BY <1>1, <1>2, <1>3, <1>4, NothingServed DEF ReceiverInv

\* A producer is started.
LEMMA StartKeeps == ReceiverInv /\ start => ReceiverInv'
  <1> SUFFICES ASSUME ReceiverInv, start PROVE ReceiverInv'
    OBVIOUS
  <1>1. allocation \in Nat
    BY DEF ReceiverInv, LedgerSound
  <1>2. PICK a : a = allocation + 1
    OBVIOUS
  <1>3. PICK l : l = [generation |-> a, next |-> 0, lease |-> a]
    OBVIOUS
  <1>4. a \in Nat /\ l \in Producer /\ l.generation = a /\ a <= allocation + 1
    BY <1>1, <1>2, <1>3 DEF Producer
  <1>5. allocation' = a /\ ledger' = l /\ held' = held \cup {l}
    BY <1>2, <1>3 DEF start
  <1>6. /\ UNCHANGED <<records, bindings, latest, raw, reading, real, faults>>
        /\ served' = Nothing
    BY DEF start
  <1>7. QED
    BY <1>2, <1>4, <1>5, <1>6, AllocationKeeps

\* A producer is resumed from a restored checkpoint, which is believed only if
\* it is the receiver's own.
LEMMA ResumeKeeps ==
  ASSUME ReceiverInv, NEW restored, resume(restored)
  PROVE  ReceiverInv'
  <1>1. allocation \in Nat /\ ledger \in Producer /\ ledger.generation <= allocation
    BY DEF ReceiverInv, LedgerSound, resume
  <1>2. PICK a : a = allocation + 1
    OBVIOUS
  <1>3. PICK c : c = resumed(restored, a)
    OBVIOUS
  <1>4. \/ c = [generation |-> a, next |-> 0]
        \/ c = [generation |-> ledger.generation, next |-> ledger.next]
    BY <1>3 DEF resumed, checkpoint_of
  <1>5. /\ ledger.generation \in Nat /\ ledger.next \in Nat /\ a \in Nat
        /\ ledger.generation <= allocation + 1
    BY <1>1, <1>2 DEF Producer
  <1>6. /\ c.generation \in Nat /\ c.next \in Nat
        /\ c.generation = a \/ (c.generation = ledger.generation /\ c.next = ledger.next)
    BY <1>4, <1>5
  <1>7. PICK l : l = [generation |-> c.generation, next |-> c.next, lease |-> a]
    OBVIOUS
  <1>8. l \in Producer /\ l.generation = c.generation /\ l.next = c.next
    BY <1>5, <1>6, <1>7 DEF Producer
  <1>9. allocation' = a /\ ledger' = l /\ held' = held \cup {l}
    BY <1>2, <1>3, <1>7 DEF resume
  <1>10. /\ UNCHANGED <<records, bindings, latest, raw, reading, real, faults>>
         /\ served' = Nothing
    BY DEF resume
  <1>11. l.generation <= allocation + 1
    BY <1>2, <1>5, <1>6, <1>8
  <1>12. \/ l.generation = allocation + 1
         \/ ledger \in Producer /\ l.generation = ledger.generation /\ l.next = ledger.next
    BY <1>1, <1>2, <1>6, <1>8
  <1>13. QED
    BY <1>2, <1>8, <1>9, <1>10, <1>11, <1>12, AllocationKeeps

\* A caller keeps a checkpoint.
LEMMA CheckpointKeeps ==
  ASSUME ReceiverInv, NEW p, checkpoint_kept(p)
  PROVE  ReceiverInv'
  <1>1. RawSound' /\ ClocksSound'
    BY RawStays, ClocksStay DEF checkpoint_kept
  <1>2. QED
    BY <1>1, RawMoves DEF checkpoint_kept

\* What is current is chosen anew while no record changes.
LEMMA CurrentMoves ==
  ASSUME ReceiverInv, Selected(latest', bindings', records), served' = Nothing,
         UNCHANGED <<allocation, ledger, held, records, raw, reading, real, faults>>
  PROVE  ReceiverInv'
  <1>1. LedgerSound'
    BY DEF ReceiverInv, LedgerSound
  <1>2. RecordsSound' /\ RawSound' /\ ClocksSound'
    BY RecordsStay, RawStays, ClocksStay
  <1>3. Selected(latest, bindings, records)'
    BY DEF Selected
  <1>4. QED
    BY <1>1, <1>2, <1>3, NothingServed DEF ReceiverInv

\* A binding is selected.
LEMMA SelectKeeps ==
  ASSUME ReceiverInv, NEW expected, NEW c, select(expected, c)
  PROVE  ReceiverInv'
  <1>1. records \in Seq(Observation)
    BY DEF ReceiverInv, RecordsSound
  <1>2. PICK b : b = [bindings EXCEPT ![c.key] = c]
    OBVIOUS
  <1>3. bindings' = b /\ latest' = rebuild_current(b, records)
    BY <1>2 DEF select
  <1>4. Selected(rebuild_current(b, records), b, records)
    BY <1>1, RebuildSelects
  <1>5. Selected(latest', bindings', records)
    BY <1>3, <1>4
  <1>6. QED
    BY <1>5, CurrentMoves DEF select

\* The receiver is reopened from its image.
LEMMA ReopenKeeps == ReceiverInv /\ reopen => ReceiverInv'
  <1> SUFFICES ASSUME ReceiverInv, reopen PROVE ReceiverInv'
    OBVIOUS
  <1>1. records \in Seq(Observation)
    BY DEF ReceiverInv, RecordsSound
  <1>2. Selected(rebuild_current(bindings, records), bindings, records)
    BY <1>1, RebuildSelects
  <1>3. Selected(latest', bindings', records)
    BY <1>2 DEF reopen
  <1>4. QED
    BY <1>3, CurrentMoves DEF reopen


-----------------------------------------------------------------------------
\* A record takes its position, and the producer advances with the ledger.
LEMMA EmitRecords ==
  ASSUME ReceiverInv, NEW p \in held, emit(p)
  PROVE  RecordsSound' /\ LedgerSound' /\ Selected(latest', bindings', records')
  <1>1. ledger = p /\ p \in Producer /\ allocation \in Nat /\ p.generation <= allocation
    BY DEF emit, ReceiverInv, LedgerSound
  <1>2. p.generation \in Nat /\ p.next \in Nat /\ p.lease \in Nat /\ p.next + 1 \in Nat
    BY <1>1 DEF Producer
  <1>3. PICK q : q = p.next + 1
    OBVIOUS
  <1>4. PICK n : n = [p EXCEPT !.next = q]
    OBVIOUS
  <1>5. n \in Producer /\ n.generation = p.generation /\ n.next = q
    BY <1>1, <1>2, <1>3, <1>4 DEF Producer
  <1>6. PICK d : d = [generation |-> p.generation, seq |-> p.next]
    OBVIOUS
  <1>7. d \in Position /\ d.generation = p.generation /\ d.seq = p.next
    BY <1>2, <1>6 DEF Position
  <1>8. PICK o : o = [id |-> d, origin |-> raw.origin, context |-> raw.context,
                      read |-> raw.read, at |-> raw.at, time |-> raw.time, freshness |-> raw.freshness,
                      suitability |-> raw.suitability]
    OBVIOUS
  <1>9. /\ raw.origin \in Contexts /\ raw.context \in Contexts /\ raw.read \in Reads /\ raw.at \in Nat
        /\ raw.time \in Evidence /\ raw.freshness \in Freshnesses
        /\ raw.suitability \in Suitabilities /\ Suited(raw) /\ Timed(raw.time.receipt, raw.at)
    BY DEF emit, ReceiverInv, RawSound, Timed
  <1>10. /\ o.id = d /\ o.origin = raw.origin /\ o.context = raw.context /\ o.read = raw.read /\ o.at = raw.at
         /\ o.time = raw.time /\ o.suitability = raw.suitability
    BY <1>8
  <1>11. o \in Observation
    BY <1>7, <1>8, <1>9 DEF Observation
  <1>12. /\ allocation' = allocation /\ ledger' = n /\ held' = (held \ {p}) \cup {n}
         /\ records' = Append(records, o) /\ bindings' = bindings /\ faults' = faults
         /\ latest' = consider(latest, bindings, records', Len(records'))
    BY <1>3, <1>4, <1>6, <1>8 DEF emit
  <1>13. LedgerSound'
    BY <1>1, <1>5, <1>12 DEF ReceiverInv, LedgerSound
  <1>14. records \in Seq(Observation)
    BY DEF ReceiverInv, RecordsSound
  <1>15. PICK N \in Nat : N = Len(records) /\ DOMAIN records = 1..N
    BY <1>14
  <1>16. PICK R : R = Append(records, o)
    OBVIOUS
  <1>17. /\ R \in Seq(Observation) /\ Len(R) = N + 1 /\ DOMAIN R = 1..(N + 1)
         /\ N + 1 \in 1..(N + 1) /\ \A i \in 1..(N + 1) : i = N + 1 \/ i \in 1..N
    BY <1>11, <1>14, <1>15, <1>16
  <1>18. R[N + 1] = o
    BY <1>14, <1>15, <1>16
  <1>19. \A i \in 1..N : R[i] = records[i]
    BY <1>14, <1>15, <1>16
  <1>20. \A i \in 1..N : /\ Timed(records[i].time.receipt, records[i].at) /\ Suited(records[i])
                         /\ records[i].id.generation <= allocation
                         /\ records[i].id.generation = p.generation => records[i].id.seq < p.next
                         /\ \A j \in 1..N : records[i].id = records[j].id => i = j
    BY <1>1, <1>15 DEF ReceiverInv, RecordsSound
  <1>21. \A i \in 1..N : records[i].id # d
    <2>1. SUFFICES ASSUME NEW i \in 1..N, records[i].id = d PROVE FALSE
      OBVIOUS
    <2>2. p.next < p.next
      BY <1>7, <1>20, <2>1
    <2>3. QED
      BY <1>2, <2>2
  <1>22. ASSUME NEW i \in 1..(N + 1)
         PROVE  /\ Timed(R[i].time.receipt, R[i].at) /\ Suited(R[i])
                /\ R[i].id.generation <= allocation
                /\ R[i].id.generation = p.generation => R[i].id.seq < q
                /\ \A j \in 1..(N + 1) : R[i].id = R[j].id => i = j
    <2>1. CASE i = N + 1
      <3>1. R[i] = o
        BY <1>18, <2>1
      <3>2. Suited(o)
        BY <1>9, <1>10 DEF Suited
      <3>3. Timed(o.time.receipt, o.at)
        BY <1>9, <1>10
      <3>4. o.id.generation <= allocation
        BY <1>1, <1>7, <1>10
      <3>5. o.id.seq < q
        BY <1>2, <1>3, <1>7, <1>10
      <3>6. ASSUME NEW j \in 1..(N + 1), R[i].id = R[j].id PROVE i = j
        <4>1. j = N + 1 \/ (j \in 1..N /\ R[j].id # d)
          BY <1>17, <1>19, <1>21
        <4>2. QED
          BY <1>10, <2>1, <3>1, <3>6, <4>1
      <3>7. QED
        BY <3>1, <3>2, <3>3, <3>4, <3>5, <3>6
    <2>2. CASE i \in 1..N
      <3>1. R[i] = records[i]
        BY <1>19, <2>2
      <3>2. Timed(R[i].time.receipt, R[i].at) /\ Suited(R[i]) /\ R[i].id.generation <= allocation
        BY <1>20, <2>2, <3>1
      <3>3. ASSUME R[i].id.generation = p.generation PROVE R[i].id.seq < q
        <4>1. R[i].id.seq < p.next
          BY <1>20, <2>2, <3>1, <3>3
        <4>2. R[i].id.seq \in Nat
          <5>1. records[i] \in Observation
            BY <1>14, <1>15, <2>2
          <5>2. records[i].id \in Position
            BY <5>1 DEF Observation
          <5>3. QED
            BY <3>1, <5>2 DEF Position
        <4>3. QED
          BY <1>2, <1>3, <4>1, <4>2
      <3>4. ASSUME NEW j \in 1..(N + 1), R[i].id = R[j].id PROVE i = j
        <4>1. CASE j = N + 1
          BY <1>10, <1>18, <1>21, <2>2, <3>1, <3>4, <4>1
        <4>2. CASE j \in 1..N
          BY <1>19, <1>20, <2>2, <3>1, <3>4, <4>2
        <4>3. QED
          BY <1>17, <4>1, <4>2
      <3>5. QED
        BY <3>2, <3>3, <3>4
    <2>3. QED
      BY <1>17, <2>1, <2>2
  <1>23. RecordsSound'
    <2>1. records' = R /\ DOMAIN R = 1..(N + 1) /\ R \in Seq(Observation)
      BY <1>12, <1>16, <1>17
    <2>2. \A i \in 1..(N + 1) : Timed(R[i].time.receipt, R[i].at)' /\ Suited(R[i])'
      BY <1>12, <1>22, <2>1 DEF Timed, Suited
    <2>3. ledger'.generation = p.generation /\ ledger'.next = q
      BY <1>5, <1>12
    <2>4. \A i \in 1..(N + 1) : /\ R[i].id.generation <= allocation'
                                /\ R[i].id.generation = ledger'.generation =>
                                      R[i].id.seq < ledger'.next
      BY <1>12, <1>22, <2>3
    <2>5. \A i, j \in 1..(N + 1) : R[i].id = R[j].id => i = j
      BY <1>22
    <2>6. QED
      BY <2>1, <2>2, <2>4, <2>5 DEF RecordsSound, Timed, Suited
  <1>24. Selected(latest, bindings, R)
    BY <1>15, <1>17, <1>19 DEF ReceiverInv, Selected
  <1>25. Selected(consider(latest, bindings, R, N + 1), bindings, R)
    BY <1>17, <1>24, ConsiderSelects
  <1>26. QED
    BY <1>12, <1>13, <1>16, <1>17, <1>23, <1>25

\* So the rest stays sound with it.
LEMMA EmitKeeps ==
  ASSUME ReceiverInv, NEW p \in held, emit(p)
  PROVE  ReceiverInv'
  <1>1. RecordsSound' /\ LedgerSound' /\ Selected(latest', bindings', records')
    BY EmitRecords
  <1>2. RawSound' /\ ClocksSound'
    BY RawStays, ClocksStay DEF emit
  <1>3. ServedFit'
    BY NothingServed DEF emit
  <1>4. Selected(latest, bindings, records)'
    BY <1>1 DEF Selected
  <1>5. QED
    BY <1>1, <1>2, <1>3, <1>4 DEF ReceiverInv


-----------------------------------------------------------------------------
\* A reading changes the freshness of the record that is current, and only
\* from fresh.
LEMMA CurrentKeeps ==
  ASSUME ReceiverInv, NEW k \in KeySet, current_value(k)
  PROVE  ReceiverInv'
  <1>1. PICK i, o : i = latest[k] /\ o = records[i]
    OBVIOUS
  <1>2. i \in DOMAIN records /\ o.context = bindings[k] /\ o.context.key = k
    BY <1>1 DEF current_value, ReceiverInv, Selected
  <1>3. records \in Seq(Observation)
    BY DEF ReceiverInv, RecordsSound
  <1>4. o \in Observation /\ Suited(o) /\ Timed(o.time.receipt, o.at)
    BY <1>1, <1>2, <1>3 DEF ReceiverInv, RecordsSound
  <1>5. PICK a : a = assess(o.time, reading)
    OBVIOUS
  <1>6. /\ o.time \in Evidence /\ o.freshness \in Freshnesses /\ o.at \in Nat
        /\ o.suitability \in Suitabilities
    BY <1>4 DEF Observation
  <1>7. /\ a \in Freshnesses
        /\ a = "Fresh" => /\ reading.mono - o.time.receipt.mono < MAX_AGE
                          /\ reading.wall - o.time.receipt.wall < MAX_AGE
    BY <1>5, <1>6, ClocksBefore, AssessFresh
  <1>8. PICK f : f = retain(o.freshness, a)
    OBVIOUS
  <1>9. f \in Freshnesses /\ (f = "Fresh" => o.freshness = "Fresh" /\ a = "Fresh")
    BY <1>6, <1>7, <1>8 DEF retain
  <1>10. PICK n : n = [o EXCEPT !.freshness = f]
    OBVIOUS
  <1>11. /\ n \in Observation /\ n.id = o.id /\ n.origin = o.origin /\ n.context = o.context /\ n.read = o.read
         /\ n.at = o.at /\ n.time = o.time /\ n.suitability = o.suitability
    BY <1>4, <1>9, <1>10 DEF Observation
  <1>12. PICK R : R = [records EXCEPT ![i] = n]
    OBVIOUS
  <1>13. /\ R \in Seq(Observation) /\ DOMAIN R = DOMAIN records /\ R[i] = n
         /\ \A j \in DOMAIN records : j # i => R[j] = records[j]
    BY <1>2, <1>3, <1>11, <1>12
  <1>14. PICK s : s = IF o.suitability = "SyntheticValueOnly" /\ f # "Fresh" THEN "NotFresh" ELSE o.suitability
    OBVIOUS
  <1>15. PICK v : v = [record |-> i, key |-> k, was |-> o.freshness, suitability |-> s]
    OBVIOUS
  <1>16. served' = v
    BY <1>1, <1>5, <1>8, <1>14, <1>15 DEF current_value
  <1>17. records' = R
    <2>1. records' = [records EXCEPT ![i].freshness = f]
      BY <1>1, <1>5, <1>8 DEF current_value
    <2>2. QED
      BY <1>1, <1>10, <1>12, <2>1
  <1>18. UNCHANGED <<allocation, ledger, held, bindings, latest, raw, reading, real, faults>>
    BY DEF current_value
  <1>19. \A j \in DOMAIN records :
            /\ R[j].id = records[j].id /\ R[j].origin = records[j].origin /\ R[j].context = records[j].context
            /\ R[j].read = records[j].read /\ R[j].at = records[j].at
            /\ R[j].time = records[j].time /\ R[j].suitability = records[j].suitability
    BY <1>1, <1>11, <1>13
  <1>20. LedgerSound'
    BY <1>18 DEF ReceiverInv, LedgerSound
  <1>21. RecordsSound'
    <2>1. \A j \in DOMAIN records :
             /\ Timed(records[j].time.receipt, records[j].at) /\ Suited(records[j])
             /\ records[j].id.generation <= allocation
             /\ ledger \in Producer /\ records[j].id.generation = ledger.generation =>
                   records[j].id.seq < ledger.next
             /\ \A m \in DOMAIN records : records[j].id = records[m].id => j = m
      BY DEF ReceiverInv, RecordsSound
    <2>2. ASSUME NEW j \in DOMAIN records
          PROVE  Timed(R[j].time.receipt, R[j].at) /\ Suited(R[j])
      BY <1>19, <2>1 DEF Suited
    <2>3. ASSUME NEW j \in DOMAIN records
          PROVE  /\ R[j].id.generation <= allocation
                 /\ ledger \in Producer /\ R[j].id.generation = ledger.generation =>
                       R[j].id.seq < ledger.next
                 /\ \A m \in DOMAIN records : R[j].id = R[m].id => j = m
      BY <1>19, <2>1
    <2>4. \A j \in DOMAIN records : Timed(R[j].time.receipt, R[j].at)' /\ Suited(R[j])'
      BY <1>17, <1>18, <2>2 DEF Timed, Suited
    <2>5. QED
      BY <1>13, <1>17, <1>18, <2>3, <2>4 DEF RecordsSound, Timed, Suited
  <1>22. RawSound' /\ ClocksSound'
    BY <1>18, RawStays, ClocksStay
  <1>23. Selected(latest, bindings, R)
    BY <1>13, <1>19 DEF ReceiverInv, Selected
  <1>24. Selected(latest, bindings, records)'
    BY <1>17, <1>18, <1>23 DEF Selected
  <1>25. ServedFit'
    <2>1. v.record = i /\ v.was = o.freshness /\ v.suitability = s
      BY <1>15
    <2>2. SUFFICES ASSUME s = "SyntheticValueOnly"
                   PROVE  /\ Usable(n.read) /\ n.context = bindings[n.context.key]
                          /\ n.origin.key = n.context.key /\ n.origin.act = n.context.act
                          /\ unit(n.read.units) = n.context.unit
                          /\ o.freshness = "Fresh"
                          /\ faults.wall = 0 \/ faults.mono = 0 => real - n.at < MAX_AGE
      BY <1>13, <1>16, <1>17, <1>18, <2>1 DEF ServedFit
    <2>3. o.suitability = "SyntheticValueOnly" /\ f = "Fresh"
      BY <1>14, <2>2
    <2>4. /\ Usable(n.read) /\ unit(n.read.units) = n.context.unit
          /\ n.origin.key = n.context.key /\ n.origin.act = n.context.act
      BY <1>4, <1>11, <2>3 DEF Suited
    <2>5. n.context = bindings[n.context.key]
      BY <1>2, <1>11
    <2>6. ASSUME faults.wall = 0 \/ faults.mono = 0 PROVE real - n.at < MAX_AGE
      <3>1. /\ reading.mono - o.time.receipt.mono < MAX_AGE
            /\ reading.wall - o.time.receipt.wall < MAX_AGE
        BY <1>7, <1>9, <2>3
      <3>2. /\ real \in Nat /\ o.at \in Nat /\ MAX_AGE \in Nat
            /\ faults.mono = 0 => reading.mono = real
            /\ faults.wall = 0 => reading.wall = real + 2
        BY <1>6, ClocksBefore, ReceiverAssumption
      <3>3. /\ faults.mono = 0 => o.time.receipt.mono = o.at
            /\ faults.wall = 0 => o.time.receipt.wall = o.at + 2
        BY <1>4 DEF Timed
      <3>4. CASE faults.mono = 0
        BY <1>11, <3>1, <3>2, <3>3, <3>4
      <3>5. CASE faults.wall = 0
        BY <1>11, <3>1, <3>2, <3>3, <3>5
      <3>6. QED
        BY <2>6, <3>4, <3>5
    <2>7. QED
      BY <1>9, <2>3, <2>4, <2>5, <2>6
  <1>26. QED
    BY <1>20, <1>21, <1>22, <1>24, <1>25 DEF ReceiverInv

-----------------------------------------------------------------------------
\* A receiver starts with nothing recorded.
LEMMA ReceiverStarts == ReceiverInit => ReceiverInv
  <1> SUFFICES ASSUME ReceiverInit PROVE ReceiverInv
    OBVIOUS
  <1>1. LedgerSound
    BY DEF ReceiverInit, LedgerSound
  <1>2. RecordsSound
    BY DEF ReceiverInit, RecordsSound
  <1>3. RawSound /\ ServedFit
    BY DEF ReceiverInit, RawSound, ServedFit
  <1>4. ClocksSound
    BY DEF ReceiverInit, ClocksSound, Timed, Clock
  <1>5. Selected(latest, bindings, records)
    BY DEF ReceiverInit, Selected
  <1>6. QED
    BY <1>1, <1>2, <1>3, <1>4, <1>5 DEF ReceiverInv

\* Every step keeps the receiver sound.
LEMMA ReceiverSteps == ReceiverInv /\ [ReceiverNext]_receiverVars => ReceiverInv'
  <1> SUFFICES ASSUME ReceiverInv, [ReceiverNext]_receiverVars PROVE ReceiverInv'
    OBVIOUS
  <1>1. ASSUME NEW c \in Contexts, NEW r \in Reads, Receive(c, r) PROVE ReceiverInv'
    BY <1>1, ReceiveKeeps
  <1>2. ASSUME NEW c \in Contexts, from_bacnet(c) \/ from_bacnet_refused(c) PROVE ReceiverInv'
    BY <1>2, NormalizeKeeps, RefuseKeeps
  <1>3. CASE start
    BY <1>3, StartKeeps
  <1>4. CASE resume(kept)
    BY <1>4, ResumeKeeps
  <1>5. ASSUME NEW p \in held, checkpoint_kept(p) \/ emit(p) PROVE ReceiverInv'
    BY <1>5, CheckpointKeeps, EmitKeeps
  <1>6. ASSUME NEW c \in Contexts, NEW expected, select(expected, c) PROVE ReceiverInv'
    BY <1>6, SelectKeeps
  <1>7. ASSUME NEW k \in KeySet, current_value(k) PROVE ReceiverInv'
    BY <1>7, CurrentKeeps
  <1>8. CASE reopen
    BY <1>8, ReopenKeeps
  <1>9. CASE ClockAdvances \/ Suspends \/ Confirms \/ WallSteps \/ Reboots
    BY <1>9, AdvanceKeeps, SuspendKeeps, ConfirmKeeps, WallStepKeeps, RebootKeeps
  <1>10. CASE UNCHANGED receiverVars
    <2>1. UNCHANGED <<allocation, ledger, held, kept, records, bindings, latest, raw,
                      reading, real, faults, served>>
      BY <1>10 DEF receiverVars
    <2>2. ServedFit'
      BY <2>1 DEF ReceiverInv, ServedFit
    <2>3. LedgerSound' /\ Selected(latest, bindings, records)'
      BY <2>1 DEF ReceiverInv, LedgerSound, Selected
    <2>4. RecordsSound' /\ RawSound' /\ ClocksSound'
      BY <2>1, RecordsStay, RawStays, ClocksStay
    <2>5. QED
      BY <2>2, <2>3, <2>4 DEF ReceiverInv
  <1>11. QED
    BY <1>1, <1>2, <1>3, <1>4, <1>5, <1>6, <1>7, <1>8, <1>9, <1>10 DEF ReceiverNext

\* The inductive invariant of the receiver.
THEOREM ReceiverInvariant == ReceiverSpec => []ReceiverInv
  <1>1. ReceiverInit => ReceiverInv
    BY ReceiverStarts
  <1>2. ReceiverInv /\ [ReceiverNext]_receiverVars => ReceiverInv'
    BY ReceiverSteps
  <1>3. QED
    BY <1>1, <1>2, PTL DEF ReceiverSpec

\* Setting an observation's freshness to what it is changes nothing.
LEMMA SameFreshness ==
  ASSUME NEW r \in Observation, NEW c, c = r
  PROVE  [r EXCEPT !.freshness = c.freshness] = c
  BY DEF Observation

\* A position names one observation, so a kept observation reconciles to
\* itself.
LEMMA NamedOnce == ReceiverInv => IdentityOnce
  <1> SUFFICES ASSUME ReceiverInv, NEW i \in DOMAIN records
               PROVE  /\ \A j \in DOMAIN records : records[i].id = records[j].id => i = j
                      /\ reconcile(records[i].id, records[i]) = "SameContent"
    BY DEF IdentityOnce
  <1>1. /\ records[i] \in Observation
        /\ \A j \in DOMAIN records : records[i].id = records[j].id => i = j
    BY DEF ReceiverInv, RecordsSound
  <1>2. PICK old : old = {j \in DOMAIN records : records[j].id = records[i].id}
    OBVIOUS
  <1>3. old = {i}
    BY <1>1, <1>2
  <1>4. PICK o : o = records[i]
    OBVIOUS
  <1>5. [o EXCEPT !.freshness = o.freshness] = o
    BY <1>1, <1>4, SameFreshness
  <1>6. old # {} /\ \A j \in old : ~([records[j] EXCEPT !.freshness = records[i].freshness] # records[i])
    BY <1>3, <1>4, <1>5
  <1>7. reconcile(records[i].id, records[i]) = "SameContent"
    BY <1>2, <1>6 DEF reconcile
  <1>8. QED
    BY <1>1, <1>7

\* A position names one observation for ever, whatever checkpoint a producer
\* was restored from (resume, emit, reconcile): IdentityOnce.
THEOREM PositionsNameOnce == ReceiverSpec => []IdentityOnce
  <1>1. ReceiverInv => IdentityOnce
    BY NamedOnce
  <1>2. QED
    BY <1>1, ReceiverInvariant, PTL

\* What is handed to a dependent is a usable reply in the unit selected now,
\* and young unless both clocks went wrong (decode, assess, retain, current):
\* ServedFit.
THEOREM ServedIsFit == ReceiverSpec => []ServedFit
  <1>1. ReceiverInv => ServedFit
    BY DEF ReceiverInv
  <1>2. QED
    BY <1>1, ReceiverInvariant, PTL


-----------------------------------------------------------------------------
(* The durable window.                                                     *)

\* Rows of the journal, and the gaps that stand for evicted ones.
WindowRow == [seq : Nat, gen : Nat, by : Handles, input : Inputs, settled : BOOLEAN]
Gap == [from : Nat, to : Nat]

\* Gaps are ranges that lie apart.
Spans(G) ==
    /\ G \subseteq Gap
    /\ \A g \in G : g.from <= g.to
    /\ \A g, k \in G : g = k \/ g.to < k.from \/ k.to < g.from

\* Whether a gap stands for position n.
Covers(G, n) == \E g \in G : g.from <= n /\ n <= g.to

\* A journal in which every position below the tail is one row or lies in one
\* gap, and every reference finds its row.
Accounted(d) ==
    /\ d = [state |-> d.state, rows |-> d.rows, pins |-> d.pins, gaps |-> d.gaps]
    /\ d.state \in WindowStates
    /\ d.rows \subseteq WindowRow /\ IsFiniteSet(d.rows) /\ Cardinality(d.rows) <= SPOOL_SLOTS
    /\ \A r, q \in d.rows : r.seq = q.seq => r = q
    /\ \A r \in d.rows : r.seq < d.state.next /\ ~Covers(d.gaps, r.seq)
    /\ Spans(d.gaps)
    /\ \A n \in Nat : Covers(d.gaps, n) => n < d.state.next
    /\ \A n \in Nat : n < d.state.next => n \in Seqs(d.rows) \/ Covers(d.gaps, n)
    /\ \A k \in Keys : d.state.current[k] # None => d.state.current[k] \in Seqs(d.rows)
    /\ \A p \in d.pins : \E r \in d.rows : r.seq = p.seq /\ r.gen = p.gen

\* A journal is absent or accounted for.
Image(d) == d = Empty \/ Accounted(d)

\* What a change of a journal keeps.
Keeps(old, new) ==
    /\ \A r \in old.rows :
          (r.input.mandatory /\ ~r.settled) \/ (\E p \in old.pins \cap new.pins : p.seq = r.seq)
             => r.seq \in Seqs(new.rows)
    /\ old.state # None => new.state.next >= old.state.next

\* A ticket turns an accounted journal into another, and while the durable
\* journal d is still of the revision it was loaded at, it is that journal.
TicketSound(t, d) ==
    /\ Image(t.old) /\ Accounted(t.new) /\ Keeps(t.old, t.new)
    /\ t.rev = t.new.state.rev
    /\ t.old # Empty =>
          /\ t.rev = t.old.state.rev + 1
          /\ d # Empty /\ t.old.state.rev <= d.state.rev
          /\ t.old.state.rev = d.state.rev => t.old = d

\* A committed ticket's receipt is there within the horizon.
Logged(L, R, d) ==
    \A t \in L : /\ d # Empty /\ t.rev \in Nat /\ t.rev <= d.state.rev
                 /\ t.rev + REPLAY_ROWS > d.state.rev => t \in R

\* The durable journal d has left the horizon of revision rev behind.
Outside(rev, d) == d # Empty /\ rev \in Nat /\ rev + REPLAY_ROWS <= d.state.rev

\* The call of a handle carries a sound ticket, and one that weighs an absence
\* although its ticket had committed is past the horizon.
CallSound(c, d) ==
    c # None =>
        /\ c = [op |-> c.op, ticket |-> c.ticket, phase |-> c.phase, past |-> c.past]
        /\ TicketSound(c.ticket, d)
        /\ c.phase = "horizon" /\ c.past => Outside(c.ticket.rev, d)

WindowInv ==
    /\ Image(db)
    /\ Logged(log, receipts, db)
    /\ DOMAIN call = Handles /\ \A h \in Handles : CallSound(call[h], db)
    /\ captured # None => TicketSound(captured.ticket, db)
    /\ orphan # None => TicketSound(orphan, db)

-----------------------------------------------------------------------------
\* The numbers of a journal's state row.
LEMMA StateNumbers ==
  ASSUME NEW d, Accounted(d)
  PROVE  /\ d.state.rev \in Nat /\ d.state.epoch \in Nat /\ d.state.next \in Nat
         /\ d.state.gen \in Nat /\ d.state # None /\ d # Empty
         /\ \A r \in d.rows : r.seq \in Nat
  <1>1. d.state \in WindowStates /\ d.rows \subseteq WindowRow
    BY DEF Accounted
  <1>2. d.state # None
    BY <1>1, WindowAssumption
  <1>3. d # Empty
    BY <1>2 DEF Empty
  <1>4. \A r \in d.rows : r.seq \in Nat
    BY <1>1 DEF WindowRow
  <1>5. QED
    BY <1>1, <1>2, <1>3, <1>4 DEF WindowStates

\* Of two numbers one is the smaller.
LEMMA MinOfTwo ==
  ASSUME NEW a \in Nat, NEW b \in Nat
  PROVE  Min({a, b}) \in {a, b} /\ Min({a, b}) <= a /\ Min({a, b}) <= b
  <1>1. \E x \in {a, b} : \A y \in {a, b} : x <= y
    BY SMT
  <1>2. QED
    BY <1>1 DEF Min

\* The bounds of a range that holds its ends.
LEMMA EndsBound ==
  ASSUME NEW S, NEW lo \in S, NEW hi \in S, S \subseteq Nat,
         \A x \in S : lo <= x /\ x <= hi
  PROVE  Min(S) = lo /\ Max(S) = hi
  <1>1. Min(S) \in S /\ \A y \in S : Min(S) <= y
    <2>1. \E x \in S : \A y \in S : x <= y
      OBVIOUS
    <2>2. QED
      BY <2>1 DEF Min
  <1>2. Max(S) \in S /\ \A y \in S : Max(S) >= y
    <2>1. \E x \in S : \A y \in S : x >= y
      OBVIOUS
    <2>2. QED
      BY <2>1 DEF Max
  <1>3. lo \in Nat /\ hi \in Nat /\ Min(S) \in Nat /\ Max(S) \in Nat
    BY <1>1, <1>2
  <1>4. Min(S) <= lo /\ lo <= Min(S) /\ Max(S) >= hi /\ Max(S) <= hi
    BY <1>1, <1>2
  <1>5. QED
    BY <1>3, <1>4


\* A position that joins the gaps is covered with them, and they stay apart.
LEMMA GapAdded ==
  ASSUME NEW G, Spans(G), NEW s \in Nat, ~Covers(G, s)
  PROVE  /\ Spans(add_gap(G, s))
         /\ \A n \in Nat : Covers(add_gap(G, s), n) <=> Covers(G, n) \/ n = s
  <1>1. PICK joined : joined = {g \in G : g.to + 1 = s \/ g.from = s + 1}
    OBVIOUS
  <1>2. PICK ends : ends = {s} \cup UNION {{g.from, g.to} : g \in joined}
    OBVIOUS
  <1>3. \A g \in G : g.from \in Nat /\ g.to \in Nat /\ g.from <= g.to /\ (g.to < s \/ s < g.from)
    <2>1. \A g \in G : g \in Gap /\ g.from <= g.to
      BY DEF Spans
    <2>2. \A g \in G : g.from \in Nat /\ g.to \in Nat
      BY <2>1 DEF Gap
    <2>3. \A g \in G : ~(g.from <= s /\ s <= g.to)
      BY DEF Covers
    <2>4. QED
      BY <2>1, <2>2, <2>3
  <1>4. \A g, k \in G : g = k \/ g.to < k.from \/ k.to < g.from
    BY DEF Spans
  <1>5. PICK lo \in Nat : \/ \E g \in G : g.to + 1 = s /\ lo = g.from
                          \/ lo = s /\ \A g \in G : g.to + 1 # s
    <2>1. CASE \E g \in G : g.to + 1 = s
      BY <1>3, <2>1
    <2>2. CASE \A g \in G : g.to + 1 # s
      BY <2>2
    <2>3. QED
      BY <2>1, <2>2
  <1>6. PICK hi \in Nat : \/ \E g \in G : g.from = s + 1 /\ hi = g.to
                          \/ hi = s /\ \A g \in G : g.from # s + 1
    <2>1. CASE \E g \in G : g.from = s + 1
      BY <1>3, <2>1
    <2>2. CASE \A g \in G : g.from # s + 1
      BY <2>2
    <2>3. QED
      BY <2>1, <2>2
  <1>7. lo <= s /\ s <= hi
    BY <1>3, <1>5, <1>6
  \* The gaps that are joined lie within the new one, and fill it.
  <1>8. ASSUME NEW g \in joined PROVE lo <= g.from /\ g.to <= hi
    <2>1. g \in G /\ (g.to + 1 = s \/ g.from = s + 1)
      BY <1>1
    <2>2. CASE g.to + 1 = s
      <3>1. PICK l \in G : l.to + 1 = s /\ lo = l.from
        BY <1>5, <2>1, <2>2
      <3>2. l = g
        BY <1>3, <1>4, <2>1, <2>2, <3>1
      <3>3. QED
        BY <1>3, <1>7, <2>1, <2>2, <3>1, <3>2
    <2>3. CASE g.from = s + 1
      <3>1. PICK u \in G : u.from = s + 1 /\ hi = u.to
        BY <1>6, <2>1, <2>3
      <3>2. u = g
        BY <1>3, <1>4, <2>1, <2>3, <3>1
      <3>3. QED
        BY <1>3, <1>7, <2>1, <2>3, <3>1, <3>2
    <2>4. QED
      BY <2>1, <2>2, <2>3
  <1>9. ASSUME NEW n \in Nat, lo <= n, n <= hi
        PROVE  n = s \/ \E g \in joined : g.from <= n /\ n <= g.to
    <2>1. CASE n < s
      <3>1. PICK l \in G : l.to + 1 = s /\ lo = l.from
        BY <1>5, <1>9, <2>1
      <3>2. l \in joined /\ l.to \in Nat
        BY <1>1, <1>3, <3>1
      <3>3. l.from <= n /\ n <= l.to
        BY <1>9, <2>1, <3>1, <3>2
      <3>4. QED
        BY <3>2, <3>3
    <2>2. CASE n > s
      <3>1. PICK u \in G : u.from = s + 1 /\ hi = u.to
        BY <1>6, <1>9, <2>2
      <3>2. u \in joined
        BY <1>1, <3>1
      <3>3. u.from <= n /\ n <= u.to
        BY <1>9, <2>2, <3>1
      <3>4. QED
        BY <3>2, <3>3
    <2>3. QED
      BY <2>1, <2>2
  <1>10. Min(ends) = lo /\ Max(ends) = hi
    <2>1. \A g \in joined : g.from \in ends /\ g.to \in ends
      BY <1>2
    <2>2. s \in ends
      BY <1>2
    <2>3. lo \in ends
      <3>1. CASE \E g \in G : g.to + 1 = s /\ lo = g.from
        BY <1>1, <2>1, <3>1
      <3>2. CASE lo = s
        BY <2>2, <3>2
      <3>3. QED
        BY <1>5, <3>1, <3>2
    <2>4. hi \in ends
      <3>1. CASE \E g \in G : g.from = s + 1 /\ hi = g.to
        BY <1>1, <2>1, <3>1
      <3>2. CASE hi = s
        BY <2>2, <3>2
      <3>3. QED
        BY <1>6, <3>1, <3>2
    <2>5. ASSUME NEW e \in ends PROVE e \in Nat /\ lo <= e /\ e <= hi
      <3>1. CASE e = s
        BY <1>7, <3>1
      <3>2. CASE e # s
        <4>1. PICK g \in joined : e = g.from \/ e = g.to
          BY <1>2, <3>2
        <4>2. g \in G
          BY <1>1
        <4>3. QED
          BY <1>3, <1>8, <4>1, <4>2
      <3>3. QED
        BY <3>1, <3>2
    <2>6. QED
      BY <2>3, <2>4, <2>5, EndsBound
  <1>11. PICK w : w = [from |-> lo, to |-> hi]
    OBVIOUS
  <1>12. w.from = lo /\ w.to = hi /\ w \in Gap
    BY <1>11 DEF Gap
  <1>13. PICK A : A = (G \ joined) \cup {w}
    OBVIOUS
  <1>14. add_gap(G, s) = A
    BY <1>1, <1>2, <1>10, <1>11, <1>13 DEF add_gap
  <1>15. ASSUME NEW k \in G \ joined PROVE k.to < lo \/ hi < k.from
    <2>1. k.to + 1 # s /\ k.from # s + 1 /\ k \in G
      BY <1>1
    <2>2. CASE k.to < s
      <3>1. CASE \E l \in G : l.to + 1 = s /\ lo = l.from
        <4>1. PICK l \in G : l.to + 1 = s /\ lo = l.from
          BY <3>1
        <4>2. l # k
          BY <2>1, <4>1
        <4>3. QED
          BY <1>3, <1>4, <2>1, <2>2, <4>1, <4>2
      <3>2. CASE lo = s
        BY <2>2, <3>2
      <3>3. QED
        BY <1>5, <3>1, <3>2
    <2>3. CASE s < k.from
      <3>1. CASE \E u \in G : u.from = s + 1 /\ hi = u.to
        <4>1. PICK u \in G : u.from = s + 1 /\ hi = u.to
          BY <3>1
        <4>2. u # k
          BY <2>1, <4>1
        <4>3. QED
          BY <1>3, <1>4, <2>1, <2>3, <4>1, <4>2
      <3>2. CASE hi = s
        BY <2>3, <3>2
      <3>3. QED
        BY <1>6, <3>1, <3>2
    <2>4. QED
      BY <1>3, <2>1, <2>2, <2>3
  <1>16. Spans(A)
    <2>1. A \subseteq Gap
      BY <1>12, <1>13 DEF Spans
    <2>2. \A g \in A : g.from <= g.to
      BY <1>3, <1>7, <1>12, <1>13
    <2>3. ASSUME NEW g \in A, NEW k \in A PROVE g = k \/ g.to < k.from \/ k.to < g.from
      BY <1>4, <1>12, <1>13, <1>15, <2>3
    <2>4. QED
      BY <2>1, <2>2, <2>3 DEF Spans
  <1>17. ASSUME NEW n \in Nat PROVE Covers(A, n) <=> Covers(G, n) \/ n = s
    <2>1. ASSUME Covers(A, n) PROVE Covers(G, n) \/ n = s
      <3>1. PICK g \in A : g.from <= n /\ n <= g.to
        BY <2>1 DEF Covers
      <3>2. CASE g = w
        <4>1. n = s \/ \E j \in joined : j.from <= n /\ n <= j.to
          BY <1>9, <1>12, <3>1, <3>2
        <4>2. QED
          BY <1>1, <4>1 DEF Covers
      <3>3. CASE g \in G
        BY <3>1, <3>3 DEF Covers
      <3>4. QED
        BY <1>13, <3>2, <3>3
    <2>2. ASSUME n = s PROVE Covers(A, n)
      BY <1>7, <1>12, <1>13, <2>2 DEF Covers
    <2>3. ASSUME Covers(G, n) PROVE Covers(A, n)
      <3>1. PICK g \in G : g.from <= n /\ n <= g.to
        BY <2>3 DEF Covers
      <3>2. CASE g \in joined
        <4>1. w.from <= n /\ n <= w.to
          BY <1>3, <1>8, <1>12, <3>1, <3>2
        <4>2. QED
          BY <1>13, <4>1 DEF Covers
      <3>3. CASE g \notin joined
        BY <1>13, <3>1, <3>3 DEF Covers
      <3>4. QED
        BY <3>2, <3>3
    <2>4. QED
      BY <2>1, <2>2, <2>3
  <1>18. QED
    BY <1>14, <1>16, <1>17


\* The gap ledgers while the first N positions are swept.
Swept(d, gone, N, f) ==
    f = [n \in 0..N |-> IF n = 0 THEN d.gaps
                        ELSE IF n - 1 \in Seqs(gone) THEN add_gap(f[n - 1], n - 1)
                        ELSE f[n - 1]]

\* One more position can be swept.
LEMMA SweptFurther ==
  ASSUME NEW d, NEW gone, NEW n \in Nat \ {0}, NEW g, Swept(d, gone, n - 1, g)
  PROVE  \E f : Swept(d, gone, n, f)
  <1>1. PICK e : e = IF n - 1 \in Seqs(gone) THEN add_gap(g[n - 1], n - 1) ELSE g[n - 1]
    OBVIOUS
  <1>2. n - 1 \in 0..(n - 1) /\ n - 1 \in Nat
    OBVIOUS
  <1>3. PICK f : f = [m \in 0..n |-> IF m = n THEN e ELSE g[m]]
    OBVIOUS
  <1>4. \A m \in 0..n : m # n => m \in 0..(n - 1)
    BY <1>2
  <1>5. \A m \in 0..n : m # 0 => m - 1 \in 0..(n - 1) /\ m - 1 \in 0..n /\ m - 1 # n
    BY <1>2
  <1>6. f[n] = e
    BY <1>3
  <1>7. \A m \in 0..(n - 1) : f[m] = g[m]
    <2>1. \A m \in 0..(n - 1) : m \in 0..n /\ m # n
      BY <1>2
    <2>2. QED
      BY <2>1, <1>3
  <1>8. ASSUME NEW m \in 0..n
        PROVE  f[m] = IF m = 0 THEN d.gaps
                      ELSE IF m - 1 \in Seqs(gone) THEN add_gap(f[m - 1], m - 1)
                      ELSE f[m - 1]
    <2>1. CASE m = n
      <3>1. f[m] = e /\ f[m - 1] = g[n - 1] /\ m # 0
        BY <2>1, <1>2, <1>6, <1>7
      <3>2. QED
        BY <2>1, <3>1, <1>1
    <2>2. CASE m # n
      <3>1. m \in 0..(n - 1)
        BY <2>2, <1>4
      <3>2. g[m] = IF m = 0 THEN d.gaps
                   ELSE IF m - 1 \in Seqs(gone) THEN add_gap(g[m - 1], m - 1)
                   ELSE g[m - 1]
        BY <3>1 DEF Swept
      <3>3. f[m] = g[m] /\ (m # 0 => f[m - 1] = g[m - 1])
        BY <3>1, <1>5, <1>7
      <3>4. QED
        BY <3>2, <3>3
    <2>3. QED
      BY <2>1, <2>2
  <1>9. f = [m \in 0..n |-> IF m = 0 THEN d.gaps
                            ELSE IF m - 1 \in Seqs(gone) THEN add_gap(f[m - 1], m - 1)
                            ELSE f[m - 1]]
    <2>1. f = [m \in 0..n |-> f[m]]
      BY <1>3
    <2>2. QED
      BY <2>1, <1>8, Zenon
  <1>10. Swept(d, gone, n, f)
    BY <1>9 DEF Swept
  <1>11. QED
    BY <1>10

\* All of them can.
LEMMA SweptExists ==
  ASSUME NEW d, NEW gone, NEW N \in Nat
  PROVE  \E f : Swept(d, gone, N, f)
  <1> DEFINE Done(n) == \E f : Swept(d, gone, n, f)
  <1>1. Done(0)
    <2>1. PICK f : f = [m \in 0..0 |-> d.gaps]
      OBVIOUS
    <2>2. Swept(d, gone, 0, f)
      BY <2>1 DEF Swept
    <2>3. QED
      BY <2>2
  <1>2. ASSUME NEW n \in Nat \ {0}, Done(n - 1) PROVE Done(n)
    BY <1>2, SweptFurther
  <1> DEFINE S == {n \in 1..(N + 1) : Done(n - 1)}
  <1> HIDE DEF Done
  <1>3. 1 \in S
    <2>1. 1 \in 1..(N + 1) /\ 1 - 1 = 0
      OBVIOUS
    <2>2. QED
      BY <1>1, <2>1
  <1>4. PICK m \in S : \A k \in S : k <= m
    <2>1. N + 1 \in Nat /\ S \subseteq 1..(N + 1)
      OBVIOUS
    <2>2. QED
      BY <1>3, <2>1, LastExists
  <1>5. m = N + 1
    <2>1. SUFFICES ASSUME m # N + 1 PROVE FALSE
      OBVIOUS
    <2>2. m \in 1..N /\ m \in Nat \ {0} /\ m + 1 \in 1..(N + 1) /\ (m + 1) - 1 = m
      BY <2>1
    <2>3. Done(m - 1)
      BY <1>4
    <2>4. Done(m)
      BY <1>2, <2>2, <2>3
    <2>5. m + 1 \in S
      BY <2>2, <2>4
    <2>6. QED
      BY <1>4, <2>2, <2>5
  <1>6. Done(N)
    <2>1. m - 1 = N
      BY <1>5
    <2>2. QED
      BY <1>4, <2>1
  <1>7. QED
    BY <1>6 DEF Done

\* Sweeping adds exactly the positions of the rows that go.
LEMMA SweepCovers ==
  ASSUME NEW d, NEW gone, d.state.next \in Nat, Spans(d.gaps),
         \A n \in Nat : n \in Seqs(gone) => ~Covers(d.gaps, n)
  PROVE  /\ Spans(swept(d, gone)[d.state.next])
         /\ \A n \in Nat : Covers(swept(d, gone)[d.state.next], n) <=>
                Covers(d.gaps, n) \/ (n < d.state.next /\ n \in Seqs(gone))
  <1>1. PICK N \in Nat : N = d.state.next
    OBVIOUS
  <1>2. PICK f : f = CHOOSE ledgers : Swept(d, gone, N, ledgers)
    OBVIOUS
  <1>3. swept(d, gone) = f
    BY <1>1, <1>2 DEF swept, Swept
  <1>4. \E g : Swept(d, gone, N, g)
    BY SweptExists
  <1>5. Swept(d, gone, N, f)
    BY <1>2, <1>4, Zenon
  <1> DEFINE Done(n) == /\ Spans(f[n])
                        /\ \A m \in Nat : Covers(f[n], m) <=>
                              Covers(d.gaps, m) \/ (m < n /\ m \in Seqs(gone))
  <1>6. Done(0)
    <2>1. 0 \in 0..N
      OBVIOUS
    <2>2. f[0] = d.gaps
      BY <1>5, <2>1 DEF Swept
    <2>3. \A m \in Nat : ~(m < 0)
      OBVIOUS
    <2>4. QED
      BY <2>2, <2>3
  <1>7. ASSUME NEW n \in 1..N, Done(n - 1) PROVE Done(n)
    <2>1. n \in 0..N /\ n # 0 /\ n - 1 \in Nat
      OBVIOUS
    <2>2. f[n] = IF n - 1 \in Seqs(gone) THEN add_gap(f[n - 1], n - 1) ELSE f[n - 1]
      BY <1>5, <2>1 DEF Swept
    <2>3. PICK G, s : G = f[n - 1] /\ s = n - 1
      OBVIOUS
    <2>4. /\ Spans(G) /\ s \in Nat
          /\ \A m \in Nat : Covers(G, m) <=> Covers(d.gaps, m) \/ (m < s /\ m \in Seqs(gone))
      BY <1>7, <2>1, <2>3
    <2>5. \A m \in Nat : m < n <=> m < s \/ m = s
      BY <2>1, <2>3
    <2>6. CASE s \in Seqs(gone)
      <3>1. ~Covers(G, s)
        BY <2>4, <2>6
      <3>2. /\ Spans(add_gap(G, s))
            /\ \A m \in Nat : Covers(add_gap(G, s), m) <=> Covers(G, m) \/ m = s
        BY <2>4, <3>1, GapAdded
      <3>3. f[n] = add_gap(G, s)
        BY <2>2, <2>3, <2>6
      <3>4. ASSUME NEW m \in Nat
            PROVE  Covers(f[n], m) <=> Covers(d.gaps, m) \/ (m < n /\ m \in Seqs(gone))
        BY <2>4, <2>5, <2>6, <3>2, <3>3
      <3>5. QED
        BY <3>2, <3>3, <3>4
    <2>7. CASE s \notin Seqs(gone)
      <3>1. f[n] = G
        BY <2>2, <2>3, <2>7
      <3>2. ASSUME NEW m \in Nat
            PROVE  Covers(f[n], m) <=> Covers(d.gaps, m) \/ (m < n /\ m \in Seqs(gone))
        BY <2>4, <2>5, <2>7, <3>1
      <3>3. QED
        BY <2>4, <3>1, <3>2
    <2>8. QED
      BY <2>6, <2>7
  <1> DEFINE S == {n \in 1..(N + 1) : Done(n - 1)}
  <1> HIDE DEF Done
  <1>8. 1 \in S
    <2>1. 1 \in 1..(N + 1) /\ 1 - 1 = 0
      OBVIOUS
    <2>2. QED
      BY <1>6, <2>1
  <1>9. PICK m \in S : \A k \in S : k <= m
    <2>1. N + 1 \in Nat /\ S \subseteq 1..(N + 1)
      OBVIOUS
    <2>2. QED
      BY <1>8, <2>1, LastExists
  <1>10. m = N + 1
    <2>1. SUFFICES ASSUME m # N + 1 PROVE FALSE
      OBVIOUS
    <2>2. m \in 1..N /\ m + 1 \in 1..(N + 1) /\ (m + 1) - 1 = m
      BY <2>1
    <2>3. Done(m)
      BY <1>7, <1>9, <2>2
    <2>4. m + 1 \in S
      BY <2>2, <2>3
    <2>5. QED
      BY <1>9, <2>2, <2>4
  <1>11. Done(N)
    <2>1. m - 1 = N
      BY <1>10
    <2>2. QED
      BY <1>9, <2>1
  <1>12. QED
    BY <1>1, <1>3, <1>11 DEF Done


-----------------------------------------------------------------------------
\* A ticket whose guard holds was loaded from the durable journal, and its body
\* makes of it exactly the journal the ticket carries.
LEMMA CommitMakes ==
  ASSUME NEW t, NEW d, TicketSound(t, d), Image(d), Guard(t, d)
  PROVE  t.old = d /\ Body(t, d) = t.new
  <1>1. t.old = d
    <2>1. CASE t.old = Empty
      BY <2>1 DEF Guard, Empty
    <2>2. CASE t.old # Empty
      <3>1. Accounted(t.old)
        BY <2>2 DEF TicketSound, Image
      <3>2. t.old.state # None
        BY <3>1, StateNumbers
      <3>3. d.state = t.old.state
        BY <3>2 DEF Guard
      <3>4. QED
        BY <2>2, <3>3 DEF TicketSound
    <2>3. QED
      BY <2>1, <2>2
  <1>2. PICK new : new = t.new
    OBVIOUS
  <1>3. Accounted(new)
    BY <1>2 DEF TicketSound
  <1>4. \A r, q \in d.rows : r.seq = q.seq => r = q
    BY DEF Image, Accounted, Empty
  <1>5. \A r, q \in new.rows : r.seq = q.seq => r = q
    BY <1>3 DEF Accounted
  <1>6. PICK gone, put : gone = Seqs(d.rows) \ Seqs(new.rows) /\ put = new.rows \ d.rows
    OBVIOUS
  <1>7. {r \in d.rows : r.seq \notin gone \cup Seqs(put)} \cup put = new.rows
    <2>1. ASSUME NEW r \in d.rows, r.seq \notin gone, r.seq \notin Seqs(put) PROVE r \in new.rows
      <3>1. r.seq \in Seqs(new.rows)
        BY <1>6, <2>1 DEF Seqs
      <3>2. PICK q \in new.rows : q.seq = r.seq
        BY <3>1 DEF Seqs
      <3>3. q \notin put
        BY <2>1, <3>2 DEF Seqs
      <3>4. q \in d.rows
        BY <1>6, <3>2, <3>3
      <3>5. QED
        BY <1>4, <3>2, <3>4
    <2>2. ASSUME NEW r \in new.rows, r \in d.rows PROVE r.seq \notin gone /\ r.seq \notin Seqs(put)
      <3>1. r.seq \in Seqs(new.rows)
        BY DEF Seqs
      <3>2. r.seq \notin gone
        BY <1>6, <3>1
      <3>3. ASSUME NEW q \in put, q.seq = r.seq PROVE FALSE
        BY <1>5, <1>6, <2>2, <3>3
      <3>4. QED
        BY <3>2, <3>3 DEF Seqs
    <2>3. put \subseteq new.rows /\ \A r \in new.rows : r \in put \/ r \in d.rows
      BY <1>6
    <2>4. QED
      BY <2>1, <2>2, <2>3
  <1>8. (d.pins \ (d.pins \ new.pins)) \cup (new.pins \ d.pins) = new.pins
    OBVIOUS
  <1>9. (IF new.gaps = d.gaps THEN d.gaps ELSE new.gaps) = new.gaps
    OBVIOUS
  <1>10. Body(t, d) = [state |-> new.state, rows |-> new.rows, pins |-> new.pins, gaps |-> new.gaps]
    BY <1>1, <1>2, <1>6, <1>7, <1>8, <1>9 DEF Body
  <1>11. QED
    BY <1>1, <1>2, <1>3, <1>10 DEF Accounted

\* What a commit makes of the journal.
LEMMA CommitTurns ==
  ASSUME WindowInv, NEW t, TicketSound(t, db), Commits(t), Commit(t)
  PROVE  /\ db = t.old /\ db' = t.new /\ Accounted(db') /\ Keeps(db, db')
         /\ db # Empty => db'.state.rev = db.state.rev + 1
         /\ db'.state.rev = t.rev /\ t.rev \in Nat
  <1>1. t.old = db /\ Body(t, db) = t.new
    BY CommitMakes DEF WindowInv, Commits
  <1>2. db' = t.new
    BY <1>1 DEF Commit
  <1>3. /\ Accounted(t.new) /\ Keeps(t.old, t.new) /\ t.rev = t.new.state.rev
        /\ t.old # Empty => t.rev = t.old.state.rev + 1
    BY DEF TicketSound
  <1>4. t.rev \in Nat
    BY <1>3, StateNumbers
  <1>5. QED
    BY <1>1, <1>2, <1>3, <1>4

\* A ticket stays sound when another commits: it has fallen behind.
LEMMA TicketBehind ==
  ASSUME NEW u, NEW d, NEW e, TicketSound(u, d), Image(d), Accounted(e),
         d # Empty => e.state.rev = d.state.rev + 1
  PROVE  TicketSound(u, e)
  <1>1. e # Empty /\ e.state.rev \in Nat
    BY StateNumbers
  <1>2. ASSUME u.old # Empty PROVE u.old.state.rev <= e.state.rev /\ u.old.state.rev # e.state.rev
    <2>1. d # Empty /\ u.old.state.rev <= d.state.rev /\ Accounted(u.old)
      BY <1>2 DEF TicketSound, Image
    <2>2. Accounted(d)
      BY <2>1 DEF Image
    <2>3. d.state.rev \in Nat /\ u.old.state.rev \in Nat
      BY <2>1, <2>2, StateNumbers
    <2>4. QED
      BY <2>1, <2>3
  <1>3. QED
    BY <1>1, <1>2 DEF TicketSound

\* The receipts kept are those within the horizon of the new revision.
LEMMA CommitLogs ==
  ASSUME WindowInv, NEW t, TicketSound(t, db), Commits(t), Commit(t)
  PROVE  Logged(log', receipts', db')
  <1>1. Accounted(db') /\ db'.state.rev = t.rev /\ t.rev \in Nat
    BY CommitTurns
  <1>2. db' # Empty
    BY <1>1, StateNumbers
  <1>3. ASSUME NEW u \in log'
        PROVE  /\ u.rev \in Nat /\ u.rev <= t.rev
               /\ u.rev + REPLAY_ROWS > t.rev => u \in receipts'
    <2>1. (u \in log \/ u = t) /\ u \in InUse
      BY <1>3 DEF Commit
    <2>2. CASE u = t
      BY <1>1, <2>1, <2>2 DEF Commit
    <2>3. CASE u \in log
      <3>1. /\ db # Empty /\ u.rev \in Nat /\ u.rev <= db.state.rev
            /\ u.rev + REPLAY_ROWS > db.state.rev => u \in receipts
        BY <2>3 DEF WindowInv, Logged
      <3>2. Accounted(db)
        BY <3>1 DEF WindowInv, Image
      <3>3. db.state.rev \in Nat /\ t.rev = db.state.rev + 1
        BY <1>1, <3>1, <3>2, CommitTurns, StateNumbers
      <3>4. REPLAY_ROWS \in Nat
        BY WindowAssumption
      <3>5. u.rev <= t.rev
        BY <3>1, <3>3
      <3>6. ASSUME u.rev + REPLAY_ROWS > t.rev PROVE u \in receipts'
        <4>1. u.rev + REPLAY_ROWS > db.state.rev
          BY <3>1, <3>3, <3>4, <3>6
        <4>2. u \in Retained(t.rev)
          BY <3>1, <3>6, <4>1 DEF Retained
        <4>3. QED
          BY <2>1, <4>2 DEF Commit
      <3>7. QED
        BY <3>1, <3>5, <3>6
    <2>4. QED
      BY <2>1, <2>2, <2>3
  <1>4. QED
    BY <1>1, <1>2, <1>3 DEF Logged

\* Calls stay sound when the durable journal moves on.
LEMMA CallBehind ==
  ASSUME NEW c, NEW d, NEW e, CallSound(c, d), Image(d), Accounted(e),
         d # Empty => e.state.rev = d.state.rev + 1
  PROVE  CallSound(c, e)
  <1>1. SUFFICES ASSUME c # None PROVE CallSound(c, e)
    BY DEF CallSound
  <1>2. TicketSound(c.ticket, e)
    BY <1>1, TicketBehind DEF CallSound
  <1>3. ASSUME c.phase = "horizon", c.past PROVE Outside(c.ticket.rev, e)
    <2>1. Outside(c.ticket.rev, d)
      BY <1>1, <1>3 DEF CallSound
    <2>2. Accounted(d) /\ d # Empty
      BY <2>1 DEF Outside, Image
    <2>3. d.state.rev \in Nat /\ e # Empty /\ REPLAY_ROWS \in Nat
      BY <2>2, StateNumbers, WindowAssumption
    <2>4. QED
      BY <2>1, <2>2, <2>3 DEF Outside
  <1>4. QED
    BY <1>1, <1>2, <1>3 DEF CallSound


-----------------------------------------------------------------------------
\* All that depends on the durable journal, as a next journal d finds it.
SoundOn(d) ==
    /\ Image(d)
    /\ DOMAIN call = Handles /\ \A h \in Handles : CallSound(call[h], d)
    /\ captured # None => TicketSound(captured.ticket, d)
    /\ orphan # None => TicketSound(orphan, d)

\* A commit leaves everything sound on the journal it makes.
LEMMA CommitSound ==
  ASSUME WindowInv, NEW t, TicketSound(t, db), Commits(t), Commit(t)
  PROVE  SoundOn(db') /\ Logged(log', receipts', db')
  <1>1. Accounted(db') /\ (db # Empty => db'.state.rev = db.state.rev + 1)
    BY CommitTurns
  <1>2. PICK e : e = db'
    OBVIOUS
  <1>3. Image(db) /\ Accounted(e) /\ (db # Empty => e.state.rev = db.state.rev + 1)
    BY <1>1, <1>2 DEF WindowInv
  <1>4. \A h \in Handles : CallSound(call[h], e)
    BY <1>3, CallBehind DEF WindowInv
  <1>5. captured # None => TicketSound(captured.ticket, e)
    BY <1>3, TicketBehind DEF WindowInv
  <1>6. orphan # None => TicketSound(orphan, e)
    BY <1>3, TicketBehind DEF WindowInv
  <1>7. Image(e) /\ DOMAIN call = Handles
    BY <1>3 DEF Image, WindowInv
  <1>8. SoundOn(e)
    BY <1>4, <1>5, <1>6, <1>7 DEF SoundOn
  <1>9. QED
    BY <1>2, <1>8, CommitLogs

\* Nothing changes for a journal that stays as it is.
LEMMA StandsSound ==
  ASSUME WindowInv, UNCHANGED <<db, receipts, log>>
  PROVE  SoundOn(db') /\ Logged(log', receipts', db')
  BY DEF WindowInv, SoundOn

\* A store call that returns leaves the rest as it was.
LEMMA ReturnKeeps ==
  ASSUME NEW h \in Handles, NEW kind, Return(h, kind),
         SoundOn(db'), Logged(log', receipts', db')
  PROVE  WindowInv'
  <1>1. call' = [call EXCEPT ![h] = None] /\ orphan' = orphan
    BY DEF Return
  <1>2. captured' = captured \/ captured' = None
    BY DEF Return
  <1>3. PICK d : d = db'
    OBVIOUS
  <1>4. PICK C : C = call'
    OBVIOUS
  <1>5. C = [call EXCEPT ![h] = None] /\ DOMAIN call = Handles
    BY <1>1, <1>4, <1>3 DEF SoundOn
  <1>6. DOMAIN C = Handles /\ \A i \in Handles : CallSound(C[i], d)
    <2>1. ASSUME NEW i \in Handles PROVE CallSound(C[i], d)
      <3>1. CASE i = h
        BY <1>5, <3>1 DEF CallSound
      <3>2. CASE i # h
        <4>1. C[i] = call[i]
          BY <1>5, <3>2
        <4>2. QED
          BY <1>3, <4>1 DEF SoundOn
      <3>3. QED
        BY <3>1, <3>2
    <2>2. QED
      BY <1>5, <2>1
  <1>7. PICK K, O : K = captured' /\ O = orphan'
    OBVIOUS
  <1>8. /\ K # None => TicketSound(K.ticket, d)
        /\ O # None => TicketSound(O, d)
    BY <1>1, <1>2, <1>3, <1>7 DEF SoundOn
  <1>9. Image(d)
    BY <1>3 DEF SoundOn
  <1>10. QED
    BY <1>3, <1>4, <1>6, <1>7, <1>8, <1>9 DEF WindowInv

\* The ticket of a call is sound.
LEMMA CallTicket ==
  ASSUME WindowInv, NEW h \in Handles, call[h] # None
  PROVE  /\ TicketSound(call[h].ticket, db) /\ CallSound(call[h], db) /\ DOMAIN call = Handles
         /\ call[h] = [op |-> call[h].op, ticket |-> call[h].ticket, phase |-> call[h].phase,
                       past |-> call[h].past]
  BY DEF WindowInv, CallSound

\* The store replays a receipt, fails, or answers after the horizon.
LEMMA AnswerKeeps ==
  ASSUME WindowInv, NEW h \in Handles, StoreReplays(h) \/ StoreFails(h) \/ WeighsAbsence(h)
  PROVE  WindowInv'
  <1>1. UNCHANGED <<db, receipts, log>>
    BY DEF StoreReplays, StoreFails, WeighsAbsence
  <1>2. SoundOn(db') /\ Logged(log', receipts', db')
    BY <1>1, StandsSound
  <1>3. PICK kind : Return(h, kind)
    BY DEF StoreReplays, StoreFails, WeighsAbsence
  <1>4. QED
    BY <1>2, <1>3, ReturnKeeps

\* The store commits.
LEMMA StoreCommitKeeps ==
  ASSUME WindowInv, NEW h \in Handles, StoreCommits(h)
  PROVE  WindowInv'
  <1>1. PICK t : t = call[h].ticket
    OBVIOUS
  <1>2. TicketSound(t, db) /\ Commits(t) /\ Commit(t)
    BY <1>1, CallTicket DEF StoreCommits
  <1>3. SoundOn(db') /\ Logged(log', receipts', db')
    BY <1>2, CommitSound
  <1>4. PICK kind : Return(h, kind)
    BY DEF StoreCommits
  <1>5. QED
    BY <1>3, <1>4, ReturnKeeps

\* The store finds no receipt: if the ticket had committed, its receipt was
\* pruned, and the revision is past the horizon.
LEMMA DenyKeeps ==
  ASSUME WindowInv, NEW h \in Handles, StoreDenies(h)
  PROVE  WindowInv'
  <1>1. /\ call[h] # None /\ \A t \in receipts : t.rev # call[h].ticket.rev
        /\ call' = [call EXCEPT ![h].phase = "horizon", ![h].past = call[h].ticket \in log]
        /\ UNCHANGED <<db, receipts, log, captured, orphan>>
    BY DEF StoreDenies
  <1>2. PICK c, p : c = call[h] /\ p = (call[h].ticket \in log)
    OBVIOUS
  <1>3. /\ c = [op |-> c.op, ticket |-> c.ticket, phase |-> c.phase, past |-> c.past]
        /\ TicketSound(c.ticket, db) /\ DOMAIN call = Handles
    BY <1>1, <1>2, CallTicket
  <1>4. PICK n : n = [op |-> c.op, ticket |-> c.ticket, phase |-> "horizon", past |-> p]
    OBVIOUS
  <1>5. call' = [call EXCEPT ![h] = n]
    <2>1. n = [[c EXCEPT !.phase = "horizon"] EXCEPT !.past = p]
      <3>1. PICK o, t, f, b : o = c.op /\ t = c.ticket /\ f = c.phase /\ b = c.past
        OBVIOUS
      <3>2. c = [op |-> o, ticket |-> t, phase |-> f, past |-> b]
        BY <1>3, <3>1
      <3>3. n = [op |-> o, ticket |-> t, phase |-> "horizon", past |-> p]
        BY <1>4, <3>1
      <3>4. PICK m : m = [op |-> o, ticket |-> t, phase |-> "horizon", past |-> b]
        OBVIOUS
      <3>5. [c EXCEPT !.phase = "horizon"] = m
        BY <3>2, <3>4
      <3>6. [m EXCEPT !.past = p] = n
        BY <3>3, <3>4
      <3>7. QED
        BY <3>5, <3>6
    <2>2. QED
      BY <1>1, <1>2, <1>3, <2>1
  <1>6. ASSUME p PROVE Outside(c.ticket.rev, db)
    <2>1. c.ticket \in log /\ c.ticket \notin receipts
      BY <1>1, <1>2, <1>6
    <2>2. /\ db # Empty /\ c.ticket.rev \in Nat
          /\ ~(c.ticket.rev + REPLAY_ROWS > db.state.rev)
      BY <2>1 DEF WindowInv, Logged
    <2>3. db.state.rev \in Nat /\ REPLAY_ROWS \in Nat
      BY <2>2, StateNumbers, WindowAssumption DEF WindowInv, Image
    <2>4. QED
      BY <2>2, <2>3 DEF Outside
  <1>7. CallSound(n, db)
    <2>1. n.op = c.op /\ n.ticket = c.ticket /\ n.phase = "horizon" /\ n.past = p
      BY <1>4
    <2>2. n = [op |-> n.op, ticket |-> n.ticket, phase |-> n.phase, past |-> n.past]
      BY <1>4, <2>1
    <2>3. QED
      BY <1>3, <1>6, <2>1, <2>2 DEF CallSound
  <1>8. PICK C : C = [call EXCEPT ![h] = n]
    OBVIOUS
  <1>9. DOMAIN C = Handles /\ \A i \in Handles : CallSound(C[i], db)
    <2>1. ASSUME NEW i \in Handles PROVE CallSound(C[i], db)
      <3>1. CASE i = h
        BY <1>3, <1>7, <1>8, <3>1
      <3>2. CASE i # h
        BY <1>3, <1>8, <3>2 DEF WindowInv
      <3>3. QED
        BY <3>1, <3>2
    <2>2. QED
      BY <1>3, <1>8, <2>1
  <1>10. QED
    BY <1>1, <1>5, <1>8, <1>9 DEF WindowInv

\* An orphaned child ends, perhaps with its commit.
LEMMA OrphanKeeps == WindowInv /\ OrphanEnds => WindowInv'
  <1> SUFFICES ASSUME WindowInv, OrphanEnds PROVE WindowInv'
    OBVIOUS
  <1>1. SoundOn(db') /\ Logged(log', receipts', db')
    <2>1. CASE Commits(orphan) /\ Commit(orphan)
      <3>1. TicketSound(orphan, db)
        BY DEF OrphanEnds, WindowInv
      <3>2. QED
        BY <2>1, <3>1, CommitSound
    <2>2. CASE UNCHANGED <<db, receipts, log, commits>>
      BY <2>2, StandsSound
    <2>3. QED
      BY <2>1, <2>2 DEF OrphanEnds
  <1>2. PICK d : d = db'
    OBVIOUS
  <1>3. orphan' = None /\ UNCHANGED <<captured, call>>
    BY DEF OrphanEnds
  <1>4. QED
    BY <1>1, <1>2, <1>3 DEF WindowInv, SoundOn

\* A crash leaves the ticket of a writing child, and the reconciliation bytes.
LEMMA CrashKeeps ==
  ASSUME WindowInv, NEW h \in Handles, NEW reboot, Crash(h, reboot)
  PROVE  WindowInv'
  <1>1. /\ call[h] # None /\ call' = [i \in Handles |-> None]
        /\ orphan' = IF reboot THEN None ELSE call[h].ticket
        /\ UNCHANGED <<db, receipts, log, captured>>
    BY DEF Crash
  <1>2. TicketSound(call[h].ticket, db)
    BY <1>1, CallTicket
  <1>3. PICK O : O = orphan'
    OBVIOUS
  <1>4. O # None => TicketSound(O, db)
    BY <1>1, <1>2, <1>3
  <1>5. PICK C : C = [i \in Handles |-> None]
    OBVIOUS
  <1>6. DOMAIN C = Handles /\ \A i \in Handles : CallSound(C[i], db)
    BY <1>5 DEF CallSound
  <1>7. QED
    BY <1>1, <1>3, <1>4, <1>5, <1>6 DEF WindowInv


-----------------------------------------------------------------------------
\* A journal with another state row of the same tail.
LEMMA StateChanged ==
  ASSUME NEW d, Accounted(d), NEW s \in WindowStates, s.next = d.state.next,
         \A k \in Keys : s.current[k] # None => s.current[k] \in Seqs(d.rows),
         NEW e, e = [d EXCEPT !.state = s]
  PROVE  /\ Accounted(e) /\ e.state = s
         /\ e.rows = d.rows /\ e.pins = d.pins /\ e.gaps = d.gaps
  <1>1. PICK r, p, g : r = d.rows /\ p = d.pins /\ g = d.gaps
    OBVIOUS
  <1>2. PICK z : z = d.state
    OBVIOUS
  <1>3. d = [state |-> z, rows |-> r, pins |-> p, gaps |-> g]
    BY <1>1, <1>2 DEF Accounted
  <1>4. e = [state |-> s, rows |-> r, pins |-> p, gaps |-> g]
    BY <1>3
  <1>5. e.state = s /\ e.rows = r /\ e.pins = p /\ e.gaps = g
    BY <1>4
  <1>6. e = [state |-> e.state, rows |-> e.rows, pins |-> e.pins, gaps |-> e.gaps]
    BY <1>4, <1>5
  <1>7. Accounted(e)
    BY <1>1, <1>5, <1>6 DEF Accounted
  <1>8. QED
    BY <1>1, <1>5, <1>7

\* The next revision of a journal is accounted for as it is.
LEMMA Advanced ==
  ASSUME NEW d, Accounted(d), NEW e, e = advance(d)
  PROVE  /\ Accounted(e) /\ e.state.rev = d.state.rev + 1 /\ e.state.next = d.state.next
         /\ e.rows = d.rows /\ e.pins = d.pins /\ e.gaps = d.gaps
  <1>1. PICK z, v : z = d.state /\ v = d.state.rev + 1
    OBVIOUS
  <1>2. z \in WindowStates /\ v \in Nat
    BY <1>1, StateNumbers DEF Accounted
  <1>3. PICK s : s = [z EXCEPT !.rev = v]
    OBVIOUS
  <1>4. s \in WindowStates /\ s.rev = v /\ s.next = z.next /\ s.current = z.current
    BY <1>2, <1>3 DEF WindowStates
  <1>5. e = [d EXCEPT !.state = s]
    <2>1. d = [state |-> d.state, rows |-> d.rows, pins |-> d.pins, gaps |-> d.gaps]
      BY DEF Accounted
    <2>2. QED
      BY <1>1, <1>3, <2>1 DEF advance
  <1>6. \A k \in Keys : s.current[k] # None => s.current[k] \in Seqs(d.rows)
    BY <1>1, <1>4 DEF Accounted
  <1>7. QED
    BY <1>1, <1>4, <1>5, <1>6, StateChanged

\* A ticket made from the durable journal is sound.
LEMMA NewTicket ==
  ASSUME NEW d, Image(d), NEW i, Accounted(i), Keeps(d, i),
         d # Empty => i.state.rev = d.state.rev
  PROVE  TicketSound(Ticket(d, advance(i)), d)
  <1>1. PICK n : n = advance(i)
    OBVIOUS
  <1>2. /\ Accounted(n) /\ n.state.rev = i.state.rev + 1 /\ n.state.next = i.state.next
        /\ n.rows = i.rows /\ n.pins = i.pins
    BY <1>1, Advanced
  <1>3. PICK t : t = Ticket(d, n)
    OBVIOUS
  <1>4. t.rev = n.state.rev /\ t.old = d /\ t.new = n
    BY <1>3 DEF Ticket
  <1>5. Keeps(d, n)
    BY <1>2 DEF Keeps
  <1>6. d # Empty => d.state.rev \in Nat
    BY StateNumbers DEF Image
  <1>7. TicketSound(t, d)
    BY <1>2, <1>4, <1>5, <1>6 DEF TicketSound
  <1>8. QED
    BY <1>1, <1>3, <1>7

\* A handle enters the store with a sound ticket.
LEMMA EnterKeeps ==
  ASSUME WindowInv, NEW h \in Handles, NEW op, NEW t, TicketSound(t, db), Enter(h, op, t),
         UNCHANGED <<db, receipts, log, captured, orphan>>
  PROVE  WindowInv'
  <1>1. PICK n : n = [op |-> op, ticket |-> t, phase |-> "store", past |-> FALSE]
    OBVIOUS
  <1>2. n.op = op /\ n.ticket = t /\ n.phase = "store" /\ n.past = FALSE
    BY <1>1
  <1>3. CallSound(n, db)
    BY <1>1, <1>2 DEF CallSound
  <1>4. PICK C : C = [call EXCEPT ![h] = n]
    OBVIOUS
  <1>5. DOMAIN C = Handles /\ \A i \in Handles : CallSound(C[i], db)
    BY <1>3, <1>4 DEF WindowInv
  <1>6. call' = C
    BY <1>1, <1>4 DEF Enter
  <1>7. QED
    BY <1>5, <1>6 DEF WindowInv

\* So every change of an accounted journal is.
LEMMA ChangeKeeps ==
  ASSUME WindowInv, NEW h \in Handles, NEW op, NEW i, Accounted(i), Keeps(db, i),
         db # Empty => i.state.rev = db.state.rev,
         Change(h, op, i), UNCHANGED <<db, receipts, log, captured, orphan>>
  PROVE  WindowInv'
  <1>1. TicketSound(Ticket(db, advance(i)), db)
    BY NewTicket DEF WindowInv
  <1>2. QED
    BY <1>1, EnterKeeps DEF Change

\* A loaded journal is accounted for.
LEMMA LoadedJournal ==
  ASSUME WindowInv, NEW h, load(h)
  PROVE  Accounted(db) /\ db # Empty
  <1>1. db.state # None
    BY DEF load
  <1>2. db # Empty
    BY <1>1 DEF Empty
  <1>3. QED
    BY <1>2 DEF WindowInv, Image

\* Opening takes the next epoch.
LEMMA OpenKeeps ==
  ASSUME WindowInv, NEW h \in Handles, NEW intact, open_synthetic(h, intact)
  PROVE  WindowInv'
  <1>1. PICK f : f = IF db.state = None THEN Fresh ELSE db.state
    OBVIOUS
  <1>2. PICK e : e = f.epoch + 1
    OBVIOUS
  <1>3. PICK g : g = IF db.state # None /\ intact = checkpoint(db) THEN f.gen ELSE e
    OBVIOUS
  <1>4. PICK s : s = [f EXCEPT !.epoch = e, !.gen = g]
    OBVIOUS
  <1>5. PICK i : i = [db EXCEPT !.state = s]
    OBVIOUS
  <1>6. Enter(h, "open", Ticket(db, advance(i)))
    BY <1>1, <1>2, <1>3, <1>4, <1>5 DEF open_synthetic
  <1>7. f \in WindowStates
    <2>1. CASE db.state = None
      <3>1. [k \in Keys |-> None] \in [Keys -> Bindings \cup {None}]
            /\ [k \in Keys |-> None] \in [Keys -> Nat \cup {None}]
        OBVIOUS
      <3>2. QED
        BY <1>1, <2>1, <3>1 DEF Fresh, WindowStates
    <2>2. CASE db.state # None
      BY <1>1, <2>2 DEF WindowInv, Image, Empty, Accounted
    <2>3. QED
      BY <2>1, <2>2
  <1>8. e \in Nat /\ g \in Nat
    BY <1>2, <1>3, <1>7 DEF WindowStates
  <1>9. s \in WindowStates /\ s.rev = f.rev /\ s.next = f.next /\ s.current = f.current
    BY <1>4, <1>7, <1>8 DEF WindowStates
  <1>10. Accounted(i) /\ Keeps(db, i) /\ (db # Empty => i.state.rev = db.state.rev)
    <2>1. CASE db = Empty
      <3>1. db.state = None /\ f = Fresh
        BY <1>1, <2>1 DEF Empty
      <3>2. i = [state |-> s, rows |-> {}, pins |-> {}, gaps |-> {}]
        BY <1>5, <2>1 DEF Empty
      <3>3. i.state = s /\ i.rows = {} /\ i.pins = {} /\ i.gaps = {} /\ s.next = 0
            /\ \A k \in Keys : s.current[k] = None
        BY <1>9, <3>1, <3>2 DEF Fresh
      <3>4. IsFiniteSet({}) /\ Cardinality({}) = 0 /\ SPOOL_SLOTS \in Nat
        BY FS_EmptySet, WindowAssumption
      <3>5. Accounted(i)
        BY <1>9, <3>2, <3>3, <3>4 DEF Accounted, Spans, Covers
      <3>6. QED
        BY <2>1, <3>1, <3>5 DEF Keeps, Empty
    <2>2. CASE Accounted(db)
      <3>1. f = db.state /\ db # Empty /\ db.state.next \in Nat
        BY <1>1, <2>2, StateNumbers
      <3>2. \A k \in Keys : s.current[k] # None => s.current[k] \in Seqs(db.rows)
        BY <1>9, <2>2, <3>1 DEF Accounted
      <3>3. Accounted(i) /\ i.state = s /\ i.rows = db.rows /\ i.pins = db.pins
        BY <1>5, <1>9, <2>2, <3>1, <3>2, StateChanged
      <3>4. Keeps(db, i)
        BY <1>9, <3>1, <3>3 DEF Keeps, Seqs
      <3>5. QED
        BY <1>9, <3>1, <3>3, <3>4
    <2>3. QED
      BY <2>1, <2>2 DEF WindowInv, Image
  <1>11. TicketSound(Ticket(db, advance(i)), db)
    BY <1>10, NewTicket DEF WindowInv
  <1>12. QED
    BY <1>6, <1>11, EnterKeeps DEF open_synthetic

\* Selecting a binding leaves its key without a current value.
LEMMA WindowSelectKeeps ==
  ASSUME WindowInv, NEW h \in Handles, NEW b \in Bindings, select_binding(h, b)
  PROVE  WindowInv'
  <1>1. Accounted(db) /\ db # Empty
    BY LoadedJournal DEF select_binding
  <1>2. b.key \in Keys
    BY WindowAssumption
  <1>3. PICK z : z = db.state
    OBVIOUS
  <1>4. PICK S, K : S = [z.selected EXCEPT ![b.key] = b] /\ K = [z.current EXCEPT ![b.key] = None]
    OBVIOUS
  <1>5. z \in WindowStates
    BY <1>1, <1>3 DEF Accounted
  <1>6. S \in [Keys -> Bindings \cup {None}] /\ K \in [Keys -> Nat \cup {None}]
    BY <1>4, <1>5 DEF WindowStates
  <1>7. PICK s : s = [z EXCEPT !.selected = S, !.current = K]
    OBVIOUS
  <1>8. s \in WindowStates /\ s.next = z.next /\ s.rev = z.rev /\ s.current = K
    BY <1>5, <1>6, <1>7 DEF WindowStates
  <1>9. PICK i : i = [db EXCEPT !.state = s]
    OBVIOUS
  <1>10. i = [db EXCEPT !.state.selected[b.key] = b, !.state.current[b.key] = None]
    <2>1. db = [state |-> z, rows |-> db.rows, pins |-> db.pins, gaps |-> db.gaps]
      BY <1>1, <1>3 DEF Accounted
    <2>2. QED
      BY <1>3, <1>4, <1>5, <1>7, <1>9, <2>1 DEF WindowStates
  <1>11. \A k \in Keys : s.current[k] # None => s.current[k] \in Seqs(db.rows)
    <2>1. \A k \in Keys : z.current[k] # None => z.current[k] \in Seqs(db.rows)
      BY <1>1, <1>3 DEF Accounted
    <2>2. \A k \in Keys : K[k] = None \/ K[k] = z.current[k]
      BY <1>4, <1>5 DEF WindowStates
    <2>3. QED
      BY <1>8, <2>1, <2>2
  <1>12. Accounted(i) /\ i.state = s /\ i.rows = db.rows /\ i.pins = db.pins
    BY <1>1, <1>3, <1>8, <1>9, <1>11, StateChanged
  <1>13. Keeps(db, i)
    <2>1. db.state.next \in Nat
      BY <1>1, StateNumbers
    <2>2. QED
      BY <1>3, <1>8, <1>12, <2>1 DEF Keeps, Seqs
  <1>14. Change(h, "select", i)
    BY <1>10 DEF select_binding
  <1>15. i.state.rev = db.state.rev
    BY <1>3, <1>8, <1>12
  <1>16. QED
    BY <1>12, <1>13, <1>14, <1>15, ChangeKeeps DEF select_binding


-----------------------------------------------------------------------------
\* A capture puts its row at the tail.
LEMMA RowAppended ==
  ASSUME NEW d, Accounted(d), NEW row \in WindowRow, row.seq = d.state.next,
         Cardinality(d.rows) < SPOOL_SLOTS,
         NEW s \in WindowStates, s.next = d.state.next + 1,
         \A k \in Keys : s.current[k] = row.seq \/ s.current[k] = d.state.current[k],
         NEW e, e = [state |-> s, rows |-> d.rows \cup {row}, pins |-> d.pins, gaps |-> d.gaps]
  PROVE  Accounted(e) /\ Keeps(d, e)
  <1>1. PICK R, t : R = d.rows \cup {row} /\ t = d.state.next
    OBVIOUS
  <1>2. e.state = s /\ e.rows = R /\ e.pins = d.pins /\ e.gaps = d.gaps
    BY <1>1
  <1>3. t \in Nat /\ \A r \in d.rows : r.seq \in Nat /\ r.seq < t
    BY <1>1, StateNumbers DEF Accounted
  <1>4. \A r \in d.rows : r.seq # t
    BY <1>3
  <1>5. R \subseteq WindowRow /\ IsFiniteSet(R) /\ Cardinality(R) <= SPOOL_SLOTS
    <2>1. IsFiniteSet(d.rows) /\ d.rows \subseteq WindowRow
      BY DEF Accounted
    <2>2. row \notin d.rows
      BY <1>1, <1>4
    <2>3. IsFiniteSet(R) /\ Cardinality(R) = Cardinality(d.rows) + 1 /\ Cardinality(d.rows) \in Nat
      BY <1>1, <2>1, <2>2, FS_AddElement, FS_CardinalityType
    <2>4. SPOOL_SLOTS \in Nat
      BY WindowAssumption
    <2>5. QED
      BY <1>1, <2>1, <2>3, <2>4
  <1>6. \A r, q \in R : r.seq = q.seq => r = q
    BY <1>1, <1>4 DEF Accounted
  <1>7. \A n \in Nat : Covers(d.gaps, n) => n < t
    BY <1>1 DEF Accounted
  <1>8. ~Covers(d.gaps, t)
    BY <1>3, <1>7
  <1>9. \A r \in R : r.seq < t + 1 /\ ~Covers(d.gaps, r.seq)
    <2>1. ASSUME NEW r \in d.rows PROVE r.seq < t + 1 /\ ~Covers(d.gaps, r.seq)
      BY <1>3 DEF Accounted
    <2>2. row.seq < t + 1 /\ ~Covers(d.gaps, row.seq)
      BY <1>1, <1>3, <1>8
    <2>3. QED
      BY <1>1, <2>1, <2>2
  <1>10. \A n \in Nat : Covers(d.gaps, n) => n < t + 1
    BY <1>3, <1>7
  <1>11. Seqs(R) = Seqs(d.rows) \cup {t}
    BY <1>1 DEF Seqs
  <1>12. ASSUME NEW n \in Nat, n < t + 1 PROVE n \in Seqs(R) \/ Covers(d.gaps, n)
    <2>1. CASE n = t
      BY <1>11, <2>1
    <2>2. CASE n # t
      <3>1. n < t
        BY <1>3, <1>12, <2>2
      <3>2. QED
        BY <1>1, <1>11, <3>1 DEF Accounted
    <2>3. QED
      BY <2>1, <2>2
  <1>13. \A k \in Keys : s.current[k] # None => s.current[k] \in Seqs(R)
    <2>1. \A k \in Keys : d.state.current[k] # None => d.state.current[k] \in Seqs(d.rows)
      BY DEF Accounted
    <2>2. QED
      BY <1>1, <1>11, <2>1
  <1>14. \A p \in d.pins : \E r \in R : r.seq = p.seq /\ r.gen = p.gen
    BY <1>1 DEF Accounted
  <1>15. Spans(d.gaps)
    BY DEF Accounted
  <1>16. s.next = t + 1
    BY <1>1
  <1>17. e = [state |-> e.state, rows |-> e.rows, pins |-> e.pins, gaps |-> e.gaps]
    BY <1>1, <1>2
  <1>18. Accounted(e)
    <2>1. e.state \in WindowStates /\ e.state.next = t + 1
      BY <1>2, <1>16
    <2>2. /\ e.rows \subseteq WindowRow /\ IsFiniteSet(e.rows) /\ Cardinality(e.rows) <= SPOOL_SLOTS
          /\ \A r, q \in e.rows : r.seq = q.seq => r = q
      BY <1>2, <1>5, <1>6
    <2>3. /\ \A r \in e.rows : r.seq < e.state.next /\ ~Covers(e.gaps, r.seq)
          /\ \A n \in Nat : Covers(e.gaps, n) => n < e.state.next
      BY <1>2, <1>9, <1>10, <2>1
    <2>4. \A n \in Nat : n < e.state.next => n \in Seqs(e.rows) \/ Covers(e.gaps, n)
      BY <1>2, <1>12, <2>1
    <2>5. /\ \A k \in Keys : e.state.current[k] # None => e.state.current[k] \in Seqs(e.rows)
          /\ \A p \in e.pins : \E r \in e.rows : r.seq = p.seq /\ r.gen = p.gen
          /\ Spans(e.gaps)
      BY <1>2, <1>13, <1>14, <1>15
    <2>6. QED
      BY <1>17, <2>1, <2>2, <2>3, <2>4, <2>5 DEF Accounted
  <1>19. \A r \in d.rows : r.seq \in Seqs(R)
    BY <1>1 DEF Seqs
  <1>20. Keeps(d, e)
    <2>1. \A r \in d.rows : r.seq \in Seqs(e.rows)
      BY <1>2, <1>19
    <2>2. e.state.next >= d.state.next
      <3>1. e.state.next = t + 1 /\ d.state.next = t
        BY <1>1, <1>2, <1>16
      <3>2. QED
        BY <1>3, <3>1
    <2>3. QED
      BY <2>1, <2>2 DEF Keeps
  <1>21. QED
    BY <1>18, <1>20

\* A capture is prepared.
LEMMA PrepareKeeps ==
  ASSUME WindowInv, NEW h \in Handles, NEW input \in Inputs, prepare_capture(h, input)
  PROVE  WindowInv'
  <1>1. Accounted(db) /\ db # Empty
    BY LoadedJournal DEF prepare_capture
  <1>2. PICK z : z = db.state
    OBVIOUS
  <1>3. z \in WindowStates /\ z.next \in Nat /\ z.gen \in Nat
    BY <1>1, <1>2, StateNumbers DEF Accounted
  <1>4. PICK row : row = [seq |-> z.next, gen |-> z.gen, by |-> h, input |-> input, settled |-> FALSE]
    OBVIOUS
  <1>5. row \in WindowRow /\ row.seq = z.next /\ row.input = input
    BY <1>3, <1>4 DEF WindowRow
  <1>6. PICK K, t : K = CurrentAfter(row) /\ t = z.next + 1
    OBVIOUS
  <1>7. K \in [Keys -> Nat \cup {None}] /\ \A k \in Keys : K[k] = row.seq \/ K[k] = z.current[k]
    <2>1. PICK b : b = input.binding
      OBVIOUS
    <2>2. b.key \in Keys
      BY <2>1, WindowAssumption
    <2>3. K = [z.current EXCEPT ![b.key] = row.seq] \/ K = z.current
      BY <1>2, <1>5, <1>6, <2>1 DEF CurrentAfter
    <2>4. z.current \in [Keys -> Nat \cup {None}]
      BY <1>3 DEF WindowStates
    <2>5. CASE K = [z.current EXCEPT ![b.key] = row.seq]
      BY <1>3, <1>5, <2>2, <2>4, <2>5
    <2>6. CASE K = z.current
      BY <2>4, <2>6
    <2>7. QED
      BY <2>3, <2>5, <2>6
  <1>8. PICK s : s = [z EXCEPT !.next = t, !.current = K]
    OBVIOUS
  <1>9. s \in WindowStates /\ s.next = t /\ s.current = K /\ s.rev = z.rev
    <2>1. t \in Nat
      BY <1>3, <1>6
    <2>2. QED
      BY <1>3, <1>7, <1>8, <2>1 DEF WindowStates
  <1>10. PICK i : i = [state |-> s, rows |-> db.rows \cup {row}, pins |-> db.pins, gaps |-> db.gaps]
    OBVIOUS
  <1>11. i = [db EXCEPT !.rows = @ \cup {row}, !.state.next = @ + 1, !.state.current = CurrentAfter(row)]
    <2>1. db = [state |-> z, rows |-> db.rows, pins |-> db.pins, gaps |-> db.gaps]
      BY <1>1, <1>2 DEF Accounted
    <2>2. PICK R, P, G : R = db.rows /\ P = db.pins /\ G = db.gaps
      OBVIOUS
    <2>3. db = [state |-> z, rows |-> R, pins |-> P, gaps |-> G]
      BY <2>1, <2>2
    <2>4. i = [state |-> s, rows |-> R \cup {row}, pins |-> P, gaps |-> G]
      BY <1>10, <2>2
    <2>5. PICK y : y = [z EXCEPT !.next = t]
      OBVIOUS
    <2>6. y.next = t /\ s = [y EXCEPT !.current = K]
      BY <1>3, <1>8, <2>5 DEF WindowStates
    <2>7. PICK m, n : /\ m = [state |-> z, rows |-> R \cup {row}, pins |-> P, gaps |-> G]
                      /\ n = [state |-> y, rows |-> R \cup {row}, pins |-> P, gaps |-> G]
      OBVIOUS
    <2>8. [db EXCEPT !.rows = @ \cup {row}] = m
      BY <2>3, <2>7
    <2>9. [m EXCEPT !.state.next = @ + 1] = n
      BY <1>6, <2>5, <2>7
    <2>10. [n EXCEPT !.state.current = CurrentAfter(row)] = i
      BY <1>6, <2>4, <2>6, <2>7
    <2>11. QED
      BY <2>8, <2>9, <2>10
  <1>12. Cardinality(db.rows) < SPOOL_SLOTS
    <2>1. ~(Cardinality(db.rows) >= SPOOL_SLOTS)
      BY DEF prepare_capture, SpoolFull
    <2>2. Cardinality(db.rows) \in Nat /\ SPOOL_SLOTS \in Nat
      BY <1>1, FS_CardinalityType, WindowAssumption DEF Accounted
    <2>3. QED
      BY <2>1, <2>2
  <1>13. Accounted(i) /\ Keeps(db, i)
    BY <1>1, <1>2, <1>5, <1>6, <1>7, <1>9, <1>10, <1>12, RowAppended
  <1>14. i.state.rev = db.state.rev
    BY <1>2, <1>9, <1>10
  <1>15. PICK k : k = [ticket |-> Ticket(db, advance(i)), origin |-> clock]
    OBVIOUS
  <1>16. captured' = k /\ UNCHANGED <<db, receipts, log, call, orphan>>
    BY <1>2, <1>4, <1>11, <1>15 DEF prepare_capture
  <1>17. TicketSound(Ticket(db, advance(i)), db)
    BY <1>13, <1>14, NewTicket DEF WindowInv
  <1>18. TicketSound(k.ticket, db)
    BY <1>15, <1>17
  <1>19. QED
    BY <1>16, <1>18 DEF WindowInv

\* A capture is submitted, or reconciled, with the ticket it was prepared with.
LEMMA SubmitKeeps ==
  ASSUME WindowInv, NEW h \in Handles, submit_capture(h) \/ reconcile_capture(h)
  PROVE  WindowInv'
  <1>1. captured # None /\ UNCHANGED <<db, receipts, log, captured, orphan>>
    BY DEF submit_capture, reconcile_capture
  <1>2. TicketSound(captured.ticket, db)
    BY <1>1 DEF WindowInv
  <1>3. PICK op : Enter(h, op, captured.ticket)
    BY DEF submit_capture, reconcile_capture
  <1>4. QED
    BY <1>1, <1>2, <1>3, EnterKeeps

\* Time passes for the window.
LEMMA TickKeeps == WindowInv /\ Tick => WindowInv'
  BY DEF WindowInv, Tick


-----------------------------------------------------------------------------
\* A journal with other pins of its rows.
LEMMA PinsChanged ==
  ASSUME NEW d, Accounted(d), NEW P,
         \A p \in P : \E r \in d.rows : r.seq = p.seq /\ r.gen = p.gen,
         NEW e, e = [d EXCEPT !.pins = P]
  PROVE  Accounted(e) /\ Keeps(d, e) /\ e.state = d.state
  <1>1. PICK z, r, p, g : z = d.state /\ r = d.rows /\ p = d.pins /\ g = d.gaps
    OBVIOUS
  <1>2. d = [state |-> z, rows |-> r, pins |-> p, gaps |-> g]
    BY <1>1 DEF Accounted
  <1>3. e = [state |-> z, rows |-> r, pins |-> P, gaps |-> g]
    BY <1>2
  <1>4. e.state = z /\ e.rows = r /\ e.pins = P /\ e.gaps = g
    BY <1>3
  <1>5. e = [state |-> e.state, rows |-> e.rows, pins |-> e.pins, gaps |-> e.gaps]
    BY <1>3, <1>4
  <1>6. Accounted(e)
    BY <1>1, <1>4, <1>5 DEF Accounted
  <1>7. d.state.next \in Nat
    BY StateNumbers
  <1>8. QED
    BY <1>1, <1>4, <1>6, <1>7 DEF Keeps, Seqs

\* A row is pinned, and expired pins are dropped.
LEMMA PinKeeps ==
  ASSUME WindowInv, NEW h \in Handles, NEW r \in db.rows, pin(h, r)
  PROVE  WindowInv'
  <1>1. Accounted(db) /\ db # Empty
    BY LoadedJournal DEF pin
  <1>2. PICK n : n = [lease |-> lease[h], admit |-> db.state.rev + 1, seq |-> r.seq,
                      gen |-> r.gen, origin |-> clock]
    OBVIOUS
  <1>3. PICK P : P = reap(db.pins, clock) \cup {n}
    OBVIOUS
  <1>4. PICK i : i = [db EXCEPT !.pins = P]
    OBVIOUS
  <1>5. n.seq = r.seq /\ n.gen = r.gen
    BY <1>2
  <1>6. \A p \in P : p \in db.pins \/ p = n
    BY <1>3 DEF reap
  <1>7. \A p \in P : \E q \in db.rows : q.seq = p.seq /\ q.gen = p.gen
    BY <1>1, <1>5, <1>6 DEF Accounted
  <1>8. Accounted(i) /\ Keeps(db, i) /\ i.state = db.state
    BY <1>1, <1>4, <1>7, PinsChanged
  <1>9. Change(h, "pin", i)
    BY <1>2, <1>3, <1>4 DEF pin
  <1>10. QED
    BY <1>8, <1>9, ChangeKeeps DEF pin

\* A pin is released.
LEMMA ReleaseKeeps ==
  ASSUME WindowInv, NEW h \in Handles, release_pin(h)
  PROVE  WindowInv'
  <1>1. Accounted(db) /\ db # Empty
    BY LoadedJournal DEF release_pin
  <1>2. PICK P : P = db.pins \ {token[h]}
    OBVIOUS
  <1>3. PICK i : i = [db EXCEPT !.pins = P]
    OBVIOUS
  <1>4. \A p \in P : \E q \in db.rows : q.seq = p.seq /\ q.gen = p.gen
    BY <1>1, <1>2 DEF Accounted
  <1>5. Accounted(i) /\ Keeps(db, i) /\ i.state = db.state
    BY <1>1, <1>3, <1>4, PinsChanged
  <1>6. i = [db EXCEPT !.pins = @ \ {token[h]}]
    BY <1>2, <1>3
  <1>7. Change(h, "release", i)
    BY <1>6 DEF release_pin
  <1>8. QED
    BY <1>5, <1>7, ChangeKeeps DEF release_pin

\* A row is settled in its place.
LEMMA SettleKeeps ==
  ASSUME WindowInv, NEW h \in Handles, NEW r \in db.rows, settle(h, r)
  PROVE  WindowInv'
  <1>1. Accounted(db) /\ db # Empty
    BY LoadedJournal DEF settle
  <1>2. PICK n : n = [r EXCEPT !.settled = TRUE]
    OBVIOUS
  <1>3. r \in WindowRow /\ n \in WindowRow /\ n.seq = r.seq /\ n.gen = r.gen
    <2>1. r \in WindowRow
      BY <1>1 DEF Accounted
    <2>2. QED
      BY <1>2, <2>1 DEF WindowRow
  <1>4. PICK d : d = db
    OBVIOUS
  <1>5. PICK R : R = (d.rows \ {r}) \cup {n}
    OBVIOUS
  <1>6. PICK z, p, g : z = d.state /\ p = d.pins /\ g = d.gaps
    OBVIOUS
  <1>7. PICK e : e = [d EXCEPT !.rows = R]
    OBVIOUS
  <1>8. e = [state |-> z, rows |-> R, pins |-> p, gaps |-> g]
    <2>1. PICK q : q = d.rows
      OBVIOUS
    <2>2. d = [state |-> z, rows |-> q, pins |-> p, gaps |-> g]
      BY <1>1, <1>4, <1>6, <2>1 DEF Accounted
    <2>3. QED
      BY <1>7, <2>2
  <1>9. e.state = z /\ e.rows = R /\ e.pins = p /\ e.gaps = g
    BY <1>8
  <1>10. \A q \in d.rows : q.seq = r.seq => q = r
    BY <1>1, <1>4 DEF Accounted
  <1>11. Seqs(R) = Seqs(d.rows)
    <2>1. ASSUME NEW q \in d.rows PROVE q.seq \in Seqs(R)
      <3>1. CASE q = r
        BY <1>3, <1>5, <3>1 DEF Seqs
      <3>2. CASE q # r
        BY <1>5, <3>2 DEF Seqs
      <3>3. QED
        BY <3>1, <3>2
    <2>2. ASSUME NEW q \in R PROVE q.seq \in Seqs(d.rows)
      BY <1>3, <1>4, <1>5 DEF Seqs
    <2>3. QED
      BY <2>1, <2>2 DEF Seqs
  <1>12. R \subseteq WindowRow /\ IsFiniteSet(R) /\ Cardinality(R) <= SPOOL_SLOTS
    <2>1. IsFiniteSet(d.rows) /\ d.rows \subseteq WindowRow /\ Cardinality(d.rows) <= SPOOL_SLOTS
      BY <1>1, <1>4 DEF Accounted
    <2>2. /\ IsFiniteSet(d.rows \ {r}) /\ Cardinality(d.rows \ {r}) = Cardinality(d.rows) - 1
          /\ Cardinality(d.rows) \in Nat
      BY <1>4, <2>1, FS_RemoveElement, FS_CardinalityType
    <2>3. PICK Q : Q = d.rows \ {r}
      OBVIOUS
    <2>4. IsFiniteSet(Q) /\ Cardinality(Q) = Cardinality(d.rows) - 1 /\ R = Q \cup {n}
      BY <1>5, <2>2, <2>3
    <2>5. n \notin Q
      BY <1>3, <1>10, <2>3
    <2>6. IsFiniteSet(R) /\ Cardinality(R) = Cardinality(Q) + 1
      BY <2>4, <2>5, FS_AddElement
    <2>7. Cardinality(R) <= SPOOL_SLOTS
      BY <2>1, <2>2, <2>4, <2>6
    <2>8. QED
      BY <1>3, <1>5, <2>1, <2>6, <2>7
  <1>13. \A a, b \in R : a.seq = b.seq => a = b
    BY <1>1, <1>3, <1>4, <1>5, <1>10 DEF Accounted
  <1>14. \A a \in R : a.seq < z.next /\ ~Covers(g, a.seq)
    <2>1. \A a \in d.rows : a.seq < z.next /\ ~Covers(g, a.seq)
      BY <1>1, <1>4, <1>6 DEF Accounted
    <2>2. QED
      BY <1>3, <1>4, <1>5, <2>1
  <1>15. \A a \in p : \E b \in R : b.seq = a.seq /\ b.gen = a.gen
    <2>1. ASSUME NEW a \in p PROVE \E b \in R : b.seq = a.seq /\ b.gen = a.gen
      <3>1. PICK b \in d.rows : b.seq = a.seq /\ b.gen = a.gen
        BY <1>1, <1>4, <1>6 DEF Accounted
      <3>2. CASE b = r
        BY <1>3, <1>5, <3>1, <3>2
      <3>3. CASE b # r
        BY <1>5, <3>1, <3>3
      <3>4. QED
        BY <3>2, <3>3
    <2>2. QED
      BY <2>1
  <1>16. /\ z \in WindowStates /\ Spans(g)
         /\ \A m \in Nat : Covers(g, m) => m < z.next
         /\ \A m \in Nat : m < z.next => m \in Seqs(R) \/ Covers(g, m)
         /\ \A k \in Keys : z.current[k] # None => z.current[k] \in Seqs(R)
    BY <1>1, <1>4, <1>6, <1>11 DEF Accounted
  <1>17. e = [state |-> e.state, rows |-> e.rows, pins |-> e.pins, gaps |-> e.gaps]
    BY <1>8, <1>9
  <1>18. Accounted(e)
    BY <1>9, <1>12, <1>13, <1>14, <1>15, <1>16, <1>17 DEF Accounted
  <1>19. Keeps(d, e)
    <2>1. \A a \in d.rows : a.seq \in Seqs(e.rows)
      BY <1>9, <1>11 DEF Seqs
    <2>2. d.state.next \in Nat /\ e.state.next = d.state.next
      BY <1>1, <1>4, <1>6, <1>9, StateNumbers
    <2>3. QED
      BY <2>1, <2>2 DEF Keeps
  <1>20. Change(h, "settle", e)
    <2>1. e = [db EXCEPT !.rows = (@ \ {r}) \cup {[r EXCEPT !.settled = TRUE]}]
      BY <1>2, <1>4, <1>5, <1>7
    <2>2. QED
      BY <2>1 DEF settle
  <1>21. e.state.rev = db.state.rev
    BY <1>4, <1>6, <1>9
  <1>22. QED
    BY <1>4, <1>18, <1>19, <1>20, <1>21, ChangeKeeps DEF settle


\* The rows that go leave a gap where they were, and nothing that refers to
\* them.
LEMMA RowsEvicted ==
  ASSUME NEW d, Accounted(d), NEW P, P \subseteq d.pins, NEW gone, gone = Evicted(d, P),
         NEW G, G = swept(d, gone)[d.state.next], NEW Q, Q = d.rows \ gone,
         NEW e, e = [state |-> d.state, rows |-> Q, pins |-> P, gaps |-> G]
  PROVE  Accounted(e) /\ Keeps(d, e) /\ e.state = d.state
  <1>1. PICK z, r, p, g : z = d.state /\ r = d.rows /\ p = d.pins /\ g = d.gaps
    OBVIOUS
  <1>2. Q = r \ gone
    BY <1>1
  <1>3. e = [state |-> z, rows |-> Q, pins |-> P, gaps |-> G]
    BY <1>1
  <1>4. e.state = z /\ e.rows = Q /\ e.pins = P /\ e.gaps = G
    BY <1>3
  <1>5. \A q \in gone : /\ q \in r /\ (~q.input.mandatory \/ q.settled)
                        /\ \A k \in Keys : z.current[k] # q.seq
                        /\ \A x \in P : x.seq # q.seq
    BY <1>1 DEF Evicted, Evictable
  <1>6. /\ z \in WindowStates /\ z.next \in Nat /\ r \subseteq WindowRow /\ IsFiniteSet(r)
        /\ Cardinality(r) <= SPOOL_SLOTS /\ \A q \in r : q.seq \in Nat
        /\ \A a, b \in r : a.seq = b.seq => a = b
        /\ \A q \in r : q.seq < z.next /\ ~Covers(g, q.seq)
    BY <1>1, StateNumbers DEF Accounted
  <1>7. /\ Spans(g) /\ \A n \in Nat : Covers(g, n) => n < z.next
        /\ \A n \in Nat : n < z.next => n \in Seqs(r) \/ Covers(g, n)
        /\ \A k \in Keys : z.current[k] # None => z.current[k] \in Seqs(r)
        /\ \A x \in p : \E q \in r : q.seq = x.seq /\ q.gen = x.gen
    BY <1>1 DEF Accounted
  <1>8. \A n \in Nat : n \in Seqs(gone) => ~Covers(g, n)
    BY <1>5, <1>6 DEF Seqs
  <1>9. /\ Spans(G)
        /\ \A n \in Nat : Covers(G, n) <=> Covers(g, n) \/ (n < z.next /\ n \in Seqs(gone))
    BY <1>1, <1>2, <1>6, <1>7, <1>8, SweepCovers
  <1>10. Q \subseteq WindowRow /\ IsFiniteSet(Q) /\ Cardinality(Q) <= SPOOL_SLOTS
    <2>1. IsFiniteSet(Q) /\ Cardinality(Q) <= Cardinality(r)
      BY <1>2, <1>6, FS_Subset
    <2>2. Cardinality(Q) \in Nat /\ Cardinality(r) \in Nat /\ SPOOL_SLOTS \in Nat
      BY <1>6, <2>1, FS_CardinalityType, WindowAssumption
    <2>3. QED
      BY <1>2, <1>6, <2>1, <2>2
  <1>11. ASSUME NEW q \in r, q.seq \notin Seqs(gone) PROVE q \in Q
    BY <1>2, <1>11 DEF Seqs
  <1>12. ASSUME NEW q \in Q PROVE q \in r /\ q.seq \notin Seqs(gone)
    BY <1>2, <1>5, <1>6 DEF Seqs
  <1>13. \A q \in Q : q.seq < z.next /\ ~Covers(G, q.seq)
    BY <1>6, <1>9, <1>12
  <1>14. \A n \in Nat : Covers(G, n) => n < z.next
    BY <1>7, <1>9
  <1>15. ASSUME NEW n \in Nat, n < z.next PROVE n \in Seqs(Q) \/ Covers(G, n)
    <2>1. CASE Covers(g, n) \/ n \in Seqs(gone)
      BY <1>9, <1>15, <2>1
    <2>2. CASE ~Covers(g, n) /\ n \notin Seqs(gone)
      <3>1. n \in Seqs(r)
        BY <1>7, <1>15, <2>2
      <3>2. PICK q \in r : q.seq = n
        BY <3>1 DEF Seqs
      <3>3. q \in Q
        BY <1>11, <2>2, <3>2
      <3>4. QED
        BY <3>2, <3>3 DEF Seqs
    <2>3. QED
      BY <2>1, <2>2
  <1>16. ASSUME NEW k \in Keys, z.current[k] # None PROVE z.current[k] \in Seqs(Q)
    <2>1. PICK q \in r : q.seq = z.current[k]
      BY <1>7, <1>16 DEF Seqs
    <2>2. q.seq \notin Seqs(gone)
      BY <1>5, <2>1 DEF Seqs
    <2>3. q \in Q
      BY <1>11, <2>2
    <2>4. QED
      BY <2>1, <2>3 DEF Seqs
  <1>17. ASSUME NEW x \in P PROVE \E q \in Q : q.seq = x.seq /\ q.gen = x.gen
    <2>1. PICK q \in r : q.seq = x.seq /\ q.gen = x.gen
      BY <1>1, <1>7
    <2>2. q.seq \notin Seqs(gone)
      BY <1>5, <2>1 DEF Seqs
    <2>3. q \in Q
      BY <1>11, <2>2
    <2>4. QED
      BY <2>1, <2>3
  <1>18. \A a, b \in Q : a.seq = b.seq => a = b
    BY <1>6, <1>12
  <1>19. e = [state |-> e.state, rows |-> e.rows, pins |-> e.pins, gaps |-> e.gaps]
    BY <1>3, <1>4
  <1>20. Accounted(e)
    BY <1>4, <1>6, <1>9, <1>10, <1>13, <1>14, <1>15, <1>16, <1>17, <1>18, <1>19 DEF Accounted
  <1>21. Keeps(d, e)
    <2>1. ASSUME NEW q \in d.rows,
                 (q.input.mandatory /\ ~q.settled) \/ (\E x \in d.pins \cap e.pins : x.seq = q.seq)
          PROVE  q.seq \in Seqs(e.rows)
      <3>1. q \notin gone
        BY <1>4, <1>5, <2>1
      <3>2. q \in Q
        BY <1>1, <1>2, <3>1
      <3>3. QED
        BY <1>4, <3>2 DEF Seqs
    <2>2. e.state.next = d.state.next /\ d.state.next \in Nat
      BY <1>1, <1>4, <1>6
    <2>3. e.state.next >= d.state.next
      BY <2>2
    <2>4. QED
      BY <2>1, <2>3, Zenon DEF Keeps
  <1>22. QED
    BY <1>1, <1>4, <1>20, <1>21

\* Rows are evicted, and expired pins dropped.
LEMMA EvictKeeps ==
  ASSUME WindowInv, NEW h \in Handles, evict(h)
  PROVE  WindowInv'
  <1>1. Accounted(db) /\ db # Empty
    BY LoadedJournal DEF evict
  <1>2. PICK P : P = reap(db.pins, clock)
    OBVIOUS
  <1>3. PICK gone : gone = Evicted(db, P)
    OBVIOUS
  <1>4. PICK G, Q : G = swept(db, gone)[db.state.next] /\ Q = db.rows \ gone
    OBVIOUS
  <1>5. PICK i : i = [state |-> db.state, rows |-> Q, pins |-> P, gaps |-> G]
    OBVIOUS
  <1>6. P \subseteq db.pins
    BY <1>2 DEF reap
  <1>7. Accounted(i) /\ Keeps(db, i) /\ i.state = db.state
    BY <1>1, <1>3, <1>4, <1>5, <1>6, RowsEvicted
  <1>8. i = [db EXCEPT !.pins = P, !.rows = @ \ gone, !.gaps = G]
    <2>1. PICK z, r, p, g : z = db.state /\ r = db.rows /\ p = db.pins /\ g = db.gaps
      OBVIOUS
    <2>2. db = [state |-> z, rows |-> r, pins |-> p, gaps |-> g]
      BY <1>1, <2>1 DEF Accounted
    <2>3. i = [state |-> z, rows |-> Q, pins |-> P, gaps |-> G] /\ Q = r \ gone
      BY <1>4, <1>5, <2>1
    <2>4. PICK m, n : /\ m = [state |-> z, rows |-> r, pins |-> P, gaps |-> g]
                      /\ n = [state |-> z, rows |-> r \ gone, pins |-> P, gaps |-> g]
      OBVIOUS
    <2>5. [db EXCEPT !.pins = P] = m
      BY <2>2, <2>4
    <2>6. [m EXCEPT !.rows = @ \ gone] = n
      BY <2>4
    <2>7. [n EXCEPT !.gaps = G] = i
      BY <2>3, <2>4
    <2>8. QED
      BY <2>5, <2>6, <2>7
  <1>9. Change(h, "evict", i)
    BY <1>2, <1>3, <1>4, <1>8 DEF evict
  <1>10. QED
    BY <1>7, <1>9, ChangeKeeps DEF evict

-----------------------------------------------------------------------------
\* A window starts with no journal and no ticket.
LEMMA WindowStarts == Init => WindowInv
  <1> SUFFICES ASSUME Init PROVE WindowInv
    OBVIOUS
  <1>1. DOMAIN call = Handles /\ \A h \in Handles : CallSound(call[h], db)
    BY DEF Init, CallSound
  <1>2. QED
    BY <1>1 DEF Init, WindowInv, Image, Logged

\* Every step keeps the window sound.
LEMMA WindowSteps == WindowInv /\ [Next]_vars => WindowInv'
  <1> SUFFICES ASSUME WindowInv, [Next]_vars PROVE WindowInv'
    OBVIOUS
  <1>1. ASSUME NEW h \in Handles, Store(h) PROVE WindowInv'
    BY <1>1, AnswerKeeps, StoreCommitKeeps, DenyKeeps DEF Store
  <1>2. ASSUME NEW h \in Handles, Operate(h) PROVE WindowInv'
    <2>1. ASSUME NEW intact, open_synthetic(h, intact) PROVE WindowInv'
      BY <2>1, OpenKeeps
    <2>2. ASSUME NEW i \in Inputs, prepare_capture(h, i) PROVE WindowInv'
      BY <2>2, PrepareKeeps
    <2>3. ASSUME NEW b \in Bindings, select_binding(h, b) PROVE WindowInv'
      BY <2>3, WindowSelectKeeps
    <2>4. CASE submit_capture(h) \/ reconcile_capture(h)
      BY <2>4, SubmitKeeps
    <2>5. ASSUME NEW r \in db.rows, settle(h, r) \/ pin(h, r) PROVE WindowInv'
      BY <2>5, SettleKeeps, PinKeeps
    <2>6. CASE release_pin(h) \/ evict(h)
      BY <2>6, ReleaseKeeps, EvictKeeps
    <2>7. QED
      BY <1>2, <2>1, <2>2, <2>3, <2>4, <2>5, <2>6 DEF Operate
  <1>3. CASE Tick
    BY <1>3, TickKeeps
  <1>4. ASSUME NEW h \in Handles, NEW reboot, Crash(h, reboot) PROVE WindowInv'
    BY <1>4, CrashKeeps
  <1>5. CASE OrphanEnds
    BY <1>5, OrphanKeeps
  <1>6. CASE UNCHANGED vars
    BY <1>6 DEF vars, WindowInv
  <1>7. QED
    BY <1>1, <1>2, <1>3, <1>4, <1>5, <1>6 DEF Next

\* The inductive invariant of the durable window.
THEOREM WindowInvariant == Spec => []WindowInv
  <1>1. Init => WindowInv
    BY WindowStarts
  <1>2. WindowInv /\ [Next]_vars => WindowInv'
    BY WindowSteps
  <1>3. QED
    BY <1>1, <1>2, PTL DEF Spec


-----------------------------------------------------------------------------
\* A set is empty or has one element, and counts so.
LEMMA CountsOne ==
  ASSUME NEW S, NEW x
  PROVE  (S = {} => Cardinality(S) = 0) /\ (S = {x} => Cardinality(S) = 1)
  BY FS_EmptySet, FS_Singleton

\* A position below the tail is one row and in no gap, or in one gap and no row.
LEMMA PositionsOnce ==
  ASSUME NEW d, Accounted(d), NEW s \in Nat, s < d.state.next
  PROVE  Cardinality({r \in d.rows : r.seq = s}) + Cardinality({g \in d.gaps : s \in g.from .. g.to}) = 1
  <1>1. PICK R, G : R = {r \in d.rows : r.seq = s} /\ G = {g \in d.gaps : s \in g.from .. g.to}
    OBVIOUS
  <1>2. \A g \in d.gaps : g.from \in Nat /\ g.to \in Nat
    <2>1. d.gaps \subseteq Gap
      BY DEF Accounted, Spans
    <2>2. QED
      BY <2>1 DEF Gap
  <1>3. \A g \in d.gaps : g \in G <=> g.from <= s /\ s <= g.to
    BY <1>1, <1>2
  <1>4. CASE s \in Seqs(d.rows)
    <2>1. PICK r \in d.rows : r.seq = s
      BY <1>4 DEF Seqs
    <2>2. R = {r}
      BY <1>1, <2>1 DEF Accounted
    <2>3. ~Covers(d.gaps, s)
      BY <2>1 DEF Accounted
    <2>4. G = {}
      BY <1>1, <1>3, <2>3 DEF Covers
    <2>5. Cardinality(R) = 1 /\ Cardinality(G) = 0
      BY <2>2, <2>4, CountsOne
    <2>6. QED
      BY <1>1, <2>5
  <1>5. CASE s \notin Seqs(d.rows)
    <2>1. R = {}
      BY <1>1, <1>5 DEF Seqs
    <2>2. Covers(d.gaps, s)
      BY <1>5 DEF Accounted
    <2>3. PICK g \in d.gaps : g.from <= s /\ s <= g.to
      BY <2>2 DEF Covers
    <2>4. \A k \in d.gaps : g = k \/ g.to < k.from \/ k.to < g.from
      BY DEF Accounted, Spans
    <2>5. ASSUME NEW k \in G PROVE k = g
      <3>1. k \in d.gaps /\ k.from <= s /\ s <= k.to
        BY <1>1, <1>3
      <3>2. QED
        BY <1>2, <2>3, <2>4, <3>1
    <2>6. G = {g}
      BY <1>1, <1>3, <2>3, <2>5
    <2>7. Cardinality(R) = 0 /\ Cardinality(G) = 1
      BY <2>1, <2>6, CountsOne
    <2>8. QED
      BY <1>1, <2>7
  <1>6. QED
    BY <1>4, <1>5

\* An answer is not a refusal.
LEMMA AnswersDiffer ==
  ASSUME NEW a, NEW code, "refused" \notin DOMAIN a
  PROVE  a # Refuse(code)
  <1>1. DOMAIN Refuse(code) = {"refused"}
    BY DEF Refuse
  <1>2. QED
    BY <1>1

\* Every page is served.
LEMMA PagesServed ==
  ASSUME NEW d, Accounted(d), NEW from \in Nat, NEW limit \in Nat
  PROVE  replay(d, from, limit) # Refuse("unaccounted-history-gap")
  <1>1. d.state.next \in Nat /\ REPLAY_ROWS \in Nat
    BY StateNumbers, WindowAssumption
  <1>2. PICK b : b = Min({limit, REPLAY_ROWS})
    OBVIOUS
  <1>3. b \in Nat /\ from + b \in Nat
    BY <1>1, <1>2, MinOfTwo
  <1>4. PICK next : next = Min({from + b, d.state.next})
    OBVIOUS
  <1>5. next \in Nat /\ next <= d.state.next
    BY <1>1, <1>3, <1>4, MinOfTwo
  <1>6. PICK page, gaps : /\ page = from .. next - 1
                          /\ gaps = {g \in d.gaps : g.from < next /\ g.to >= from}
    OBVIOUS
  <1>7. ASSUME NEW s \in page PROVE s \in Seqs(d.rows) \/ \E g \in gaps : s \in g.from .. g.to
    <2>1. s \in Nat /\ from <= s /\ s < next /\ s < d.state.next
      BY <1>1, <1>5, <1>6
    <2>2. CASE s \in Seqs(d.rows)
      BY <2>2
    <2>3. CASE Covers(d.gaps, s)
      <3>1. PICK g \in d.gaps : g.from <= s /\ s <= g.to
        BY <2>3 DEF Covers
      <3>2. d.gaps \subseteq Gap
        BY DEF Accounted, Spans
      <3>3. g.from \in Nat /\ g.to \in Nat
        BY <3>2 DEF Gap
      <3>4. g.from < next /\ g.to >= from /\ s \in g.from .. g.to
        BY <1>5, <2>1, <3>1, <3>3
      <3>5. QED
        BY <1>6, <3>4
    <2>4. QED
      BY <2>1, <2>2, <2>3 DEF Accounted
  <1>8. PICK A : A = [records |-> {r \in d.rows : r.seq \in page},
                      next |-> next, more |-> next < d.state.next,
                      gaps |-> {[from |-> Max({g.from, from}), to |-> Min({g.to, next - 1})] : g \in gaps}]
    OBVIOUS
  <1>9. replay(d, from, limit) = A
    BY <1>2, <1>4, <1>6, <1>7, <1>8 DEF replay
  <1>10. "refused" \notin DOMAIN A
    BY <1>8
  <1>11. QED
    BY <1>9, <1>10, AnswersDiffer

\* Every current value finds its row.
LEMMA CurrentFound ==
  ASSUME NEW d, Accounted(d), NEW k \in Keys
  PROVE  current(d, k) # Refuse("current-reference-missing")
  <1>1. PICK c : c = d.state.current[k]
    OBVIOUS
  <1>2. ~(c # None /\ \A r \in d.rows : r.seq # c)
    BY <1>1 DEF Accounted, Seqs
  <1>3. PICK A : A = [found |-> {r \in d.rows : c # None /\ r.seq = c}]
    OBVIOUS
  <1>4. current(d, k) = A
    BY <1>1, <1>2, <1>3 DEF current
  <1>5. "refused" \notin DOMAIN A
    BY <1>3
  <1>6. QED
    BY <1>4, <1>5, AnswersDiffer

\* Every pin finds its row.
LEMMA PinFound ==
  ASSUME NEW d, Accounted(d), NEW p \in d.pins, NEW now
  PROVE  materialize(d, p, now) # Refuse("pin-data-missing")
  <1>1. PICK F : F = {r \in d.rows : r.seq = p.seq /\ r.gen = p.gen}
    OBVIOUS
  <1>2. F # {}
    BY <1>1 DEF Accounted
  <1>3. PICK A : A = [found |-> F]
    OBVIOUS
  <1>4. \/ materialize(d, p, now) = Refuse("clock-ambiguous")
        \/ materialize(d, p, now) = Refuse("pin-expired")
        \/ materialize(d, p, now) = A
    BY <1>1, <1>2, <1>3 DEF materialize
  <1>5. /\ Refuse("clock-ambiguous") # Refuse("pin-data-missing")
        /\ Refuse("pin-expired") # Refuse("pin-data-missing")
    <2>1. \A a, b : [refused |-> a] = [refused |-> b] => a = b
      OBVIOUS
    <2>2. QED
      BY <2>1 DEF Refuse
  <1>6. "refused" \notin DOMAIN A
    BY <1>3
  <1>7. QED
    BY <1>4, <1>5, <1>6, AnswersDiffer

\* No reader meets a hole: every position below the tail is one row or lies in
\* one gap, every page of replay is served, every current value and every held
\* pin finds its row (evict, add_gap, replay, materialize): WindowAccounted.
THEOREM NoHoles == Spec => []WindowAccounted
  <1>1. WindowInv => WindowAccounted
    <2> SUFFICES ASSUME WindowInv, db.state # None PROVE WindowAccounted
      BY DEF WindowAccounted
    <2>1. Accounted(db)
      BY DEF WindowInv, Image, Empty
    <2>2. db.state.next \in Nat /\ REPLAY_ROWS \in Nat
      BY <2>1, StateNumbers, WindowAssumption
    <2>3. \A s \in 0 .. db.state.next - 1 : s \in Nat /\ s < db.state.next
      BY <2>2
    <2>4. \A from \in 0 .. db.state.next : from \in Nat
      OBVIOUS
    <2>5. \A limit \in 1 .. REPLAY_ROWS : limit \in Nat
      BY <2>2
    <2>6. \A s \in 0 .. db.state.next - 1 :
              Cardinality({r \in db.rows : r.seq = s}) +
              Cardinality({g \in db.gaps : s \in g.from .. g.to}) = 1
      BY <2>1, <2>3, PositionsOnce
    <2>7. \A from \in 0 .. db.state.next, limit \in 1 .. REPLAY_ROWS :
              replay(db, from, limit) # Refuse("unaccounted-history-gap")
      BY <2>1, <2>4, <2>5, PagesServed
    <2>8. \A k \in Keys : current(db, k) # Refuse("current-reference-missing")
      BY <2>1, CurrentFound
    <2>9. \A p \in db.pins : materialize(db, p, clock) # Refuse("pin-data-missing")
      BY <2>1, PinFound
    <2>10. QED
      BY <2>6, <2>7, <2>8, <2>9 DEF WindowAccounted
  <1>2. QED
    BY <1>1, WindowInvariant, PTL

\* A NotCommitted answer is true although receipts are pruned
\* (retained_outcome): AbsenceProven.
THEOREM AbsenceIsProof == Spec => []AbsenceProven
  <1>1. WindowInv => AbsenceProven
    <2> SUFFICES ASSUME WindowInv, NEW h \in Handles, call[h] # None, call[h].phase = "horizon",
                        retained_outcome(call[h].ticket.rev), call[h].past
                 PROVE  FALSE
      BY DEF AbsenceProven
    <2>1. PICK rev : rev = call[h].ticket.rev
      OBVIOUS
    <2>2. db # Empty /\ rev \in Nat /\ rev + REPLAY_ROWS <= db.state.rev
      BY <2>1 DEF WindowInv, CallSound, Outside
    <2>3. db.state.rev \in Nat /\ REPLAY_ROWS \in Nat
      BY <2>2, StateNumbers, WindowAssumption DEF WindowInv, Image
    <2>4. db.state.rev < rev \/ db.state.rev - rev < REPLAY_ROWS
      BY <2>1 DEF retained_outcome
    <2>5. QED
      BY <2>2, <2>3, <2>4
  <1>2. QED
    BY <1>1, WindowInvariant, PTL

\* What is held stays: a commit keeps unsettled mandatory rows and pinned rows,
\* holds the rows to the spool, raises the revision by one and never lowers
\* the tail, so no commit is lost under another (evict, prepare_capture,
\* load): HeldRowsStay.
THEOREM HeldStays == Spec => HeldRowsStay
  <1> DEFINE Holds ==
        db' # db =>
          /\ \A r \in db.rows :
                (r.input.mandatory /\ ~r.settled) \/ (\E p \in db.pins \cap db'.pins : p.seq = r.seq)
                   => r.seq \in Seqs(db'.rows)
          /\ Cardinality(db'.rows) <= SPOOL_SLOTS
          /\ db.state # None => /\ db'.state.rev = db.state.rev + 1
                                /\ db'.state.next >= db.state.next
  <1>1. WindowInv /\ [Next]_vars => [Holds]_vars
    <2> SUFFICES ASSUME WindowInv, [Next]_vars, db' # db PROVE Holds
      OBVIOUS
    <2>1. \E t : TicketSound(t, db) /\ Commits(t) /\ Commit(t)
      <3>1. ASSUME NEW h \in Handles, Store(h)
            PROVE  \E t : TicketSound(t, db) /\ Commits(t) /\ Commit(t)
        <4>1. StoreCommits(h)
          BY <3>1 DEF Store, StoreReplays, StoreFails, StoreDenies, WeighsAbsence
        <4>2. QED
          BY <4>1, CallTicket DEF StoreCommits
      <3>2. ASSUME NEW h \in Handles, Operate(h) PROVE FALSE
        BY <3>2 DEF Operate, open_synthetic, prepare_capture, select_binding, submit_capture,
                    reconcile_capture, settle, pin, release_pin, evict
      <3>3. CASE Tick
        BY <3>3 DEF Tick
      <3>4. ASSUME NEW h \in Handles, NEW reboot, Crash(h, reboot) PROVE FALSE
        BY <3>4 DEF Crash
      <3>5. CASE OrphanEnds
        <4>1. Commits(orphan) /\ Commit(orphan) /\ orphan # None
          BY <3>5 DEF OrphanEnds
        <4>2. QED
          BY <4>1 DEF WindowInv
      <3>6. QED
        BY <3>1, <3>2, <3>3, <3>4, <3>5 DEF Next, vars
    <2>2. PICK t : TicketSound(t, db) /\ Commits(t) /\ Commit(t)
      BY <2>1
    <2>3. /\ Accounted(db') /\ Keeps(db, db')
          /\ db # Empty => db'.state.rev = db.state.rev + 1
      BY <2>2, CommitTurns
    <2>4. Cardinality(db'.rows) <= SPOOL_SLOTS
      BY <2>3 DEF Accounted
    <2>5. db.state # None => db # Empty
      BY DEF Empty
    <2>6. QED
      BY <2>3, <2>4, <2>5 DEF Keeps
  <1>2. QED
    BY <1>1, WindowInvariant, PTL DEF Spec, HeldRowsStay
=============================================================================
