--------------------------- MODULE RuntimeProofs ----------------------------
(***************************************************************************)
(* Proofs about the runtime controller of module Runtime, for any bounds   *)
(* of queue, running slots, work, incarnations and activations and either  *)
(* kind of slot.  A unit of work is queued, a job or a result, never two   *)
(* of them; the budget is then a count of three disjoint sets of numbers   *)
(* and of the slot, and each step moves one number.                        *)
(*                                                                         *)
(* And about the subscription of module Subscription, for any values,      *)
(* lifetime, margin, capacity and number of identities: what it claims is  *)
(* what the device backs.                                                  *)
(***************************************************************************)
EXTENDS Runtime, Subscription, FiniteSetTheorems, SequenceTheorems, WellFoundedInduction, TLAPS

-----------------------------------------------------------------------------
(* The inductive invariant.                                                *)

Types ==
    /\ state \in States /\ opened \in BOOLEAN /\ owners \in BOOLEAN
    /\ session \in Session \cup {NoSession}
    /\ inc \in Nat /\ lastInc \in Nat /\ sequence \in 0..MaxWork
    /\ queue \in Seq(Work)
    /\ job \in [JobIds -> Job \cup {NoJob}]
    /\ completed \in [Ids -> Result \cup {NoJob}]
    /\ retained \in [Classes -> Nat] /\ running \in [Classes -> Nat]
    /\ slot \in SlotStates /\ listed \in BOOLEAN /\ cutoff \in BOOLEAN
    /\ expired \subseteq JobIds /\ gen \in Nat
    /\ disturbed \subseteq Ids /\ asked \subseteq Ids

WithinBounds ==
    \A c \in Classes : retained[c] <= QueueSlots[c] /\ running[c] <= RunningSlots[c]

\* Work is numbered once: the items of the queue differ from each other, from the
\* jobs and from the results, and nothing is known yet of work to come.
Unused(i) == job[i] = NoJob /\ completed[i] = NoJob /\ i \notin disturbed /\ i \notin asked
Numbered ==
    /\ \A n, m \in 1..Len(queue) : queue[n].id = queue[m].id => n = m
    /\ \A n \in 1..Len(queue) : queue[n].id <= sequence /\ Unused(queue[n].id)
    /\ \A i \in Ids : i > sequence => Unused(i)
    /\ \A i \in Ids : job[i] = NoJob \/ completed[i] = NoJob

\* What each state of the runtime rules out.
ByState ==
    /\ state = "Absent" => slot = "none"
    /\ state \in {"Absent", "Stopped"} => Live = {} /\ ~listed
    /\ Start \in Live => state \in {"Starting", "Stopping", "Unresolved"}
    /\ state = "Starting" => Live \subseteq {Start}
    /\ queue # << >> => state = "RunningInert"
    /\ \A i \in Ids : completed[i] # NoJob => state \in {"RunningInert", "Held"}
    /\ state = "RunningInert" => session # NoSession
    /\ session # NoSession => state \in {"RunningInert", "Held"}
    /\ state = "Held" => \A i \in Live : job[i].cancelled
    /\ ~listed => slot \in {"none", "joined"}

\* A job or a session is of this incarnation and of a publication that has been
\* seen.  Work that was disturbed read under an earlier one; work whose
\* cancellation was accepted is cancelled; neither is ever a successful result.
JobSound(i) ==
    /\ job[i].inc = inc /\ job[i].gen <= gen
    /\ job[i].result = "ok" => job[i].phase = "done"
    /\ i \in disturbed => job[i].gen < gen /\ job[i].result # "ok"
    /\ i \in asked => job[i].cancelled
ResultSound(i) ==
    /\ completed[i].inc = inc
    /\ completed[i].ok => i \notin disturbed /\ i \notin asked
Sound ==
    /\ session # NoSession => session.inc = inc /\ session.gen <= gen
    /\ \A i \in Live : JobSound(i)
    /\ \A i \in Ids : completed[i] # NoJob => ResultSound(i)
    /\ \A i \in disturbed \cup asked : job[i] # NoJob \/ completed[i] # NoJob

\* The numbers of the queued items, jobs and results of a class, and the budget
\* as a count of them.
Positions(q, c) == {n \in 1..Len(q) : q[n].class = c}
IdsAt(q, c) == {q[n].id : n \in Positions(q, c)}
JobsOf(c) == {i \in Live : job[i].class = c}
ResultsOf(c) == {i \in Ids : completed[i] # NoJob /\ completed[i].class = c}
Counted ==
    \A c \in Classes :
        /\ retained[c] = Cardinality(IdsAt(queue, c)) + Cardinality(JobsOf(c))
                          + Cardinality(ResultsOf(c)) + SlotHolds(c) + Borrowed(c)
        /\ running[c] = Cardinality(JobsOf(c)) + Borrowed(c)

RuntimeInv == Types /\ WithinBounds /\ Numbered /\ ByState /\ Sound /\ Counted

-----------------------------------------------------------------------------
(* Counting.                                                               *)

Distinct(q) == \A n, m \in 1..Len(q) : q[n].id = q[m].id => n = m
Cut(q, i) == SubSeq(q, 1, i - 1) \o SubSeq(q, i + 1, Len(q))

\* A set of job numbers is finite.
LEMMA IdsFinite ==
    \A S \in SUBSET JobIds : IsFiniteSet(S) /\ Cardinality(S) \in Nat
<1>1. IsFiniteSet(JobIds)
    BY RuntimeAssumption, FS_Interval DEF JobIds
<1> QED
    BY <1>1, FS_Subset, FS_CardinalityType

\* A reservation more within the bounds, a reservation less.
LEMMA CountUp ==
    ASSUME NEW counts \in [Classes -> Nat], NEW bounds \in [Classes -> Nat], NEW class \in Classes,
           counts[class] < bounds[class], \A c \in Classes : counts[c] <= bounds[c]
    PROVE  LET more == [counts EXCEPT ![class] = @ + 1] IN
           /\ more \in [Classes -> Nat] /\ more[class] = counts[class] + 1
           /\ \A c \in Classes \ {class} : more[c] = counts[c]
           /\ \A c \in Classes : more[c] <= bounds[c]
<1> DEFINE more == [counts EXCEPT ![class] = @ + 1]
<1>1. /\ more \in [Classes -> Nat] /\ more[class] = counts[class] + 1
      /\ \A c \in Classes \ {class} : more[c] = counts[c]
    OBVIOUS
<1>2. ASSUME NEW c \in Classes PROVE more[c] <= bounds[c]
    <2>1. CASE c = class
        BY <1>1, <2>1
    <2>2. CASE c # class
        BY <1>1, <2>2
    <2> QED
        BY <2>1, <2>2
<1> QED
    BY <1>1, <1>2

\* A reservation less.
LEMMA CountDown ==
    ASSUME NEW counts \in [Classes -> Nat], NEW bounds \in [Classes -> Nat], NEW class \in Classes,
           counts[class] > 0, \A c \in Classes : counts[c] <= bounds[c]
    PROVE  LET less == [counts EXCEPT ![class] = @ - 1] IN
           /\ less \in [Classes -> Nat] /\ less[class] = counts[class] - 1
           /\ \A c \in Classes \ {class} : less[c] = counts[c]
           /\ \A c \in Classes : less[c] <= bounds[c]
<1> DEFINE less == [counts EXCEPT ![class] = @ - 1]
<1>1. counts[class] - 1 \in Nat
    OBVIOUS
<1>2. /\ less \in [Classes -> Nat] /\ less[class] = counts[class] - 1
      /\ \A c \in Classes \ {class} : less[c] = counts[c]
    BY <1>1
<1>3. ASSUME NEW c \in Classes PROVE less[c] <= bounds[c]
    <2>1. CASE c = class
        BY <1>2, <2>1
    <2>2. CASE c # class
        BY <1>2, <2>2
    <2> QED
        BY <2>1, <2>2
<1> QED
    BY <1>2, <1>3

\* Work is numbered like jobs, from 1.
LEMMA IdsAreJobIds == Ids \subseteq JobIds /\ Start \in JobIds /\ Start \notin Ids
BY RuntimeAssumption DEF Ids, JobIds, Start

\* One number more.
LEMMA GainOne ==
    ASSUME NEW S \in SUBSET JobIds, NEW i \in JobIds, i \notin S
    PROVE  Cardinality(S \cup {i}) = Cardinality(S) + 1
BY IdsFinite, FS_AddElement

\* One number less.
LEMMA LoseOne ==
    ASSUME NEW S \in SUBSET JobIds, NEW i \in S
    PROVE  Cardinality(S \ {i}) = Cardinality(S) - 1
BY IdsFinite, FS_RemoveElement

\* Two sets that may differ in one number.
LEMMA DifferByOne ==
    ASSUME NEW S \in SUBSET JobIds, NEW T \in SUBSET JobIds, NEW i \in JobIds,
           \A k \in JobIds \ {i} : k \in T <=> k \in S
    PROVE  /\ (i \in T <=> i \in S) => Cardinality(T) = Cardinality(S)
           /\ i \notin S /\ i \in T => Cardinality(T) = Cardinality(S) + 1
           /\ i \in S /\ i \notin T => Cardinality(T) = Cardinality(S) - 1
<1>1. CASE i \in T <=> i \in S
    <2>1. T = S
        BY <1>1
    <2> QED
        BY <1>1, <2>1
<1>2. CASE i \notin S /\ i \in T
    <2>1. T = S \cup {i}
        BY <1>2
    <2> QED
        BY <1>2, <2>1, GainOne
<1>3. CASE i \in S /\ i \notin T
    <2>1. T = S \ {i}
        BY <1>3
    <2> QED
        BY <1>3, <2>1, LoseOne
<1> QED
    BY <1>1, <1>2, <1>3

\* Two sets with no number in common.
LEMMA Disjoint ==
    ASSUME NEW S \in SUBSET JobIds, NEW T \in SUBSET JobIds, S \cap T = {}
    PROVE  Cardinality(S \cup T) = Cardinality(S) + Cardinality(T)
<1>1. Cardinality(S \cup T) = Cardinality(S) + Cardinality(T) - Cardinality(S \cap T)
    BY IdsFinite, FS_Union
<1> QED
    BY <1>1, IdsFinite, FS_EmptySet

\* The numbers of a class, item by item.
LEMMA IdsByItem ==
    ASSUME NEW q, NEW c, NEW x
    PROVE  x \in IdsAt(q, c) <=> \E n \in 1..Len(q) : q[n].class = c /\ x = q[n].id
BY DEF IdsAt, Positions

\* The fields of an item have their types.
LEMMA ItemTypes ==
    ASSUME NEW q \in Seq(Work), NEW n \in 1..Len(q)
    PROVE  q[n] \in Work /\ q[n].id \in Ids /\ q[n].class \in Classes
<1>1. q[n] \in Work
    OBVIOUS
<1> QED
    BY <1>1 DEF Work

\* The items of a queue are as many as their numbers.
LEMMA QueueCount ==
    ASSUME NEW q \in Seq(Work), Distinct(q), NEW c \in Classes
    PROVE  /\ Cardinality(Positions(q, c)) = Cardinality(IdsAt(q, c))
           /\ IdsAt(q, c) \subseteq Ids
<1> DEFINE P == Positions(q, c)
           f == [n \in P |-> q[n].id]
<1>1. IdsAt(q, c) \subseteq Ids
    BY IdsByItem, ItemTypes
<1>2. IsFiniteSet(P)
    BY FS_Interval, FS_Subset DEF Positions
<1>3. f \in Surjection(P, IdsAt(q, c))
    BY DEF Surjection, IdsAt
<1>4. f \in Injection(P, IdsAt(q, c))
    BY DEF Injection, IsInjective, IdsAt, Positions, Distinct
<1> QED
    BY <1>1, <1>2, <1>3, <1>4, FS_Surjection

\* An item is appended.
LEMMA QueueAppend ==
    ASSUME NEW q \in Seq(Work), Distinct(q), NEW w \in Work,
           \A n \in 1..Len(q) : q[n].id # w.id
    PROVE  /\ Append(q, w) \in Seq(Work) /\ Distinct(Append(q, w))
           /\ Append(q, w) # << >>
           /\ \A n \in 1..Len(Append(q, w)) :
                 Append(q, w)[n] = w \/ \E m \in 1..Len(q) : Append(q, w)[n] = q[m]
           /\ \A c \in Classes :
                 IdsAt(Append(q, w), c) = IF w.class = c THEN IdsAt(q, c) \cup {w.id} ELSE IdsAt(q, c)
<1> DEFINE r == Append(q, w)
<1>1. /\ r \in Seq(Work) /\ Len(r) = Len(q) + 1 /\ r # << >>
      /\ \A n \in 1..Len(q) : r[n] = q[n]
      /\ r[Len(q) + 1] = w
    BY AppendProperties
<1> HIDE DEF r
<1>2. Distinct(r)
    BY <1>1 DEF Distinct
<1>3. \A n \in 1..Len(r) : r[n] = w \/ \E m \in 1..Len(q) : r[n] = q[m]
    BY <1>1
<1>4. ASSUME NEW c \in Classes
      PROVE  IdsAt(r, c) = IF w.class = c THEN IdsAt(q, c) \cup {w.id} ELSE IdsAt(q, c)
    BY <1>1 DEF IdsAt, Positions
<1> QED
    BY <1>1, <1>2, <1>3, <1>4 DEF r

\* An item is taken out.
LEMMA QueueCut ==
    ASSUME NEW q \in Seq(Work), Distinct(q), NEW i \in 1..Len(q)
    PROVE  /\ Cut(q, i) \in Seq(Work) /\ Distinct(Cut(q, i))
           /\ \A n \in 1..Len(Cut(q, i)) :
                 \E m \in 1..Len(q) : m # i /\ Cut(q, i)[n] = q[m]
           /\ \A c \in Classes : IdsAt(Cut(q, i), c) = IdsAt(q, c) \ {q[i].id}
<1> DEFINE r == Cut(q, i)
<1>0. Len(q) \in Nat
    OBVIOUS
<1>1. /\ r \in Seq(Work) /\ Len(r) = Len(q) - 1
      /\ \A n \in 1..(i - 1) : r[n] = q[n]
      /\ \A n \in i..(Len(q) - 1) : r[n] = q[n + 1]
    <2> DEFINE a == SubSeq(q, 1, i - 1)
               b == SubSeq(q, i + 1, Len(q))
    <2>1. /\ a \in Seq(Work) /\ Len(a) = i - 1
          /\ \A n \in 1..(i - 1) : a[n] = q[n]
        <3>1. \A n \in 1..(i - 1) : q[n] \in Work
            BY <1>0
        <3> QED
            BY <1>0, <3>1, SubSeqProperties
    <2>2. /\ b \in Seq(Work) /\ Len(b) = Len(q) - i
          /\ \A n \in 1..(Len(q) - i) : b[n] = q[i + n]
        <3>1. \A n \in (i + 1)..Len(q) : q[n] \in Work
            BY <1>0
        <3> QED
            BY <1>0, <3>1, SubSeqProperties
    <2> HIDE DEF a, b
    <2>3. /\ a \o b \in Seq(Work) /\ Len(a \o b) = Len(a) + Len(b)
          /\ \A n \in 1..(Len(a) + Len(b)) :
                (a \o b)[n] = IF n <= Len(a) THEN a[n] ELSE b[n - Len(a)]
        BY <2>1, <2>2, ConcatProperties
    <2>4. r = a \o b
        BY DEF Cut, a, b
    <2>5. Len(r) = Len(q) - 1
        <3>1. Len(a) + Len(b) = Len(q) - 1
            BY <1>0, <2>1, <2>2
        <3>2. Len(a \o b) = Len(a) + Len(b)
            BY <2>3
        <3> QED
            BY <2>4, <3>1, <3>2
    <2>6. ASSUME NEW n \in 1..(i - 1) PROVE r[n] = q[n]
        BY <1>0, <2>1, <2>2, <2>3, <2>4
    <2>7. ASSUME NEW n \in i..(Len(q) - 1) PROVE r[n] = q[n + 1]
        <3>1. r[n] = b[n - Len(a)] /\ n - Len(a) = n - i + 1
            BY <1>0, <2>1, <2>2, <2>3, <2>4
        <3>2. n - i + 1 \in 1..(Len(q) - i) /\ i + (n - i + 1) = n + 1
            BY <1>0
        <3> QED
            BY <2>2, <3>1, <3>2
    <2> QED
        BY <2>3, <2>4, <2>5, <2>6, <2>7
<1> HIDE DEF r
<1> DEFINE From(n) == IF n < i THEN n ELSE n + 1
<1>2. \A n \in 1..Len(r) : From(n) \in (1..Len(q)) \ {i} /\ r[n] = q[From(n)]
    BY <1>0, <1>1
<1>3. ASSUME NEW m \in (1..Len(q)) \ {i} PROVE \E n \in 1..Len(r) : r[n] = q[m]
    <2>1. CASE m < i
        BY <1>0, <1>1, <2>1
    <2>2. CASE m > i
        <3>1. m - 1 \in 1..Len(r) /\ r[m - 1] = q[m]
            BY <1>0, <1>1, <2>2
        <3> QED
            BY <3>1
    <2> QED
        BY <1>0, <2>1, <2>2
<1>4. Distinct(r)
    <2> SUFFICES ASSUME NEW n \in 1..Len(r), NEW m \in 1..Len(r), r[n].id = r[m].id
                 PROVE  n = m
        BY DEF Distinct
    <2>1. From(n) = From(m)
        BY <1>2 DEF Distinct
    <2>2. n \in Nat /\ m \in Nat
        BY <1>0, <1>1
    <2> QED
        BY <2>1, <2>2
<1>5. \A n \in 1..Len(r) : \E m \in 1..Len(q) : m # i /\ r[n] = q[m]
    BY <1>2
<1> HIDE DEF From
<1>6. ASSUME NEW c \in Classes PROVE IdsAt(r, c) = IdsAt(q, c) \ {q[i].id}
    <2>1. ASSUME NEW x \in IdsAt(r, c) PROVE x \in IdsAt(q, c) \ {q[i].id}
        <3>1. PICK n \in 1..Len(r) : r[n].class = c /\ x = r[n].id
            BY <2>1, IdsByItem
        <3>2. PICK m \in 1..Len(q) : m # i /\ r[n] = q[m]
            BY <1>5
        <3>3. q[m].id # q[i].id
            BY <3>2 DEF Distinct
        <3> QED
            BY <3>1, <3>2, <3>3, IdsByItem
    <2>2. ASSUME NEW x \in IdsAt(q, c) \ {q[i].id} PROVE x \in IdsAt(r, c)
        <3>1. PICK m \in 1..Len(q) : q[m].class = c /\ x = q[m].id
            BY <2>2, IdsByItem
        <3>2. PICK n \in 1..Len(r) : r[n] = q[m]
            BY <1>3, <2>2, <3>1
        <3> QED
            BY <3>1, <3>2, IdsByItem
    <2> QED
        BY <2>1, <2>2
<1> QED
    BY <1>1, <1>4, <1>5, <1>6 DEF r

-----------------------------------------------------------------------------
(* What steps leave alone.                                                 *)

\* The sets that are counted are sets of numbers, disjoint from each other.
LEMMA CountedSets ==
    ASSUME Types, Numbered, NEW c \in Classes
    PROVE  /\ Distinct(queue)
           /\ IdsAt(queue, c) \in SUBSET JobIds /\ JobsOf(c) \in SUBSET JobIds
           /\ ResultsOf(c) \in SUBSET JobIds
           /\ Queued(c) = Cardinality(IdsAt(queue, c))
           /\ \A i \in IdsAt(queue, c) : i \in Ids /\ Unused(i)
           /\ Cardinality(IdsAt(queue, c)) \in Nat
           /\ Cardinality(JobsOf(c)) \in Nat /\ Cardinality(ResultsOf(c)) \in Nat
<1>1. Distinct(queue) /\ queue \in Seq(Work)
    BY DEF Numbered, Distinct, Types
<1>2. Queued(c) = Cardinality(IdsAt(queue, c)) /\ IdsAt(queue, c) \subseteq Ids
    BY <1>1, QueueCount DEF Queued, Positions
<1>3. Ids \subseteq JobIds
    BY RuntimeAssumption DEF Ids, JobIds
<1>4. JobsOf(c) \in SUBSET JobIds /\ ResultsOf(c) \in SUBSET JobIds
    BY <1>3 DEF JobsOf, ResultsOf, Live
<1>5. \A i \in IdsAt(queue, c) : Unused(i)
    BY IdsByItem DEF Numbered
<1> QED
    BY <1>1, <1>2, <1>3, <1>4, <1>5, IdsFinite

\* The same work.
LEMMA SameNumbers ==
    ASSUME Numbered, UNCHANGED <<sequence, queue, job, completed, disturbed, asked>>
    PROVE  Numbered'
BY DEF Numbered, Unused

\* The same work, the same slot and the same budget.
LEMMA SameCount ==
    ASSUME Counted, WithinBounds, UNCHANGED <<queue, job, completed, retained, running, slot>>
    PROVE  Counted' /\ WithinBounds'
BY DEF Counted, WithinBounds, JobsOf, ResultsOf, Live, SlotHolds, Borrowed, Reserved

\* The same jobs and results of the same incarnation and publication.
LEMMA SameSound ==
    ASSUME Sound, UNCHANGED <<session, inc, gen, job, completed, disturbed, asked>>
    PROVE  Sound'
BY DEF Sound, JobSound, ResultSound, Live

-----------------------------------------------------------------------------
(* Steps of the controller's surroundings.                                 *)

\* A thread of a dropped Runtime ends; a stop completes or gives up; a joined
\* slot leaves its list; a slot or a deadline expires.
LEMMA QuietSteps ==
    ASSUME RuntimeInv,
           \/ (\E h \in Holders : AbandonedExits(h)) \/ PollSlot \/ PollStops \/ StopTimesOut \/ SlotExpires
           \/ \E i \in JobIds : DeadlinePasses(i)
           \/ UNCHANGED vars
    PROVE  RuntimeInv'
<1>1. UNCHANGED <<sequence, queue, job, completed, disturbed, asked, session, inc, gen, retained,
                  running, slot, opened, owners, lastInc>>
    BY DEF AbandonedExits, PollSlot, PollStops, StopTimesOut, SlotExpires, DeadlinePasses,
           vars, life, work, held, slots, world
<1>2. /\ state' \in States /\ listed' \in BOOLEAN /\ cutoff' \in BOOLEAN
      /\ expired' \subseteq JobIds
    <2>0. Types
        BY DEF RuntimeInv
    <2>1. CASE \E h \in Holders : AbandonedExits(h)
        BY <2>0, <2>1 DEF AbandonedExits, Types, life, slots
    <2>2. CASE PollSlot \/ PollStops \/ StopTimesOut
        BY <2>0, <2>2 DEF PollSlot, PollStops, StopTimesOut, Types, slots, world, States
    <2>3. CASE SlotExpires
        BY <2>0, <2>3 DEF SlotExpires, Types, life, world
    <2>4. CASE \E i \in JobIds : DeadlinePasses(i)
        BY <2>0, <2>4 DEF DeadlinePasses, Types, life, slots
    <2>5. CASE UNCHANGED vars
        BY <2>0, <2>5 DEF vars, Types, life, slots, world
    <2> QED
        BY <2>1, <2>2, <2>3, <2>4, <2>5
<1>3. Types'
    BY <1>1, <1>2 DEF RuntimeInv, Types
<1>4. ByState'
    <2>1. Live' = Live
        BY <1>1 DEF Live
    <2>2. /\ state' # state =>
                /\ state \in {"Stopping", "Unresolved"}
                /\ state' = "Stopped" => Live = {} /\ ~listed'
                /\ state' \in {"Stopped", "Unresolved"}
          /\ listed' # listed => ~listed' /\ slot = "joined"
        BY DEF AbandonedExits, PollSlot, PollStops, StopTimesOut, SlotExpires, DeadlinePasses,
               vars, life, work, held, slots, world, Ending, RuntimeInv, Types
    <2> QED
        BY <1>1, <1>2, <2>1, <2>2 DEF RuntimeInv, ByState, Types
<1> QED
    BY <1>1, <1>3, <1>4, SameNumbers, SameCount, SameSound DEF RuntimeInv

\* A fresh object: nothing is held.
LEMMA FreshHolds ==
    ASSUME RuntimeInv, Fresh, state' \in {"Absent", "Stopped"}, UNCHANGED <<lastInc, gen>>
    PROVE  RuntimeInv'
<1>1. Types'
    <2>1. /\ state' \in States /\ opened' \in BOOLEAN /\ owners' \in BOOLEAN
          /\ session' \in Session \cup {NoSession}
          /\ inc' \in Nat /\ lastInc' \in Nat /\ gen' \in Nat
        BY DEF Fresh, RuntimeInv, Types, States
    <2>2. sequence' \in 0..MaxWork /\ queue' \in Seq(Work)
        BY RuntimeAssumption DEF Fresh
    <2>3. /\ job' \in [JobIds -> Job \cup {NoJob}] /\ completed' \in [Ids -> Result \cup {NoJob}]
          /\ retained' \in [Classes -> Nat] /\ running' \in [Classes -> Nat]
        BY DEF Fresh, NoJobs, NoResults, Zero
    <2>4. /\ slot' \in SlotStates /\ listed' \in BOOLEAN /\ cutoff' \in BOOLEAN
          /\ expired' \subseteq JobIds /\ disturbed' \subseteq Ids /\ asked' \subseteq Ids
        BY DEF Fresh, SlotStates
    <2> QED
        BY <2>1, <2>2, <2>3, <2>4 DEF Types
<1>2. Live' = {} /\ (\A i \in Ids : completed'[i] = NoJob) /\ Len(queue') = 0 /\ queue' = << >>
    BY DEF Fresh, Live, NoJobs, NoResults
<1>3. Numbered'
    <2>1. \A i \in Ids : i \in JobIds
        BY RuntimeAssumption DEF Ids, JobIds
    <2> QED
        BY <1>2, <2>1 DEF Fresh, Numbered, Unused, NoJobs, NoResults
<1>4. ByState' /\ Sound'
    BY <1>2 DEF Fresh, ByState, Sound
<1>5. Counted' /\ WithinBounds'
    <2>1. ASSUME NEW c \in Classes
          PROVE  /\ IdsAt(queue', c) = {} /\ JobsOf(c)' = {} /\ ResultsOf(c)' = {}
                 /\ SlotHolds(c)' = 0 /\ Borrowed(c)' = 0
                 /\ retained'[c] = 0 /\ running'[c] = 0
        BY <1>2, IdsByItem DEF JobsOf, ResultsOf, SlotHolds, Borrowed, Reserved, Fresh, Zero
    <2>2. Cardinality({}) = 0
        BY FS_EmptySet
    <2>3. Counted'
        BY <2>1, <2>2 DEF Counted
    <2>4. WithinBounds'
        BY <2>1, RuntimeAssumption DEF WithinBounds
    <2> QED
        BY <2>3, <2>4
<1> QED
    BY <1>1, <1>3, <1>4, <1>5 DEF RuntimeInv

\* A Runtime is built, or dropped with what is left of it.
LEMMA LifeSteps ==
    ASSUME RuntimeInv, Inert \/ Drop
    PROVE  RuntimeInv'
BY FreshHolds DEF Inert, Drop

-----------------------------------------------------------------------------
(* Steps of one job.                                                       *)

\* A job that stays what it is, of its class and incarnation, however far its
\* thread is and whether or not it has been told to stop.
LEMMA JobEdit ==
    ASSUME RuntimeInv, NEW i \in Live, NEW j \in Job, job' = [job EXCEPT ![i] = j],
           j.class = job[i].class, j.inc = job[i].inc, j.gen <= gen,
           job[i].cancelled => j.cancelled,
           j.result = "ok" => j.phase = "done",
           i \in disturbed => j.gen < gen /\ j.result # "ok",
           \/ UNCHANGED asked
           \/ i \in Ids /\ j.cancelled /\ asked' = asked \cup {i},
           UNCHANGED <<life, sequence, queue, completed, held, slots>>,
           UNCHANGED <<abandoned, expired, gen, disturbed>>
    PROVE  RuntimeInv'
<1>0. UNCHANGED <<state, opened, owners, session, inc, lastInc, sequence, queue, completed, retained,
                  running, slot, listed, cutoff, abandoned, expired, gen, disturbed>>
    BY DEF life, held, slots
<1>1. i \in JobIds /\ job[i] \in Job /\ job[i] # NoJob /\ j # NoJob /\ Types
    BY NoneAssumption DEF Live, RuntimeInv, Types
<1>2. /\ job' \in [JobIds -> Job \cup {NoJob}] /\ job'[i] = j
      /\ \A k \in JobIds \ {i} : job'[k] = job[k]
    BY <1>1 DEF Types
<1>3. Live' = Live
    BY <1>1, <1>2 DEF Live
<1>4. Types'
    BY <1>0, <1>1, <1>2 DEF Types
<1>5. \A k \in Ids : k \in JobIds
    BY RuntimeAssumption DEF Ids, JobIds
<1>6. \A k \in Ids : Unused(k) => Unused(k)'
    BY <1>0, <1>1, <1>2, <1>5 DEF Unused
<1>7. \A k \in Ids : job'[k] = NoJob <=> job[k] = NoJob
    BY <1>1, <1>2, <1>5
<1>8. Numbered'
    <2>1. \A n \in 1..Len(queue) : queue[n].id \in Ids
        BY <1>1, ItemTypes DEF Types
    <2> QED
        BY <1>0, <1>6, <1>7, <2>1 DEF RuntimeInv, Numbered
<1>9. ByState'
    BY <1>0, <1>1, <1>2, <1>3 DEF RuntimeInv, ByState, Live
<1>10. Sound'
    <2>1. ASSUME NEW k \in Live PROVE JobSound(k)'
        <3>1. CASE k = i
            BY <1>0, <1>2, <3>1 DEF RuntimeInv, Sound, JobSound
        <3>2. CASE k # i
            BY <1>0, <1>2, <3>2 DEF RuntimeInv, Sound, JobSound, Live
        <3> QED
            BY <3>1, <3>2
    <2>2. ASSUME NEW k \in Ids, completed[k] # NoJob PROVE ResultSound(k)'
        <3>1. k # i
            BY <1>1, <2>2 DEF RuntimeInv, Numbered
        <3> QED
            BY <1>0, <2>2, <3>1 DEF RuntimeInv, Sound, ResultSound
    <2>3. ASSUME NEW k \in disturbed' \cup asked' PROVE job'[k] # NoJob \/ completed'[k] # NoJob
        BY <1>0, <1>1, <1>2, <1>5, <2>3 DEF RuntimeInv, Sound, Types
    <2> QED
        BY <1>0, <1>3, <2>1, <2>2, <2>3 DEF Sound, RuntimeInv
<1>11. Counted' /\ WithinBounds'
    <2>1. \A c \in Classes : JobsOf(c)' = JobsOf(c)
        BY <1>2, <1>3 DEF JobsOf, Live
    <2>2. \A c \in Classes : ResultsOf(c)' = ResultsOf(c) /\ SlotHolds(c)' = SlotHolds(c)
                              /\ Borrowed(c)' = Borrowed(c)
        BY <1>0 DEF ResultsOf, SlotHolds, Borrowed, Reserved
    <2> QED
        BY <1>0, <2>1, <2>2 DEF RuntimeInv, Counted, WithinBounds
<1> QED
    BY <1>4, <1>8, <1>9, <1>10, <1>11 DEF RuntimeInv

\* A thread moves on or ends; the recheck of the generation keeps a disturbed
\* read from succeeding.
LEMMA ThreadSteps ==
    ASSUME RuntimeInv, StartStep \/ \E i \in JobIds : ThreadStep(i)
    PROVE  RuntimeInv'
<1>1. Types /\ Sound
    BY DEF RuntimeInv
<1>2. CASE StartSelects
    <2> DEFINE j == [job[Start] EXCEPT !.phase = "done", !.result = "started", !.gen = gen]
    <2>1. Start \in Live /\ job[Start] \in Job /\ Start \notin Ids
        BY <1>1, <1>2, RuntimeAssumption DEF StartSelects, InPhase, Live, Types, Start, Ids
    <2>2. j \in Job /\ j.class = job[Start].class /\ j.inc = job[Start].inc /\ j.gen = gen
          /\ j.cancelled = job[Start].cancelled /\ j.result = "started"
        BY <1>1, <2>1 DEF Job, Types, Phases, Results
    <2>3. job' = [job EXCEPT ![Start] = j]
        BY <1>1, <1>2, <2>1 DEF StartSelects, Types
    <2>4. Start \notin disturbed
        BY <1>1, <2>1 DEF Types
    <2>5. gen \in Nat /\ UNCHANGED <<life, sequence, queue, completed, held, slots>>
          /\ UNCHANGED <<abandoned, expired, gen, disturbed, asked>>
        BY <1>1, <1>2 DEF StartSelects, Types, world
    <2> HIDE DEF j
    <2>6. j.gen <= gen
        BY <2>2, <2>5
    <2> QED
        BY <2>1, <2>2, <2>3, <2>4, <2>5, <2>6, JobEdit
<1>3. ASSUME NEW i \in Live, NEW p \in Phases, NEW r \in Results, Thread(i, p, r),
             r = "ok" => p = "done" /\ job[i].gen = gen
      PROVE  RuntimeInv'
    <2> DEFINE j == [job[i] EXCEPT !.phase = p, !.result = r]
    <2>1. i \in JobIds /\ job[i] \in Job
        BY <1>1 DEF Live, Types
    <2>2. j \in Job /\ j.class = job[i].class /\ j.inc = job[i].inc /\ j.gen = job[i].gen
          /\ j.cancelled = job[i].cancelled /\ j.result = r /\ j.phase = p
        BY <2>1 DEF Job
    <2>3. job' = [job EXCEPT ![i] = j]
        BY <1>1, <1>3, <2>1 DEF Thread, Types
    <2>4. job[i].gen <= gen /\ (i \in disturbed => job[i].gen < gen)
        BY <1>1 DEF Sound, JobSound
    <2>5. i \in disturbed => r # "ok"
        <3>1. job[i].gen \in Nat /\ gen \in Nat
            BY <1>1, <2>1 DEF Job, Types
        <3> QED
            BY <1>3, <2>4, <3>1
    <2> HIDE DEF j
    <2> QED
        BY <1>3, <2>1, <2>2, <2>3, <2>4, <2>5, JobEdit, ZenonT(30) DEF Thread, world
<1>4. CASE StartOpens \/ StartRefused
    BY <1>3, <1>4 DEF StartOpens, StartRefused, InPhase, Phases, Results
<1>5. ASSUME NEW i \in JobIds, ThreadStep(i) PROVE RuntimeInv'
    BY <1>3, <1>5
    DEF ThreadStep, ThreadFaults, WorkVerifies, WorkIsStale, WorkHandsOff, AdapterReturns, WorkSucceeds,
        InPhase, Phases, Results
<1> QED
    BY <1>2, <1>4, <1>5 DEF StartStep

\* A running job is told to stop, by the controller or by its deadline.
LEMMA CancelSteps ==
    ASSUME RuntimeInv,
           \/ \E i \in Ids : CancelRunning(i)
           \/ \E i \in JobIds : PollCancels(i)
    PROVE  RuntimeInv'
<1>1. PICK i \in Live : /\ job' = [job EXCEPT ![i].cancelled = TRUE]
                        /\ UNCHANGED asked \/ (i \in Ids /\ asked' = asked \cup {i})
                        /\ UNCHANGED <<life, sequence, queue, completed, held, slots>>
                        /\ UNCHANGED <<abandoned, expired, gen, disturbed>>
    BY DEF CancelRunning, PollCancels, world
<1> DEFINE j == [job[i] EXCEPT !.cancelled = TRUE]
<1>2. i \in JobIds /\ job[i] \in Job /\ JobSound(i)
    BY DEF Live, RuntimeInv, Types, Sound
<1>3. j \in Job /\ j.class = job[i].class /\ j.inc = job[i].inc /\ j.gen = job[i].gen
      /\ j.cancelled /\ j.result = job[i].result /\ j.phase = job[i].phase
    BY <1>2 DEF Job
<1>4. job' = [job EXCEPT ![i] = j]
    BY <1>1, <1>2 DEF RuntimeInv, Types
<1> HIDE DEF j
<1> QED
    BY <1>1, <1>2, <1>3, <1>4, JobEdit DEF JobSound

-----------------------------------------------------------------------------
(* Steps of the queue.                                                     *)

\* A set of positions has a first one.
LEMMA FirstExists ==
    ASSUME NEW n \in Nat, NEW S \in SUBSET (1..n), S # {}
    PROVE  Min(S) \in S /\ \A k \in S : Min(S) <= k
<1> DEFINE Below == {1..k : k \in S}
<1>1. IsFiniteSet(1..n) /\ IsWellFoundedOn(StrictSubsetOrdering(1..n), SUBSET (1..n))
    <2>1. IsFiniteSet(1..n)
        BY FS_Interval
    <2>2. IsWellFoundedOn(StrictSubsetOrdering(1..n), FiniteSubsetsOf(1..n))
        BY FS_StrictSubsetOrderingWellFounded
    <2>3. FiniteSubsetsOf(1..n) = SUBSET (1..n)
        BY <2>1, FS_FiniteSubsetsOfFinite
    <2> QED
        BY <2>1, <2>2, <2>3
<1>2. Below \subseteq SUBSET (1..n) /\ Below # {}
    <2>1. ASSUME NEW k \in S PROVE 1..k \in SUBSET (1..n)
        OBVIOUS
    <2>2. PICK k \in S : TRUE
        OBVIOUS
    <2>3. 1..k \in Below
        OBVIOUS
    <2> QED
        BY <2>1, <2>3
<1>3. PICK B \in Below : \A C \in Below : ~(<<C, B>> \in StrictSubsetOrdering(1..n))
    BY <1>1, <1>2, WFMin
<1>4. PICK m \in S : B = 1..m
    OBVIOUS
<1>5. ASSUME NEW k \in S PROVE m <= k
    <2>1. SUFFICES ASSUME k < m PROVE FALSE
        OBVIOUS
    <2>2. 1..k \in Below /\ 1..k \subseteq 1..m /\ m \in 1..m /\ m \notin 1..k
        BY <2>1
    <2>3. <<1..k, B>> \in StrictSubsetOrdering(1..n)
        BY <1>2, <1>4, <2>2 DEF StrictSubsetOrdering
    <2> QED
        BY <1>3, <2>2, <2>3
<1> QED
    BY <1>5 DEF Min

\* The item that dispatch_next finds is eligible.
LEMMA NextIsEligible ==
    ASSUME queue \in Seq(Work), NEW i \in NextIndex
    PROVE  Eligible(i)
<1> DEFINE all == {k \in 1..Len(queue) : Eligible(k)}
           mandatory == {k \in all : queue[k].class # "optional"}
<1>1. Len(queue) \in Nat
    OBVIOUS
<1>2. all \in SUBSET (1..Len(queue)) /\ mandatory \in SUBSET (1..Len(queue))
    OBVIOUS
<1>3. \/ i = Min(mandatory) /\ mandatory # {}
      \/ i = Min(all) /\ all # {}
    BY DEF NextIndex
<1> QED
    BY <1>1, <1>2, <1>3, FirstExists

\* Taking an item out of the queue: its number was unused, and only its own class
\* has one fewer.
LEMMA Taken ==
    ASSUME Types, Numbered, NEW i \in 1..Len(queue), queue' = Without(i)
    PROVE  LET x == queue[i].id IN
           /\ queue' \in Seq(Work) /\ Distinct(queue')
           /\ x \in Ids /\ x \in JobIds /\ x <= sequence /\ queue[i].class \in Classes
           /\ Unused(x) /\ x # Start
           /\ \A n \in 1..Len(queue') : \E m \in 1..Len(queue) : m # i /\ queue'[n] = queue[m]
           /\ \A n \in 1..Len(queue') : queue'[n].id # x
           /\ \A c \in Classes : IF c = queue[i].class
                                  THEN /\ x \in IdsAt(queue, c)
                                       /\ Cardinality(IdsAt(queue', c)) = Cardinality(IdsAt(queue, c)) - 1
                                  ELSE IdsAt(queue', c) = IdsAt(queue, c)
           /\ queue # << >>
<1> DEFINE x == queue[i].id
<1>1. queue \in Seq(Work) /\ Distinct(queue) /\ queue' = Cut(queue, i)
    BY DEF Types, Numbered, Distinct, Without, Cut
<1>2. /\ queue' \in Seq(Work) /\ Distinct(queue')
      /\ \A n \in 1..Len(queue') : \E m \in 1..Len(queue) : m # i /\ queue'[n] = queue[m]
      /\ \A c \in Classes : IdsAt(queue', c) = IdsAt(queue, c) \ {x}
    BY <1>1, QueueCut, SMTT(30)
<1>3. x \in Ids /\ queue[i].class \in Classes /\ queue # << >>
    BY <1>1, ItemTypes
<1>4. x \in JobIds /\ x # Start
    BY <1>3, RuntimeAssumption DEF Ids, JobIds, Start
<1>5. x <= sequence /\ Unused(x)
    BY DEF Numbered
<1>6. ASSUME NEW n \in 1..Len(queue') PROVE queue'[n].id # x
    <2>1. PICK m \in 1..Len(queue) : m # i /\ queue'[n] = queue[m]
        BY <1>2
    <2> QED
        BY <1>1, <2>1 DEF Distinct
<1>7. ASSUME NEW c \in Classes
      PROVE  IF c = queue[i].class
               THEN /\ x \in IdsAt(queue, c)
                    /\ Cardinality(IdsAt(queue', c)) = Cardinality(IdsAt(queue, c)) - 1
               ELSE IdsAt(queue', c) = IdsAt(queue, c)
    <2>1. IdsAt(queue, c) \in SUBSET JobIds
        BY CountedSets
    <2>2. CASE c = queue[i].class
        <3>1. x \in IdsAt(queue, c)
            BY <2>2, IdsByItem
        <3> QED
            BY <1>2, <2>1, <2>2, <3>1, LoseOne
    <2>3. CASE c # queue[i].class
        <3>1. x \notin IdsAt(queue, c)
            BY <1>1, <2>3, IdsByItem DEF Distinct
        <3> QED
            BY <1>2, <2>3, <3>1
    <2> QED
        BY <2>2, <2>3
<1> QED
    BY <1>2, <1>3, <1>4, <1>5, <1>6, <1>7

\* A queued item that completes without running: late, not spawned, or cancelled.
\* It keeps its retained reservation.
LEMMA QueuedCompletes ==
    ASSUME RuntimeInv, NEW i \in 1..Len(queue), queue' = Without(i),
           completed' = [completed EXCEPT ![queue[i].id] = Finished(FALSE, queue[i].class, inc)],
           asked' \in {asked, asked \cup {queue[i].id}},
           UNCHANGED <<life, sequence, job, held, slots, abandoned, expired, gen, disturbed>>
    PROVE  RuntimeInv'
<1> DEFINE x == queue[i].id
           class == queue[i].class
           r == Finished(FALSE, class, inc)
<1>0. UNCHANGED <<state, opened, owners, session, inc, lastInc, sequence, job, retained, running,
                  slot, listed, cutoff, abandoned, expired, gen, disturbed>>
    BY DEF life, held, slots
<1>1. Types /\ Numbered /\ ByState /\ Sound /\ Counted /\ WithinBounds
    BY DEF RuntimeInv
<1>2. /\ queue' \in Seq(Work) /\ Distinct(queue')
      /\ x \in Ids /\ x \in JobIds /\ x <= sequence /\ class \in Classes /\ Unused(x)
      /\ \A n \in 1..Len(queue') : \E m \in 1..Len(queue) : m # i /\ queue'[n] = queue[m]
      /\ \A n \in 1..Len(queue') : queue'[n].id # x
      /\ \A c \in Classes : IF c = class
                             THEN Cardinality(IdsAt(queue', c)) = Cardinality(IdsAt(queue, c)) - 1
                             ELSE IdsAt(queue', c) = IdsAt(queue, c)
      /\ queue # << >>
    BY <1>1, Taken
<1>3. r \in Result /\ r # NoJob /\ r.class = class /\ r.inc = inc /\ ~r.ok
    <2>1. r \in Result
        BY <1>1, <1>2 DEF Finished, Result, Types
    <2>2. r.class = class /\ r.inc = inc /\ r.ok = FALSE
        BY DEF Finished
    <2> QED
        BY <2>1, <2>2, NoneAssumption
<1> HIDE DEF r
<1>4. /\ completed' \in [Ids -> Result \cup {NoJob}] /\ completed'[x] = r
      /\ \A k \in Ids \ {x} : completed'[k] = completed[k]
    BY <1>1, <1>2, <1>3 DEF Types, r
<1>5. asked' \subseteq Ids /\ asked \subseteq asked' /\ asked' \subseteq asked \cup {x}
    BY <1>1, <1>2 DEF Types
<1>6. Types'
    BY <1>0, <1>1, <1>2, <1>4, <1>5 DEF Types
<1>7. \A k \in Ids \ {x} : Unused(k) => Unused(k)'
    BY <1>0, <1>4, <1>5 DEF Unused
<1>8. Numbered'
    <2>1. ASSUME NEW n \in 1..Len(queue') PROVE queue'[n].id <= sequence' /\ Unused(queue[n].id)'
        <3>1. PICK m \in 1..Len(queue) : m # i /\ queue'[n] = queue[m]
            BY <1>2
        <3>2. queue[m].id <= sequence /\ Unused(queue[m].id) /\ queue[m].id \in Ids
            BY <1>1, ItemTypes DEF Numbered, Types
        <3> QED
            BY <1>0, <1>2, <1>7, <3>1, <3>2 DEF Unused
    <2>2. ASSUME NEW k \in Ids, k > sequence' PROVE Unused(k)'
        <3>1. k # x
            BY <1>0, <1>1, <1>2, <2>2 DEF Types, Ids
        <3> QED
            BY <1>0, <1>1, <1>7, <2>2, <3>1 DEF Numbered
    <2>3. \A k \in Ids : job'[k] = NoJob \/ completed'[k] = NoJob
        BY <1>0, <1>1, <1>2, <1>4, ZenonT(30) DEF Numbered, Unused
    <2> QED
        BY <1>2, <2>1, <2>2, <2>3 DEF Numbered, Distinct
<1>9. ByState'
    <2>1. state = "RunningInert" /\ Live' = Live
        BY <1>0, <1>1, <1>2 DEF ByState, Live
    <2> QED
        BY <1>0, <1>1, <2>1 DEF ByState
<1>10. Sound'
    <2>1. ASSUME NEW k \in Live PROVE JobSound(k)' /\ k # x
        <3>1. k # x
            BY <1>2 DEF Live, Unused
        <3> QED
            BY <1>0, <1>1, <1>5, <3>1 DEF Sound, JobSound
    <2>2. ASSUME NEW k \in Ids, completed'[k] # NoJob PROVE ResultSound(k)'
        <3>1. CASE k = x
            BY <1>0, <1>3, <1>4, <3>1 DEF ResultSound
        <3>2. CASE k # x
            BY <1>0, <1>1, <1>4, <1>5, <2>2, <3>2 DEF Sound, ResultSound
        <3> QED
            BY <3>1, <3>2
    <2>3. ASSUME NEW k \in disturbed' \cup asked' PROVE job'[k] # NoJob \/ completed'[k] # NoJob
        BY <1>0, <1>1, <1>3, <1>4, <1>5, <2>3 DEF Sound, Types
    <2> QED
        BY <1>0, <1>1, <2>1, <2>2, <2>3 DEF Sound, Live
<1>11. Counted'
    <2> SUFFICES ASSUME NEW c \in Classes
                 PROVE  /\ retained[c]' = Cardinality(IdsAt(queue', c)) + Cardinality(JobsOf(c)')
                                    + Cardinality(ResultsOf(c)') + SlotHolds(c)' + Borrowed(c)'
                        /\ running[c]' = Cardinality(JobsOf(c)') + Borrowed(c)'
        BY DEF Counted
    <2>1. JobsOf(c)' = JobsOf(c) /\ SlotHolds(c)' = SlotHolds(c) /\ Borrowed(c)' = Borrowed(c)
        BY <1>0 DEF JobsOf, Live, SlotHolds, Borrowed, Reserved
    <2>2. /\ ResultsOf(c) \in SUBSET JobIds /\ ResultsOf(c)' \in SUBSET JobIds
          /\ \A k \in JobIds \ {x} : k \in ResultsOf(c)' <=> k \in ResultsOf(c)
          /\ x \notin ResultsOf(c) /\ (x \in ResultsOf(c)' <=> c = class)
        BY <1>1, <1>2, <1>3, <1>4, IdsAreJobIds DEF ResultsOf, Unused
    <2>3. IF c = class
            THEN Cardinality(ResultsOf(c)') = Cardinality(ResultsOf(c)) + 1
            ELSE Cardinality(ResultsOf(c)') = Cardinality(ResultsOf(c))
        <3>1. CASE c = class
            BY <1>2, <2>2, <3>1, DifferByOne
        <3>2. CASE c # class
            BY <1>2, <2>2, <3>2, DifferByOne
        <3> QED
            BY <3>1, <3>2
    <2>4. /\ Cardinality(IdsAt(queue, c)) \in Nat /\ Cardinality(JobsOf(c)) \in Nat
          /\ Cardinality(ResultsOf(c)) \in Nat /\ SlotHolds(c) \in Nat /\ Borrowed(c) \in Nat
        BY <1>1, CountedSets DEF SlotHolds, Borrowed
    <2> QED
        BY <1>0, <1>1, <1>2, <2>1, <2>3, <2>4 DEF Counted
<1>12. WithinBounds'
    BY <1>0, <1>1 DEF WithinBounds
<1> QED
    BY <1>6, <1>8, <1>9, <1>10, <1>11, <1>12 DEF RuntimeInv

\* Late work, a spawn that fails, and cancelled work that is still queued.
LEMMA UnrunSteps ==
    ASSUME RuntimeInv, NEW i \in 1..Len(queue), DispatchFails(i) \/ CancelQueued(i)
    PROVE  RuntimeInv'
BY QueuedCompletes DEF DispatchFails, CancelQueued, world

\* A job that is new: of this incarnation, with a reservation of its class.
LEMMA NewJobTypes ==
    ASSUME NEW class \in Classes, NEW n \in Nat, NEW g \in Nat
    PROVE  LET j == NewJob(class, n, g) IN
           /\ j \in Job /\ j # NoJob
           /\ j.class = class /\ j.inc = n /\ j.gen = g /\ j.result # "ok"
<1>1. NewJob(class, n, g) \in Job
    BY DEF NewJob, Job, Phases, Results
<1> QED
    BY <1>1, NoneAssumption DEF NewJob

\* Work is admitted to the queue.
LEMMA EnqueueStep ==
    ASSUME RuntimeInv, NEW class \in Classes, Enqueue(class)
    PROVE  RuntimeInv'
<1> DEFINE w == [id |-> sequence + 1, class |-> class]
<1>0. UNCHANGED <<state, opened, owners, session, inc, lastInc, job, completed, running,
                  slot, listed, cutoff, abandoned, expired, gen, disturbed, asked>>
    BY DEF Enqueue, life, slots, world
<1>1. Types /\ Numbered /\ ByState /\ Sound /\ Counted /\ WithinBounds
    BY DEF RuntimeInv
<1>2. /\ state = "RunningInert" /\ sequence < MaxWork /\ retained[class] < QueueSlots[class]
      /\ retained' = [retained EXCEPT ![class] = @ + 1]
      /\ sequence' = sequence + 1 /\ queue' = Append(queue, w)
    BY DEF Enqueue, Room
<1>3. sequence \in Nat /\ w \in Work /\ w.id = sequence + 1 /\ w.class = class
    BY <1>1, <1>2, RuntimeAssumption DEF Types, Work, Ids
<1> HIDE DEF w
<1>4. \A n \in 1..Len(queue) : queue[n].id # w.id
    BY <1>1, <1>3, ItemTypes DEF Numbered, Types, Ids
<1>5. /\ queue' \in Seq(Work) /\ Distinct(queue') /\ queue' # << >>
      /\ \A n \in 1..Len(queue') : queue'[n] = w \/ \E m \in 1..Len(queue) : queue'[n] = queue[m]
      /\ \A c \in Classes :
            IdsAt(queue', c) = IF class = c THEN IdsAt(queue, c) \cup {w.id} ELSE IdsAt(queue, c)
    <2>1. queue \in Seq(Work) /\ Distinct(queue)
        BY <1>1 DEF Types, Numbered, Distinct
    <2> QED
        BY <1>2, <1>3, <1>4, <2>1, QueueAppend
<1>6. w.id \in Ids /\ Unused(w.id)
    BY <1>1, <1>3 DEF Work, Numbered
<1>7. Types'
    BY <1>0, <1>1, <1>2, <1>3, <1>5, RuntimeAssumption DEF Types
<1>8. Numbered'
    <2>1. \A k \in Ids : Unused(k)' <=> Unused(k)
        BY <1>0 DEF Unused
    <2>2. ASSUME NEW n \in 1..Len(queue')
          PROVE  queue'[n].id <= sequence' /\ Unused(queue[n].id)'
        <3>1. CASE queue'[n] = w
            BY <1>2, <1>3, <1>6, <2>1, <3>1 DEF Unused
        <3>2. CASE \E m \in 1..Len(queue) : queue'[n] = queue[m]
            <4>1. PICK m \in 1..Len(queue) : queue'[n] = queue[m]
                BY <3>2
            <4>2. queue[m].id \in Ids /\ queue[m].id <= sequence /\ Unused(queue[m].id)
                BY <1>1, ItemTypes DEF Numbered, Types
            <4> QED
                BY <1>0, <1>2, <1>3, <2>1, <4>1, <4>2 DEF Ids, Unused
        <3> QED
            BY <1>5, <3>1, <3>2
    <2>3. \A k \in Ids : k > sequence' => Unused(k)'
        BY <1>1, <1>2, <1>3, <2>1 DEF Numbered, Ids
    <2> QED
        BY <1>0, <1>1, <1>5, <2>2, <2>3 DEF Numbered, Distinct
<1>9. ByState'
    <2>1. Live' = Live
        BY <1>0 DEF Live
    <2> QED
        BY <1>0, <1>1, <1>2, <2>1 DEF ByState
<1>10. Sound'
    BY <1>0, <1>1, SameSound
<1>11. Counted'
    <2> SUFFICES ASSUME NEW c \in Classes
                 PROVE  /\ retained[c]' = Cardinality(IdsAt(queue', c)) + Cardinality(JobsOf(c)')
                                    + Cardinality(ResultsOf(c)') + SlotHolds(c)' + Borrowed(c)'
                        /\ running[c]' = Cardinality(JobsOf(c)') + Borrowed(c)'
        BY DEF Counted
    <2>1. /\ JobsOf(c)' = JobsOf(c) /\ SlotHolds(c)' = SlotHolds(c) /\ Borrowed(c)' = Borrowed(c)
          /\ ResultsOf(c)' = ResultsOf(c)
        BY <1>0 DEF JobsOf, ResultsOf, Live, SlotHolds, Borrowed, Reserved
    <2>2. /\ Cardinality(IdsAt(queue, c)) \in Nat /\ Cardinality(JobsOf(c)) \in Nat
          /\ Cardinality(ResultsOf(c)) \in Nat /\ SlotHolds(c) \in Nat /\ Borrowed(c) \in Nat
          /\ IdsAt(queue, c) \in SUBSET JobIds
        BY <1>1, CountedSets DEF SlotHolds, Borrowed
    <2>3. w.id \notin IdsAt(queue, c)
        BY <1>4, IdsByItem
    <2>4. CASE c = class
        <3>1. Cardinality(IdsAt(queue', c)) = Cardinality(IdsAt(queue, c)) + 1
            BY <1>5, <1>6, <2>2, <2>3, <2>4, GainOne, IdsAreJobIds
        <3>2. retained'[c] = retained[c] + 1
            BY <1>1, <1>2, <2>4 DEF Types
        <3> QED
            BY <1>0, <1>1, <2>1, <2>2, <3>1, <3>2 DEF Counted
    <2>5. CASE c # class
        BY <1>0, <1>1, <1>2, <1>5, <2>1, <2>5 DEF Counted, Types
    <2> QED
        BY <2>4, <2>5
<1>12. WithinBounds'
    BY <1>0, <1>1, <1>2, CountUp, RuntimeAssumption DEF WithinBounds, Types
<1> QED
    BY <1>7, <1>8, <1>9, <1>10, <1>11, <1>12 DEF RuntimeInv

\* A queued item becomes a job: its number moves, its reservation stays, and its
\* class had room to run.
LEMMA DispatchStep ==
    ASSUME RuntimeInv, NEW i \in 1..Len(queue), DispatchNext(i)
    PROVE  RuntimeInv'
<1>a. PICK x, class : x = queue[i].id /\ class = queue[i].class
    OBVIOUS
<1> DEFINE j == NewJob(class, session.inc, session.gen)
<1>0. UNCHANGED <<state, opened, owners, session, inc, lastInc, sequence, completed, retained,
                  slot, listed, cutoff, abandoned, expired, gen, disturbed, asked>>
    BY DEF DispatchNext, life, slots, world
<1>1. Types /\ Numbered /\ ByState /\ Sound /\ Counted /\ WithinBounds
    BY DEF RuntimeInv
<1>2. /\ state = "RunningInert" /\ queue' = Without(i)
      /\ running' = [running EXCEPT ![class] = @ + 1]
      /\ job' = [job EXCEPT ![x] = j]
      /\ running[class] < RunningSlots[class]
    <2>1. Eligible(i) /\ x \notin expired
        BY <1>1, <1>a, NextIsEligible DEF DispatchNext, Types
    <2> QED
        BY <1>a, <2>1 DEF DispatchNext, Eligible, Room
<1>3. /\ queue' \in Seq(Work) /\ Distinct(queue')
      /\ x \in Ids /\ x \in JobIds /\ x <= sequence /\ class \in Classes /\ Unused(x) /\ x # Start
      /\ \A n \in 1..Len(queue') : \E m \in 1..Len(queue) : m # i /\ queue'[n] = queue[m]
      /\ \A n \in 1..Len(queue') : queue'[n].id # x
      /\ \A c \in Classes : IF c = class
                             THEN Cardinality(IdsAt(queue', c)) = Cardinality(IdsAt(queue, c)) - 1
                             ELSE IdsAt(queue', c) = IdsAt(queue, c)
    BY <1>1, <1>2, <1>a, Taken
<1>4. session # NoSession /\ session \in Session /\ session.inc = inc /\ session.gen <= gen
      /\ session.inc \in Nat /\ session.gen \in Nat
    <2>1. session \in Session /\ session # NoSession
        BY <1>1, <1>2 DEF ByState, Types
    <2> QED
        BY <1>1, <2>1 DEF Session, Sound
<1>5. j \in Job /\ j # NoJob /\ j.class = class /\ j.inc = inc /\ j.gen <= gen /\ j.result # "ok"
    BY <1>3, <1>4, NewJobTypes
<1> HIDE DEF j
<1>6. /\ job' \in [JobIds -> Job \cup {NoJob}] /\ job'[x] = j
      /\ \A k \in JobIds \ {x} : job'[k] = job[k]
      /\ Live' = Live \cup {x} /\ x \notin Live
    <2>1. /\ job' \in [JobIds -> Job \cup {NoJob}] /\ job'[x] = j
          /\ \A k \in JobIds \ {x} : job'[k] = job[k]
        BY <1>1, <1>2, <1>3, <1>5 DEF Types
    <2> QED
        BY <1>3, <1>5, <2>1 DEF Live, Unused
<1>7. Types'
    BY <1>0, <1>1, <1>2, <1>3, <1>6 DEF Types
<1>8. \A k \in Ids \ {x} : Unused(k) => Unused(k)'
    BY <1>0, <1>6, IdsAreJobIds DEF Unused
<1>9. Numbered'
    <2>1. ASSUME NEW n \in 1..Len(queue') PROVE queue'[n].id <= sequence' /\ Unused(queue[n].id)'
        <3>1. PICK m \in 1..Len(queue) : m # i /\ queue'[n] = queue[m]
            BY <1>3
        <3>2. queue[m].id <= sequence /\ Unused(queue[m].id) /\ queue[m].id \in Ids
            BY <1>1, ItemTypes DEF Numbered, Types
        <3> QED
            BY <1>0, <1>3, <1>8, <3>1, <3>2 DEF Unused
    <2>2. ASSUME NEW k \in Ids, k > sequence' PROVE Unused(k)'
        <3>1. k # x
            BY <1>0, <1>1, <1>3, <2>2 DEF Types, Ids
        <3> QED
            BY <1>0, <1>1, <1>8, <2>2, <3>1 DEF Numbered
    <2>3. ASSUME NEW k \in Ids PROVE job'[k] = NoJob \/ completed'[k] = NoJob
        <3>1. CASE k = x
            BY <1>0, <1>3, <3>1 DEF Unused
        <3>2. CASE k # x
            BY <1>0, <1>1, <1>6, <3>2, IdsAreJobIds DEF Numbered
        <3> QED
            BY <3>1, <3>2
    <2> QED
        BY <1>3, <2>1, <2>2, <2>3 DEF Numbered, Distinct
<1>10. ByState'
    BY <1>0, <1>1, <1>2, <1>3, <1>6 DEF ByState
<1>11. Sound'
    <2>1. JobSound(x)'
        <3>1. x \notin disturbed' /\ x \notin asked' /\ job'[x] = j
            BY <1>0, <1>3, <1>6 DEF Unused
        <3>2. gen' = gen /\ inc' = inc
            BY <1>0
        <3> QED
            BY <1>5, <3>1, <3>2 DEF JobSound
    <2>2. ASSUME NEW k \in Live PROVE JobSound(k)'
        <3>1. k \in JobIds \ {x} /\ JobSound(k)
            BY <1>1, <1>6 DEF Live, Sound
        <3> QED
            BY <1>0, <1>6, <3>1 DEF JobSound
    <2>3. ASSUME NEW k \in Ids, completed'[k] # NoJob PROVE ResultSound(k)'
        BY <1>0, <1>1, <2>3 DEF Sound, ResultSound
    <2>4. ASSUME NEW k \in disturbed' \cup asked' PROVE job'[k] # NoJob \/ completed'[k] # NoJob
        BY <1>0, <1>1, <1>5, <1>6, <2>4, IdsAreJobIds DEF Sound, Types
    <2>5. session' # NoSession => session'.inc = inc' /\ session'.gen <= gen'
        BY <1>0, <1>4
    <2>6. \A k \in Live' : JobSound(k)'
        BY <1>6, <2>1, <2>2
    <2> QED
        BY <2>3, <2>4, <2>5, <2>6 DEF Sound
<1>12. Counted'
    <2> SUFFICES ASSUME NEW c \in Classes
                 PROVE  /\ retained[c]' = Cardinality(IdsAt(queue', c)) + Cardinality(JobsOf(c)')
                                    + Cardinality(ResultsOf(c)') + SlotHolds(c)' + Borrowed(c)'
                        /\ running[c]' = Cardinality(JobsOf(c)') + Borrowed(c)'
        BY DEF Counted
    <2>1. ResultsOf(c)' = ResultsOf(c) /\ SlotHolds(c)' = SlotHolds(c) /\ Borrowed(c)' = Borrowed(c)
        BY <1>0 DEF ResultsOf, SlotHolds, Borrowed, Reserved
    <2>2. /\ Cardinality(IdsAt(queue, c)) \in Nat /\ Cardinality(JobsOf(c)) \in Nat
          /\ Cardinality(ResultsOf(c)) \in Nat /\ SlotHolds(c) \in Nat /\ Borrowed(c) \in Nat
        BY <1>1, CountedSets DEF SlotHolds, Borrowed
    <2>3. /\ JobsOf(c) \in SUBSET JobIds /\ JobsOf(c)' \in SUBSET JobIds
          /\ \A k \in JobIds \ {x} : k \in JobsOf(c)' <=> k \in JobsOf(c)
          /\ x \notin JobsOf(c) /\ (x \in JobsOf(c)' <=> c = class)
        BY <1>3, <1>5, <1>6 DEF JobsOf, Live
    <2>4. CASE c = class
        <3>1. Cardinality(JobsOf(c)') = Cardinality(JobsOf(c)) + 1
            BY <1>3, <2>3, <2>4, DifferByOne
        <3>2. running'[c] = running[c] + 1
            BY <1>1, <1>2, <2>4 DEF Types
        <3>3. Cardinality(IdsAt(queue', c)) = Cardinality(IdsAt(queue, c)) - 1
            BY <1>3, <2>4
        <3>4. /\ retained[c] = Cardinality(IdsAt(queue, c)) + Cardinality(JobsOf(c))
                               + Cardinality(ResultsOf(c)) + SlotHolds(c) + Borrowed(c)
              /\ running[c] = Cardinality(JobsOf(c)) + Borrowed(c)
            BY <1>1 DEF Counted
        <3>5. \A a, b, r, h, o \in Nat : a + b + r + h + o = (a - 1) + (b + 1) + r + h + o
            OBVIOUS
        <3>6. /\ retained'[c] = retained[c]
              /\ retained[c] = (Cardinality(IdsAt(queue, c)) - 1) + (Cardinality(JobsOf(c)) + 1)
                               + Cardinality(ResultsOf(c)) + SlotHolds(c) + Borrowed(c)
            BY <1>0, <2>2, <3>4, <3>5
        <3>7. running'[c] = (Cardinality(JobsOf(c)) + 1) + Borrowed(c)
            BY <2>2, <3>2, <3>4
        <3> QED
            BY <2>1, <3>1, <3>3, <3>6, <3>7
    <2>5. CASE c # class
        <3>1. Cardinality(JobsOf(c)') = Cardinality(JobsOf(c))
            BY <1>3, <2>3, <2>5, DifferByOne
        <3>2. running'[c] = running[c]
            BY <1>1, <1>2, <2>5 DEF Types
        <3>3. IdsAt(queue', c) = IdsAt(queue, c)
            BY <1>3, <2>5
        <3> QED
            BY <1>0, <1>1, <2>1, <3>1, <3>2, <3>3 DEF Counted
    <2> QED
        BY <2>4, <2>5
<1>13. WithinBounds'
    BY <1>0, <1>1, <1>2, <1>3, CountUp, RuntimeAssumption DEF WithinBounds, Types
<1> QED
    BY <1>7, <1>9, <1>10, <1>11, <1>12, <1>13 DEF RuntimeInv

-----------------------------------------------------------------------------
(* Steps that end a job or hand out a result.                              *)

\* A job leaves: its class has one fewer.
LEMMA JobLeaves ==
    ASSUME Types, NEW i \in Live, job' \in [JobIds -> Job \cup {NoJob}], job'[i] = NoJob,
           \A k \in JobIds \ {i} :
              (job'[k] = NoJob <=> job[k] = NoJob) /\ job'[k].class = job[k].class
    PROVE  /\ i \in JobIds /\ job[i] \in Job /\ job[i].class \in Classes
           /\ Live' = Live \ {i}
           /\ Cardinality(JobsOf(job[i].class)) \in Nat \ {0}
           /\ \A c \in Classes :
                 Cardinality(JobsOf(c)') = IF c = job[i].class THEN Cardinality(JobsOf(c)) - 1
                                           ELSE Cardinality(JobsOf(c))
<1>1. i \in JobIds /\ job[i] \in Job /\ job[i].class \in Classes
    BY DEF Live, Types, Job
<1>2. Live' = Live \ {i}
    <2>1. ASSUME NEW k \in JobIds PROVE job'[k] # NoJob <=> job[k] # NoJob /\ k # i
        OBVIOUS
    <2> QED
        BY <2>1 DEF Live
<1>a. PICK class : class = job[i].class
    OBVIOUS
<1>3. ASSUME NEW c \in Classes
      PROVE  /\ Cardinality(JobsOf(c)') = IF c = class THEN Cardinality(JobsOf(c)) - 1
                                           ELSE Cardinality(JobsOf(c))
             /\ Cardinality(JobsOf(c)') \in Nat /\ Cardinality(JobsOf(c)) \in Nat
    <2>1. /\ JobsOf(c) \in SUBSET JobIds /\ JobsOf(c)' \in SUBSET JobIds
          /\ \A k \in JobIds \ {i} : k \in JobsOf(c)' <=> k \in JobsOf(c)
          /\ i \notin JobsOf(c)' /\ (i \in JobsOf(c) <=> c = class)
        <3>1. Live \subseteq JobIds /\ Live' \subseteq JobIds
            BY DEF Live
        <3>2. ASSUME NEW k \in JobIds \ {i} PROVE k \in JobsOf(c)' <=> k \in JobsOf(c)
            BY <1>2 DEF JobsOf
        <3> QED
            BY <1>1, <1>2, <1>a, <3>1, <3>2 DEF JobsOf
    <2>2. CASE c = class
        BY <1>1, <2>1, <2>2, DifferByOne, IdsFinite
    <2>3. CASE c # class
        BY <1>1, <2>1, <2>3, DifferByOne, IdsFinite
    <2> QED
        BY <2>2, <2>3
<1>4. Cardinality(JobsOf(class)) \in Nat \ {0}
    BY <1>1, <1>3, <1>a
<1> QED
    BY <1>1, <1>2, <1>3, <1>4, <1>a

\* A number that is neither job nor result, and what is known of no other work
\* changes: the numbering holds on.
LEMMA SettledNumbers ==
    ASSUME Types, Numbered, Sound, NEW S \in SUBSET JobIds,
           \A k \in S : job'[k] = NoJob,
           \A k \in S \cap Ids : completed'[k] = NoJob,
           \A k \in JobIds \ S : job'[k] = NoJob <=> job[k] = NoJob,
           \A k \in Ids \ S : completed'[k] = NoJob <=> completed[k] = NoJob,
           disturbed' = disturbed \ S, asked' = asked \ S,
           UNCHANGED <<sequence, queue>>
    PROVE  /\ Numbered'
           /\ \A k \in disturbed' \cup asked' : job'[k] # NoJob \/ completed'[k] # NoJob
<1>1. \A k \in Ids : Unused(k) => Unused(k)'
    BY IdsAreJobIds DEF Unused
<1>2. \A n \in 1..Len(queue) : queue[n].id \in Ids
    BY ItemTypes DEF Types
<1>3. \A k \in Ids : job'[k] = NoJob \/ completed'[k] = NoJob
    BY IdsAreJobIds DEF Numbered
<1>4. Numbered'
    BY <1>1, <1>2, <1>3 DEF Numbered
<1> QED
    BY <1>4, IdsAreJobIds DEF Sound, Types

\* A job that is joined and forgotten gives back both reservations.
LEMMA Forgotten ==
    ASSUME RuntimeInv, NEW i \in JobIds, Join(i), Forget(i), Settled({i}),
           UNCHANGED <<opened, inc, lastInc, sequence, queue, completed, slots>>
    PROVE  /\ Numbered' /\ Counted' /\ WithinBounds'
           /\ i \in Live /\ Live' = Live \ {i} /\ \A k \in Live' : job'[k] = job[k] /\ JobSound(k)'
           /\ \A k \in Ids : completed'[k] # NoJob => ResultSound(k)'
           /\ \A k \in disturbed' \cup asked' : job'[k] # NoJob \/ completed'[k] # NoJob
           /\ state' \in States /\ session' \in Session \cup {NoSession} => Types'
           /\ UNCHANGED <<inc, queue, completed, slot, listed, abandoned, gen>>
<1>0. /\ UNCHANGED <<opened, inc, lastInc, sequence, queue, completed, slot, listed, cutoff, abandoned, gen>>
      /\ expired' = expired \ {i} /\ disturbed' = disturbed \ {i} /\ asked' = asked \ {i}
    BY DEF Settled, slots
<1>1. Types /\ Numbered /\ ByState /\ Sound /\ Counted /\ WithinBounds
    BY DEF RuntimeInv
<1>2. /\ i \in Live /\ job' = [job EXCEPT ![i] = NoJob]
      /\ running' = [running EXCEPT ![job[i].class] = @ - 1]
      /\ retained' = [retained EXCEPT ![job[i].class] = @ - 1]
      /\ owners' \in BOOLEAN
    BY <1>1 DEF Join, Forget, InPhase, Types
<1>3. /\ job' \in [JobIds -> Job \cup {NoJob}] /\ job'[i] = NoJob
      /\ \A k \in JobIds \ {i} : job'[k] = job[k]
    BY <1>1, <1>2 DEF Types
<1>a. PICK class : class = job[i].class
    OBVIOUS
<1>4. /\ class \in Classes /\ Live' = Live \ {i}
      /\ Cardinality(JobsOf(class)) \in Nat \ {0}
      /\ \A c \in Classes :
            Cardinality(JobsOf(c)') = IF c = class THEN Cardinality(JobsOf(c)) - 1
                                      ELSE Cardinality(JobsOf(c))
    BY <1>1, <1>2, <1>3, <1>a, JobLeaves
<1>5. \A c \in Classes :
          /\ Cardinality(IdsAt(queue, c)) \in Nat /\ Cardinality(JobsOf(c)) \in Nat
          /\ Cardinality(ResultsOf(c)) \in Nat /\ SlotHolds(c) \in Nat /\ Borrowed(c) \in Nat
          /\ retained[c] = Cardinality(IdsAt(queue, c)) + Cardinality(JobsOf(c))
                           + Cardinality(ResultsOf(c)) + SlotHolds(c) + Borrowed(c)
          /\ running[c] = Cardinality(JobsOf(c)) + Borrowed(c)
    BY <1>1, CountedSets DEF SlotHolds, Borrowed, Counted
<1>6. retained[class] > 0 /\ running[class] > 0
    BY <1>4, <1>5
<1>7. /\ retained' \in [Classes -> Nat] /\ running' \in [Classes -> Nat]
      /\ retained'[class] = retained[class] - 1 /\ running'[class] = running[class] - 1
      /\ \A c \in Classes \ {class} : retained'[c] = retained[c] /\ running'[c] = running[c]
      /\ WithinBounds'
    <2>1. /\ retained \in [Classes -> Nat] /\ running \in [Classes -> Nat]
          /\ QueueSlots \in [Classes -> Nat] /\ RunningSlots \in [Classes -> Nat]
          /\ \A c \in Classes : retained[c] <= QueueSlots[c]
          /\ \A c \in Classes : running[c] <= RunningSlots[c]
        BY <1>1, RuntimeAssumption DEF Types, WithinBounds
    <2>2. /\ retained' \in [Classes -> Nat] /\ retained'[class] = retained[class] - 1
          /\ \A c \in Classes \ {class} : retained'[c] = retained[c]
          /\ \A c \in Classes : retained'[c] <= QueueSlots[c]
        BY <1>2, <1>a, <1>4, <1>6, <2>1, CountDown
    <2>3. /\ running' \in [Classes -> Nat] /\ running'[class] = running[class] - 1
          /\ \A c \in Classes \ {class} : running'[c] = running[c]
          /\ \A c \in Classes : running'[c] <= RunningSlots[c]
        BY <1>2, <1>a, <1>4, <1>6, <2>1, CountDown
    <2> QED
        BY <2>2, <2>3 DEF WithinBounds
<1>8. Counted'
    <2> SUFFICES ASSUME NEW c \in Classes
                 PROVE  /\ retained[c]' = Cardinality(IdsAt(queue', c)) + Cardinality(JobsOf(c)')
                                    + Cardinality(ResultsOf(c)') + SlotHolds(c)' + Borrowed(c)'
                        /\ running[c]' = Cardinality(JobsOf(c)') + Borrowed(c)'
        BY DEF Counted
    <2>1. /\ ResultsOf(c)' = ResultsOf(c) /\ SlotHolds(c)' = SlotHolds(c) /\ Borrowed(c)' = Borrowed(c)
          /\ queue' = queue
        BY <1>0 DEF ResultsOf, SlotHolds, Borrowed, Reserved
    <2>2. CASE c = class
        BY <1>4, <1>5, <1>7, <2>1, <2>2
    <2>3. CASE c # class
        BY <1>4, <1>5, <1>7, <2>1, <2>3
    <2> QED
        BY <2>2, <2>3
<1>9. /\ Numbered'
      /\ \A k \in disturbed' \cup asked' : job'[k] # NoJob \/ completed'[k] # NoJob
    <2>1. i \in Ids => completed'[i] = NoJob
        BY <1>0, <1>1, <1>2 DEF Numbered, Live
    <2>2. {i} \in SUBSET JobIds
        OBVIOUS
    <2> QED
        BY <1>0, <1>1, <1>3, <2>1, <2>2, SettledNumbers
<1>10. \A k \in Live' : job'[k] = job[k] /\ JobSound(k)'
    <2> SUFFICES ASSUME NEW k \in Live' PROVE job'[k] = job[k] /\ JobSound(k)'
        OBVIOUS
    <2>1. k \in Live /\ k # i /\ k \in JobIds
        BY <1>4 DEF Live
    <2>2. job'[k] = job[k] /\ JobSound(k)
        BY <1>1, <1>3, <2>1 DEF Sound
    <2> QED
        BY <1>0, <2>1, <2>2 DEF JobSound
<1>11. \A k \in Ids : completed'[k] # NoJob => ResultSound(k)'
    BY <1>0, <1>1 DEF Sound, ResultSound
<1>12. state' \in States /\ session' \in Session \cup {NoSession} => Types'
    BY <1>0, <1>1, <1>2, <1>3, <1>7 DEF Types
<1> QED
    BY <1>0, <1>2, <1>4, <1>7, <1>8, <1>9, <1>10, <1>11, <1>12

\* A job joined while the runtime stops, and the join of a start.
LEMMA ForgetSteps ==
    ASSUME RuntimeInv, NEW i \in JobIds, PollDiscards(i) \/ (i = Start /\ PollStart)
    PROVE  RuntimeInv'
<1>1. Types /\ Numbered /\ ByState /\ Sound /\ Counted /\ WithinBounds
    BY DEF RuntimeInv
<1>2. /\ Join(i) /\ Forget(i) /\ Settled({i})
      /\ UNCHANGED <<opened, inc, lastInc, sequence, queue, completed, slots>>
    BY DEF PollDiscards, PollStart
<1>3. /\ Numbered' /\ Counted' /\ WithinBounds'
      /\ i \in Live /\ Live' = Live \ {i} /\ \A k \in Live' : job'[k] = job[k] /\ JobSound(k)'
      /\ \A k \in Ids : completed'[k] # NoJob => ResultSound(k)'
      /\ \A k \in disturbed' \cup asked' : job'[k] # NoJob \/ completed'[k] # NoJob
      /\ state' \in States /\ session' \in Session \cup {NoSession} => Types'
      /\ UNCHANGED <<inc, queue, completed, slot, listed, abandoned, gen>>
    BY <1>2, Forgotten
<1>4. CASE PollDiscards(i)
    <2>1. /\ state \in {"Stopping", "Unresolved"} /\ session' = session
          /\ state' \in {state, "Stopped"}
          /\ state' = "Stopped" => Live = {i} /\ ~listed
        BY <1>4 DEF PollDiscards, Ending
    <2>2. Types'
        BY <1>1, <1>3, <2>1 DEF Types, States
    <2>3. session = NoSession /\ queue = << >> /\ \A k \in Ids : completed[k] = NoJob
        BY <1>1, <2>1 DEF ByState
    <2>4. ByState'
        BY <1>1, <1>3, <2>1, <2>3 DEF ByState
    <2>5. Sound'
        BY <1>3, <2>1, <2>3 DEF Sound
    <2> QED
        BY <1>3, <2>2, <2>4, <2>5 DEF RuntimeInv
<1>5. CASE i = Start /\ PollStart
    <2>1. state = "Starting" /\ Live \subseteq {Start}
        BY <1>1, <1>3, <1>5 DEF ByState, PollStart, Ending
    <2>2. Live' = {}
        BY <1>3, <1>5, <2>1
    <2>3. /\ session = NoSession /\ queue = << >>
          /\ \A k \in Ids : completed[k] = NoJob
        BY <1>1, <2>1 DEF ByState, Types
    <2>4. job[Start] \in Job /\ job[Start].inc = inc /\ job[Start].gen <= gen
        BY <1>1, <1>3, <1>5, IdsAreJobIds DEF Types, Live, Sound, JobSound
    <2>5. \/ /\ session' = [inc |-> job[Start].inc, gen |-> job[Start].gen]
             /\ state' = "RunningInert"
          \/ state' = "Held" /\ session' = session
        BY <1>5 DEF PollStart
    <2>6. CASE /\ session' = [inc |-> job[Start].inc, gen |-> job[Start].gen]
               /\ state' = "RunningInert"
        <3>1. session' \in Session /\ session' # NoSession /\ session'.inc = inc /\ session'.gen <= gen
            BY <2>4, <2>6, NoneAssumption DEF Session, Job
        <3>2. Types'
            BY <1>3, <2>6, <3>1 DEF States
        <3>3. ByState'
            BY <1>1, <1>3, <2>1, <2>2, <2>3, <2>6, <3>1 DEF ByState
        <3>4. Sound'
            BY <1>3, <2>2, <3>1 DEF Sound
        <3> QED
            BY <1>3, <3>2, <3>3, <3>4 DEF RuntimeInv
    <2>7. CASE state' = "Held" /\ session' = session
        <3>1. Types'
            BY <1>1, <1>3, <2>7 DEF States, Types
        <3>2. ByState'
            BY <1>1, <1>3, <2>1, <2>2, <2>3, <2>7 DEF ByState
        <3>3. Sound'
            BY <1>3, <2>2, <2>3, <2>7 DEF Sound
        <3> QED
            BY <1>3, <3>1, <3>2, <3>3 DEF RuntimeInv
    <2> QED
        BY <2>5, <2>6, <2>7
<1> QED
    BY <1>4, <1>5

\* A result is handed out: its number and its reservation go.
LEMMA TakeStep ==
    ASSUME RuntimeInv, NEW i \in Ids, TakeResult(i)
    PROVE  RuntimeInv'
<1>0. /\ UNCHANGED <<state, opened, owners, session, inc, lastInc, sequence, queue, job, running,
                     slot, listed, cutoff, abandoned, gen>>
      /\ expired' = expired \ {i} /\ disturbed' = disturbed \ {i} /\ asked' = asked \ {i}
    BY DEF TakeResult, Settled, life, slots
<1>1. Types /\ Numbered /\ ByState /\ Sound /\ Counted /\ WithinBounds
    BY DEF RuntimeInv
<1>a. PICK class : class = completed[i].class
    OBVIOUS
<1>2. /\ completed[i] # NoJob /\ completed[i] \in Result /\ class \in Classes
      /\ completed' = [completed EXCEPT ![i] = NoJob]
      /\ retained' = [retained EXCEPT ![class] = @ - 1]
      /\ i \in JobIds /\ job[i] = NoJob
    BY <1>1, <1>a, IdsAreJobIds DEF TakeResult, Types, Result, Numbered
<1>3. /\ completed' \in [Ids -> Result \cup {NoJob}] /\ completed'[i] = NoJob
      /\ \A k \in Ids \ {i} : completed'[k] = completed[k]
    BY <1>1, <1>2 DEF Types
<1>4. \A c \in Classes :
          /\ Cardinality(IdsAt(queue, c)) \in Nat /\ Cardinality(JobsOf(c)) \in Nat
          /\ Cardinality(ResultsOf(c)) \in Nat /\ SlotHolds(c) \in Nat /\ Borrowed(c) \in Nat
          /\ retained[c] = Cardinality(IdsAt(queue, c)) + Cardinality(JobsOf(c))
                           + Cardinality(ResultsOf(c)) + SlotHolds(c) + Borrowed(c)
          /\ running[c] = Cardinality(JobsOf(c)) + Borrowed(c)
    BY <1>1, CountedSets DEF SlotHolds, Borrowed, Counted
<1>5. ASSUME NEW c \in Classes
      PROVE  /\ c = class => Cardinality(ResultsOf(c)') = Cardinality(ResultsOf(c)) - 1
             /\ c # class => Cardinality(ResultsOf(c)') = Cardinality(ResultsOf(c))
             /\ Cardinality(ResultsOf(c)') \in Nat
    <2>1. /\ ResultsOf(c) \in SUBSET JobIds /\ ResultsOf(c)' \in SUBSET JobIds
          /\ i \notin ResultsOf(c)' /\ (i \in ResultsOf(c) <=> c = class)
        BY <1>2, <1>3, <1>a, IdsAreJobIds DEF ResultsOf
    <2>2. ASSUME NEW k \in JobIds \ {i} PROVE k \in ResultsOf(c)' <=> k \in ResultsOf(c)
        BY <1>3, <2>2 DEF ResultsOf
    <2> QED
        BY <1>2, <2>1, <2>2, DifferByOne, IdsFinite
<1>6. retained[class] > 0
    BY <1>2, <1>4, <1>5
<1>7. /\ retained' \in [Classes -> Nat] /\ retained'[class] = retained[class] - 1
      /\ \A c \in Classes \ {class} : retained'[c] = retained[c]
      /\ WithinBounds'
    <2>1. /\ retained \in [Classes -> Nat] /\ QueueSlots \in [Classes -> Nat]
          /\ \A c \in Classes : retained[c] <= QueueSlots[c]
        BY <1>1, RuntimeAssumption DEF Types, WithinBounds
    <2>2. /\ retained' \in [Classes -> Nat] /\ retained'[class] = retained[class] - 1
          /\ \A c \in Classes \ {class} : retained'[c] = retained[c]
          /\ \A c \in Classes : retained'[c] <= QueueSlots[c]
        BY <1>2, <1>6, <2>1, CountDown
    <2> QED
        BY <1>0, <1>1, <2>2 DEF WithinBounds
<1>8. Counted'
    <2> SUFFICES ASSUME NEW c \in Classes
                 PROVE  /\ retained[c]' = Cardinality(IdsAt(queue', c)) + Cardinality(JobsOf(c)')
                                    + Cardinality(ResultsOf(c)') + SlotHolds(c)' + Borrowed(c)'
                        /\ running[c]' = Cardinality(JobsOf(c)') + Borrowed(c)'
        BY DEF Counted
    <2>1. /\ JobsOf(c)' = JobsOf(c) /\ SlotHolds(c)' = SlotHolds(c) /\ Borrowed(c)' = Borrowed(c)
          /\ queue' = queue /\ running' = running
        BY <1>0 DEF JobsOf, Live, SlotHolds, Borrowed, Reserved
    <2>2. CASE c = class
        BY <1>4, <1>5, <1>7, <2>1, <2>2
    <2>3. CASE c # class
        BY <1>4, <1>5, <1>7, <2>1, <2>3
    <2> QED
        BY <2>2, <2>3
<1>9. /\ Numbered'
      /\ \A k \in disturbed' \cup asked' : job'[k] # NoJob \/ completed'[k] # NoJob
    <2>1. {i} \in SUBSET JobIds
        BY <1>2
    <2>2. /\ \A k \in {i} : job'[k] = NoJob
          /\ \A k \in {i} \cap Ids : completed'[k] = NoJob
          /\ \A k \in JobIds \ {i} : job'[k] = NoJob <=> job[k] = NoJob
          /\ \A k \in Ids \ {i} : completed'[k] = NoJob <=> completed[k] = NoJob
        BY <1>0, <1>2, <1>3
    <2> QED
        BY <1>0, <1>1, <2>1, <2>2, SettledNumbers
<1>10. Types'
    BY <1>0, <1>1, <1>3, <1>7 DEF Types
<1>11. ByState'
    <2>1. Live' = Live
        BY <1>0 DEF Live
    <2>2. state \in {"RunningInert", "Held"}
        BY <1>1, <1>2 DEF ByState
    <2> QED
        BY <1>0, <1>1, <2>1, <2>2 DEF ByState
<1>12. Sound'
    <2>1. ASSUME NEW k \in Live PROVE JobSound(k)'
        BY <1>0, <1>1 DEF Sound, JobSound
    <2>2. ASSUME NEW k \in Ids, completed'[k] # NoJob PROVE ResultSound(k)'
        BY <1>0, <1>1, <1>3, <2>2 DEF Sound, ResultSound
    <2>3. Live' = Live
        BY <1>0 DEF Live
    <2> QED
        BY <1>0, <1>1, <1>9, <2>1, <2>2, <2>3 DEF Sound
<1> QED
    BY <1>7, <1>8, <1>9, <1>10, <1>11, <1>12 DEF RuntimeInv

\* The publication moves on behind the runtime, and every read under way is disturbed.
LEMMA ActivateStep ==
    ASSUME RuntimeInv, Activate
    PROVE  RuntimeInv'
<1> DEFINE Reading == {i \in Live \ {Start} : job[i].phase = "reading"}
<1>0. UNCHANGED <<state, opened, owners, session, inc, lastInc, sequence, queue, job, completed,
                  retained, running, slot, listed, cutoff, abandoned, expired, asked>>
    BY DEF Activate, life, work, held, slots
<1>1. Types /\ Numbered /\ ByState /\ Sound /\ Counted /\ WithinBounds
    BY DEF RuntimeInv
<1>2. gen \in Nat /\ gen' = gen + 1 /\ disturbed' = disturbed \cup Reading
    BY <1>1 DEF Activate, Types
<1>3. Reading \subseteq Ids /\ \A i \in Reading : job[i] # NoJob
    BY RuntimeAssumption DEF Live, Ids, JobIds, Start
<1> HIDE DEF Reading
<1>4. Types'
    BY <1>0, <1>1, <1>2, <1>3 DEF Types
<1>5. Numbered'
    <2>1. \A i \in Ids : Unused(i) => Unused(i)'
        BY <1>0, <1>2, <1>3 DEF Unused
    <2>2. \A n \in 1..Len(queue) : queue[n].id \in Ids
        BY <1>1, ItemTypes DEF Types
    <2> QED
        BY <1>0, <1>1, <2>1, <2>2 DEF Numbered
<1>6. ByState'
    BY <1>0, <1>1 DEF ByState, Live
<1>7. Sound'
    <2>1. ASSUME NEW i \in Live PROVE JobSound(i)'
        <3>1. JobSound(i) /\ job[i].gen \in Nat
            BY <1>1 DEF Sound, Live, Types, Job
        <3>2. i \in Reading => job[i].result # "ok"
            BY <3>1 DEF JobSound, Reading
        <3>3. job[i].gen <= gen + 1 /\ job[i].gen < gen + 1
            BY <1>2, <3>1 DEF JobSound
        <3> QED
            BY <1>0, <1>2, <3>1, <3>2, <3>3 DEF JobSound
    <2>2. ASSUME NEW i \in Ids, completed[i] # NoJob PROVE ResultSound(i)'
        <3>1. i \notin Reading
            BY <1>1, <1>3, <2>2 DEF Numbered
        <3> QED
            BY <1>0, <1>1, <1>2, <2>2, <3>1 DEF Sound, ResultSound
    <2>3. session' # NoSession => session'.inc = inc' /\ session'.gen <= gen'
        <3>1. session # NoSession => session.gen \in Nat
            BY <1>1 DEF Types, Session
        <3> QED
            BY <1>0, <1>1, <1>2, <3>1 DEF Sound
    <2>4. Live' = Live
        BY <1>0 DEF Live
    <2> QED
        BY <1>0, <1>1, <1>2, <1>3, <2>1, <2>2, <2>3, <2>4 DEF Sound
<1>8. Counted' /\ WithinBounds'
    BY <1>0, <1>1, SameCount
<1> QED
    BY <1>4, <1>5, <1>6, <1>7, <1>8 DEF RuntimeInv

\* The start of an incarnation takes a job and both of its reservations.
LEMMA BeginStep ==
    ASSUME RuntimeInv, BeginStart
    PROVE  RuntimeInv'
<1> DEFINE j == NewJob("reconcile", lastInc + 1, 0)
<1>0. UNCHANGED <<owners, sequence, queue, completed, slot, listed, cutoff, abandoned, expired, gen,
                  disturbed, asked>>
    BY DEF BeginStart, slots, world
<1>1. Types /\ Numbered /\ ByState /\ Sound /\ Counted /\ WithinBounds
    BY DEF RuntimeInv
<1>2. /\ state = "Stopped" /\ state' = "Starting" /\ Live = {}
      /\ retained["reconcile"] < QueueSlots["reconcile"]
      /\ running["reconcile"] < RunningSlots["reconcile"]
      /\ retained' = [retained EXCEPT !["reconcile"] = @ + 1]
      /\ running' = [running EXCEPT !["reconcile"] = @ + 1]
      /\ lastInc' = lastInc + 1 /\ inc' = lastInc + 1 /\ opened' = TRUE /\ session' = NoSession
      /\ job' = [job EXCEPT ![Start] = j]
    BY DEF BeginStart, Room
<1>3. "reconcile" \in Classes /\ Start \in JobIds /\ Start \notin Ids /\ lastInc + 1 \in Nat /\ gen \in Nat
    BY <1>1, IdsAreJobIds DEF Classes, Types
<1>4. j \in Job /\ j # NoJob /\ j.class = "reconcile" /\ j.inc = lastInc + 1 /\ j.gen = 0 /\ j.result # "ok"
    BY <1>3, NewJobTypes
<1> HIDE DEF j
<1>5. /\ job' \in [JobIds -> Job \cup {NoJob}] /\ job'[Start] = j
      /\ \A k \in JobIds \ {Start} : job'[k] = job[k]
      /\ Live' = {Start}
    <2>1. /\ job' \in [JobIds -> Job \cup {NoJob}] /\ job'[Start] = j
          /\ \A k \in JobIds \ {Start} : job'[k] = job[k]
        BY <1>1, <1>2, <1>3, <1>4 DEF Types
    <2> QED
        BY <1>2, <1>3, <1>4, <2>1 DEF Live
<1>6. /\ retained' \in [Classes -> Nat] /\ retained'["reconcile"] = retained["reconcile"] + 1
      /\ running' \in [Classes -> Nat] /\ running'["reconcile"] = running["reconcile"] + 1
      /\ \A c \in Classes \ {"reconcile"} : retained'[c] = retained[c] /\ running'[c] = running[c]
      /\ WithinBounds'
    <2>1. /\ retained \in [Classes -> Nat] /\ running \in [Classes -> Nat]
          /\ QueueSlots \in [Classes -> Nat] /\ RunningSlots \in [Classes -> Nat]
          /\ \A c \in Classes : retained[c] <= QueueSlots[c]
          /\ \A c \in Classes : running[c] <= RunningSlots[c]
        BY <1>1, RuntimeAssumption DEF Types, WithinBounds
    <2>2. /\ retained' \in [Classes -> Nat] /\ retained'["reconcile"] = retained["reconcile"] + 1
          /\ \A c \in Classes \ {"reconcile"} : retained'[c] = retained[c]
          /\ \A c \in Classes : retained'[c] <= QueueSlots[c]
        BY <1>2, <1>3, <2>1, CountUp
    <2>3. /\ running' \in [Classes -> Nat] /\ running'["reconcile"] = running["reconcile"] + 1
          /\ \A c \in Classes \ {"reconcile"} : running'[c] = running[c]
          /\ \A c \in Classes : running'[c] <= RunningSlots[c]
        BY <1>2, <1>3, <2>1, CountUp
    <2> QED
        BY <2>2, <2>3 DEF WithinBounds
<1>7. Types'
    BY <1>0, <1>1, <1>2, <1>3, <1>5, <1>6 DEF Types, States
<1>8. Numbered'
    <2>1. \A k \in Ids : Unused(k)' <=> Unused(k)
        BY <1>0, <1>3, <1>5, IdsAreJobIds DEF Unused
    <2>2. \A n \in 1..Len(queue) : queue[n].id \in Ids
        BY <1>1, ItemTypes DEF Types
    <2>3. \A k \in Ids : job'[k] = NoJob \/ completed'[k] = NoJob
        BY <1>0, <1>1, <1>3, <1>5, IdsAreJobIds DEF Numbered
    <2> QED
        BY <1>0, <1>1, <2>1, <2>2, <2>3 DEF Numbered
<1>9. /\ queue = << >> /\ session = NoSession /\ ~listed
      /\ \A k \in Ids : completed[k] = NoJob
    BY <1>1, <1>2 DEF ByState, Types
<1>10. ByState'
    BY <1>0, <1>1, <1>2, <1>5, <1>9 DEF ByState
<1>11. Sound'
    <2>1. Start \notin disturbed' /\ Start \notin asked' /\ job'[Start] = j /\ inc' = lastInc + 1 /\ gen' = gen
        BY <1>0, <1>1, <1>2, <1>3, <1>5 DEF Types
    <2>2. JobSound(Start)'
        BY <1>3, <1>4, <2>1 DEF JobSound
    <2>3. \A k \in disturbed' \cup asked' : job'[k] # NoJob \/ completed'[k] # NoJob
        BY <1>0, <1>1, <1>3, <1>5, IdsAreJobIds DEF Sound, Types
    <2>4. \A k \in Live' : JobSound(k)'
        BY <1>5, <2>2
    <2> QED
        BY <1>0, <1>2, <1>9, <2>3, <2>4 DEF Sound
<1>12. Counted'
    <2> SUFFICES ASSUME NEW c \in Classes
                 PROVE  /\ retained[c]' = Cardinality(IdsAt(queue', c)) + Cardinality(JobsOf(c)')
                                    + Cardinality(ResultsOf(c)') + SlotHolds(c)' + Borrowed(c)'
                        /\ running[c]' = Cardinality(JobsOf(c)') + Borrowed(c)'
        BY DEF Counted
    <2>1. /\ ResultsOf(c)' = ResultsOf(c) /\ SlotHolds(c)' = SlotHolds(c) /\ Borrowed(c)' = Borrowed(c)
          /\ queue' = queue
        BY <1>0 DEF ResultsOf, SlotHolds, Borrowed, Reserved
    <2>2. /\ JobsOf(c) = {} /\ JobsOf(c)' \in SUBSET JobIds /\ JobsOf(c) \in SUBSET JobIds
          /\ Start \in JobsOf(c)' <=> c = "reconcile"
          /\ \A k \in JobIds \ {Start} : k \in JobsOf(c)' <=> k \in JobsOf(c)
        BY <1>2, <1>3, <1>4, <1>5 DEF JobsOf
    <2>3. /\ Cardinality(IdsAt(queue, c)) \in Nat /\ Cardinality(JobsOf(c)) \in Nat
          /\ Cardinality(ResultsOf(c)) \in Nat /\ SlotHolds(c) \in Nat /\ Borrowed(c) \in Nat
          /\ retained[c] = Cardinality(IdsAt(queue, c)) + Cardinality(JobsOf(c))
                           + Cardinality(ResultsOf(c)) + SlotHolds(c) + Borrowed(c)
          /\ running[c] = Cardinality(JobsOf(c)) + Borrowed(c)
        BY <1>1, CountedSets DEF SlotHolds, Borrowed, Counted
    <2>4. /\ c = "reconcile" => Cardinality(JobsOf(c)') = Cardinality(JobsOf(c)) + 1
          /\ c # "reconcile" => Cardinality(JobsOf(c)') = Cardinality(JobsOf(c))
        BY <1>3, <2>2, DifferByOne
    <2>5. CASE c = "reconcile"
        BY <1>6, <2>1, <2>3, <2>4, <2>5
    <2>6. CASE c # "reconcile"
        BY <1>6, <2>1, <2>3, <2>4, <2>6
    <2> QED
        BY <2>5, <2>6
<1> QED
    BY <1>6, <1>7, <1>8, <1>10, <1>11, <1>12 DEF RuntimeInv

\* The running slots after a join.
LEMMA JoinFrees ==
    ASSUME RuntimeInv, NEW i \in Live, NEW class \in Classes, class = job[i].class,
           running' = [running EXCEPT ![class] = @ - 1]
    PROVE  /\ running' \in [Classes -> Nat] /\ running'[class] = running[class] - 1
           /\ \A c \in Classes \ {class} : running'[c] = running[c]
           /\ \A c \in Classes : running'[c] <= RunningSlots[c]
<1>1. Types /\ Numbered /\ WithinBounds /\ Counted
    BY DEF RuntimeInv
<1>2. i \in JobsOf(class) /\ JobsOf(class) \in SUBSET JobIds
    BY DEF JobsOf, Live
<1>3. Cardinality(JobsOf(class)) > 0
    <2>1. Cardinality(JobsOf(class) \ {i}) = Cardinality(JobsOf(class)) - 1
        BY <1>2, LoseOne
    <2>2. Cardinality(JobsOf(class)) \in Nat /\ Cardinality(JobsOf(class) \ {i}) \in Nat
        BY <1>2, IdsFinite
    <2> QED
        BY <2>1, <2>2
<1>4. running[class] > 0
    BY <1>1, <1>2, <1>3, IdsFinite DEF Counted, Borrowed
<1>5. /\ running \in [Classes -> Nat] /\ RunningSlots \in [Classes -> Nat]
      /\ \A c \in Classes : running[c] <= RunningSlots[c]
    BY <1>1, RuntimeAssumption DEF Types, WithinBounds
<1> QED
    BY <1>4, <1>5, CountDown

\* A finished job becomes a result, whose success was neither disturbed nor
\* cancelled; its retained reservation stays.
LEMMA WorkStep ==
    ASSUME RuntimeInv, NEW i \in JobIds, i # Start, PollWork(i)
    PROVE  RuntimeInv'
<1>a. PICK class, r : class = job[i].class /\ r = Finished(Joined(i) = "ok", class, job[i].inc)
    OBVIOUS
<1>0. UNCHANGED <<state, opened, session, inc, lastInc, sequence, queue, retained, slot, listed, cutoff,
                  abandoned, expired, gen, disturbed, asked>>
    BY DEF PollWork, slots, world
<1>1. Types /\ Numbered /\ ByState /\ Sound /\ Counted /\ WithinBounds
    BY DEF RuntimeInv
<1>2. /\ i \in Live /\ job[i] \in Job /\ JobSound(i) /\ class \in Classes /\ i \in Ids
      /\ completed[i] = NoJob /\ ~Ending
      /\ owners' \in BOOLEAN
      /\ running' = [running EXCEPT ![class] = @ - 1]
      /\ job' = [job EXCEPT ![i] = NoJob]
      /\ completed' = [completed EXCEPT ![i] = r]
    <2>1. i \in Live /\ owners' \in BOOLEAN /\ running' = [running EXCEPT ![class] = @ - 1]
        BY <1>1, <1>a DEF PollWork, Join, InPhase, Types
    <2>2. i \in Ids /\ job[i] \in Job /\ JobSound(i)
        BY <1>1, <2>1, RuntimeAssumption DEF Live, Types, Sound, Ids, JobIds, Start
    <2> QED
        BY <1>1, <1>a, <2>1, <2>2 DEF PollWork, Job, Numbered, Live
<1>3. /\ r \in Result /\ r # NoJob /\ r.class = class /\ r.inc = inc
      /\ r.ok => i \notin disturbed /\ i \notin asked
    <2>1. r \in Result
        BY <1>2, <1>a DEF Finished, Result, Job
    <2>2. r.class = class /\ r.inc = job[i].inc /\ r.ok = (Joined(i) = "ok")
        BY <1>a DEF Finished
    <2>3. Joined(i) = "ok" => job[i].result = "ok" /\ ~job[i].cancelled
        BY DEF Joined, Interrupted
    <2> QED
        BY <1>2, <2>1, <2>2, <2>3, NoneAssumption DEF JobSound
<1>4. /\ job' \in [JobIds -> Job \cup {NoJob}] /\ job'[i] = NoJob
      /\ \A k \in JobIds \ {i} : job'[k] = job[k]
      /\ completed' \in [Ids -> Result \cup {NoJob}] /\ completed'[i] = r
      /\ \A k \in Ids \ {i} : completed'[k] = completed[k]
    BY <1>1, <1>2, <1>3 DEF Types
<1>5. /\ Live' = Live \ {i}
      /\ \A c \in Classes :
            Cardinality(JobsOf(c)') = IF c = class THEN Cardinality(JobsOf(c)) - 1
                                      ELSE Cardinality(JobsOf(c))
    BY <1>1, <1>2, <1>4, <1>a, JobLeaves
<1>6. /\ running' \in [Classes -> Nat] /\ running'[class] = running[class] - 1
      /\ \A c \in Classes \ {class} : running'[c] = running[c]
      /\ \A c \in Classes : running'[c] <= RunningSlots[c]
    BY <1>2, <1>a, JoinFrees
<1>7. Types'
    BY <1>0, <1>1, <1>2, <1>4, <1>6 DEF Types
<1>8. WithinBounds'
    BY <1>0, <1>1, <1>6 DEF WithinBounds
<1>9. ASSUME NEW k \in Ids \ {i} PROVE Unused(k)' <=> Unused(k)
    BY <1>0, <1>4, IdsAreJobIds DEF Unused
<1>10. ~Unused(i)
    BY <1>2 DEF Unused, Live
<1>11. Numbered'
    <2>1. ASSUME NEW n \in 1..Len(queue) PROVE Unused(queue[n].id)'
        BY <1>0, <1>1, <1>9, <1>10, ItemTypes DEF Numbered, Types
    <2>2. ASSUME NEW k \in Ids, k > sequence PROVE Unused(k)'
        BY <1>1, <1>9, <1>10, <2>2 DEF Numbered
    <2>3. ASSUME NEW k \in Ids PROVE job'[k] = NoJob \/ completed'[k] = NoJob
        BY <1>1, <1>4, IdsAreJobIds DEF Numbered
    <2> QED
        BY <1>0, <1>1, <2>1, <2>2, <2>3 DEF Numbered
<1>12. ByState'
    <2>1. state \in {"RunningInert", "Held"}
        BY <1>1, <1>2 DEF ByState, Types, States, Ending, Ids, Start
    <2>2. \A k \in Live' : job'[k] = job[k] /\ k \in Live
        BY <1>4, <1>5 DEF Live
    <2> QED
        BY <1>0, <1>1, <1>5, <2>1, <2>2 DEF ByState
<1>13. Sound'
    <2>1. ASSUME NEW k \in Live' PROVE JobSound(k)'
        <3>1. k \in JobIds \ {i} /\ k \in Live
            BY <1>5 DEF Live
        <3> QED
            BY <1>0, <1>1, <1>4, <3>1 DEF Sound, JobSound
    <2>2. ASSUME NEW k \in Ids, completed'[k] # NoJob PROVE ResultSound(k)'
        <3>1. CASE k = i
            BY <1>0, <1>3, <1>4, <3>1 DEF ResultSound
        <3>2. CASE k # i
            BY <1>0, <1>1, <1>4, <2>2, <3>2 DEF Sound, ResultSound
        <3> QED
            BY <3>1, <3>2
    <2>3. ASSUME NEW k \in disturbed' \cup asked' PROVE job'[k] # NoJob \/ completed'[k] # NoJob
        BY <1>0, <1>1, <1>2, <1>3, <1>4, <2>3, IdsAreJobIds DEF Sound, Types
    <2> QED
        BY <1>0, <1>1, <2>1, <2>2, <2>3 DEF Sound
<1>14. Counted'
    <2> SUFFICES ASSUME NEW c \in Classes
                 PROVE  /\ retained[c]' = Cardinality(IdsAt(queue', c)) + Cardinality(JobsOf(c)')
                                    + Cardinality(ResultsOf(c)') + SlotHolds(c)' + Borrowed(c)'
                        /\ running[c]' = Cardinality(JobsOf(c)') + Borrowed(c)'
        BY DEF Counted
    <2>1. SlotHolds(c)' = SlotHolds(c) /\ Borrowed(c)' = Borrowed(c) /\ queue' = queue
          /\ retained' = retained
        BY <1>0 DEF SlotHolds, Borrowed, Reserved
    <2>2. /\ ResultsOf(c) \in SUBSET JobIds /\ ResultsOf(c)' \in SUBSET JobIds
          /\ \A k \in JobIds \ {i} : k \in ResultsOf(c)' <=> k \in ResultsOf(c)
          /\ i \notin ResultsOf(c) /\ (i \in ResultsOf(c)' <=> c = class)
        BY <1>2, <1>3, <1>4, IdsAreJobIds DEF ResultsOf
    <2>3. /\ c = class => Cardinality(ResultsOf(c)') = Cardinality(ResultsOf(c)) + 1
          /\ c # class => Cardinality(ResultsOf(c)') = Cardinality(ResultsOf(c))
        BY <2>2, DifferByOne
    <2>4. /\ Cardinality(IdsAt(queue, c)) \in Nat /\ Cardinality(JobsOf(c)) \in Nat
          /\ Cardinality(ResultsOf(c)) \in Nat /\ SlotHolds(c) \in Nat /\ Borrowed(c) \in Nat
          /\ retained[c] = Cardinality(IdsAt(queue, c)) + Cardinality(JobsOf(c))
                           + Cardinality(ResultsOf(c)) + SlotHolds(c) + Borrowed(c)
          /\ running[c] = Cardinality(JobsOf(c)) + Borrowed(c)
        BY <1>1, CountedSets DEF SlotHolds, Borrowed, Counted
    <2>5. CASE c = class
        <3>1. \A a, b, k, h, o \in Nat : a + b + k + h + o = a + (b - 1) + (k + 1) + h + o
            OBVIOUS
        <3>2. retained[c] = Cardinality(IdsAt(queue, c)) + (Cardinality(JobsOf(c)) - 1)
                            + (Cardinality(ResultsOf(c)) + 1) + SlotHolds(c) + Borrowed(c)
            BY <2>4, <3>1
        <3>3. running'[c] = (Cardinality(JobsOf(c)) - 1) + Borrowed(c)
            BY <1>6, <2>4, <2>5
        <3> QED
            BY <1>5, <2>1, <2>3, <2>5, <3>2, <3>3
    <2>6. CASE c # class
        BY <1>5, <1>6, <2>1, <2>3, <2>4, <2>6
    <2> QED
        BY <2>5, <2>6
<1> QED
    BY <1>7, <1>8, <1>11, <1>12, <1>13, <1>14 DEF RuntimeInv

\* On hold: the job is a failed result, and so is everything queued; nothing
\* that is left may succeed.
LEMMA HoldStep ==
    ASSUME RuntimeInv, NEW i \in JobIds, i # Start, PollHolds(i)
    PROVE  RuntimeInv'
<1>a. PICK class, r : class = job[i].class /\ r = Finished(FALSE, class, job[i].inc)
    OBVIOUS
<1>0. UNCHANGED <<opened, session, inc, lastInc, sequence, retained, slot, listed, cutoff,
                  abandoned, expired, gen, disturbed, asked>>
    BY DEF PollHolds, slots, world
<1>1. Types /\ Numbered /\ ByState /\ Sound /\ Counted /\ WithinBounds
    BY DEF RuntimeInv
<1>2. /\ i \in Live /\ job[i] \in Job /\ JobSound(i) /\ class \in Classes /\ i \in Ids
      /\ completed[i] = NoJob /\ ~Ending
      /\ state' = "Held" /\ queue' = << >> /\ owners' \in BOOLEAN
      /\ running' = [running EXCEPT ![class] = @ - 1]
    <2>1. i \in Live /\ owners' \in BOOLEAN /\ running' = [running EXCEPT ![class] = @ - 1]
        BY <1>1, <1>a DEF PollHolds, Join, InPhase, Types
    <2>2. i \in Ids /\ job[i] \in Job /\ JobSound(i)
        BY <1>1, <2>1, RuntimeAssumption DEF Live, Types, Sound, Ids, JobIds, Start
    <2> QED
        BY <1>1, <1>a, <2>1, <2>2 DEF PollHolds, Job, Numbered, Live
<1>3. /\ r \in Result /\ r # NoJob /\ r.class = class /\ r.inc = inc /\ ~r.ok
    <2>1. r \in Result
        BY <1>2, <1>a DEF Finished, Result, Job
    <2>2. r.class = class /\ r.inc = job[i].inc /\ r.ok = FALSE
        BY <1>a DEF Finished
    <2> QED
        BY <1>2, <2>1, <2>2, NoneAssumption DEF JobSound
<1>4. /\ job' \in [JobIds -> Job \cup {NoJob}] /\ job'[i] = NoJob
      /\ \A k \in JobIds \ {i} :
            (job'[k] = NoJob <=> job[k] = NoJob) /\ job'[k].class = job[k].class
      /\ \A k \in JobIds \ {i} : job[k] # NoJob =>
            /\ job'[k].inc = job[k].inc /\ job'[k].gen = job[k].gen /\ job'[k].cancelled
            /\ job'[k].phase = job[k].phase /\ job'[k].result = job[k].result
    <2>1. job' = [k \in JobIds |-> IF k = i \/ job[k] = NoJob THEN NoJob
                                   ELSE [job[k] EXCEPT !.cancelled = TRUE]]
        BY DEF PollHolds
    <2>2. ASSUME NEW k \in JobIds, job[k] # NoJob
          PROVE  LET j == [job[k] EXCEPT !.cancelled = TRUE] IN
                 /\ j \in Job /\ j # NoJob /\ j.class = job[k].class /\ j.inc = job[k].inc
                 /\ j.gen = job[k].gen /\ j.cancelled /\ j.phase = job[k].phase
                 /\ j.result = job[k].result
        <3>1. job[k] \in Job
            BY <1>1, <2>2 DEF Types
        <3>2. [job[k] EXCEPT !.cancelled = TRUE] \in Job
            BY <3>1 DEF Job
        <3> QED
            BY <3>1, <3>2, NoneAssumption DEF Job
    <2> QED
        BY <2>1, <2>2
<1>5. /\ Live' = Live \ {i}
      /\ \A c \in Classes :
            Cardinality(JobsOf(c)') = IF c = class THEN Cardinality(JobsOf(c)) - 1
                                      ELSE Cardinality(JobsOf(c))
    BY <1>1, <1>2, <1>4, <1>a, JobLeaves
<1>6. /\ running' \in [Classes -> Nat] /\ running'[class] = running[class] - 1
      /\ \A c \in Classes \ {class} : running'[c] = running[c]
      /\ \A c \in Classes : running'[c] <= RunningSlots[c]
    BY <1>2, <1>a, JoinFrees
<1>7. /\ completed' \in [Ids -> Result \cup {NoJob}] /\ completed'[i] = r
      /\ \A n \in 1..Len(queue) : LET k == queue[n].id IN
            /\ k \in Ids /\ k # i /\ Unused(k) /\ completed'[k] # NoJob
            /\ completed'[k].class = queue[n].class /\ completed'[k].inc = inc /\ ~completed'[k].ok
      /\ \A k \in Ids \ {i} : (\A n \in 1..Len(queue) : queue[n].id # k) => completed'[k] = completed[k]
    <2> DEFINE At(k) == CHOOSE n \in 1..Len(queue) : queue[n].id = k
               Value(k) == IF k = i THEN r
                           ELSE IF \E n \in 1..Len(queue) : queue[n].id = k
                             THEN Finished(FALSE, queue[At(k)].class, inc)
                           ELSE completed[k]
    <2>1. completed' = [k \in Ids |-> Value(k)]
        BY <1>a DEF PollHolds
    <2>2. ASSUME NEW n \in 1..Len(queue)
          PROVE  /\ queue[n].id \in Ids /\ queue[n].id # i /\ Unused(queue[n].id)
                 /\ queue[n].class \in Classes /\ At(queue[n].id) = n
        <3>1. queue[n].id \in Ids /\ queue[n].class \in Classes
            BY <1>1, ItemTypes DEF Types
        <3>2. Unused(queue[n].id)
            BY <1>1 DEF Numbered
        <3>3. queue[n].id # i
            BY <1>2, <3>2 DEF Unused, Live
        <3>4. At(queue[n].id) = n
            BY <1>1 DEF Numbered
        <3> QED
            BY <3>1, <3>2, <3>3, <3>4
    <2>3. ASSUME NEW n \in 1..Len(queue)
          PROVE  /\ Value(queue[n].id) = Finished(FALSE, queue[n].class, inc)
                 /\ Value(queue[n].id) \in Result /\ Value(queue[n].id) # NoJob
                 /\ Value(queue[n].id).class = queue[n].class /\ Value(queue[n].id).inc = inc
                 /\ ~Value(queue[n].id).ok
        <3>1. Value(queue[n].id) = Finished(FALSE, queue[n].class, inc)
            BY <2>2
        <3>2. Finished(FALSE, queue[n].class, inc) \in Result
            BY <1>1, <2>2 DEF Finished, Result, Types
        <3>3. PICK f : f = Finished(FALSE, queue[n].class, inc)
            OBVIOUS
        <3>4. f.class = queue[n].class /\ f.inc = inc /\ f.ok = FALSE
            BY <3>3 DEF Finished
        <3>5. f \in Result /\ f # NoJob
            BY <3>2, <3>3, NoneAssumption
        <3>6. Value(queue[n].id) = f
            BY <3>1, <3>3
        <3> HIDE DEF Value
        <3> QED
            BY <3>1, <3>3, <3>4, <3>5, <3>6
    <2>4. Value(i) = r
        OBVIOUS
    <2>5. ASSUME NEW k \in Ids \ {i}, \A n \in 1..Len(queue) : queue[n].id # k
          PROVE  Value(k) = completed[k]
        BY <2>5
    <2> HIDE DEF Value
    <2>6. \A k \in Ids : Value(k) \in Result \cup {NoJob}
        BY <1>1, <1>3, <2>3, <2>4, <2>5 DEF Types
    <2> QED
        BY <1>2, <2>1, <2>2, <2>3, <2>4, <2>5, <2>6
<1>8. /\ queue' \in Seq(Work) /\ Len(queue') = 0
      /\ \A c \in Classes : IdsAt(queue', c) = {}
    BY <1>2, IdsByItem
<1>9. Types'
    BY <1>0, <1>1, <1>2, <1>4, <1>6, <1>7, <1>8 DEF Types, States
<1>10. WithinBounds'
    BY <1>0, <1>1, <1>6 DEF WithinBounds
<1>11. ASSUME NEW k \in Ids, completed'[k] # NoJob
       PROVE  /\ k = i \/ (k # i /\ job[k] = NoJob)
              /\ completed'[k].inc = inc
              /\ completed'[k].ok => k \notin disturbed /\ k \notin asked
    <2>1. CASE k = i
        BY <1>3, <1>7, <2>1
    <2>2. CASE k # i /\ \E n \in 1..Len(queue) : queue[n].id = k
        BY <1>7, <2>2 DEF Unused
    <2>3. CASE k # i /\ \A n \in 1..Len(queue) : queue[n].id # k
        <3>1. completed[k] # NoJob /\ completed'[k] = completed[k]
            BY <1>7, <1>11, <2>3
        <3> QED
            BY <1>1, <2>3, <3>1 DEF Numbered, Sound, ResultSound
    <2> QED
        BY <2>1, <2>2, <2>3
<1>12. ASSUME NEW k \in Ids, completed[k] # NoJob PROVE completed'[k] = completed[k]
    <2>1. k # i /\ \A n \in 1..Len(queue) : queue[n].id # k
        BY <1>1, <1>2, <1>12 DEF Numbered, Unused
    <2> QED
        BY <1>7, <2>1
<1>13. Numbered'
    <2>1. ASSUME NEW k \in Ids, k > sequence PROVE Unused(k)'
        <3>1. k > sequence /\ sequence \in Nat
            BY <1>0, <1>1, <2>1, RuntimeAssumption DEF Types
        <3>2. Unused(k)
            BY <1>1, <3>1 DEF Numbered
        <3>3. k # i
            BY <1>2, <3>2 DEF Unused, Live
        <3>4. ASSUME NEW n \in 1..Len(queue) PROVE queue[n].id # k
            <4>1. queue[n].id <= sequence
                BY <1>1 DEF Numbered
            <4>2. queue[n].id \in Ids
                BY <1>1, ItemTypes DEF Types
            <4>3. queue[n].id \in Nat /\ k \in Nat
                BY <4>2, RuntimeAssumption DEF Ids
            <4> QED
                BY <3>1, <4>1, <4>3
        <3> QED
            BY <1>0, <1>4, <1>7, <3>2, <3>3, <3>4, IdsAreJobIds DEF Unused
    <2>2. ASSUME NEW k \in Ids PROVE job'[k] = NoJob \/ completed'[k] = NoJob
        BY <1>4, <1>11, IdsAreJobIds
    <2> QED
        BY <1>0, <1>8, <2>1, <2>2 DEF Numbered
<1>14. ByState'
    <2>1. state \in {"RunningInert", "Held"} /\ Start \notin Live
        BY <1>1, <1>2 DEF ByState, Types, States, Ending, Ids, Start
    <2>2. ASSUME NEW k \in Live' PROVE job'[k].cancelled
        BY <1>4, <1>5, <2>2 DEF Live
    <2> QED
        BY <1>0, <1>1, <1>2, <1>5, <2>1, <2>2 DEF ByState
<1>15. Sound'
    <2>1. ASSUME NEW k \in Live' PROVE JobSound(k)'
        <3>1. k \in JobIds \ {i} /\ k \in Live /\ job[k] # NoJob /\ JobSound(k)
            BY <1>1, <1>5 DEF Live, Sound
        <3> QED
            BY <1>0, <1>4, <3>1 DEF JobSound
    <2>2. ASSUME NEW k \in Ids, completed'[k] # NoJob PROVE ResultSound(k)'
        BY <1>0, <1>11, <2>2 DEF ResultSound
    <2>3. ASSUME NEW k \in disturbed' \cup asked' PROVE job'[k] # NoJob \/ completed'[k] # NoJob
        <3>1. k \in Ids /\ k \in JobIds /\ (job[k] # NoJob \/ completed[k] # NoJob)
            BY <1>0, <1>1, <2>3, IdsAreJobIds DEF Sound, Types
        <3>2. completed'[i] # NoJob
            BY <1>3, <1>7
        <3> QED
            BY <1>4, <1>12, <3>1, <3>2
    <2> QED
        BY <1>0, <1>1, <2>1, <2>2, <2>3 DEF Sound
<1>16. Counted'
    <2> SUFFICES ASSUME NEW c \in Classes
                 PROVE  /\ retained[c]' = Cardinality(IdsAt(queue', c)) + Cardinality(JobsOf(c)')
                                    + Cardinality(ResultsOf(c)') + SlotHolds(c)' + Borrowed(c)'
                        /\ running[c]' = Cardinality(JobsOf(c)') + Borrowed(c)'
        BY DEF Counted
    <2>1. SlotHolds(c)' = SlotHolds(c) /\ Borrowed(c)' = Borrowed(c) /\ retained' = retained
        BY <1>0 DEF SlotHolds, Borrowed, Reserved
    <2> DEFINE Both == ResultsOf(c) \cup IdsAt(queue, c)
    <2>2. /\ ResultsOf(c) \in SUBSET JobIds /\ IdsAt(queue, c) \in SUBSET JobIds
          /\ ResultsOf(c) \cap IdsAt(queue, c) = {}
        BY <1>1, CountedSets DEF ResultsOf, Unused
    <2>3. Cardinality(Both) = Cardinality(ResultsOf(c)) + Cardinality(IdsAt(queue, c)) /\ Both \in SUBSET JobIds
        BY <2>2, Disjoint
    <2>4. /\ ResultsOf(c)' \in SUBSET JobIds
          /\ i \notin Both /\ (i \in ResultsOf(c)' <=> c = class)
        BY <1>1, <1>2, <1>3, <1>7, IdsAreJobIds, IdsByItem DEF ResultsOf
    <2>5. ASSUME NEW k \in JobIds \ {i} PROVE k \in ResultsOf(c)' <=> k \in Both
        <3>1. CASE \E n \in 1..Len(queue) : queue[n].id = k
            <4>1. PICK n \in 1..Len(queue) : queue[n].id = k
                BY <3>1
            <4>2. k \in Ids /\ completed[k] = NoJob /\ completed'[k] # NoJob /\ completed'[k].class = queue[n].class
                BY <1>7, <4>1 DEF Unused
            <4>3. k \in IdsAt(queue, c) <=> queue[n].class = c
                BY <1>1, <4>1, IdsByItem DEF Numbered
            <4> QED
                BY <4>2, <4>3 DEF ResultsOf
        <3>2. CASE \A n \in 1..Len(queue) : queue[n].id # k
            <4>1. k \notin IdsAt(queue, c)
                BY <3>2, IdsByItem
            <4>2. k \in Ids => completed'[k] = completed[k]
                BY <1>7, <3>2
            <4> QED
                BY <4>1, <4>2 DEF ResultsOf
        <3> QED
            BY <3>1, <3>2
    <2> HIDE DEF Both
    <2>6. /\ c = class => Cardinality(ResultsOf(c)') = Cardinality(Both) + 1
          /\ c # class => Cardinality(ResultsOf(c)') = Cardinality(Both)
        BY <2>3, <2>4, <2>5, DifferByOne
    <2>7. /\ Cardinality(IdsAt(queue, c)) \in Nat /\ Cardinality(JobsOf(c)) \in Nat
          /\ Cardinality(ResultsOf(c)) \in Nat /\ SlotHolds(c) \in Nat /\ Borrowed(c) \in Nat
          /\ retained[c] = Cardinality(IdsAt(queue, c)) + Cardinality(JobsOf(c))
                           + Cardinality(ResultsOf(c)) + SlotHolds(c) + Borrowed(c)
          /\ running[c] = Cardinality(JobsOf(c)) + Borrowed(c)
        BY <1>1, CountedSets DEF SlotHolds, Borrowed, Counted
    <2>8. Cardinality(IdsAt(queue', c)) = 0
        BY <1>8, FS_EmptySet
    <2>9. CASE c = class
        <3>1. \A a, b, k, h, o \in Nat : a + b + k + h + o = 0 + (b - 1) + (k + a + 1) + h + o
            OBVIOUS
        <3>2. retained[c] = 0 + (Cardinality(JobsOf(c)) - 1)
                            + (Cardinality(ResultsOf(c)) + Cardinality(IdsAt(queue, c)) + 1)
                            + SlotHolds(c) + Borrowed(c)
            BY <2>7, <3>1
        <3>3. running'[c] = (Cardinality(JobsOf(c)) - 1) + Borrowed(c)
            BY <1>6, <2>7, <2>9
        <3> QED
            BY <1>5, <2>1, <2>3, <2>6, <2>8, <2>9, <3>2, <3>3
    <2>10. CASE c # class
        <3>1. \A a, b, k, h, o \in Nat : a + b + k + h + o = 0 + b + (k + a) + h + o
            OBVIOUS
        <3>2. retained[c] = 0 + Cardinality(JobsOf(c))
                            + (Cardinality(ResultsOf(c)) + Cardinality(IdsAt(queue, c)))
                            + SlotHolds(c) + Borrowed(c)
            BY <2>7, <3>1
        <3>3. running'[c] = Cardinality(JobsOf(c)) + Borrowed(c)
            BY <1>6, <2>7, <2>10
        <3> QED
            BY <1>5, <2>1, <2>3, <2>6, <2>8, <2>10, <3>2, <3>3
    <2> QED
        BY <2>9, <2>10
<1> QED
    BY <1>9, <1>10, <1>13, <1>14, <1>15, <1>16 DEF RuntimeInv

\* stop: everything queued or completed is thrown away with its reservation, and
\* every job is told to stop.
LEMMA StopStep ==
    ASSUME RuntimeInv, Stop
    PROVE  RuntimeInv'
<1>0. /\ UNCHANGED <<opened, owners, inc, lastInc, sequence, running, slot, listed, abandoned, gen>>
      /\ state' = "Stopping" /\ queue' = << >> /\ completed' = NoResults /\ session' = NoSession
      /\ cutoff' \in BOOLEAN
      /\ state # "Absent"
      /\ expired' = expired \ (Ids \ Live) /\ disturbed' = disturbed \ (Ids \ Live)
      /\ asked' = asked \ (Ids \ Live)
    BY DEF Stop, Settled
<1>1. Types /\ Numbered /\ ByState /\ Sound /\ Counted /\ WithinBounds
    BY DEF RuntimeInv
<1>2. /\ job' \in [JobIds -> Job \cup {NoJob}]
      /\ \A k \in JobIds :
            (job'[k] = NoJob <=> job[k] = NoJob) /\ job'[k].class = job[k].class
      /\ \A k \in JobIds : job[k] # NoJob =>
            /\ job'[k].inc = job[k].inc /\ job'[k].gen = job[k].gen /\ job'[k].cancelled
            /\ job'[k].phase = job[k].phase /\ job'[k].result = job[k].result
    <2>1. job' = [k \in JobIds |-> IF job[k] = NoJob THEN NoJob
                                   ELSE [job[k] EXCEPT !.cancelled = TRUE]]
        BY DEF Stop
    <2>2. ASSUME NEW k \in JobIds, job[k] # NoJob
          PROVE  LET j == [job[k] EXCEPT !.cancelled = TRUE] IN
                 /\ j \in Job /\ j # NoJob /\ j.class = job[k].class /\ j.inc = job[k].inc
                 /\ j.gen = job[k].gen /\ j.cancelled /\ j.phase = job[k].phase
                 /\ j.result = job[k].result
        <3>1. job[k] \in Job
            BY <1>1, <2>2 DEF Types
        <3>2. [job[k] EXCEPT !.cancelled = TRUE] \in Job
            BY <3>1 DEF Job
        <3> QED
            BY <3>1, <3>2, NoneAssumption DEF Job
    <2> QED
        BY <2>1, <2>2
<1>3. Live' = Live /\ Live \subseteq JobIds
    BY <1>2 DEF Live
<1>4. \A k \in Ids : completed'[k] = NoJob
    BY <1>0 DEF NoResults
<1>5. ASSUME NEW c \in Classes
      PROVE  /\ JobsOf(c)' = JobsOf(c) /\ ResultsOf(c)' = {} /\ IdsAt(queue', c) = {}
             /\ SlotHolds(c)' = SlotHolds(c) /\ Borrowed(c)' = Borrowed(c)
             /\ Discarded(c) = Cardinality(IdsAt(queue, c)) + Cardinality(ResultsOf(c))
             /\ Cardinality(IdsAt(queue, c)) \in Nat /\ Cardinality(JobsOf(c)) \in Nat
             /\ Cardinality(ResultsOf(c)) \in Nat /\ SlotHolds(c) \in Nat /\ Borrowed(c) \in Nat
    <2>1. JobsOf(c)' = JobsOf(c)
        BY <1>2, <1>3 DEF JobsOf
    <2>2. ResultsOf(c)' = {}
        BY <1>4 DEF ResultsOf
    <2>3. IdsAt(queue', c) = {}
        <3>1. Len(queue') = 0
            BY <1>0
        <3> QED
            BY <3>1, IdsByItem
    <2>4. SlotHolds(c)' = SlotHolds(c) /\ Borrowed(c)' = Borrowed(c)
        BY <1>0 DEF SlotHolds, Borrowed, Reserved
    <2>5. Discarded(c) = Queued(c) + Cardinality(ResultsOf(c))
        BY DEF Discarded, Queued, ResultsOf
    <2> QED
        BY <1>1, <2>1, <2>2, <2>3, <2>4, <2>5, CountedSets DEF SlotHolds, Borrowed
<1>6. ASSUME NEW c \in Classes
      PROVE  /\ retained'[c] = Cardinality(JobsOf(c)) + SlotHolds(c) + Borrowed(c)
             /\ retained'[c] \in Nat /\ retained'[c] <= retained[c]
    <2>1. retained'[c] = retained[c] - Discarded(c)
        BY DEF Stop
    <2>2. retained[c] = Cardinality(IdsAt(queue, c)) + Cardinality(JobsOf(c))
                           + Cardinality(ResultsOf(c)) + SlotHolds(c) + Borrowed(c)
        BY <1>1 DEF Counted
    <2>3. \A a, b, k, h, o \in Nat : (a + b + k + h + o) - (a + k) = b + h + o
        OBVIOUS
    <2>4. retained[c] - Discarded(c) = Cardinality(JobsOf(c)) + SlotHolds(c) + Borrowed(c)
        BY <1>5, <2>2, <2>3
    <2> QED
        BY <1>5, <2>1, <2>2, <2>4
<1>7. retained' \in [Classes -> Nat]
    <2>1. retained' = [c \in Classes |-> retained[c] - Discarded(c)]
        BY DEF Stop
    <2>2. \A c \in Classes : retained[c] - Discarded(c) \in Nat
        BY <1>6, <2>1
    <2> QED
        BY <2>1, <2>2
<1>8. Types'
    <2>1. completed' \in [Ids -> Result \cup {NoJob}] /\ queue' \in Seq(Work)
        BY <1>0 DEF NoResults
    <2> QED
        BY <1>0, <1>1, <1>2, <1>7, <2>1 DEF Types, States
<1>9. WithinBounds'
    <2>1. ASSUME NEW c \in Classes PROVE retained'[c] <= QueueSlots[c]
        BY <1>1, <1>6, RuntimeAssumption DEF WithinBounds, Types
    <2> QED
        BY <1>0, <1>1, <2>1 DEF WithinBounds
<1>10. Numbered'
    <2>1. \A k \in Ids : Unused(k) => Unused(k)'
        BY <1>0, <1>2, <1>4, IdsAreJobIds DEF Unused
    <2>2. Len(queue') = 0
        BY <1>0
    <2> QED
        BY <1>0, <1>1, <1>4, <2>1, <2>2 DEF Numbered
<1>11. ByState'
    BY <1>0, <1>1, <1>3, <1>4 DEF ByState
<1>12. Sound'
    <2>1. ASSUME NEW k \in Live PROVE JobSound(k)'
        <3>1. k \in JobIds /\ job[k] # NoJob /\ JobSound(k)
            BY <1>1, <2>1 DEF Live, Sound
        <3> QED
            BY <1>0, <1>2, <3>1 DEF JobSound
    <2>2. ASSUME NEW k \in disturbed' \cup asked' PROVE job'[k] # NoJob
        <3>1. k \in Ids /\ k \in Live
            BY <1>0, <1>1, <2>2 DEF Types
        <3> QED
            BY <1>2, <3>1 DEF Live
    <2> QED
        BY <1>0, <1>3, <1>4, <2>1, <2>2 DEF Sound
<1>13. Counted'
    <2> SUFFICES ASSUME NEW c \in Classes
                 PROVE  /\ retained[c]' = Cardinality(IdsAt(queue', c)) + Cardinality(JobsOf(c)')
                                    + Cardinality(ResultsOf(c)') + SlotHolds(c)' + Borrowed(c)'
                        /\ running[c]' = Cardinality(JobsOf(c)') + Borrowed(c)'
        BY DEF Counted
    <2>1. Cardinality({}) = 0
        BY FS_EmptySet
    <2>2. \A b, h, o \in Nat : b + h + o = 0 + b + 0 + h + o
        OBVIOUS
    <2>3. retained'[c] = 0 + Cardinality(JobsOf(c)) + 0 + SlotHolds(c) + Borrowed(c)
        BY <1>5, <1>6, <2>2
    <2>4. running'[c] = Cardinality(JobsOf(c)) + Borrowed(c)
        BY <1>0, <1>1 DEF Counted
    <2> QED
        BY <1>5, <2>1, <2>3, <2>4
<1> QED
    BY <1>8, <1>9, <1>10, <1>11, <1>12, <1>13 DEF RuntimeInv

-----------------------------------------------------------------------------
(* Steps of the subscription slot.                                         *)

\* The slot moves, and the sensing reservations with it.
LEMMA SlotMoves ==
    ASSUME RuntimeInv, UNCHANGED <<life, work, world>>,
           slot' \in SlotStates, listed' \in BOOLEAN, cutoff' \in BOOLEAN,
           retained' \in [Classes -> Nat], running' \in [Classes -> Nat],
           \A c \in Classes \ {"sense"} : retained'[c] = retained[c] /\ running'[c] = running[c],
           \A c \in Classes : retained'[c] <= QueueSlots[c] /\ running'[c] <= RunningSlots[c],
           retained'["sense"] + SlotHolds("sense") + Borrowed("sense")
              = retained["sense"] + SlotHolds("sense")' + Borrowed("sense")',
           running'["sense"] + Borrowed("sense") = running["sense"] + Borrowed("sense")',
           state = "Absent" => slot' = "none",
           listed' => state \notin {"Absent", "Stopped"},
           ~listed' => slot' \in {"none", "joined"}
    PROVE  RuntimeInv'
<1>0. UNCHANGED <<state, opened, owners, session, inc, lastInc, sequence, queue, job, completed,
                  abandoned, expired, gen, disturbed, asked>>
    BY DEF life, work, world
<1>1. Types /\ Numbered /\ ByState /\ Sound /\ Counted /\ WithinBounds
    BY DEF RuntimeInv
<1>2. Types'
    BY <1>0, <1>1 DEF Types
<1>3. Numbered' /\ Sound'
    BY <1>0, <1>1, SameNumbers, SameSound
<1>4. ByState'
    BY <1>0, <1>1 DEF ByState, Live
<1>5. WithinBounds'
    BY DEF WithinBounds
<1>6. Counted'
    <2> SUFFICES ASSUME NEW c \in Classes
                 PROVE  /\ retained[c]' = Cardinality(IdsAt(queue', c)) + Cardinality(JobsOf(c)')
                                    + Cardinality(ResultsOf(c)') + SlotHolds(c)' + Borrowed(c)'
                        /\ running[c]' = Cardinality(JobsOf(c)') + Borrowed(c)'
        BY DEF Counted
    <2>1. JobsOf(c)' = JobsOf(c) /\ ResultsOf(c)' = ResultsOf(c) /\ queue' = queue
        BY <1>0 DEF JobsOf, ResultsOf, Live
    <2>2. /\ Cardinality(IdsAt(queue, c)) \in Nat /\ Cardinality(JobsOf(c)) \in Nat
          /\ Cardinality(ResultsOf(c)) \in Nat /\ SlotHolds(c) \in Nat /\ Borrowed(c) \in Nat
          /\ SlotHolds(c)' \in Nat /\ Borrowed(c)' \in Nat
          /\ retained[c] \in Nat /\ running[c] \in Nat /\ retained'[c] \in Nat /\ running'[c] \in Nat
          /\ retained[c] = Cardinality(IdsAt(queue, c)) + Cardinality(JobsOf(c))
                           + Cardinality(ResultsOf(c)) + SlotHolds(c) + Borrowed(c)
          /\ running[c] = Cardinality(JobsOf(c)) + Borrowed(c)
        BY <1>1, CountedSets DEF SlotHolds, Borrowed, Counted, Types
    <2>3. CASE c = "sense"
        BY <2>1, <2>2, <2>3
    <2>4. CASE c # "sense"
        BY <2>1, <2>2, <2>4 DEF SlotHolds, Borrowed
    <2> QED
        BY <2>3, <2>4
<1> QED
    BY <1>2, <1>3, <1>4, <1>5, <1>6 DEF RuntimeInv

\* The budget that steps of the slot start from.
LEMMA SlotBudget ==
    ASSUME RuntimeInv
    PROVE  /\ retained \in [Classes -> Nat] /\ running \in [Classes -> Nat]
           /\ QueueSlots \in [Classes -> Nat] /\ RunningSlots \in [Classes -> Nat]
           /\ \A c \in Classes : retained[c] <= QueueSlots[c]
           /\ \A c \in Classes : running[c] <= RunningSlots[c]
           /\ "sense" \in Classes
           /\ retained["sense"] >= SlotHolds("sense") + Borrowed("sense")
           /\ running["sense"] >= Borrowed("sense")
           /\ slot \in SlotStates /\ listed \in BOOLEAN /\ cutoff \in BOOLEAN
           /\ slot # "none" => state # "Absent"
           /\ listed => state \notin {"Absent", "Stopped"}
           /\ slot \notin {"none", "joined"} => listed
<1>1. Types /\ Numbered /\ ByState /\ Counted /\ WithinBounds
    BY DEF RuntimeInv
<1>2. "sense" \in Classes
    BY DEF Classes
<1>3. retained["sense"] >= SlotHolds("sense") + Borrowed("sense") /\ running["sense"] >= Borrowed("sense")
    <2>1. /\ Cardinality(IdsAt(queue, "sense")) \in Nat /\ Cardinality(JobsOf("sense")) \in Nat
          /\ Cardinality(ResultsOf("sense")) \in Nat
          /\ SlotHolds("sense") \in Nat /\ Borrowed("sense") \in Nat
        BY <1>1, <1>2, CountedSets DEF SlotHolds, Borrowed
    <2>2. /\ retained["sense"] = Cardinality(IdsAt(queue, "sense")) + Cardinality(JobsOf("sense"))
                           + Cardinality(ResultsOf("sense")) + SlotHolds("sense") + Borrowed("sense")
          /\ running["sense"] = Cardinality(JobsOf("sense")) + Borrowed("sense")
        BY <1>1, <1>2 DEF Counted
    <2> QED
        BY <2>1, <2>2
<1> QED
    BY <1>1, <1>2, <1>3, RuntimeAssumption DEF Types, WithinBounds, ByState

\* The slot changes hands without a reservation.
LEMMA SlotToStep ==
    ASSUME RuntimeInv, NEW s \in {"open", "lost", "abandoned"}, slot \in {"permit", "open"}, SlotTo(s)
    PROVE  RuntimeInv'
<1>1. UNCHANGED <<life, work, world>> /\ UNCHANGED <<retained, running, listed, cutoff>> /\ slot' = s
    BY DEF SlotTo, held
<1>2. /\ SlotHolds("sense") = 1 /\ SlotHolds("sense")' = 1
      /\ Borrowed("sense") = 0 /\ Borrowed("sense")' = 0
    BY <1>1 DEF SlotHolds, Borrowed, Reserved
<1>3. /\ \A c \in Classes : retained'[c] <= QueueSlots[c] /\ running'[c] <= RunningSlots[c]
      /\ slot' \in SlotStates /\ listed' /\ cutoff' \in BOOLEAN
      /\ state \notin {"Absent", "Stopped"}
      /\ retained \in [Classes -> Nat] /\ running \in [Classes -> Nat]
    BY <1>1, SlotBudget DEF SlotStates
<1> QED
    BY <1>1, <1>2, <1>3, SlotMoves

\* A slot is finished: a Modbus slot gives its reservation back.
LEMMA SlotFinishesStep ==
    ASSUME RuntimeInv, slot \in {"permit", "open"}, SlotFinishes
    PROVE  RuntimeInv'
<1>1. /\ UNCHANGED <<life, work, world>> /\ UNCHANGED <<running, listed, cutoff>> /\ slot' = "joined"
      /\ retained' = [retained EXCEPT !["sense"] = IF SlotKind = "modbus" THEN @ - 1 ELSE @]
    BY DEF SlotFinishes
<1>2. /\ SlotHolds("sense") = 1
      /\ Borrowed("sense") = 0 /\ Borrowed("sense")' = 0
      /\ SlotHolds("sense")' = IF SlotKind = "cov" THEN 1 ELSE 0
    BY <1>1 DEF SlotHolds, Borrowed, Reserved
<1>3. /\ retained \in [Classes -> Nat] /\ running \in [Classes -> Nat] /\ "sense" \in Classes
      /\ QueueSlots \in [Classes -> Nat]
      /\ \A c \in Classes : retained[c] <= QueueSlots[c] /\ running'[c] <= RunningSlots[c]
      /\ slot' \in SlotStates /\ listed' /\ cutoff' \in BOOLEAN
      /\ state \notin {"Absent", "Stopped"}
      /\ retained["sense"] >= SlotHolds("sense") + Borrowed("sense")
    BY <1>1, SlotBudget DEF SlotStates
<1>4. CASE SlotKind = "modbus"
    <2>1. retained["sense"] > 0 /\ retained' = [retained EXCEPT !["sense"] = @ - 1]
        BY <1>1, <1>2, <1>3, <1>4
    <2>2. /\ retained' \in [Classes -> Nat] /\ retained'["sense"] = retained["sense"] - 1
          /\ \A c \in Classes \ {"sense"} : retained'[c] = retained[c]
          /\ \A c \in Classes : retained'[c] <= QueueSlots[c]
        BY <1>3, <2>1, CountDown
    <2>3. retained'["sense"] + SlotHolds("sense") + Borrowed("sense")
              = retained["sense"] + SlotHolds("sense")' + Borrowed("sense")'
        BY <1>2, <1>3, <1>4, <2>2
    <2> QED
        BY <1>1, <1>2, <1>3, <2>2, <2>3, SlotMoves
<1>5. CASE SlotKind # "modbus"
    <2>1. SlotKind = "cov"
        BY <1>5, RuntimeAssumption
    <2>2. retained' = retained
        BY <1>1, <1>3, <1>5
    <2>3. retained'["sense"] + SlotHolds("sense") + Borrowed("sense")
              = retained["sense"] + SlotHolds("sense")' + Borrowed("sense")'
        BY <1>2, <1>3, <2>1, <2>2
    <2> QED
        BY <1>1, <1>2, <1>3, <2>2, <2>3, SlotMoves
<1> QED
    BY <1>4, <1>5

\* A slot is admitted: it takes a retained sensing reservation.
LEMMA AdmitStep ==
    ASSUME RuntimeInv, AdmitSlot
    PROVE  RuntimeInv'
<1>1. /\ UNCHANGED <<life, work, world>> /\ UNCHANGED running
      /\ slot' = "permit" /\ listed' = TRUE /\ cutoff' = FALSE /\ state = "RunningInert"
      /\ ~Reserved /\ retained["sense"] < QueueSlots["sense"]
      /\ retained' = [retained EXCEPT !["sense"] = @ + 1]
    BY DEF AdmitSlot, Room
<1>2. /\ SlotHolds("sense") = 0 /\ SlotHolds("sense")' = 1
      /\ Borrowed("sense") = 0 /\ Borrowed("sense")' = 0
    BY <1>1 DEF SlotHolds, Borrowed, Reserved
<1>3. /\ retained \in [Classes -> Nat] /\ running \in [Classes -> Nat] /\ "sense" \in Classes
      /\ QueueSlots \in [Classes -> Nat]
      /\ \A c \in Classes : retained[c] <= QueueSlots[c] /\ running'[c] <= RunningSlots[c]
    BY <1>1, SlotBudget
<1>4. /\ retained' \in [Classes -> Nat] /\ retained'["sense"] = retained["sense"] + 1
      /\ \A c \in Classes \ {"sense"} : retained'[c] = retained[c]
      /\ \A c \in Classes : retained'[c] <= QueueSlots[c]
    BY <1>1, <1>3, CountUp
<1>5. retained'["sense"] + SlotHolds("sense") + Borrowed("sense")
          = retained["sense"] + SlotHolds("sense")' + Borrowed("sense")'
    BY <1>2, <1>3, <1>4
<1>6. slot' \in SlotStates
    BY <1>1 DEF SlotStates
<1> QED
    BY <1>1, <1>2, <1>3, <1>4, <1>5, <1>6, SlotMoves

\* A connection or a receive borrows a sensing slot and gives it back.
LEMMA BorrowSteps ==
    ASSUME RuntimeInv,
           \/ SlotConnects \/ SlotReceives
           \/ SlotConnected \/ SlotReceived
    PROVE  RuntimeInv'
<1>3. /\ retained \in [Classes -> Nat] /\ running \in [Classes -> Nat] /\ "sense" \in Classes
      /\ QueueSlots \in [Classes -> Nat] /\ RunningSlots \in [Classes -> Nat]
      /\ \A c \in Classes : retained[c] <= QueueSlots[c]
      /\ \A c \in Classes : running[c] <= RunningSlots[c]
      /\ retained["sense"] >= SlotHolds("sense") + Borrowed("sense")
      /\ running["sense"] >= Borrowed("sense")
      /\ cutoff \in BOOLEAN
    BY SlotBudget
<1>1. CASE SlotConnects \/ SlotReceives
    <2>1. /\ UNCHANGED <<life, work, world>> /\ UNCHANGED <<listed, cutoff>>
          /\ slot \in {"permit", "open"} /\ slot' \in {"connecting", "receiving"}
          /\ retained["sense"] < QueueSlots["sense"] /\ running["sense"] < RunningSlots["sense"]
          /\ retained' = [retained EXCEPT !["sense"] = @ + 1]
          /\ running' = [running EXCEPT !["sense"] = @ + 1]
        BY <1>1 DEF SlotConnects, SlotReceives, SlotBorrows, Room
    <2>2. /\ SlotHolds("sense") = 1 /\ SlotHolds("sense")' = 1
          /\ Borrowed("sense") = 0 /\ Borrowed("sense")' = 1
        BY <2>1 DEF SlotHolds, Borrowed, Reserved
    <2>3. /\ retained' \in [Classes -> Nat] /\ retained'["sense"] = retained["sense"] + 1
          /\ \A c \in Classes \ {"sense"} : retained'[c] = retained[c]
          /\ \A c \in Classes : retained'[c] <= QueueSlots[c]
        BY <1>3, <2>1, CountUp
    <2>4. /\ running' \in [Classes -> Nat] /\ running'["sense"] = running["sense"] + 1
          /\ \A c \in Classes \ {"sense"} : running'[c] = running[c]
          /\ \A c \in Classes : running'[c] <= RunningSlots[c]
        BY <1>3, <2>1, CountUp
    <2>5. /\ retained'["sense"] + SlotHolds("sense") + Borrowed("sense")
              = retained["sense"] + SlotHolds("sense")' + Borrowed("sense")'
          /\ running'["sense"] + Borrowed("sense") = running["sense"] + Borrowed("sense")'
        BY <1>3, <2>2, <2>3, <2>4
    <2>6. slot' \in SlotStates /\ listed' /\ state \notin {"Absent", "Stopped"}
        BY <2>1, SlotBudget DEF SlotStates
    <2> QED
        BY <1>3, <2>1, <2>3, <2>4, <2>5, <2>6, SlotMoves
<1>2. CASE SlotConnected \/ SlotReceived
    <2>1. /\ UNCHANGED <<life, work, world>> /\ UNCHANGED <<listed, cutoff>>
          /\ slot \in {"connecting", "receiving"} /\ slot' = "open"
          /\ retained' = [retained EXCEPT !["sense"] = @ - 1]
          /\ running' = [running EXCEPT !["sense"] = @ - 1]
        BY <1>2 DEF SlotConnected, SlotReceived, SlotReturns
    <2>2. /\ SlotHolds("sense") = 1 /\ SlotHolds("sense")' = 1
          /\ Borrowed("sense") = 1 /\ Borrowed("sense")' = 0
        BY <2>1 DEF SlotHolds, Borrowed, Reserved
    <2>a. retained["sense"] > 0 /\ running["sense"] > 0
        BY <1>3, <2>2
    <2>3. /\ retained' \in [Classes -> Nat] /\ retained'["sense"] = retained["sense"] - 1
          /\ \A c \in Classes \ {"sense"} : retained'[c] = retained[c]
          /\ \A c \in Classes : retained'[c] <= QueueSlots[c]
        BY <1>3, <2>1, <2>a, CountDown
    <2>4. /\ running' \in [Classes -> Nat] /\ running'["sense"] = running["sense"] - 1
          /\ \A c \in Classes \ {"sense"} : running'[c] = running[c]
          /\ \A c \in Classes : running'[c] <= RunningSlots[c]
        BY <1>3, <2>1, <2>a, CountDown
    <2>5. /\ retained'["sense"] + SlotHolds("sense") + Borrowed("sense")
              = retained["sense"] + SlotHolds("sense")' + Borrowed("sense")'
          /\ running'["sense"] + Borrowed("sense") = running["sense"] + Borrowed("sense")'
        BY <1>3, <2>2, <2>3, <2>4
    <2>6. slot' \in SlotStates /\ listed' /\ state \notin {"Absent", "Stopped"}
        BY <2>1, SlotBudget DEF SlotStates
    <2> QED
        BY <1>3, <2>1, <2>3, <2>4, <2>5, <2>6, SlotMoves
<1> QED
    BY <1>1, <1>2

\* A connection that fails gives back what it borrowed and finishes its slot.
LEMMA ConnectFailsStep ==
    ASSUME RuntimeInv, SlotConnectFails
    PROVE  RuntimeInv'
<1>1. /\ UNCHANGED <<life, work, world>> /\ UNCHANGED <<listed, cutoff>>
      /\ SlotKind = "modbus" /\ slot = "connecting" /\ slot' = "joined"
      /\ retained' = [retained EXCEPT !["sense"] = @ - 2]
      /\ running' = [running EXCEPT !["sense"] = @ - 1]
    BY DEF SlotConnectFails
<1>2. /\ SlotHolds("sense") = 1 /\ SlotHolds("sense")' = 0
      /\ Borrowed("sense") = 1 /\ Borrowed("sense")' = 0
    BY <1>1 DEF SlotHolds, Borrowed, Reserved
<1>3. /\ retained \in [Classes -> Nat] /\ running \in [Classes -> Nat] /\ "sense" \in Classes
      /\ QueueSlots \in [Classes -> Nat] /\ RunningSlots \in [Classes -> Nat]
      /\ \A c \in Classes : retained[c] <= QueueSlots[c]
      /\ \A c \in Classes : running[c] <= RunningSlots[c]
      /\ retained["sense"] >= SlotHolds("sense") + Borrowed("sense")
      /\ running["sense"] >= Borrowed("sense")
      /\ cutoff \in BOOLEAN
      /\ listed /\ state \notin {"Absent", "Stopped"}
    BY <1>1, SlotBudget
<1> DEFINE less == [retained EXCEPT !["sense"] = @ - 1]
<1>4. retained["sense"] > 0 /\ retained["sense"] - 1 > 0 /\ running["sense"] > 0
    BY <1>2, <1>3
<1>5. /\ less \in [Classes -> Nat] /\ less["sense"] = retained["sense"] - 1
      /\ \A c \in Classes \ {"sense"} : less[c] = retained[c]
      /\ \A c \in Classes : less[c] <= QueueSlots[c]
    BY <1>3, <1>4, CountDown
<1>6. retained' = [less EXCEPT !["sense"] = @ - 1]
    <2>1. \A n \in Nat : n - 2 = (n - 1) - 1
        OBVIOUS
    <2> QED
        BY <1>1, <1>3, <2>1
<1> HIDE DEF less
<1>7. /\ retained' \in [Classes -> Nat] /\ retained'["sense"] = less["sense"] - 1
      /\ \A c \in Classes \ {"sense"} : retained'[c] = less[c]
      /\ \A c \in Classes : retained'[c] <= QueueSlots[c]
    BY <1>3, <1>4, <1>5, <1>6, CountDown
<1>8. /\ running' \in [Classes -> Nat] /\ running'["sense"] = running["sense"] - 1
      /\ \A c \in Classes \ {"sense"} : running'[c] = running[c]
      /\ \A c \in Classes : running'[c] <= RunningSlots[c]
    BY <1>1, <1>3, <1>4, CountDown
<1>9. /\ retained'["sense"] + SlotHolds("sense") + Borrowed("sense")
          = retained["sense"] + SlotHolds("sense")' + Borrowed("sense")'
      /\ running'["sense"] + Borrowed("sense") = running["sense"] + Borrowed("sense")'
    BY <1>2, <1>3, <1>5, <1>7, <1>8
<1>10. slot' \in SlotStates /\ listed' /\ listed' \in BOOLEAN /\ cutoff' \in BOOLEAN
    BY <1>1, <1>3 DEF SlotStates
<1>11. \A c \in Classes \ {"sense"} : retained'[c] = retained[c] /\ running'[c] = running[c]
    BY <1>5, <1>7, <1>8
<1> QED
    BY <1>1, <1>3, <1>7, <1>8, <1>9, <1>10, <1>11, SlotMoves

\* The owner of a closed slot lets go of it: a COV slot gives its reservation back.
LEMMA OwnerDropsStep ==
    ASSUME RuntimeInv, OwnerDrops
    PROVE  RuntimeInv'
<1>1. /\ UNCHANGED <<life, work, world>> /\ UNCHANGED <<running, listed, cutoff>>
      /\ slot = "joined" /\ slot' = "none" /\ ~listed
      /\ retained' = [retained EXCEPT !["sense"] = IF SlotKind = "cov" THEN @ - 1 ELSE @]
    BY DEF OwnerDrops
<1>2. /\ SlotHolds("sense") = (IF SlotKind = "cov" THEN 1 ELSE 0) /\ SlotHolds("sense")' = 0
      /\ Borrowed("sense") = 0 /\ Borrowed("sense")' = 0
    BY <1>1 DEF SlotHolds, Borrowed, Reserved
<1>3. /\ retained \in [Classes -> Nat] /\ running \in [Classes -> Nat] /\ "sense" \in Classes
      /\ QueueSlots \in [Classes -> Nat]
      /\ \A c \in Classes : retained[c] <= QueueSlots[c] /\ running'[c] <= RunningSlots[c]
      /\ slot' \in SlotStates /\ ~listed' /\ listed' \in BOOLEAN /\ cutoff' \in BOOLEAN
      /\ retained["sense"] >= SlotHolds("sense") + Borrowed("sense")
    BY <1>1, SlotBudget DEF SlotStates
<1>4. CASE SlotKind = "cov"
    <2>1. retained["sense"] > 0 /\ retained' = [retained EXCEPT !["sense"] = @ - 1]
        BY <1>1, <1>2, <1>3, <1>4
    <2>2. /\ retained' \in [Classes -> Nat] /\ retained'["sense"] = retained["sense"] - 1
          /\ \A c \in Classes \ {"sense"} : retained'[c] = retained[c]
          /\ \A c \in Classes : retained'[c] <= QueueSlots[c]
        BY <1>3, <2>1, CountDown
    <2>3. retained'["sense"] + SlotHolds("sense") + Borrowed("sense")
              = retained["sense"] + SlotHolds("sense")' + Borrowed("sense")'
        BY <1>2, <1>3, <1>4, <2>2
    <2> QED
        BY <1>1, <1>2, <1>3, <2>2, <2>3, SlotMoves
<1>5. CASE SlotKind # "cov"
    <2>1. retained' = retained
        BY <1>1, <1>3, <1>5
    <2>2. retained'["sense"] + SlotHolds("sense") + Borrowed("sense")
              = retained["sense"] + SlotHolds("sense")' + Borrowed("sense")'
        BY <1>2, <1>3, <1>5, <2>1
    <2> QED
        BY <1>1, <1>2, <1>3, <2>1, <2>2, SlotMoves
<1> QED
    BY <1>4, <1>5

\* Every step of the slot.
LEMMA SlotSteps ==
    ASSUME RuntimeInv, SlotStep
    PROVE  RuntimeInv'
<1>1. CASE SlotOpens
    BY <1>1, SlotToStep DEF SlotOpens
<1>2. CASE SlotOpenFails
    BY <1>2, SlotFinishesStep DEF SlotOpenFails
<1>3. CASE PermitDropped
    BY <1>3, SlotFinishesStep, SlotToStep DEF PermitDropped
<1>4. CASE SlotConnects \/ SlotConnected \/ SlotReceives \/ SlotReceived
    BY <1>4, BorrowSteps
<1>5. CASE SlotCloses
    BY <1>5, SlotFinishesStep DEF SlotCloses
<1>6. CASE SlotAbandoned
    BY <1>6, SlotToStep DEF SlotAbandoned
<1>7. CASE SlotExpires
    BY <1>7, QuietSteps
<1>8. CASE OwnerDrops
    BY <1>8, OwnerDropsStep
<1>9. CASE SlotConnectFails
    BY <1>9, ConnectFailsStep
<1> QED
    BY <1>1, <1>2, <1>3, <1>4, <1>5, <1>6, <1>7, <1>8, <1>9 DEF SlotStep

-----------------------------------------------------------------------------
(* The lease.  Who holds it changes with the jobs, the slot and what dropped *)
(* Runtimes leave behind; the invariant of the jobs says which those are.    *)

LeaseInv == OneOwner /\ abandoned \subseteq JobIds \cup {TheSlot}

\* The Runtime, its slot and its jobs are different holders.
LEMMA HoldersDiffer ==
    /\ TheRuntime \notin JobIds /\ TheSlot \notin JobIds /\ TheRuntime # TheSlot
    /\ Holders = JobIds \cup {TheRuntime, TheSlot}
BY RuntimeAssumption DEF TheRuntime, TheSlot, JobIds, Holders

\* The same users hold the same clones.
LEMMA SameUsers ==
    ASSUME LeaseInv, UNCHANGED <<lease, abandoned>>, Live' = Live, Reserved' <=> Reserved,
           state' = "Absent" <=> state = "Absent"
    PROVE  LeaseInv'
BY DEF LeaseInv, OneOwner, Users

\* A thread is spawned, of a Runtime that is there.
LEMMA UserEnters ==
    ASSUME LeaseInv, NEW i, Live' = Live \cup {i}, Spawned(i), UNCHANGED <<abandoned, slot>>,
           state # "Absent", state' # "Absent"
    PROVE  LeaseInv'
BY DEF LeaseInv, OneOwner, Users, Spawned, Reserved

\* A thread of a Runtime that is there is joined: nothing is abandoned, so that
\* its clone is dropped and no other.
LEMMA UserLeaves ==
    ASSUME LeaseInv, NEW i \in JobIds, Live' = Live \ {i}, lease' = lease \ {i},
           UNCHANGED <<abandoned, slot>>, state # "Absent", state' # "Absent"
    PROVE  LeaseInv'
BY HoldersDiffer DEF LeaseInv, OneOwner, Users, Reserved

\* A job that moves on or is told to stop stays a job.
LEMMA EditsKeepLive ==
    ASSUME RuntimeInv,
           \/ StartStep \/ Stop
           \/ \E i \in JobIds : ThreadStep(i) \/ PollCancels(i)
           \/ \E i \in Ids : CancelRunning(i)
    PROVE  Live' = Live
<1>1. job \in [JobIds -> Job \cup {NoJob}] /\ NoJob \notin Job
    BY NoneAssumption DEF RuntimeInv, Types
<1>2. ASSUME NEW i \in Live, NEW j \in Job, job' = [job EXCEPT ![i] = j]
      PROVE  Live' = Live
    BY <1>1, <1>2 DEF Live
<1>3. ASSUME NEW i \in Live, NEW p \in Phases, NEW r \in Results, Thread(i, p, r)
      PROVE  Live' = Live
    <2> DEFINE j == [job[i] EXCEPT !.phase = p, !.result = r]
    <2>1. i \in JobIds /\ job[i] \in Job
        BY <1>1 DEF Live
    <2>2. j \in Job
        BY <2>1 DEF Job
    <2>3. job' = [job EXCEPT ![i] = j]
        BY <1>1, <1>3, <2>1 DEF Thread
    <2> HIDE DEF j
    <2> QED
        BY <1>2, <2>2, <2>3
<1>4. CASE StartSelects
    <2> DEFINE j == [job[Start] EXCEPT !.phase = "done", !.result = "started", !.gen = gen]
    <2>1. Start \in Live /\ job[Start] \in Job
        BY <1>1, <1>4 DEF StartSelects, InPhase, Live
    <2>2. j \in Job
        BY <2>1 DEF Job, Phases, Results, RuntimeInv, Types
    <2>3. job' = [job EXCEPT ![Start] = j]
        BY <1>1, <1>4, <2>1 DEF StartSelects
    <2> HIDE DEF j
    <2> QED
        BY <1>2, <2>1, <2>2, <2>3
<1>5. CASE StartOpens \/ StartRefused
    BY <1>3, <1>5 DEF StartOpens, StartRefused, InPhase, Phases, Results
<1>6. ASSUME NEW i \in JobIds, ThreadStep(i) PROVE Live' = Live
    BY <1>3, <1>6
    DEF ThreadStep, ThreadFaults, WorkVerifies, WorkIsStale, WorkHandsOff, AdapterReturns, WorkSucceeds,
        InPhase, Phases, Results
<1>7. ASSUME NEW i \in Live, job' = [job EXCEPT ![i].cancelled = TRUE] PROVE Live' = Live
    <2> DEFINE j == [job[i] EXCEPT !.cancelled = TRUE]
    <2>1. i \in JobIds /\ job[i] \in Job
        BY <1>1 DEF Live
    <2>2. j \in Job
        BY <2>1 DEF Job
    <2>3. job' = [job EXCEPT ![i] = j]
        BY <1>1, <1>7, <2>1
    <2> HIDE DEF j
    <2> QED
        BY <1>2, <2>2, <2>3
<1>8. CASE Stop
    <2>1. job' = [i \in JobIds |-> IF job[i] = NoJob THEN NoJob ELSE [job[i] EXCEPT !.cancelled = TRUE]]
        BY <1>8 DEF Stop
    <2>2. ASSUME NEW i \in JobIds, job[i] # NoJob PROVE [job[i] EXCEPT !.cancelled = TRUE] # NoJob
        <3>1. job[i] \in Job
            BY <1>1, <2>2
        <3>2. [job[i] EXCEPT !.cancelled = TRUE] \in Job
            BY <3>1 DEF Job
        <3> QED
            BY <1>1, <3>2
    <2> QED
        BY <2>1, <2>2 DEF Live
<1> QED
    BY <1>4, <1>5, <1>6, <1>7, <1>8 DEF StartStep, PollCancels, CancelRunning

\* A Runtime is built when nobody is left, and dropped with its survivors.
LEMMA LeaseLife ==
    ASSUME RuntimeInv, LeaseInv, Inert \/ Drop
    PROVE  LeaseInv'
<1>1. Live' = {} /\ ~Reserved'
    BY DEF Inert, Drop, Fresh, Live, NoJobs, Reserved
<1>2. CASE Inert
    <2>1. state = "Absent" /\ abandoned = {}
        BY <1>2 DEF Inert, LeaseFree, LeaseInv, OneOwner, Users
    <2> QED
        BY <1>1, <1>2, <2>1 DEF Inert, LeaseInv, OneOwner, Users
<1>3. CASE Drop
    <2>1. abandoned = {} /\ Survivors \subseteq Live \cup {TheSlot} /\ Live \subseteq JobIds
          /\ (TheSlot \in Survivors /\ TheSlot \notin JobIds => Reserved)
        BY <1>3 DEF Drop, LeaseInv, OneOwner, Survivors, Owned, Live
    <2>2. lease = {TheRuntime} \cup Live \cup (IF Reserved THEN {TheSlot} ELSE {})
        BY <1>3, <2>1 DEF Drop, LeaseInv, OneOwner, Users
    <2>3. Survivors \subseteq lease /\ lease \subseteq {TheRuntime, TheSlot} \cup Live
        BY <2>1, <2>2, HoldersDiffer
    <2>4. state' = "Absent" /\ abandoned' = Survivors
          /\ lease' = lease \ (({TheRuntime, TheSlot} \cup Live) \ Survivors)
        BY <1>3, <2>1 DEF Drop
    <2>5. lease' = Survivors
        BY <2>3, <2>4
    <2> QED
        BY <1>1, <2>1, <2>4, <2>5 DEF LeaseInv, OneOwner, Users
<1> QED
    BY <1>2, <1>3

\* What a dropped Runtime left behind comes to its end.
LEMMA LeaseExits ==
    ASSUME RuntimeInv, LeaseInv, NEW h \in Holders, AbandonedExits(h)
    PROVE  LeaseInv'
<1>1. state = "Absent" /\ Live = {} /\ ~Reserved
    BY DEF AbandonedExits, LeaseInv, OneOwner, RuntimeInv, ByState, Reserved
<1>2. Live' = {} /\ ~Reserved' /\ state' = "Absent"
    BY <1>1 DEF AbandonedExits, life, work, slots, Live, Reserved
<1> QED
    BY <1>1, <1>2 DEF AbandonedExits, LeaseInv, OneOwner, Users

\* A job is spawned or joined.
LEMMA LeaseJobs ==
    ASSUME RuntimeInv, LeaseInv,
           \/ BeginStart \/ \E i \in 1..Len(queue) : DispatchNext(i)
           \/ \E i \in JobIds : PollDiscards(i) \/ PollWork(i) \/ PollHolds(i)
           \/ PollStart
    PROVE  LeaseInv'
<1>1. job \in [JobIds -> Job \cup {NoJob}] /\ NoJob \notin Job /\ Live \subseteq JobIds
    BY NoneAssumption DEF RuntimeInv, Types, Live
<1>2. ASSUME NEW i \in JobIds, NEW j \in Job, job' = [job EXCEPT ![i] = j]
      PROVE  Live' = Live \cup {i}
    BY <1>1, <1>2 DEF Live
<1>3. ASSUME NEW i \in JobIds, job' = [job EXCEPT ![i] = NoJob]
      PROVE  Live' = Live \ {i}
    BY <1>1, <1>3 DEF Live
<1>4. CASE BeginStart
    <2>1. /\ job' = [job EXCEPT ![Start] = NewJob("reconcile", lastInc + 1, 0)] /\ Spawned(Start)
          /\ UNCHANGED <<slot, abandoned>> /\ state # "Absent" /\ state' # "Absent"
        BY <1>4 DEF BeginStart, slots, world
    <2>2. NewJob("reconcile", lastInc + 1, 0) \in Job /\ Start \in JobIds
        BY NewJobTypes, RuntimeAssumption DEF RuntimeInv, Types, Classes, JobIds, Start
    <2> QED
        BY <1>2, <2>1, <2>2, UserEnters
<1>5. ASSUME NEW i \in 1..Len(queue), DispatchNext(i) PROVE LeaseInv'
    <2> DEFINE x == queue[i].id
               j == NewJob(queue[i].class, session.inc, session.gen)
    <2>1. /\ job' = [job EXCEPT ![x] = j] /\ Spawned(x)
          /\ UNCHANGED <<slot, abandoned>> /\ state = "RunningInert" /\ state' = state
        BY <1>5 DEF DispatchNext, slots, world, life
    <2>2. x \in JobIds /\ queue[i].class \in Classes
        BY ItemTypes, IdsAreJobIds DEF RuntimeInv, Types
    <2>3. session.inc \in Nat /\ session.gen \in Nat
        BY <2>1 DEF RuntimeInv, ByState, Types, Session
    <2>4. j \in Job
        BY <2>2, <2>3, NewJobTypes
    <2> HIDE DEF x, j
    <2> QED
        BY <1>2, <2>1, <2>2, <2>4, UserEnters
<1>6. ASSUME NEW i \in JobIds, i \in Live, lease' = lease \ {i}, Live' = Live \ {i},
             UNCHANGED <<slot, abandoned>>, state' # "Absent"
      PROVE  LeaseInv'
    <2>1. state # "Absent"
        BY <1>6 DEF RuntimeInv, ByState
    <2> QED
        BY <1>6, <2>1, UserLeaves
<1>7. ASSUME NEW i \in JobIds, PollDiscards(i) PROVE LeaseInv'
    <2>1. /\ i \in Live /\ lease' = lease \ {i} /\ job' = [job EXCEPT ![i] = NoJob]
          /\ UNCHANGED <<slot, abandoned>> /\ state' # "Absent"
        BY <1>7 DEF PollDiscards, Join, InPhase, Forget, Settled, slots, Ending
    <2> QED
        BY <1>3, <1>6, <2>1
<1>8. CASE PollStart
    <2>1. /\ Start \in Live /\ lease' = lease \ {Start} /\ job' = [job EXCEPT ![Start] = NoJob]
          /\ UNCHANGED <<slot, abandoned>> /\ state' # "Absent"
        BY <1>8 DEF PollStart, Join, InPhase, Forget, Settled, slots
    <2>2. Start \in JobIds
        BY IdsAreJobIds
    <2> QED
        BY <1>3, <1>6, <2>1, <2>2
<1>9. ASSUME NEW i \in JobIds, PollWork(i) PROVE LeaseInv'
    <2>1. /\ i \in Live /\ lease' = lease \ {i} /\ job' = [job EXCEPT ![i] = NoJob]
          /\ UNCHANGED <<slot, abandoned, state>>
        BY <1>9 DEF PollWork, Join, InPhase, slots, world
    <2>2. state # "Absent"
        BY <2>1 DEF RuntimeInv, ByState
    <2> QED
        BY <1>3, <1>6, <2>1, <2>2
<1>10. ASSUME NEW i \in JobIds, PollHolds(i) PROVE LeaseInv'
    <2>1. /\ i \in Live /\ lease' = lease \ {i} /\ UNCHANGED <<slot, abandoned>> /\ state' # "Absent"
          /\ job' = [k \in JobIds |-> IF k = i \/ job[k] = NoJob THEN NoJob
                                      ELSE [job[k] EXCEPT !.cancelled = TRUE]]
        BY <1>10 DEF PollHolds, Join, InPhase, slots, world
    <2>2. ASSUME NEW k \in JobIds, job[k] # NoJob PROVE [job[k] EXCEPT !.cancelled = TRUE] # NoJob
        <3>1. job[k] \in Job
            BY <1>1, <2>2
        <3>2. [job[k] EXCEPT !.cancelled = TRUE] \in Job
            BY <3>1 DEF Job
        <3> QED
            BY <1>1, <3>2
    <2>3. Live' = Live \ {i}
        BY <2>1, <2>2 DEF Live
    <2> QED
        BY <1>6, <2>1, <2>3
<1> QED
    BY <1>4, <1>5, <1>7, <1>8, <1>9, <1>10

\* The slot takes a clone when it is admitted and gives it up when its kind does.
LEMMA LeaseSlot ==
    ASSUME RuntimeInv, LeaseInv, AdmitSlot \/ SlotStep
    PROVE  LeaseInv'
<1>1. Live' = Live /\ UNCHANGED <<state, abandoned>> /\ Live \subseteq JobIds
    BY DEF AdmitSlot, SlotStep, SlotOpens, SlotTo, SlotOpenFails, SlotFinishes, SlotConnects, SlotBorrows,
           SlotConnected, SlotReturns, SlotConnectFails, PermitDropped, SlotReceives, SlotReceived,
           SlotCloses, SlotAbandoned, SlotExpires, OwnerDrops, life, work, world, Live
<1>2. state # "Absent" /\ abandoned = {}
    <2>1. slot # "none" \/ state = "RunningInert"
        BY DEF AdmitSlot, SlotStep, SlotOpens, SlotOpenFails, SlotConnects, SlotConnected,
               SlotConnectFails, PermitDropped, SlotReceives, SlotReceived, SlotCloses, SlotAbandoned,
               SlotExpires, OwnerDrops
    <2> QED
        BY <2>1 DEF RuntimeInv, ByState, LeaseInv, OneOwner
<1>3. \/ lease' = lease /\ (Reserved' <=> Reserved)
      \/ lease' = lease \cup {TheSlot} /\ Reserved'
      \/ lease' = lease \ {TheSlot} /\ ~Reserved'
    <2>1. CASE AdmitSlot
        BY <2>1 DEF AdmitSlot, Reserved
    <2>2. CASE SlotOpens \/ SlotAbandoned
        BY <2>2 DEF SlotOpens, SlotAbandoned, SlotTo, held, Reserved
    <2>3. ASSUME slot \in {"permit", "open"}, SlotFinishes
          PROVE  \/ lease' = lease /\ (Reserved' <=> Reserved)
                 \/ lease' = lease \ {TheSlot} /\ ~Reserved'
        <3>1. slot' = "joined" /\ lease' = IF SlotKind = "modbus" THEN lease \ {TheSlot} ELSE lease
            BY <2>3 DEF SlotFinishes
        <3>2. CASE SlotKind = "modbus"
            BY <3>1, <3>2 DEF Reserved
        <3>3. CASE SlotKind = "cov"
            BY <2>3, <3>1, <3>3 DEF Reserved
        <3> QED
            BY <3>2, <3>3, RuntimeAssumption DEF RuntimeAssumption
    <2>4. CASE PermitDropped
        BY <2>3, <2>4 DEF PermitDropped, SlotTo, held, Reserved
    <2>5. CASE SlotConnects \/ SlotConnected \/ SlotReceives \/ SlotReceived
        BY <2>5 DEF SlotConnects, SlotConnected, SlotReceives, SlotReceived, SlotBorrows, SlotReturns,
                    Reserved
    <2>6. CASE SlotConnectFails
        BY <2>6 DEF SlotConnectFails, Reserved
    <2>7. CASE SlotExpires
        BY <2>7 DEF SlotExpires, held, Reserved
    <2>8. CASE OwnerDrops
        BY <2>8, RuntimeAssumption DEF OwnerDrops, Reserved
    <2> QED
        BY <2>1, <2>2, <2>3, <2>4, <2>5, <2>6, <2>7, <2>8 DEF SlotStep, SlotOpenFails, SlotCloses
<1> QED
    BY <1>1, <1>2, <1>3, HoldersDiffer DEF LeaseInv, OneOwner, Users

\* Every step keeps the lease with those who can reach the stores.
LEMMA LeaseStep ==
    ASSUME RuntimeInv, LeaseInv, [Next]_vars
    PROVE  LeaseInv'
<1>1. CASE Inert \/ Drop
    BY <1>1, LeaseLife
<1>2. CASE \E h \in Holders : AbandonedExits(h)
    BY <1>2, LeaseExits
<1>3. CASE BeginStart \/ (\E i \in 1..Len(queue) : DispatchNext(i)) \/ PollStart
           \/ \E i \in JobIds : PollDiscards(i) \/ PollWork(i) \/ PollHolds(i)
    BY <1>3, LeaseJobs
<1>4. CASE AdmitSlot \/ SlotStep
    BY <1>4, LeaseSlot
<1>5. CASE StartStep \/ (\E i \in JobIds : ThreadStep(i) \/ PollCancels(i)) \/ \E i \in Ids : CancelRunning(i)
    <2>1. UNCHANGED <<lease, abandoned, state, slot>>
        BY <1>5 DEF StartStep, StartOpens, StartSelects, StartRefused, ThreadStep, ThreadFaults,
                    WorkVerifies, WorkIsStale, WorkHandsOff, AdapterReturns, WorkSucceeds, Thread,
                    PollCancels, CancelRunning, life, held, slots, world
    <2>2. Live' = Live
        BY <1>5, EditsKeepLive
    <2> QED
        BY <2>1, <2>2, SameUsers DEF Reserved
<1>6. CASE Stop
    <2>1. UNCHANGED <<lease, abandoned, slot>> /\ state # "Absent" /\ state' # "Absent"
        BY <1>6 DEF Stop, Settled
    <2>2. Live' = Live
        BY <1>6, EditsKeepLive
    <2> QED
        BY <2>1, <2>2, SameUsers DEF Reserved
<1>7. CASE \/ PollSlots \/ StopTimesOut \/ Activate \/ UNCHANGED vars
           \/ (\E i \in JobIds : DeadlinePasses(i)) \/ (\E c \in Classes : Enqueue(c))
           \/ (\E i \in 1..Len(queue) : DispatchFails(i) \/ CancelQueued(i))
           \/ \E i \in Ids : TakeResult(i)
    <2>1. UNCHANGED <<lease, abandoned, slot, job>> /\ (state' = "Absent" <=> state = "Absent")
        BY <1>7 DEF PollSlots, PollSlot, PollStops, StopTimesOut, Activate, DeadlinePasses, Enqueue,
                    DispatchFails, CancelQueued, TakeResult, Settled, Ending,
                    vars, life, work, held, slots, world
    <2> QED
        BY <2>1, SameUsers DEF Reserved, Live
<1> QED
    BY <1>1, <1>2, <1>3, <1>4, <1>5, <1>6, <1>7 DEF Next, Dispatch, PollJob

-----------------------------------------------------------------------------
(* The theorems.                                                           *)

\* Nothing is held before the first Runtime is built.
LEMMA InitHolds == Init => RuntimeInv
<1> SUFFICES ASSUME Init PROVE RuntimeInv
    OBVIOUS
<1>1. Types
    <2>1. /\ job \in [JobIds -> Job \cup {NoJob}] /\ completed \in [Ids -> Result \cup {NoJob}]
          /\ retained \in [Classes -> Nat] /\ running \in [Classes -> Nat]
        BY DEF Init, NoJobs, NoResults, Zero
    <2>2. sequence \in 0..MaxWork /\ queue \in Seq(Work)
        BY RuntimeAssumption DEF Init
    <2> QED
        BY <2>1, <2>2 DEF Init, Types, States, SlotStates
<1>2. Live = {} /\ (\A i \in Ids : completed[i] = NoJob) /\ Len(queue) = 0 /\ queue = << >>
    BY DEF Init, Live, NoJobs, NoResults
<1>3. Numbered
    <2>1. \A i \in Ids : i \in JobIds
        BY IdsAreJobIds
    <2> QED
        BY <1>2, <2>1 DEF Init, Numbered, Unused, NoJobs, NoResults
<1>4. ByState /\ Sound
    BY <1>2 DEF Init, ByState, Sound
<1>5. ASSUME NEW c \in Classes
      PROVE  /\ IdsAt(queue, c) = {} /\ JobsOf(c) = {} /\ ResultsOf(c) = {}
             /\ SlotHolds(c) = 0 /\ Borrowed(c) = 0
             /\ retained[c] = 0 /\ running[c] = 0
    BY <1>2, IdsByItem DEF JobsOf, ResultsOf, SlotHolds, Borrowed, Reserved, Init, Zero
<1>6. Counted
    BY <1>5, FS_EmptySet DEF Counted
<1>7. WithinBounds
    BY <1>5, RuntimeAssumption DEF WithinBounds
<1> QED
    BY <1>1, <1>3, <1>4, <1>6, <1>7 DEF RuntimeInv

\* Every step of the controller, of a thread, of a slot's owner and of what
\* surrounds them keeps the invariant.
LEMMA RuntimeStep ==
    ASSUME RuntimeInv, [Next]_vars
    PROVE  RuntimeInv'
<1>1. CASE Inert \/ Drop
    BY <1>1, LifeSteps
<1>2. CASE (\E h \in Holders : AbandonedExits(h)) \/ PollSlots \/ StopTimesOut \/ (\E i \in JobIds : DeadlinePasses(i)) \/ UNCHANGED vars
    BY <1>2, QuietSteps DEF PollSlots
<1>3. CASE BeginStart
    BY <1>3, BeginStep
<1>4. CASE \E c \in Classes : Enqueue(c)
    BY <1>4, EnqueueStep
<1>5. CASE Dispatch
    BY <1>5, DispatchStep, UnrunSteps DEF Dispatch
<1>6. CASE \E i \in 1..Len(queue) : CancelQueued(i)
    BY <1>6, UnrunSteps
<1>7. CASE \E i \in Ids : CancelRunning(i) \/ TakeResult(i)
    BY <1>7, CancelSteps, TakeStep
<1>8. CASE StartStep \/ \E i \in JobIds : ThreadStep(i)
    BY <1>8, ThreadSteps
<1>9. ASSUME NEW i \in JobIds, PollJob(i) PROVE RuntimeInv'
    BY <1>9, CancelSteps, ForgetSteps, WorkStep, HoldStep DEF PollJob
<1>10. CASE Stop
    BY <1>10, StopStep
<1>11. CASE AdmitSlot \/ SlotStep
    BY <1>11, AdmitStep, SlotSteps
<1>12. CASE Activate
    BY <1>12, ActivateStep
<1> QED
    BY <1>1, <1>2, <1>3, <1>4, <1>5, <1>6, <1>7, <1>8, <1>9, <1>10, <1>11, <1>12 DEF Next

\* What the invariant says of the properties of the runs.
LEMMA Consequences ==
    ASSUME RuntimeInv
    PROVE  (LeaseInv => TypeOK) /\ BudgetExact /\ StoppedIsQuiet /\ ResultsSound
<1>1. Types /\ Numbered /\ ByState /\ Sound /\ Counted /\ WithinBounds
    BY DEF RuntimeInv
<1>2. ASSUME LeaseInv PROVE TypeOK
    <2>1. ASSUME NEW c \in Classes
          PROVE  retained[c] \in 0..QueueSlots[c] /\ running[c] \in 0..RunningSlots[c]
        BY <1>1, RuntimeAssumption DEF Types, WithinBounds
    <2>2. sequence \in Nat
        BY <1>1, RuntimeAssumption DEF Types
    <2>3. lease \subseteq Holders /\ abandoned \subseteq Holders
        BY <1>2 DEF LeaseInv, OneOwner, Users, Holders, Live
    <2> QED
        BY <1>1, <2>1, <2>2, <2>3 DEF Types, TypeOK
<1>3. BudgetExact
    <2> SUFFICES ASSUME NEW c \in Classes
                 PROVE  /\ retained[c] = Queued(c) + Jobs(c) + Kept(c) + SlotHolds(c) + Borrowed(c)
                        /\ running[c] = Jobs(c) + Borrowed(c)
        BY DEF BudgetExact
    <2>1. Queued(c) = Cardinality(IdsAt(queue, c))
        BY <1>1, CountedSets
    <2>2. Jobs(c) = Cardinality(JobsOf(c)) /\ Kept(c) = Cardinality(ResultsOf(c))
        BY DEF Jobs, JobsOf, Kept, ResultsOf
    <2> QED
        BY <1>1, <2>1, <2>2 DEF Counted
<1>4. StoppedIsQuiet
    <2> SUFFICES ASSUME state = "Stopped"
                 PROVE  /\ Live = {} /\ queue = << >> /\ ~listed
                        /\ running = Zero /\ (~Reserved => retained = Zero)
                        /\ session = NoSession
        BY DEF StoppedIsQuiet
    <2>1. /\ Live = {} /\ queue = << >> /\ ~listed /\ session = NoSession
          /\ \A i \in Ids : completed[i] = NoJob
          /\ slot \in {"none", "joined"}
        BY <1>1 DEF ByState
    <2>2. ASSUME NEW c \in Classes
          PROVE  running[c] = 0 /\ (~Reserved => retained[c] = 0)
        <3>1. Len(queue) = 0
            BY <2>1
        <3>2. IdsAt(queue, c) = {} /\ JobsOf(c) = {} /\ ResultsOf(c) = {} /\ Borrowed(c) = 0
            BY <2>1, <3>1, IdsByItem DEF JobsOf, ResultsOf, Borrowed
        <3>3. ~Reserved => SlotHolds(c) = 0
            BY DEF SlotHolds
        <3> QED
            BY <1>1, <3>2, <3>3, FS_EmptySet DEF Counted
    <2>3. retained \in [Classes -> Nat] /\ running \in [Classes -> Nat]
        BY <1>1 DEF Types
    <2>4. running = Zero
        BY <2>2, <2>3 DEF Zero
    <2>5. ~Reserved => retained = Zero
        BY <2>2, <2>3 DEF Zero
    <2> QED
        BY <2>1, <2>4, <2>5
<1>5. ResultsSound
    <2>1. SameIncarnation
        BY <1>1 DEF SameIncarnation, Sound, JobSound, ResultSound, ByState
    <2>2. ReadUndisturbed /\ CancelWins
        BY <1>1 DEF ReadUndisturbed, CancelWins, Sound, ResultSound
    <2>3. HeldIsSealed
        BY <1>1 DEF HeldIsSealed, ByState
    <2> QED
        BY <2>1, <2>2, <2>3 DEF ResultsSound
<1> QED
    BY <1>2, <1>3, <1>4, <1>5

\* The inductive invariant of the runtime controller, for every bound of the
\* budget and both kinds of slot (runtime/mod.rs, admission.rs).
THEOREM RuntimeInvariant == Spec => []RuntimeInv
<1>1. Init => RuntimeInv
    BY InitHolds
<1>2. RuntimeInv /\ [Next]_vars => RuntimeInv'
    BY RuntimeStep
<1> QED
    BY <1>1, <1>2, PTL DEF Spec

\* The clones of the lease, over every spawn, join, finish, drop and exit: the
\* inductive invariant of the jobs says who is alive, this one who holds what.
THEOREM LeaseInvariant == Spec => []LeaseInv
<1>1. Init => LeaseInv
    BY DEF Init, LeaseInv, OneOwner, Users, Live, NoJobs, Reserved
<1>2. RuntimeInv /\ LeaseInv /\ [Next]_vars => LeaseInv'
    BY LeaseStep
<1> QED
    BY <1>1, <1>2, RuntimeInvariant, PTL DEF Spec

\* Type correctness, with the budget between nothing and its limits
\* (Budget::reserve and Reservation's Drop).
THEOREM RuntimeTyped == Spec => []TypeOK
<1>1. RuntimeInv /\ LeaseInv => TypeOK
    BY Consequences
<1> QED
    BY <1>1, RuntimeInvariant, LeaseInvariant, PTL

\* The budget counts exactly what is alive: no enqueue, failed spawn, cancel,
\* join, hold, stop, receive or dropped slot leaks a reservation or returns one twice.
THEOREM ReservationsExact == Spec => []BudgetExact
<1>1. RuntimeInv => BudgetExact
    BY Consequences
<1> QED
    BY <1>1, RuntimeInvariant, PTL

\* A stopped runtime has joined every thread and kept nothing (Runtime::stop and
\* poll).
THEOREM StopIsQuiet == Spec => []StoppedIsQuiet
<1>1. RuntimeInv => StoppedIsQuiet
    BY Consequences
<1> QED
    BY <1>1, RuntimeInvariant, PTL

\* A result handed out is of this incarnation, was read under one publication, was
\* not cancelled, and none is handed out stale under a hold (Runtime::poll).
THEOREM ResultsHold == Spec => []ResultsSound
<1>1. RuntimeInv => ResultsSound
    BY Consequences
<1> QED
    BY <1>1, RuntimeInvariant, PTL

\* The lease is held by the Runtime, its unjoined threads, its unfinished slot and
\* what dropped Runtimes left behind, and by nobody else: a successor is built
\* only when all of them are gone, and then can be (Lease::acquire, Task, owners.rs).
THEOREM OwnersApart == Spec => []OneOwner
<1>1. LeaseInv => OneOwner
    BY DEF LeaseInv
<1> QED
    BY <1>1, LeaseInvariant, PTL

-----------------------------------------------------------------------------
(* Subscription: the inductive invariant.  What the owner claims is set    *)
(* against the lifetime the device has left, and what it holds as current  *)
(* against the newest notification on its way.                             *)

\* What a notification may be, and what the Subscription is.
Note == [generation : Generations, value : Values, left : 0..Lifetime,
         fit : {"ok", "many", "long", "other"}]
CoverWhole(c) ==
    /\ c = [generation |-> c.generation, subscribed |-> c.subscribed, due |-> c.due,
            unobserved |-> c.unobserved, current |-> c.current, unsubscribe |-> c.unsubscribe,
            stopped |-> c.stopped, renew |-> c.renew, poll |-> c.poll, expires |-> c.expires]
    /\ c.generation \in Generations /\ c.expires \in 0..Lifetime
    /\ c.subscribed \in BOOLEAN /\ c.due \in BOOLEAN /\ c.unobserved \in BOOLEAN
    /\ c.stopped \in BOOLEAN

\* What is asked of the device was asked by this identity or an earlier one, an
\* unsubscribe of this one only once it was attempted.
Earlier(c, as) ==
    \A r \in as :
        /\ r = [kind |-> r.kind, generation |-> r.generation, live |-> r.live]
        /\ r.generation \in Generations /\ r.generation <= c.generation
        /\ r.kind = "unsubscribe" /\ r.generation = c.generation
               => c.unsubscribe # "NotAttempted"

\* The device knows no identity to come.
DeviceWhole(c, dv) ==
    /\ dv = [value |-> dv.value, left |-> dv.left] /\ dv.value \in Values
    /\ dv.left \in [Generations -> 0..Lifetime]
    /\ \A g \in Generations : g > c.generation => dv.left[g] = 0

\* Notifications on their way to the channel and in it.
Posted(box, ar) ==
    /\ box \in Seq(Note) /\ Len(box) <= Capacity
    /\ ar \in [Generations -> Seq(Note)]
    /\ \A g \in Generations : \A i \in DOMAIN ar[g] : ar[g][i].generation = g

\* None of them is this identity's; the newest of them tells what the device holds.
NoneFor(g, box, ar) == ar[g] = <<>> /\ \A i \in DOMAIN box : box[i].generation # g
NewestFor(g, box, i) ==
    /\ i \in DOMAIN box /\ box[i].generation = g
    /\ \A j \in DOMAIN box : j > i => box[j].generation # g
TellsOf(n, dv) == n.value = dv.value /\ n.fit # "other"
NewestTells(g, box, ar, dv) ==
    /\ ar[g] # <<>> => TellsOf(ar[g][Len(ar[g])], dv)
    /\ ar[g] = <<>> => \A i \in DOMAIN box : NewestFor(g, box, i) => TellsOf(box[i], dv)

\* While the device has the subscription and nothing of it was lost, what was told last is
\* what the device holds.
Told(c, box, lg, ar, dv, fl) ==
    dv.left[c.generation] > 0 /\ ~fl =>
        /\ NewestTells(c.generation, box, ar, dv)
        /\ ~lg /\ NoneFor(c.generation, box, ar) /\ ~c.due =>
               c.current # NoSample /\ c.current.value = dv.value

\* The invariant of a Subscription whatever it waits for.
Calm(c, as, box, lg, ar, dv, fl, dr) ==
    /\ CoverWhole(c) /\ Earlier(c, as) /\ DeviceWhole(c, dv) /\ Posted(box, ar)
    /\ c.subscribed => c.unsubscribe = "NotAttempted"
    /\ c.subscribed /\ ~fl => dv.left[c.generation] >= c.expires
    /\ Told(c, box, lg, ar, dv, fl)
    /\ dr => lg \/ c.unobserved
    /\ fl \in BOOLEAN /\ lg \in BOOLEAN /\ dr \in BOOLEAN

\* What it waits for: a request that is awaited is of this identity and this operation; an
\* answer that has come grants what the device has, and reads what it holds.
Calling(c, cl, as, box, lg, ar, dv, fl) ==
    /\ cl = [op |-> cl.op, next |-> cl.next, age |-> cl.age, reply |-> cl.reply,
             value |-> cl.value]
    /\ cl.age \in Nat
    /\ \A r \in as : r.live => cl.op = r.kind /\ r.generation = c.generation
    /\ cl.op = "subscribe" => c.unsubscribe = "NotAttempted"
    /\ cl.op = "unsubscribe" => c.unsubscribe # "NotAttempted"
    /\ cl.reply = "ok" => cl.value \in Values
    /\ cl.op = "subscribe" /\ cl.reply = "ok" /\ ~fl =>
           dv.left[c.generation] >= Less(Lifetime, cl.age)
    /\ (/\ cl.op = "read" /\ cl.reply = "ok"
        /\ dv.left[c.generation] > 0 /\ ~fl /\ ~lg /\ NoneFor(c.generation, box, ar))
           => cl.value = dv.value

SubscriptionInv ==
    /\ Calm(cover, asks, inbox, lag, air, device, fault, dropped)
    /\ Calling(cover, call, asks, inbox, lag, air, device, fault)

-----------------------------------------------------------------------------
(* What the operations do to the Subscription.                             *)

\* Part of an operation that gives up coverage but never claims any.
Moves(c, d) ==
    /\ CoverWhole(d) /\ d.generation = c.generation /\ d.expires = c.expires
    /\ d.current = c.current /\ d.unsubscribe = c.unsubscribe
    /\ d.subscribed => c.subscribed
    /\ c.due => d.due
    /\ c.unobserved => d.unobserved

\* It ends there, or waits for the answer to a request of its own.
Requested(d, as, cl, next) ==
    /\ cl = [op |-> cl.op, next |-> cl.next, age |-> 0, reply |-> "none", value |-> NoSample]
    /\ \A r \in next :
          \/ \E q \in as : r = [q EXCEPT !.live = FALSE]
          \/ r = [kind |-> cl.op, generation |-> d.generation, live |-> TRUE]
    /\ cl.op = "subscribe" => d.unsubscribe = "NotAttempted"
    /\ cl.op = "unsubscribe" => d.unsubscribe # "NotAttempted"

\* From c, the rest of an operation goes so.
Goes(c) == Moves(c, cover') /\ Requested(cover', asks, call', asks')

\* The fields of a Subscription after an edit.
LEMMA CoverEdits ==
    ASSUME NEW c, CoverWhole(c), NEW x
    PROVE  /\ [c EXCEPT !.subscribed = x] =
                [generation |-> c.generation, subscribed |-> x, due |-> c.due,
                 unobserved |-> c.unobserved, current |-> c.current,
                 unsubscribe |-> c.unsubscribe, stopped |-> c.stopped, renew |-> c.renew,
                 poll |-> c.poll, expires |-> c.expires]
           /\ [c EXCEPT !.due = x] =
                [generation |-> c.generation, subscribed |-> c.subscribed, due |-> x,
                 unobserved |-> c.unobserved, current |-> c.current,
                 unsubscribe |-> c.unsubscribe, stopped |-> c.stopped, renew |-> c.renew,
                 poll |-> c.poll, expires |-> c.expires]
           /\ [c EXCEPT !.unobserved = x] =
                [generation |-> c.generation, subscribed |-> c.subscribed, due |-> c.due,
                 unobserved |-> x, current |-> c.current,
                 unsubscribe |-> c.unsubscribe, stopped |-> c.stopped, renew |-> c.renew,
                 poll |-> c.poll, expires |-> c.expires]
BY DEF CoverWhole

\* A loss is remembered and claims nothing.
LEMMA Loses ==
    ASSUME NEW c, CoverWhole(c)
    PROVE  Moves(c, lose(c)) /\ lose(c).due /\ lose(c).unobserved
<1>1. PICK d : d = [generation |-> c.generation, subscribed |-> c.subscribed, due |-> TRUE,
                    unobserved |-> TRUE, current |-> c.current,
                    unsubscribe |-> c.unsubscribe, stopped |-> c.stopped, renew |-> c.renew,
                    poll |-> c.poll, expires |-> c.expires]
    OBVIOUS
<1>2. lose(c) = d
    <2>1. PICK lost : lost = [c EXCEPT !.unobserved = TRUE]
        OBVIOUS
    <2>2. lost = [generation |-> c.generation, subscribed |-> c.subscribed, due |-> c.due,
                  unobserved |-> TRUE, current |-> c.current,
                  unsubscribe |-> c.unsubscribe, stopped |-> c.stopped, renew |-> c.renew,
                  poll |-> c.poll, expires |-> c.expires]
        BY <2>1, CoverEdits
    <2>3. CoverWhole(lost)
        BY <2>2 DEF CoverWhole
    <2>4. [lost EXCEPT !.due = TRUE] =
            [generation |-> lost.generation, subscribed |-> lost.subscribed, due |-> TRUE,
             unobserved |-> lost.unobserved, current |-> lost.current,
             unsubscribe |-> lost.unsubscribe, stopped |-> lost.stopped,
             renew |-> lost.renew, poll |-> lost.poll, expires |-> lost.expires]
        BY <2>3, CoverEdits
    <2>5. [lost EXCEPT !.due = TRUE] = d
        BY <1>1, <2>2, <2>4
    <2>6. lose(c) = [lost EXCEPT !.due = TRUE]
        BY <2>1 DEF lose
    <2> QED
        BY <2>5, <2>6
<1>3. Moves(c, d) /\ d.due /\ d.unobserved
    BY <1>1 DEF CoverWhole, Moves
<1> QED
    BY <1>2, <1>3

\* Moves compose.
LEMMA MovesOn ==
    ASSUME NEW c, NEW d, NEW e, Moves(c, d), Moves(d, e)
    PROVE  Moves(c, e)
BY DEF Moves

\* Nothing need move.
LEMMA MovesNot ==
    ASSUME NEW c, CoverWhole(c)
    PROVE  Moves(c, c)
BY DEF Moves

\* What an operation does to a deadline of its own, or to its coverage.
LEMMA MovesParts ==
    ASSUME NEW c, CoverWhole(c), NEW x
    PROVE  /\ Moves(c, [c EXCEPT !.renew = x])
           /\ Moves(c, [c EXCEPT !.poll = x])
           /\ Moves(c, [c EXCEPT !.subscribed = FALSE])
           /\ Moves(c, [c EXCEPT !.subscribed = FALSE, !.renew = x])
           /\ x \in BOOLEAN => Moves(c, [c EXCEPT !.stopped = x])
<1>1. ASSUME NEW d, CoverWhole(d), d.generation = c.generation, d.expires = c.expires,
             d.current = c.current, d.unsubscribe = c.unsubscribe,
             d.subscribed => c.subscribed, d.due = c.due, d.unobserved = c.unobserved
      PROVE  Moves(c, d)
    BY <1>1 DEF Moves
<1>2. Moves(c, [c EXCEPT !.renew = x])
    BY <1>1 DEF CoverWhole
<1>3. Moves(c, [c EXCEPT !.poll = x])
    BY <1>1 DEF CoverWhole
<1>4. Moves(c, [c EXCEPT !.subscribed = FALSE])
    <2>1. PICK d : d = [generation |-> c.generation, subscribed |-> FALSE, due |-> c.due,
                        unobserved |-> c.unobserved, current |-> c.current,
                        unsubscribe |-> c.unsubscribe, stopped |-> c.stopped,
                        renew |-> c.renew, poll |-> c.poll, expires |-> c.expires]
        OBVIOUS
    <2>2. [c EXCEPT !.subscribed = FALSE] = d
        BY <2>1, CoverEdits
    <2>3. Moves(c, d)
        BY <2>1 DEF CoverWhole, Moves
    <2> QED
        BY <2>2, <2>3
<1>5. Moves(c, [c EXCEPT !.subscribed = FALSE, !.renew = x])
    <2>1. PICK d : d = [c EXCEPT !.subscribed = FALSE]
        OBVIOUS
    <2>2. Moves(c, d)
        BY <1>4, <2>1
    <2>3. Moves(d, [d EXCEPT !.renew = x])
        <3>1. CoverWhole(d)
            BY <2>2 DEF Moves
        <3>2. PICK e : e = [d EXCEPT !.renew = x]
            OBVIOUS
        <3> QED
            BY <3>1, <3>2 DEF CoverWhole, Moves
    <2>4. [c EXCEPT !.subscribed = FALSE, !.renew = x] = [d EXCEPT !.renew = x]
        BY <2>1
    <2> QED
        BY <2>2, <2>3, <2>4, MovesOn
<1>6. x \in BOOLEAN => Moves(c, [c EXCEPT !.stopped = x])
    BY <1>1 DEF CoverWhole
<1> QED
    BY <1>2, <1>3, <1>4, <1>5, <1>6

\* Coverage that ran out is given up.
LEMMA Expires ==
    ASSUME NEW c, CoverWhole(c)
    PROVE  Moves(c, expire_coverage(c))
<1>1. CASE c.subscribed /\ c.expires = 0
    <2>1. PICK d : d = [c EXCEPT !.subscribed = FALSE]
        OBVIOUS
    <2>2. Moves(c, d) /\ CoverWhole(d)
        BY <2>1, MovesParts DEF Moves
    <2>3. Moves(d, lose(d))
        BY <2>2, Loses
    <2>4. expire_coverage(c) = lose(d)
        BY <1>1, <2>1 DEF expire_coverage
    <2> QED
        BY <2>2, <2>3, <2>4, MovesOn
<1>2. CASE ~(c.subscribed /\ c.expires = 0)
    BY <1>2, MovesNot DEF expire_coverage
<1> QED
    BY <1>1, <1>2

\* A deadline that is set.
LEMMA ReturnsGoes ==
    ASSUME NEW c, CoverWhole(c), Returns(c)
    PROVE  Goes(c)
<1>1. cover' = c /\ call' = NoWait /\ asks' = Unawaited
    BY DEF Returns
<1>2. Moves(c, cover')
    BY <1>1, MovesNot
<1>3. Requested(cover', asks, call', asks')
    BY <1>1 DEF Requested, NoWait, Unawaited
<1> QED
    BY <1>2, <1>3 DEF Goes

\* A request, and the operation waits.
LEMMA AsksGoes ==
    ASSUME NEW c, NEW kind, NEW next, cover' = c, CoverWhole(c),
           Asks(kind, c.generation, next),
           kind = "subscribe" => c.unsubscribe = "NotAttempted",
           kind = "unsubscribe" => c.unsubscribe # "NotAttempted"
    PROVE  Goes(c)
<1>1. call' = [op |-> kind, next |-> next, age |-> 0, reply |-> "none", value |-> NoSample]
    BY DEF Asks, NoWait
<1>2. asks' = Unawaited \cup {[kind |-> kind, generation |-> c.generation, live |-> TRUE]}
    BY DEF Asks
<1>3. Moves(c, cover')
    BY MovesNot
<1>4. Requested(cover', asks, call', asks')
    BY <1>1, <1>2 DEF Requested, Unawaited
<1> QED
    BY <1>3, <1>4 DEF Goes

\* An operation that moves first and then goes on.
LEMMA GoesOn ==
    ASSUME NEW c, NEW d, Moves(c, d), Goes(d)
    PROVE  Goes(c)
BY MovesOn DEF Goes

\* The read of a revalidation.
LEMMA Revalidates ==
    ASSUME NEW c, CoverWhole(c), revalidate(c)
    PROVE  Goes(c)
<1>1. CASE Returns(c)
    BY <1>1, ReturnsGoes
<1>2. CASE Returns(lose(c))
    <2>1. Moves(c, lose(c)) /\ CoverWhole(lose(c))
        BY Loses DEF Moves
    <2> QED
        BY <1>2, <2>1, ReturnsGoes, GoesOn
<1>3. CASE cover' = [c EXCEPT !.poll = Margin] /\ Asks("read", c.generation, "none")
    <2>1. PICK d : d = [c EXCEPT !.poll = Margin]
        OBVIOUS
    <2>2. Moves(c, d) /\ CoverWhole(d) /\ d.generation = c.generation
        BY <2>1, MovesParts DEF Moves
    <2>3. Goes(d)
        BY <1>3, <2>1, <2>2, AsksGoes
    <2> QED
        BY <2>2, <2>3, GoesOn
<1> QED
    BY <1>1, <1>2, <1>3 DEF revalidate

\* What follows a renewal.
LEMMA Renews ==
    ASSUME NEW c, CoverWhole(c), NEW failed, renewed(c, failed)
    PROVE  Goes(c)
<1>1. PICK d : d = IF failed THEN [c EXCEPT !.renew = Margin] ELSE c
    OBVIOUS
<1>2. Moves(c, d)
    BY <1>1, MovesParts, MovesNot
<1>3. Goes(d)
    BY <1>1, <1>2, Revalidates DEF renewed, Moves
<1> QED
    BY <1>2, <1>3, GoesOn

\* What a waiting operation does when it is answered.
LEMMA ContinuesGoes ==
    ASSUME NEW c, CoverWhole(c), NEW failed, Continues(c, failed)
    PROVE  Goes(c)
BY Renews, ReturnsGoes DEF Continues

\* A subscription is asked for.
LEMMA SubscribeGoes ==
    ASSUME NEW c, CoverWhole(c), NEW next, c.unsubscribe = "NotAttempted", subscribe(c, next)
    PROVE  Goes(c)
<1>1. PICK d : d = [c EXCEPT !.subscribed = FALSE, !.renew = Margin]
    OBVIOUS
<1>2. Moves(c, d)
    BY <1>1, MovesParts
<1>3. CoverWhole(d) /\ d.generation = c.generation /\ d.unsubscribe = "NotAttempted"
    BY <1>2 DEF Moves
<1>4. Goes(d)
    BY <1>1, <1>3, AsksGoes DEF subscribe
<1> QED
    BY <1>2, <1>4, GoesOn

\* A round of maintenance.
LEMMA Maintains ==
    ASSUME NEW c, CoverWhole(c), maintain(c)
    PROVE  Goes(c)
<1>1. PICK now : now = expire_coverage(c)
    OBVIOUS
<1>2. Moves(c, now) /\ CoverWhole(now) /\ Moves(now, lose(now)) /\ CoverWhole(lose(now))
    BY <1>1, Expires, Loses DEF Moves
<1>3. CASE Returns(c)
    BY <1>3, ReturnsGoes
<1>4. CASE revalidate(now)
    BY <1>2, <1>4, Revalidates, GoesOn
<1>5. CASE renewed(lose(now), TRUE)
    BY <1>2, <1>5, Renews, GoesOn
<1>6. CASE check_current(c) /\ subscribe(now, "maintain")
    <2>1. now.unsubscribe = "NotAttempted"
        BY <1>2, <1>6 DEF check_current, Moves
    <2> QED
        BY <1>2, <1>6, <2>1, SubscribeGoes, GoesOn
<1> QED
    BY <1>1, <1>3, <1>4, <1>5, <1>6 DEF maintain

-----------------------------------------------------------------------------
(* The invariant through an operation.                                     *)

\* The request that is awaited.
Awaited(d, cl, as) == \A r \in as : r.live => cl.op = r.kind /\ r.generation = d.generation

\* What is asked for stays so.
LEMMA EarlierKept ==
    ASSUME NEW d, NEW as, NEW cl, NEW next, Earlier(d, as), Requested(d, as, cl, next),
           d.generation \in Generations, MaxGenerations \in Nat
    PROVE  Earlier(d, next) /\ Awaited(d, cl, next)
<1>1. ASSUME NEW r \in next
      PROVE  /\ r = [kind |-> r.kind, generation |-> r.generation, live |-> r.live]
             /\ r.generation \in Generations /\ r.generation <= d.generation
             /\ r.kind = "unsubscribe" /\ r.generation = d.generation
                    => d.unsubscribe # "NotAttempted"
             /\ r.live => cl.op = r.kind /\ r.generation = d.generation
    <2>1. CASE r = [kind |-> cl.op, generation |-> d.generation, live |-> TRUE]
        BY <2>1 DEF Requested, Generations
    <2>2. CASE \E q \in as : r = [q EXCEPT !.live = FALSE]
        <3>1. PICK q \in as : r = [q EXCEPT !.live = FALSE]
            BY <2>2
        <3>2. /\ q = [kind |-> q.kind, generation |-> q.generation, live |-> q.live]
              /\ q.generation \in Generations /\ q.generation <= d.generation
              /\ q.kind = "unsubscribe" /\ q.generation = d.generation
                     => d.unsubscribe # "NotAttempted"
            BY DEF Earlier
        <3>3. r = [kind |-> q.kind, generation |-> q.generation, live |-> FALSE]
            BY <3>1, <3>2
        <3> QED
            BY <3>2, <3>3
    <2> QED
        BY <2>1, <2>2 DEF Requested
<1> QED
    BY <1>1 DEF Earlier, Awaited

\* Coverage that moves claims no more than before.
LEMMA CalmMoves ==
    ASSUME NEW c, NEW d, NEW as, NEW box, NEW lg, NEW ar, NEW dv, NEW fl, NEW dr,
           Calm(c, as, box, lg, ar, dv, fl, dr), Moves(c, d)
    PROVE  Calm(d, as, box, lg, ar, dv, fl, dr)
<1>1. CoverWhole(d) /\ Posted(box, ar)
    BY DEF Calm, Moves
<1>2. Earlier(d, as)
    BY DEF Calm, Moves, Earlier
<1>3. DeviceWhole(d, dv)
    BY DEF Calm, Moves, DeviceWhole
<1>4. Told(d, box, lg, ar, dv, fl)
    BY DEF Calm, Moves, Told
<1>5. /\ d.subscribed => d.unsubscribe = "NotAttempted"
      /\ d.subscribed /\ ~fl => dv.left[d.generation] >= d.expires
      /\ dr => lg \/ d.unobserved
    BY DEF Calm, Moves
<1>6. fl \in BOOLEAN /\ lg \in BOOLEAN /\ dr \in BOOLEAN
    BY DEF Calm
<1> QED
    BY <1>1, <1>2, <1>3, <1>4, <1>5, <1>6 DEF Calm

\* It does not matter to the rest what is asked of the device next.
LEMMA CalmRequested ==
    ASSUME NEW c, NEW as, NEW cl, NEW next, NEW box, NEW lg, NEW ar, NEW dv, NEW fl, NEW dr,
           Calm(c, as, box, lg, ar, dv, fl, dr), Requested(c, as, cl, next)
    PROVE  /\ Calm(c, next, box, lg, ar, dv, fl, dr)
           /\ Calling(c, cl, next, box, lg, ar, dv, fl)
<1>1. Earlier(c, next) /\ Awaited(c, cl, next)
    <2>1. Earlier(c, as) /\ c.generation \in Generations /\ MaxGenerations \in Nat
        BY SampleAssumption DEF Calm, CoverWhole
    <2> QED
        BY <2>1, EarlierKept
<1>2. Calm(c, next, box, lg, ar, dv, fl, dr)
    BY <1>1 DEF Calm
<1>3. /\ cl = [op |-> cl.op, next |-> cl.next, age |-> cl.age, reply |-> cl.reply,
               value |-> cl.value]
      /\ cl.age \in Nat /\ cl.reply # "ok"
      /\ cl.op = "subscribe" => c.unsubscribe = "NotAttempted"
      /\ cl.op = "unsubscribe" => c.unsubscribe # "NotAttempted"
    BY DEF Requested
<1> QED
    BY <1>1, <1>2, <1>3 DEF Calling, Awaited

\* An operation that leaves the channel alone.
LEMMA OwnerStep ==
    ASSUME NEW c, Calm(c, asks, inbox, lag, air, device, fault, dropped), Goes(c),
           UNCHANGED <<inbox, lag, air, device, fault, dropped>>
    PROVE  SubscriptionInv'
<1>1. PICK d, cl, as : d = cover' /\ cl = call' /\ as = asks'
    OBVIOUS
<1>2. Calm(d, asks, inbox, lag, air, device, fault, dropped) /\ Requested(d, asks, cl, as)
    BY <1>1, CalmMoves DEF Goes
<1>3. /\ Calm(d, as, inbox, lag, air, device, fault, dropped)
      /\ Calling(d, cl, as, inbox, lag, air, device, fault)
    BY <1>2, CalmRequested
<1> QED
    BY <1>1, <1>3 DEF SubscriptionInv

\* A new identity, before it asks for anything.
Renamed(c, e) ==
    /\ CoverWhole(e) /\ e.generation = c.generation + 1 /\ ~e.subscribed
    /\ e.due /\ e.unobserved /\ e.unsubscribe = "NotAttempted"

\* The device knows nothing of it, and what the channel held is gone.
LEMMA CalmRenamed ==
    ASSUME NEW c, NEW e, NEW as, NEW box, NEW lg, NEW ar, NEW dv, NEW fl, NEW dr,
           Calm(c, as, box, lg, ar, dv, fl, dr), Renamed(c, e)
    PROVE  Calm(e, as, <<>>, FALSE, ar, dv, fl, dr)
<1>1. c.generation \in Nat /\ e.generation \in Generations /\ e.generation > c.generation
      /\ Generations \subseteq Nat
    BY SampleAssumption DEF Calm, CoverWhole, Renamed, Generations
<1>2. Earlier(e, as)
    <2>1. ASSUME NEW r \in as
          PROVE  /\ r = [kind |-> r.kind, generation |-> r.generation, live |-> r.live]
                 /\ r.generation \in Generations /\ r.generation <= e.generation
                 /\ r.generation # e.generation
        <3>1. /\ r = [kind |-> r.kind, generation |-> r.generation, live |-> r.live]
              /\ r.generation \in Generations /\ r.generation <= c.generation
            BY DEF Calm, Earlier
        <3>2. r.generation \in Nat /\ e.generation = c.generation + 1
            BY <1>1, <3>1 DEF Renamed
        <3> QED
            BY <1>1, <3>1, <3>2
    <2> QED
        BY <2>1 DEF Earlier
<1>3. DeviceWhole(e, dv) /\ dv.left[e.generation] = 0
    BY <1>1 DEF Calm, DeviceWhole, Renamed
<1>4. Posted(<<>>, ar)
    BY FixtureBounds DEF Calm, Posted, FixtureOptions
<1>5. Told(e, <<>>, FALSE, ar, dv, fl)
    BY <1>3 DEF Told
<1> QED
    BY <1>2, <1>3, <1>4, <1>5 DEF Calm, Renamed

\* The rest of an operation, from a new identity perhaps.
Onward(c) ==
    \/ Goes(c) /\ UNCHANGED <<inbox, lag>>
    \/ inbox' = <<>> /\ lag' = FALSE /\ \E e : Renamed(c, e) /\ Goes(e)

LEMMA OnwardStep ==
    ASSUME NEW c, Calm(c, asks, inbox, lag, air, device, fault, dropped), Onward(c),
           UNCHANGED <<air, device, fault, dropped>>
    PROVE  SubscriptionInv'
<1>1. CASE Goes(c) /\ UNCHANGED <<inbox, lag>>
    BY <1>1, OwnerStep
<1>2. CASE inbox' = <<>> /\ lag' = FALSE /\ \E e : Renamed(c, e) /\ Goes(e)
    <2>1. PICK e : Renamed(c, e) /\ Goes(e)
        BY <1>2
    <2>2. PICK d, cl, as : d = cover' /\ cl = call' /\ as = asks'
        OBVIOUS
    <2>3. Calm(d, asks, <<>>, FALSE, air, device, fault, dropped) /\ Requested(d, asks, cl, as)
        BY <2>1, <2>2, CalmRenamed, CalmMoves DEF Goes
    <2>4. /\ Calm(d, as, <<>>, FALSE, air, device, fault, dropped)
          /\ Calling(d, cl, as, <<>>, FALSE, air, device, fault)
        BY <2>3, CalmRequested
    <2> QED
        BY <1>2, <2>2, <2>4 DEF SubscriptionInv
<1> QED
    BY <1>1, <1>2 DEF Onward

\* A reconnect, once the old identity is done with.
LEMMA Reidentifies ==
    ASSUME NEW c, CoverWhole(c), reidentify(c)
    PROVE  Onward(c)
<1>1. CASE c.generation = MaxGenerations
    BY <1>1, ReturnsGoes DEF reidentify, Onward
<1>2. CASE c.generation # MaxGenerations
    <2>1. PICK i : i = identity(c)
        OBVIOUS
    <2>2. i = [generation |-> c.generation + 1, subscribed |-> c.subscribed, due |-> c.due,
               unobserved |-> c.unobserved, current |-> c.current,
               unsubscribe |-> "NotAttempted", stopped |-> c.stopped, renew |-> c.renew,
               poll |-> c.poll, expires |-> c.expires]
        BY <2>1 DEF identity, CoverWhole
    <2>3. c.generation + 1 \in Generations
        BY <1>2, SampleAssumption DEF CoverWhole, Generations
    <2>4. CoverWhole(i)
        BY <2>2, <2>3 DEF CoverWhole
    <2>5. PICK l : l = lose(i)
        OBVIOUS
    <2>6. Moves(i, l) /\ l.due /\ l.unobserved
        BY <2>4, <2>5, Loses
    <2>7. PICK m : m = [l EXCEPT !.subscribed = FALSE]
        OBVIOUS
    <2>8. /\ m = [generation |-> l.generation, subscribed |-> FALSE, due |-> l.due,
                  unobserved |-> l.unobserved, current |-> l.current,
                  unsubscribe |-> l.unsubscribe, stopped |-> l.stopped, renew |-> l.renew,
                  poll |-> l.poll, expires |-> l.expires]
          /\ CoverWhole(l)
        BY <2>6, <2>7, CoverEdits DEF Moves
    <2>9. PICK e : e = [m EXCEPT !.current = NoSample, !.renew = 0]
        OBVIOUS
    <2>10. e = [generation |-> l.generation, subscribed |-> FALSE, due |-> l.due,
                unobserved |-> l.unobserved, current |-> NoSample,
                unsubscribe |-> l.unsubscribe, stopped |-> l.stopped, renew |-> 0,
                poll |-> l.poll, expires |-> l.expires]
        BY <2>8, <2>9
    <2>11. /\ l.generation = c.generation + 1 /\ l.unsubscribe = "NotAttempted"
           /\ l.due /\ l.unobserved
        BY <2>2, <2>6 DEF Moves
    <2>12. CoverWhole(e)
        BY <2>8, <2>10 DEF CoverWhole
    <2>13. Renamed(c, e)
        BY <2>10, <2>11, <2>12 DEF Renamed
    <2>14. e = [lose(identity(c)) EXCEPT !.subscribed = FALSE, !.current = NoSample, !.renew = 0]
        BY <2>1, <2>5, <2>7, <2>9
    <2>15. inbox' = <<>> /\ lag' = FALSE /\ maintain(e)
        BY <1>2, <2>14 DEF reidentify
    <2> QED
        BY <2>12, <2>13, <2>15, Maintains DEF Onward
<1> QED
    BY <1>1, <1>2

\* What follows an unsubscribe.
LEMMA Unsubscribes ==
    ASSUME NEW c, CoverWhole(c), NEW next, unsubscribed(c, next)
    PROVE  Onward(c)
<1>1. CASE reidentify(c)
    BY <1>1, Reidentifies
<1>2. CASE client_stop(c) /\ UNCHANGED <<inbox, lag>>
    <2>1. Moves(c, cover')
        BY <1>2, MovesNot DEF client_stop
    <2>2. Requested(cover', asks, call', asks')
        BY <1>2 DEF client_stop, Requested, NoWait, Unawaited
    <2> QED
        BY <1>2, <2>1, <2>2 DEF Onward, Goes
<1>3. CASE Returns(c) /\ UNCHANGED <<inbox, lag>>
    BY <1>3, ReturnsGoes DEF Onward
<1> QED
    BY <1>1, <1>2, <1>3 DEF unsubscribed

\* The unsubscribe is marked with its outcome.
LEMMA CalmAttempted ==
    ASSUME NEW c, NEW d, NEW x, NEW as, NEW box, NEW lg, NEW ar, NEW dv, NEW fl, NEW dr,
           Calm(c, as, box, lg, ar, dv, fl, dr), x # "NotAttempted",
           d = [generation |-> c.generation, subscribed |-> FALSE, due |-> c.due,
                unobserved |-> c.unobserved, current |-> c.current, unsubscribe |-> x,
                stopped |-> c.stopped, renew |-> c.renew, poll |-> c.poll,
                expires |-> c.expires]
    PROVE  Calm(d, as, box, lg, ar, dv, fl, dr) /\ d.generation = c.generation
           /\ d.unsubscribe = x
<1>1. /\ CoverWhole(d) /\ d.generation = c.generation /\ d.due = c.due /\ d.unobserved = c.unobserved
      /\ d.current = c.current /\ d.unsubscribe = x /\ ~d.subscribed
    BY DEF Calm, CoverWhole
<1>2. Earlier(d, as)
    BY <1>1 DEF Calm, Earlier
<1>3. DeviceWhole(d, dv)
    BY <1>1 DEF Calm, DeviceWhole
<1>4. Told(d, box, lg, ar, dv, fl)
    BY <1>1 DEF Calm, Told
<1> QED
    BY <1>1, <1>2, <1>3, <1>4 DEF Calm

-----------------------------------------------------------------------------
(* The owner's actions.                                                    *)

\* The owner's own steps that may wait for the device.
LEMMA OwnerCalls ==
    ASSUME SubscriptionInv, Subscribe \/ Maintain
    PROVE  SubscriptionInv'
<1>1. Calm(cover, asks, inbox, lag, air, device, fault, dropped) /\ CoverWhole(cover)
    BY DEF SubscriptionInv, Calm
<1>2. UNCHANGED <<inbox, lag, air, device, fault, dropped>>
    BY DEF Subscribe, Maintain, Elsewhere, World
<1>3. CASE Subscribe
    <2>1. CASE subscribe(cover, "none")
        <3>1. cover.unsubscribe = "NotAttempted"
            BY <1>3 DEF Subscribe, check_current
        <3> QED
            BY <1>1, <1>2, <2>1, <3>1, SubscribeGoes, OwnerStep
    <2>2. CASE Returns(lose(cover))
        <3>1. Moves(cover, lose(cover)) /\ CoverWhole(lose(cover))
            BY <1>1, Loses DEF Moves
        <3>2. Goes(cover)
            BY <2>2, <3>1, ReturnsGoes, GoesOn
        <3> QED
            BY <1>1, <1>2, <3>2, OwnerStep
    <2> QED
        BY <1>3, <2>1, <2>2 DEF Subscribe
<1>4. CASE Maintain
    BY <1>1, <1>2, <1>4, Maintains, OwnerStep DEF Maintain
<1> QED
    BY <1>3, <1>4

\* An unsubscribe, for itself, a reconnect or a stop.
LEMMA OwnerUnsubscribes ==
    ASSUME SubscriptionInv, NEW next, unsubscribe(next), UNCHANGED <<air, device, fault, dropped>>
    PROVE  SubscriptionInv'
<1>1. Calm(cover, asks, inbox, lag, air, device, fault, dropped) /\ CoverWhole(cover)
    BY DEF SubscriptionInv, Calm
<1>2. CASE unsubscribed(cover, next)
    BY <1>1, <1>2, Unsubscribes, OnwardStep
<1>3. CASE /\ cover' = [cover EXCEPT !.subscribed = FALSE, !.unsubscribe = "Uncertain"]
           /\ Asks("unsubscribe", cover.generation, next)
           /\ UNCHANGED <<inbox, lag>>
    <2>1. PICK c : c = [cover EXCEPT !.subscribed = FALSE]
        OBVIOUS
    <2>2. c = [generation |-> cover.generation, subscribed |-> FALSE, due |-> cover.due,
               unobserved |-> cover.unobserved, current |-> cover.current,
               unsubscribe |-> cover.unsubscribe, stopped |-> cover.stopped,
               renew |-> cover.renew, poll |-> cover.poll, expires |-> cover.expires]
        BY <1>1, <2>1, CoverEdits
    <2>3. PICK d : d = [c EXCEPT !.unsubscribe = "Uncertain"]
        OBVIOUS
    <2>4. d = [generation |-> cover.generation, subscribed |-> FALSE, due |-> cover.due,
               unobserved |-> cover.unobserved, current |-> cover.current,
               unsubscribe |-> "Uncertain", stopped |-> cover.stopped,
               renew |-> cover.renew, poll |-> cover.poll, expires |-> cover.expires]
        BY <2>2, <2>3
    <2>5. /\ Calm(d, asks, inbox, lag, air, device, fault, dropped)
          /\ d.generation = cover.generation /\ d.unsubscribe = "Uncertain"
        BY <1>1, <2>4, CalmAttempted
    <2>6. cover' = d /\ CoverWhole(d)
        BY <1>3, <2>1, <2>3, <2>5 DEF Calm
    <2>7. Goes(d)
        BY <1>3, <2>5, <2>6, AsksGoes
    <2> QED
        BY <1>3, <2>5, <2>7, OwnerStep
<1> QED
    BY <1>2, <1>3 DEF unsubscribe

\* The future of a waiting operation is dropped, or its answer is an error.
LEMMA CallsEnd ==
    ASSUME SubscriptionInv, CancelCall \/ SubscribeFails \/ ReadFails
    PROVE  SubscriptionInv'
<1>1. Calm(cover, asks, inbox, lag, air, device, fault, dropped) /\ CoverWhole(cover)
    BY DEF SubscriptionInv, Calm
<1>2. UNCHANGED <<inbox, lag, air, device, fault, dropped>>
    BY DEF CancelCall, SubscribeFails, ReadFails, World
<1>3. CASE CancelCall
    BY <1>1, <1>2, <1>3, ReturnsGoes, OwnerStep DEF CancelCall
<1>4. CASE SubscribeFails
    <2>1. Moves(cover, lose(cover)) /\ CoverWhole(lose(cover))
        BY <1>1, Loses DEF Moves
    <2>2. Goes(cover)
        BY <1>4, <2>1, ContinuesGoes, GoesOn DEF SubscribeFails
    <2> QED
        BY <1>1, <1>2, <2>2, OwnerStep
<1>5. CASE ReadFails
    <2>1. PICK d : d = [cover EXCEPT !.poll = Margin]
        OBVIOUS
    <2>2. Moves(cover, d) /\ CoverWhole(d)
        BY <1>1, <2>1, MovesParts DEF Moves
    <2>3. Goes(cover)
        BY <1>5, <2>1, <2>2, ReturnsGoes, GoesOn DEF ReadFails
    <2> QED
        BY <1>1, <1>2, <2>3, OwnerStep
<1> QED
    BY <1>3, <1>4, <1>5

\* The client is stopped, or its stop failed.
LEMMA ClientStops ==
    ASSUME SubscriptionInv, ClientStopped
    PROVE  SubscriptionInv'
<1>1. Calm(cover, asks, inbox, lag, air, device, fault, dropped) /\ CoverWhole(cover)
    BY DEF SubscriptionInv, Calm
<1>2. UNCHANGED <<inbox, lag, air, device, fault, dropped>>
    BY DEF ClientStopped
<1>3. PICK joined \in BOOLEAN : Returns([cover EXCEPT !.stopped = joined])
    BY DEF ClientStopped
<1>4. PICK d : d = [cover EXCEPT !.stopped = joined]
    OBVIOUS
<1>5. Moves(cover, d) /\ CoverWhole(d)
    BY <1>1, <1>4, MovesParts DEF Moves
<1>6. Goes(cover)
    BY <1>3, <1>4, <1>5, ReturnsGoes, GoesOn
<1> QED
    BY <1>1, <1>2, <1>6, OwnerStep

\* What the lifetime grants, the device has.
LEMMA CalmGranted ==
    ASSUME NEW c, NEW cl, NEW as, NEW box, NEW lg, NEW ar, NEW dv, NEW fl, NEW dr,
           Calm(c, as, box, lg, ar, dv, fl, dr), Calling(c, cl, as, box, lg, ar, dv, fl),
           cl.op = "subscribe", cl.reply = "ok"
    PROVE  Calm(granted(c, cl.age), as, box, lg, ar, dv, fl, dr)
<1>1. PICK left : left = Less(Lifetime, cl.age)
    OBVIOUS
<1>2. left \in 0..Lifetime
    BY <1>1, FixtureBounds DEF Calling, Less, FixtureOptions
<1>3. PICK x, y : x = Less(left, Margin) /\ y = (IF left = 0 THEN c.subscribed ELSE TRUE)
    OBVIOUS
<1>4. PICK d : d = [generation |-> c.generation, subscribed |-> y, due |-> c.due,
                    unobserved |-> c.unobserved, current |-> c.current,
                    unsubscribe |-> c.unsubscribe, stopped |-> c.stopped, renew |-> x,
                    poll |-> c.poll, expires |-> left]
    OBVIOUS
<1>5. PICK k : k = [c EXCEPT !.expires = left, !.renew = x]
    OBVIOUS
<1>6. k = [generation |-> c.generation, subscribed |-> c.subscribed, due |-> c.due,
           unobserved |-> c.unobserved, current |-> c.current,
           unsubscribe |-> c.unsubscribe, stopped |-> c.stopped, renew |-> x,
           poll |-> c.poll, expires |-> left]
    <2>1. CoverWhole(c)
        BY DEF Calm
    <2> QED
        BY <1>5, <2>1 DEF CoverWhole
<1>7. CoverWhole(k)
    BY <1>2, <1>6 DEF Calm, CoverWhole
<1>8. /\ CoverWhole(d) /\ d.generation = c.generation /\ d.due = c.due
      /\ d.unobserved = c.unobserved /\ d.current = c.current /\ d.subscribed = y
      /\ d.unsubscribe = c.unsubscribe /\ d.expires = left
    BY <1>2, <1>3, <1>4 DEF Calm, CoverWhole
<1>9. Calm(d, as, box, lg, ar, dv, fl, dr)
    <2>1. Earlier(d, as)
        BY <1>8 DEF Calm, Earlier
    <2>2. DeviceWhole(d, dv)
        BY <1>8 DEF Calm, DeviceWhole
    <2>3. Told(d, box, lg, ar, dv, fl)
        BY <1>8 DEF Calm, Told
    <2>4. d.unsubscribe = "NotAttempted" /\ (~fl => dv.left[d.generation] >= d.expires)
        BY <1>1, <1>8 DEF Calling
    <2>5. dr => lg \/ d.unobserved
        BY <1>8 DEF Calm
    <2> QED
        BY <1>8, <2>1, <2>2, <2>3, <2>4, <2>5 DEF Calm
<1>10. CASE left = 0
    <2>1. k = d
        BY <1>3, <1>4, <1>6, <1>10
    <2>2. granted(c, cl.age) = lose(k)
        BY <1>1, <1>3, <1>5, <1>10 DEF granted
    <2>3. Moves(d, lose(d))
        BY <1>8, Loses
    <2> QED
        BY <1>9, <2>1, <2>2, <2>3, CalmMoves
<1>11. CASE left # 0
    <2>1. granted(c, cl.age) = [k EXCEPT !.subscribed = TRUE]
        BY <1>1, <1>3, <1>5, <1>11 DEF granted
    <2>2. [k EXCEPT !.subscribed = y] =
            [generation |-> k.generation, subscribed |-> y, due |-> k.due,
             unobserved |-> k.unobserved, current |-> k.current,
             unsubscribe |-> k.unsubscribe, stopped |-> k.stopped, renew |-> k.renew,
             poll |-> k.poll, expires |-> k.expires]
        BY <1>7, CoverEdits
    <2>3. [k EXCEPT !.subscribed = y] = d
        BY <1>4, <1>6, <2>2
    <2>4. y = TRUE
        BY <1>3, <1>11
    <2> QED
        BY <1>9, <2>1, <2>3, <2>4
<1> QED
    BY <1>10, <1>11

\* The device took the subscription.
LEMMA SubscribeReturns ==
    ASSUME SubscriptionInv, SubscribeAnswered
    PROVE  SubscriptionInv'
<1>1. Calm(cover, asks, inbox, lag, air, device, fault, dropped)
    BY DEF SubscriptionInv
<1>2. PICK d : d = IF check_current(cover) THEN granted(cover, call.age) ELSE cover
    OBVIOUS
<1>3. Calm(d, asks, inbox, lag, air, device, fault, dropped) /\ CoverWhole(d)
    BY <1>1, <1>2, CalmGranted DEF SubscriptionInv, SubscribeAnswered, Answered, Calm
<1>4. Continues(d, ~d.subscribed)
    BY <1>2 DEF SubscribeAnswered
<1>5. PICK failed : failed = ~d.subscribed
    OBVIOUS
<1>6. Goes(d)
    BY <1>3, <1>4, <1>5, ContinuesGoes
<1>7. UNCHANGED <<inbox, lag, air, device, fault, dropped>>
    BY DEF SubscribeAnswered, Elsewhere, World
<1> QED
    BY <1>3, <1>6, <1>7, OwnerStep

\* The read of a revalidation is answered.
LEMMA ReadReturns ==
    ASSUME SubscriptionInv, ReadAnswered
    PROVE  SubscriptionInv'
<1>1. Calm(cover, asks, inbox, lag, air, device, fault, dropped) /\ CoverWhole(cover)
    BY DEF SubscriptionInv, Calm
<1>2. UNCHANGED <<inbox, lag, air, device, fault, dropped>>
    BY DEF ReadAnswered, Elsewhere, World
<1>3. CASE Returns(cover)
    BY <1>1, <1>2, <1>3, ReturnsGoes, OwnerStep
<1>4. CASE Returns([cover EXCEPT !.current = [value |-> call.value,
                                              generation |-> cover.generation],
                                 !.due = FALSE, !.poll = 0])
    <2>1. PICK s : s = [value |-> call.value, generation |-> cover.generation]
        OBVIOUS
    <2>2. PICK c : c = [cover EXCEPT !.current = s]
        OBVIOUS
    <2>3. c = [generation |-> cover.generation, subscribed |-> cover.subscribed,
               due |-> cover.due, unobserved |-> cover.unobserved, current |-> s,
               unsubscribe |-> cover.unsubscribe, stopped |-> cover.stopped,
               renew |-> cover.renew, poll |-> cover.poll, expires |-> cover.expires]
        BY <1>1, <2>2 DEF CoverWhole
    <2>4. CoverWhole(c)
        BY <1>1, <2>3 DEF CoverWhole
    <2>5. PICK e : e = [c EXCEPT !.due = FALSE]
        OBVIOUS
    <2>6. e = [generation |-> c.generation, subscribed |-> c.subscribed,
               due |-> FALSE, unobserved |-> c.unobserved, current |-> c.current,
               unsubscribe |-> c.unsubscribe, stopped |-> c.stopped,
               renew |-> c.renew, poll |-> c.poll, expires |-> c.expires]
        BY <2>4, <2>5, CoverEdits
    <2>7. CoverWhole(e)
        BY <2>4, <2>6 DEF CoverWhole
    <2>8. PICK d : d = [e EXCEPT !.poll = 0]
        OBVIOUS
    <2>9. Moves(e, d) /\ CoverWhole(d)
        BY <2>7, <2>8, MovesParts DEF Moves
    <2>10. d = [cover EXCEPT !.current = [value |-> call.value,
                                          generation |-> cover.generation],
                             !.due = FALSE, !.poll = 0]
        BY <2>1, <2>2, <2>5, <2>8
    <2>11. /\ e.generation = cover.generation /\ e.subscribed = cover.subscribed
           /\ e.unobserved = cover.unobserved /\ e.current = s
           /\ e.unsubscribe = cover.unsubscribe /\ e.expires = cover.expires
        BY <2>3, <2>6
    <2>12. Told(e, inbox, lag, air, device, fault)
        <3>1. s # NoSample /\ s.value = call.value
            BY <2>1, <1>1, SampleAssumption
                DEF SubscriptionInv, Calling, ReadAnswered, Answered, CoverWhole, Generations
        <3>2. device.left[cover.generation] > 0 /\ ~fault /\ ~lag
                  /\ NoneFor(cover.generation, inbox, air) => call.value = device.value
            BY DEF SubscriptionInv, Calling, ReadAnswered, Answered
        <3> QED
            BY <1>1, <2>11, <3>1, <3>2 DEF Calm, Told
    <2>13. Earlier(e, asks) /\ DeviceWhole(e, device)
        BY <1>1, <2>11 DEF Calm, Earlier, DeviceWhole
    <2>14. Calm(e, asks, inbox, lag, air, device, fault, dropped)
        BY <1>1, <2>7, <2>11, <2>12, <2>13 DEF Calm
    <2>15. Goes(e)
        BY <1>4, <2>9, <2>10, ReturnsGoes, GoesOn
    <2> QED
        BY <1>2, <2>14, <2>15, OwnerStep
<1> QED
    BY <1>3, <1>4 DEF ReadAnswered

\* An unsubscribe is answered, or fails.
LEMMA UnsubscribeReturns ==
    ASSUME SubscriptionInv, UnsubscribeAnswered \/ UnsubscribeFails
    PROVE  SubscriptionInv'
<1>1. Calm(cover, asks, inbox, lag, air, device, fault, dropped) /\ CoverWhole(cover)
    BY DEF SubscriptionInv, Calm
<1>2. UNCHANGED <<air, device, fault, dropped>>
    BY DEF UnsubscribeAnswered, UnsubscribeFails, Elsewhere, World
<1>3. PICK x : /\ x \in {"Confirmed", "Failed"}
               /\ unsubscribed([cover EXCEPT !.unsubscribe = x], call.next)
    BY DEF UnsubscribeAnswered, UnsubscribeFails
<1>4. cover.subscribed = FALSE
    BY <1>1 DEF SubscriptionInv, Calm, CoverWhole, Calling, UnsubscribeAnswered,
                UnsubscribeFails, Answered, Failed
<1>5. PICK d : d = [cover EXCEPT !.unsubscribe = x]
    OBVIOUS
<1>6. d = [generation |-> cover.generation, subscribed |-> cover.subscribed,
           due |-> cover.due, unobserved |-> cover.unobserved, current |-> cover.current,
           unsubscribe |-> x, stopped |-> cover.stopped, renew |-> cover.renew,
           poll |-> cover.poll, expires |-> cover.expires]
    BY <1>1, <1>5 DEF CoverWhole
<1>7. Calm(d, asks, inbox, lag, air, device, fault, dropped) /\ CoverWhole(d)
    <2>1. x # "NotAttempted"
        BY <1>3
    <2> QED
        BY <1>1, <1>4, <1>6, <2>1, CalmAttempted DEF Calm
<1>8. Onward(d)
    BY <1>3, <1>5, <1>7, Unsubscribes
<1> QED
    BY <1>2, <1>7, <1>8, OnwardStep

-----------------------------------------------------------------------------
(* The device, the network and time.                                       *)

\* A queue one longer: its last is the new one.
LEMMA AddedLast ==
    ASSUME NEW q \in Seq(Note), NEW n \in Note
    PROVE  /\ Append(q, n) \in Seq(Note) /\ Append(q, n) # <<>>
           /\ Len(Append(q, n)) = Len(q) + 1 /\ Len(q) \in Nat
           /\ DOMAIN Append(q, n) = 1..(Len(q) + 1) /\ DOMAIN q = 1..Len(q)
           /\ Append(q, n)[Len(q) + 1] = n
           /\ \A i \in 1..Len(q) : Append(q, n)[i] = q[i]
OBVIOUS

\* A queue without its first.
LEMMA FirstGone ==
    ASSUME NEW q \in Seq(Note), q # <<>>
    PROVE  /\ Tail(q) \in Seq(Note) /\ Len(Tail(q)) = Len(q) - 1 /\ Len(q) \in Nat \ {0}
           /\ DOMAIN Tail(q) = 1..(Len(q) - 1) /\ DOMAIN q = 1..Len(q)
           /\ \A i \in 1..(Len(q) - 1) : Tail(q)[i] = q[i + 1]
           /\ Head(q) = q[1] /\ Head(q) \in Note
OBVIOUS

\* A notification is the last on its way to a subscriber.
Sent(box, br, g, n) == Posted(box, br) /\ br[g] # <<>> /\ br[g][Len(br[g])] = n

\* What the device sends to one subscriber.
LEMMA NotesTell ==
    ASSUME NEW box, NEW ar, NEW br, Posted(box, ar), NEW g \in Generations,
           NEW n \in Note, n.generation = g,
           br \in [Generations -> Seq(Note)], br[g] = Append(ar[g], n),
           \A o \in Generations : o # g => br[o] = ar[o]
    PROVE  Sent(box, br, g, n)
<1>1. PICK q : q = ar[g] /\ q \in Seq(Note) /\ \A i \in DOMAIN q : q[i].generation = g
    BY DEF Posted
<1>2. PICK r : r = Append(q, n)
    OBVIOUS
<1>3. /\ r \in Seq(Note) /\ r # <<>> /\ Len(r) = Len(q) + 1 /\ r[Len(q) + 1] = n
      /\ DOMAIN r = 1..(Len(q) + 1) /\ DOMAIN q = 1..Len(q) /\ Len(q) \in Nat
      /\ \A i \in 1..Len(q) : r[i] = q[i]
    BY <1>1, <1>2, AddedLast
<1>4. \A i \in DOMAIN r : r[i].generation = g
    BY <1>1, <1>3
<1>5. br[g] = r
    BY <1>1, <1>2
<1>6. Posted(box, br)
    BY <1>4, <1>5 DEF Posted
<1> QED
    BY <1>3, <1>5, <1>6 DEF Sent

\* The device takes a subscription.
LEMMA Subscribed ==
    ASSUME SubscriptionInv, NEW r \in asks, DeviceHandles(r), r.kind = "subscribe"
    PROVE  SubscriptionInv'
<1>1. /\ r.generation \in Generations /\ r.generation <= cover.generation
      /\ r = [kind |-> r.kind, generation |-> r.generation, live |-> r.live]
    BY DEF SubscriptionInv, Calm, Earlier
<1>2. PICK g : g = r.generation /\ g \in Generations /\ g <= cover.generation
    BY <1>1
<1>3. device' = [device EXCEPT !.left[g] = Lifetime]
    BY <1>2 DEF DeviceHandles
<1>4. /\ DeviceWhole(cover, device) /\ Posted(inbox, air) /\ CoverWhole(cover)
      /\ cover.generation \in Nat /\ Lifetime \in Nat \ {0}
    BY SampleAssumption, FixtureBounds
        DEF SubscriptionInv, Calm, CoverWhole, Generations, FixtureOptions
<1>5. PICK lv : lv = [device.left EXCEPT ![g] = Lifetime]
    OBVIOUS
<1>6. /\ lv \in [Generations -> 0..Lifetime] /\ lv[g] = Lifetime
      /\ \A o \in Generations : o # g => lv[o] = device.left[o]
    BY <1>2, <1>4, <1>5 DEF DeviceWhole
<1>7. PICK dv : dv = [value |-> device.value, left |-> lv]
    OBVIOUS
<1>8. device' = dv
    BY <1>3, <1>4, <1>5, <1>7 DEF DeviceWhole
<1>9. DeviceWhole(cover, dv)
    <2>1. Generations \subseteq Nat
        BY DEF Generations
    <2> QED
        BY <1>2, <1>4, <1>6, <1>7, <2>1 DEF DeviceWhole
<1>10. PICK n : n = [generation |-> g, value |-> device.value, left |-> Lifetime, fit |-> "ok"]
    OBVIOUS
<1>11. n \in Note /\ n.generation = g /\ TellsOf(n, dv)
    BY <1>2, <1>4, <1>7, <1>10 DEF Note, TellsOf, DeviceWhole
<1>12. air' = [air EXCEPT ![g] = Append(air[g], n)]
    <2>1. Notes(device.value, lv, "ok")[g] = Append(air[g], n)
        BY <1>2, <1>4, <1>6, <1>10 DEF Notes
    <2>2. device'.left = lv
        BY <1>7, <1>8
    <2> QED
        BY <1>2, <2>1, <2>2 DEF DeviceHandles
<1>13. PICK br : br = air'
    OBVIOUS
<1>14. /\ br \in [Generations -> Seq(Note)] /\ br[g] = Append(air[g], n)
       /\ \A o \in Generations : o # g => br[o] = air[o]
    BY <1>2, <1>4, <1>11, <1>12, <1>13, AddedLast DEF Posted
<1>15. Posted(inbox, br) /\ br[g] # <<>> /\ br[g][Len(br[g])] = n
    <2>1. Posted(inbox, air)
        BY <1>4
    <2>2. Sent(inbox, br, g, n)
        BY <1>2, <1>11, <1>14, <2>1, NotesTell
    <2> QED
        BY <2>2 DEF Sent
<1>16. PICK fl : fl = (fault /\ g # cover.generation)
    OBVIOUS
<1>17. fault' = fl /\ fl \in BOOLEAN /\ fault \in BOOLEAN
    BY <1>2, <1>16 DEF DeviceHandles, SubscriptionInv, Calm
<1>18. PICK as, cl : as = asks \ {r} /\ cl = IF r.live THEN [call EXCEPT !.reply = "ok", !.value = device.value] ELSE call
    OBVIOUS
<1>19. asks' = as /\ call' = cl /\ UNCHANGED <<cover, lag, inbox, dropped>>
    BY <1>18 DEF DeviceHandles, Owner
<1>20. Told(cover, inbox, lag, br, dv, fl)
    <2>1. CASE g = cover.generation
        BY <1>11, <1>15, <2>1 DEF Told, NewestTells, NoneFor
    <2>2. CASE g # cover.generation
        <3>1. /\ br[cover.generation] = air[cover.generation] /\ fl = fault
              /\ dv.left[cover.generation] = device.left[cover.generation]
              /\ dv.value = device.value
            BY <1>4, <1>6, <1>7, <1>14, <1>16, <1>17, <2>2 DEF CoverWhole
        <3>2. Told(cover, inbox, lag, air, device, fault)
            BY DEF SubscriptionInv, Calm
        <3> QED
            BY <3>1, <3>2 DEF Told, NewestTells, NoneFor, TellsOf
    <2> QED
        BY <2>1, <2>2
<1>21. cover.subscribed /\ ~fl => dv.left[cover.generation] >= cover.expires
    <2>1. CASE g = cover.generation
        BY <1>4, <1>6, <1>7, <2>1 DEF CoverWhole
    <2>2. CASE g # cover.generation
        BY <1>4, <1>6, <1>7, <1>16, <2>2 DEF CoverWhole, SubscriptionInv, Calm
    <2> QED
        BY <2>1, <2>2
<1>22. Calm(cover, as, inbox, lag, br, dv, fl, dropped)
    <2>1. Earlier(cover, as)
        BY <1>18 DEF SubscriptionInv, Calm, Earlier
    <2> QED
        BY <1>9, <1>15, <1>17, <1>20, <1>21, <2>1 DEF SubscriptionInv, Calm
<1>23. Calling(cover, cl, as, inbox, lag, br, dv, fl)
    <2>1. \A q \in as : q.live => call.op = q.kind /\ q.generation = cover.generation
        BY <1>18 DEF SubscriptionInv, Calling
    <2>2. CASE r.live
        <3>1. call.op = "subscribe" /\ g = cover.generation
            BY <1>2, <2>2 DEF SubscriptionInv, Calling
        <3>2. cl = [op |-> call.op, next |-> call.next, age |-> call.age, reply |-> "ok",
                    value |-> device.value]
            BY <1>18, <2>2 DEF SubscriptionInv, Calling
        <3>3. dv.left[cover.generation] >= Less(Lifetime, call.age)
            BY <1>4, <1>6, <1>7, <3>1 DEF Less, SubscriptionInv, Calling
        <3> QED
            BY <1>4, <2>1, <3>1, <3>2, <3>3 DEF SubscriptionInv, Calling, DeviceWhole
    <2>3. CASE ~r.live
        <3>1. cl = call
            BY <1>18, <2>3
        <3>2. CASE g = cover.generation
            <4>1. br[cover.generation] # <<>>
                BY <1>15, <3>2
            <4>2. dv.left[cover.generation] >= Less(Lifetime, call.age)
                BY <1>4, <1>6, <1>7, <3>2 DEF Less, SubscriptionInv, Calling
            <4> QED
                BY <2>1, <3>1, <4>1, <4>2 DEF SubscriptionInv, Calling, NoneFor
        <3>3. CASE g # cover.generation
            <4>1. /\ br[cover.generation] = air[cover.generation] /\ fl = fault
                  /\ dv.left[cover.generation] = device.left[cover.generation]
                  /\ dv.value = device.value
                BY <1>4, <1>6, <1>7, <1>14, <1>16, <1>17, <3>3 DEF CoverWhole
            <4> QED
                BY <2>1, <3>1, <4>1 DEF SubscriptionInv, Calling, NoneFor
        <3> QED
            BY <3>2, <3>3
    <2> QED
        BY <2>2, <2>3
<1> QED
    BY <1>8, <1>13, <1>17, <1>19, <1>22, <1>23 DEF SubscriptionInv

\* The device ends one, or answers a read.
LEMMA Handled ==
    ASSUME SubscriptionInv, NEW r \in asks, DeviceHandles(r), r.kind # "subscribe"
    PROVE  SubscriptionInv'
<1>1. /\ DeviceWhole(cover, device) /\ CoverWhole(cover)
      /\ cover.generation \in Generations /\ r.generation \in Generations
      /\ Told(cover, inbox, lag, air, device, fault)
    BY DEF SubscriptionInv, Calm, CoverWhole, Earlier
<1>2. PICK as, cl : as = asks \ {r} /\ cl = IF r.live THEN [call EXCEPT !.reply = "ok", !.value = device.value] ELSE call
    OBVIOUS
<1>3. /\ asks' = as /\ call' = cl /\ air' = air /\ fault' = fault
      /\ UNCHANGED <<cover, lag, inbox, dropped>>
    BY <1>2 DEF DeviceHandles, Owner, SubscriptionInv, Calm
<1>4. Earlier(cover, as) /\ \A q \in as : q.live => call.op = q.kind /\ q.generation = cover.generation
    BY <1>2 DEF SubscriptionInv, Calm, Earlier, Calling
<1>5. r.live => call.op = r.kind /\ r.generation = cover.generation
    BY DEF SubscriptionInv, Calling
<1>6. /\ r.live => cl = [op |-> call.op, next |-> call.next, age |-> call.age, reply |-> "ok",
                         value |-> device.value]
      /\ ~r.live => cl = call
    BY <1>2 DEF SubscriptionInv, Calling
<1>9. /\ r.live => /\ cl.op = r.kind /\ cl.age = call.age /\ cl.reply = "ok"
                   /\ cl.value = device.value /\ device.value \in Values
                   /\ cl = [op |-> cl.op, next |-> cl.next, age |-> cl.age,
                            reply |-> cl.reply, value |-> cl.value]
      /\ call.age \in Nat
      /\ call.op = "subscribe" => cover.unsubscribe = "NotAttempted"
      /\ call.op = "unsubscribe" => cover.unsubscribe # "NotAttempted"
    BY <1>1, <1>5, <1>6 DEF SubscriptionInv, Calling, DeviceWhole
<1>10. \A q \in as : q.live => call.op = q.kind /\ q.generation = cover.generation
    BY <1>4
<1>7. CASE r.kind = "unsubscribe"
    <2>1. PICK lv : lv = [device.left EXCEPT ![r.generation] = 0]
        OBVIOUS
    <2>2. PICK dv : dv = [value |-> device.value, left |-> lv]
        OBVIOUS
    <2>3. device' = dv
        BY <1>1, <1>7, <2>1, <2>2 DEF DeviceWhole, DeviceHandles
    <2>4. /\ lv \in [Generations -> 0..Lifetime] /\ lv[r.generation] = 0
          /\ \A o \in Generations : o # r.generation => lv[o] = device.left[o]
        BY <1>1, <2>1, FixtureBounds DEF DeviceWhole, FixtureOptions
    <2>5. DeviceWhole(cover, dv)
        BY <1>1, <2>2, <2>4 DEF DeviceWhole
    <2>6. CASE r.generation = cover.generation
        <3>1. cover.unsubscribe # "NotAttempted" /\ ~cover.subscribed /\ call.op # "subscribe"
            BY <1>7, <2>6 DEF SubscriptionInv, Calm, Calling, Earlier
        <3>2. ~(dv.left[cover.generation] > 0)
            BY <2>2, <2>4, <2>6
        <3>3. Calm(cover, as, inbox, lag, air, dv, fault, dropped)
            BY <1>4, <2>5, <3>1, <3>2 DEF SubscriptionInv, Calm, Told
        <3>4. Calling(cover, cl, as, inbox, lag, air, dv, fault)
            <4>1. CASE r.live
                BY <1>5, <1>7, <1>9, <1>10, <3>1, <3>2, <4>1 DEF Calling
            <4>2. CASE ~r.live
                <5>1. Calling(cover, call, as, inbox, lag, air, dv, fault)
                    BY <1>10, <3>1, <3>2 DEF SubscriptionInv, Calling
                <5> QED
                    BY <1>6, <4>2, <5>1
            <4> QED
                BY <4>1, <4>2
        <3> QED
            BY <1>3, <2>3, <3>3, <3>4 DEF SubscriptionInv
    <2>7. CASE r.generation # cover.generation
        <3>1. /\ dv.left[cover.generation] = device.left[cover.generation]
              /\ dv.value = device.value /\ cl = call
            BY <1>1, <1>5, <1>6, <2>2, <2>4, <2>7
        <3>2. Told(cover, inbox, lag, air, dv, fault)
            BY <1>1, <3>1 DEF Told, NewestTells, TellsOf
        <3>3. Calm(cover, as, inbox, lag, air, dv, fault, dropped)
            BY <1>4, <2>5, <3>1, <3>2 DEF SubscriptionInv, Calm
        <3>4. Calling(cover, cl, as, inbox, lag, air, dv, fault)
            BY <1>4, <3>1 DEF SubscriptionInv, Calling
        <3> QED
            BY <1>3, <2>3, <3>3, <3>4 DEF SubscriptionInv
    <2> QED
        BY <2>6, <2>7
<1>8. CASE r.kind # "unsubscribe"
    <2>1. device' = device
        BY <1>8 DEF DeviceHandles
    <2>2. Calm(cover, as, inbox, lag, air, device, fault, dropped)
        BY <1>4 DEF SubscriptionInv, Calm
    <2>3. Calling(cover, cl, as, inbox, lag, air, device, fault)
        <3>1. CASE r.live
            BY <1>5, <1>8, <1>9, <1>10, <3>1 DEF Calling
        <3>2. CASE ~r.live
            <4>1. Calling(cover, call, as, inbox, lag, air, device, fault)
                BY <1>10 DEF SubscriptionInv, Calling
            <4> QED
                BY <1>6, <3>2, <4>1
        <3> QED
            BY <3>1, <3>2
    <2> QED
        BY <1>3, <2>1, <2>2, <2>3 DEF SubscriptionInv
<1> QED
    BY <1>7, <1>8

\* The property changes, and whoever is subscribed is told.
LEMMA Changes ==
    ASSUME SubscriptionInv, NEW v \in Values, NEW fit \in {"ok", "many", "long"},
           DeviceChanges(v, fit)
    PROVE  SubscriptionInv'
<1>1. /\ DeviceWhole(cover, device) /\ CoverWhole(cover) /\ Posted(inbox, air)
      /\ cover.generation \in Generations
    BY DEF SubscriptionInv, Calm, CoverWhole
<1>2. PICK dv : dv = [value |-> v, left |-> device.left]
    OBVIOUS
<1>3. device' = dv /\ DeviceWhole(cover, dv)
    BY <1>1, <1>2 DEF DeviceChanges, DeviceWhole
<1>4. UNCHANGED <<cover, lag, inbox, dropped, call, asks, fault>>
    BY DEF DeviceChanges, Owner
<1>5. PICK br : br = Notes(v, device.left, fit)
    OBVIOUS
<1>6. air' = br
    BY <1>5 DEF DeviceChanges
<1>7. ASSUME NEW g \in Generations
      PROVE  /\ br[g] \in Seq(Note) /\ \A i \in DOMAIN br[g] : br[g][i].generation = g
             /\ device.left[g] > 0 => br[g] # <<>> /\ TellsOf(br[g][Len(br[g])], dv)
    <2>1. PICK n : n = [generation |-> g, value |-> v, left |-> device.left[g], fit |-> fit]
        OBVIOUS
    <2>2. n \in Note /\ n.generation = g /\ n.value = v /\ n.fit # "other"
        BY <1>1, <2>1 DEF Note, DeviceWhole
    <2>3. PICK q : q = air[g] /\ q \in Seq(Note) /\ \A i \in DOMAIN q : q[i].generation = g
        BY <1>1 DEF Posted
    <2>4. PICK r : r = Append(q, n)
        OBVIOUS
    <2>5. /\ r \in Seq(Note) /\ r # <<>> /\ Len(r) = Len(q) + 1 /\ r[Len(q) + 1] = n
          /\ DOMAIN r = 1..(Len(q) + 1) /\ DOMAIN q = 1..Len(q) /\ Len(q) \in Nat
          /\ \A i \in 1..Len(q) : r[i] = q[i]
        BY <2>2, <2>3, <2>4, AddedLast
    <2>6. br[g] = IF device.left[g] > 0 THEN r ELSE q
        BY <1>5, <2>1, <2>3, <2>4 DEF Notes
    <2>7. CASE device.left[g] > 0
        BY <1>2, <2>2, <2>3, <2>5, <2>6, <2>7 DEF TellsOf
    <2>8. CASE ~(device.left[g] > 0)
        BY <2>3, <2>6, <2>8
    <2> QED
        BY <2>7, <2>8
<1>8. br \in [Generations -> Seq(Note)]
    <2>1. br = [g \in Generations |-> br[g]]
        BY <1>5 DEF Notes
    <2>2. \A g \in Generations : br[g] \in Seq(Note)
        BY <1>7
    <2> QED
        BY <2>1, <2>2
<1>9. Posted(inbox, br)
    BY <1>1, <1>7, <1>8 DEF Posted
<1>10. device.left[cover.generation] > 0 =>
           br[cover.generation] # <<>> /\ TellsOf(br[cover.generation][Len(br[cover.generation])], dv)
    BY <1>1, <1>7
<1>11. dv.left[cover.generation] = device.left[cover.generation]
    BY <1>2
<1>12. Told(cover, inbox, lag, br, dv, fault)
    BY <1>10, <1>11 DEF Told, NewestTells, NoneFor
<1>13. Calm(cover, asks, inbox, lag, br, dv, fault, dropped)
    BY <1>3, <1>9, <1>11, <1>12 DEF SubscriptionInv, Calm
<1>14. Calling(cover, call, asks, inbox, lag, br, dv, fault)
    BY <1>10, <1>11 DEF SubscriptionInv, Calling, NoneFor
<1> QED
    BY <1>3, <1>4, <1>6, <1>13, <1>14 DEF SubscriptionInv

\* The device gives the subscription up: nothing is claimed of it any more.
LEMMA Forgets ==
    ASSUME SubscriptionInv, NEW says, DeviceForgets(says)
    PROVE  SubscriptionInv'
<1>1. /\ DeviceWhole(cover, device) /\ CoverWhole(cover) /\ Posted(inbox, air)
      /\ cover.generation \in Generations
    BY DEF SubscriptionInv, Calm, CoverWhole
<1>2. PICK g : g = cover.generation /\ g \in Generations
    BY <1>1
<1>3. PICK dv : dv = [value |-> device.value, left |-> [device.left EXCEPT ![g] = 0]]
    OBVIOUS
<1>4. device' = dv /\ DeviceWhole(cover, dv)
    <2>1. device' = [device EXCEPT !.left[g] = 0]
        BY <1>2 DEF DeviceForgets
    <2>2. device' = dv
        BY <1>1, <1>3, <2>1 DEF DeviceWhole
    <2>3. dv.left \in [Generations -> 0..Lifetime]
        BY <1>1, <1>2, <1>3, FixtureBounds DEF DeviceWhole, FixtureOptions
    <2>4. \A o \in Generations : o > cover.generation => dv.left[o] = 0
        BY <1>1, <1>2, <1>3 DEF DeviceWhole
    <2> QED
        BY <1>1, <1>3, <2>2, <2>3, <2>4 DEF DeviceWhole
<1>5. PICK n : n = [generation |-> g, value |-> device.value, left |-> 0, fit |-> "other"]
    OBVIOUS
<1>6. n \in Note /\ n.generation = g
    BY <1>1, <1>2, <1>5, FixtureBounds DEF Note, DeviceWhole, FixtureOptions
<1>7. air' = air \/ air' = [air EXCEPT ![g] = Append(air[g], n)]
    BY <1>2, <1>5 DEF DeviceForgets
<1>8. PICK br : br = air'
    OBVIOUS
<1>9. Posted(inbox, br)
    <2>1. CASE br = air
        BY <1>1, <2>1
    <2>2. CASE br = [air EXCEPT ![g] = Append(air[g], n)]
        <3>1. Append(air[g], n) \in Seq(Note)
            BY <1>1, <1>2, <1>6, AddedLast DEF Posted
        <3>2. /\ br \in [Generations -> Seq(Note)] /\ br[g] = Append(air[g], n)
              /\ \A o \in Generations : o # g => br[o] = air[o]
            BY <1>1, <1>2, <2>2, <3>1 DEF Posted
        <3> QED
            BY <1>1, <1>2, <1>6, <3>2, NotesTell DEF Sent
    <2> QED
        BY <1>7, <1>8, <2>1, <2>2
<1>10. fault' = TRUE /\ UNCHANGED <<cover, lag, inbox, dropped, call, asks>>
    BY DEF DeviceForgets, Owner
<1>11. Calm(cover, asks, inbox, lag, br, dv, TRUE, dropped)
    BY <1>4, <1>9 DEF SubscriptionInv, Calm, Told
<1>12. Calling(cover, call, asks, inbox, lag, br, dv, TRUE)
    BY DEF SubscriptionInv, Calling
<1> QED
    BY <1>4, <1>8, <1>10, <1>11, <1>12 DEF SubscriptionInv

\* The first of a subscriber's notifications is no longer on its way.
HeadTaken(box, ar, br, g) ==
    /\ Posted(box, br)
    /\ \A o \in Generations : o # g => br[o] = ar[o]
    /\ br[g] # <<>> => br[g][Len(br[g])] = ar[g][Len(ar[g])]
    /\ br[g] = <<>> => Head(ar[g]) = ar[g][Len(ar[g])]
    /\ Head(ar[g]) \in Note /\ Head(ar[g]).generation = g

\* Taking it leaves the order of the others.
LEMMA PostTaken ==
    ASSUME NEW box, NEW ar, NEW br, Posted(box, ar), NEW g \in Generations, ar[g] # <<>>,
           br = [ar EXCEPT ![g] = Tail(ar[g])]
    PROVE  HeadTaken(box, ar, br, g)
<1>1. PICK q : q = ar[g] /\ q \in Seq(Note) /\ q # <<>> /\ \A i \in DOMAIN q : q[i].generation = g
    BY DEF Posted
<1>2. PICK r : r = Tail(q)
    OBVIOUS
<1>3. /\ r \in Seq(Note) /\ Len(r) = Len(q) - 1 /\ Len(q) \in Nat \ {0}
      /\ DOMAIN r = 1..(Len(q) - 1) /\ DOMAIN q = 1..Len(q)
      /\ \A i \in 1..(Len(q) - 1) : r[i] = q[i + 1]
      /\ Head(q) = q[1] /\ Head(q) \in Note
    BY <1>1, <1>2, FirstGone
<1>4. /\ br \in [Generations -> Seq(Note)] /\ br[g] = r
      /\ \A o \in Generations : o # g => br[o] = ar[o]
    BY <1>1, <1>2, <1>3 DEF Posted
<1>5. \A i \in DOMAIN r : r[i].generation = g
    BY <1>1, <1>3
<1>6. Posted(box, br)
    BY <1>4, <1>5 DEF Posted
<1>7. r # <<>> => r[Len(r)] = q[Len(q)]
    <2>1. r # <<>> => Len(q) # 1
        BY <1>3
    <2>2. Len(q) # 1 => Len(q) - 1 \in 1..(Len(q) - 1) /\ (Len(q) - 1) + 1 = Len(q)
        BY <1>3
    <2> QED
        BY <1>3, <2>1, <2>2
<1>8. r = <<>> => Len(q) = 1
    BY <1>3
<1>9. Head(q).generation = g
    BY <1>1, <1>3
<1> QED
    BY <1>1, <1>3, <1>4, <1>6, <1>7, <1>8, <1>9 DEF HeadTaken

\* A notification is lost on its way.
LEMMA Loss ==
    ASSUME SubscriptionInv, NEW g \in Generations, NotificationLost(g)
    PROVE  SubscriptionInv'
<1>1. Posted(inbox, air) /\ cover.generation \in Generations /\ Told(cover, inbox, lag, air, device, fault)
    BY DEF SubscriptionInv, Calm, CoverWhole
<1>2. PICK br, fl : br = [air EXCEPT ![g] = Tail(air[g])] /\ fl = (fault \/ g = cover.generation)
    OBVIOUS
<1>3. /\ air' = br /\ fault' = fl /\ fl \in BOOLEAN
      /\ UNCHANGED <<cover, lag, inbox, dropped, call, asks, device>>
    BY <1>2 DEF NotificationLost, Owner
<1>4. Posted(inbox, br) /\ \A o \in Generations : o # g => br[o] = air[o]
    <2>1. air[g] # <<>>
        BY DEF NotificationLost
    <2>2. HeadTaken(inbox, air, br, g)
        BY <1>1, <1>2, <2>1, PostTaken
    <2> QED
        BY <2>2 DEF HeadTaken
<1>5. ~fl => ~fault /\ br[cover.generation] = air[cover.generation]
    BY <1>1, <1>2, <1>4
<1>6. Told(cover, inbox, lag, br, device, fl)
    BY <1>1, <1>5 DEF Told, NewestTells, NoneFor
<1>7. Calm(cover, asks, inbox, lag, br, device, fl, dropped)
    BY <1>3, <1>4, <1>5, <1>6 DEF SubscriptionInv, Calm
<1>8. Calling(cover, call, asks, inbox, lag, br, device, fl)
    BY <1>5 DEF SubscriptionInv, Calling, NoneFor
<1> QED
    BY <1>3, <1>7, <1>8 DEF SubscriptionInv

\* A notification reaches the channel.
LEMMA Reaches ==
    ASSUME SubscriptionInv, NEW g \in Generations, Notified(g)
    PROVE  SubscriptionInv'
<1>1. /\ Posted(inbox, air) /\ cover.generation \in Generations
      /\ Told(cover, inbox, lag, air, device, fault) /\ air[g] # <<>>
    BY DEF SubscriptionInv, Calm, CoverWhole, Notified
<1>2. PICK br, n : br = [air EXCEPT ![g] = Tail(air[g])] /\ n = Head(air[g])
    OBVIOUS
<1>3. PICK full \in BOOLEAN : full = (Len(inbox) = Capacity)
    OBVIOUS
<1>4. PICK kept : kept = IF full THEN Tail(inbox) ELSE inbox
    OBVIOUS
<1>5. PICK box, lg, dr : /\ box = Append(kept, n) /\ lg = (lag \/ full)
                         /\ dr = (dropped \/ (full /\ Head(inbox).generation = cover.generation))
    OBVIOUS
<1>6. /\ air' = br /\ inbox' = box /\ lag' = lg /\ dropped' = dr
      /\ UNCHANGED <<cover, call, asks, device, fault>>
    BY <1>2, <1>3, <1>4, <1>5 DEF Notified
<1>7. /\ Posted(inbox, br)
      /\ \A o \in Generations : o # g => br[o] = air[o]
      /\ br[g] # <<>> => br[g][Len(br[g])] = air[g][Len(air[g])]
      /\ br[g] = <<>> => n = air[g][Len(air[g])]
      /\ n \in Note /\ n.generation = g
    <2>1. HeadTaken(inbox, air, br, g)
        BY <1>1, <1>2, PostTaken
    <2> QED
        BY <1>2, <2>1 DEF HeadTaken
<1>8. PICK s \in 0..1 : s = IF full THEN 1 ELSE 0
    BY <1>3
<1>9. /\ kept \in Seq(Note) /\ Len(kept) = Len(inbox) - s /\ Len(kept) \in Nat
      /\ Len(kept) < Capacity /\ DOMAIN kept = 1..Len(kept) /\ DOMAIN inbox = 1..Len(inbox)
      /\ Len(inbox) \in Nat
      /\ \A i \in 1..Len(kept) : kept[i] = inbox[i + s]
    <2>1. /\ inbox \in Seq(Note) /\ Len(inbox) <= Capacity /\ Len(inbox) \in Nat
          /\ Capacity \in Nat \ {0} /\ DOMAIN inbox = 1..Len(inbox)
        BY <1>1, FixtureBounds DEF Posted, FixtureOptions
    <2>2. CASE full
        <3>1. inbox # <<>>
            BY <1>3, <2>1, <2>2
        <3>2. kept = Tail(inbox) /\ s = 1 /\ Len(inbox) = Capacity
            BY <1>3, <1>4, <1>8, <2>2
        <3>3. /\ kept \in Seq(Note) /\ Len(kept) = Len(inbox) - 1
              /\ DOMAIN kept = 1..(Len(inbox) - 1)
              /\ \A i \in 1..(Len(inbox) - 1) : kept[i] = inbox[i + 1]
            BY <2>1, <3>1, <3>2, FirstGone
        <3>4. Len(kept) \in Nat /\ Len(kept) < Capacity
            BY <2>1, <3>2, <3>3
        <3> QED
            BY <2>1, <3>2, <3>3, <3>4
    <2>3. CASE ~full
        <3>1. kept = inbox /\ s = 0
            BY <1>4, <1>8, <2>3
        <3>2. Len(inbox) # Capacity
            BY <1>3, <2>3
        <3>3. Len(inbox) < Capacity
            <4>1. Len(inbox) \in Nat /\ Capacity \in Nat /\ Len(inbox) <= Capacity
                BY <2>1
            <4> QED
                BY <3>2, <4>1
        <3>4. \A i \in 1..Len(inbox) : i + 0 = i
            OBVIOUS
        <3> QED
            BY <2>1, <3>1, <3>3, <3>4
    <2> QED
        BY <2>2, <2>3
<1>10. /\ box \in Seq(Note) /\ Len(box) = Len(kept) + 1
       /\ DOMAIN box = 1..(Len(kept) + 1) /\ box[Len(kept) + 1] = n
       /\ \A i \in 1..Len(kept) : box[i] = kept[i]
    BY <1>5, <1>7, <1>9, AddedLast
<1>11. Len(box) <= Capacity /\ Posted(box, br)
    <2>1. Len(box) <= Capacity
        <3>1. Capacity \in Nat
            BY FixtureBounds DEF FixtureOptions
        <3> QED
            BY <1>9, <1>10, <3>1
    <2> QED
        BY <1>7, <1>10, <2>1 DEF Posted
<1>12. \A i \in 1..Len(kept) : i + s \in DOMAIN inbox /\ box[i] = inbox[i + s]
    <2>1. \A i \in 1..Len(kept) : i + s \in 1..Len(inbox)
        BY <1>9
    <2> QED
        BY <1>9, <1>10, <2>1
<1>13. device.left[cover.generation] > 0 /\ ~fault => NewestTells(cover.generation, box, br, device)
    <2>1. SUFFICES ASSUME device.left[cover.generation] > 0, ~fault
                   PROVE  NewestTells(cover.generation, box, br, device)
        OBVIOUS
    <2>2. NewestTells(cover.generation, inbox, air, device)
        BY <1>1, <2>1 DEF Told
    <2>3. CASE g = cover.generation
        <3>1. br[g] # <<>> => TellsOf(br[g][Len(br[g])], device)
            BY <1>1, <1>7, <2>2, <2>3 DEF NewestTells
        <3>2. ASSUME br[g] = <<>>, NEW i, NewestFor(g, box, i)
              PROVE  TellsOf(box[i], device)
            <4>1. TellsOf(n, device)
                BY <1>1, <1>7, <2>2, <2>3, <3>2 DEF NewestTells
            <4>2. i = Len(kept) + 1
                <5>1. i \in 1..(Len(kept) + 1) /\ Len(kept) + 1 \in DOMAIN box
                    BY <1>9, <1>10, <3>2 DEF NewestFor
                <5>2. ~(Len(kept) + 1 > i)
                    BY <1>7, <1>10, <3>2, <5>1 DEF NewestFor
                <5> QED
                    BY <1>9, <5>1, <5>2
            <4> QED
                BY <1>10, <4>1, <4>2
        <3> QED
            BY <2>3, <3>1, <3>2 DEF NewestTells
    <2>4. CASE g # cover.generation
        <3>1. br[cover.generation] = air[cover.generation]
            BY <1>1, <1>7, <2>4
        <3>2. ASSUME br[cover.generation] = <<>>, NEW i, NewestFor(cover.generation, box, i)
              PROVE  TellsOf(box[i], device)
            <4>1. i \in 1..Len(kept)
                BY <1>7, <1>9, <1>10, <2>4, <3>2 DEF NewestFor
            <4>2. i + s \in DOMAIN inbox /\ box[i] = inbox[i + s] /\ inbox[i + s].generation = cover.generation
                BY <1>12, <3>2, <4>1 DEF NewestFor
            <4>3. ASSUME NEW j \in DOMAIN inbox, j > i + s
                  PROVE  inbox[j].generation # cover.generation
                <5>1. PICK k : k = j - s
                    OBVIOUS
                <5>2. k \in 1..Len(kept) /\ k > i /\ k + s = j
                    <6>1. j \in 1..Len(inbox) /\ s \in {0, 1} /\ i \in Nat \ {0} /\ j > i + s
                        <7>1. j \in 1..Len(inbox)
                            BY <1>9
                        <7>2. s \in {0, 1}
                            BY <1>8
                        <7>3. i \in Nat \ {0}
                            BY <1>9, <4>1
                        <7> QED
                            BY <4>3, <7>1, <7>2, <7>3
                    <6>2. Len(kept) = Len(inbox) - s /\ Len(inbox) \in Nat
                        BY <1>9
                    <6>3. CASE s = 0
                        BY <5>1, <6>1, <6>2, <6>3
                    <6>4. CASE s = 1
                        BY <5>1, <6>1, <6>2, <6>4
                    <6> QED
                        BY <6>1, <6>3, <6>4
                <5>3. k \in DOMAIN box /\ box[k] = inbox[j]
                    BY <1>9, <1>10, <1>12, <5>2
                <5> QED
                    BY <3>2, <5>2, <5>3 DEF NewestFor
            <4>4. NewestFor(cover.generation, inbox, i + s)
                BY <4>2, <4>3 DEF NewestFor
            <4> QED
                BY <2>2, <3>1, <3>2, <4>2, <4>4 DEF NewestTells
        <3> QED
            BY <2>2, <3>1, <3>2 DEF NewestTells
    <2> QED
        BY <2>3, <2>4
<1>14. ~lg /\ NoneFor(cover.generation, box, br) => ~lag /\ NoneFor(cover.generation, inbox, air)
    <2>1. SUFFICES ASSUME ~lg, NoneFor(cover.generation, box, br)
                   PROVE  ~lag /\ NoneFor(cover.generation, inbox, air)
        OBVIOUS
    <2>2. ~lag /\ ~full /\ s = 0
        BY <1>5, <1>8, <2>1
    <2>3. g # cover.generation
        <3>1. Len(kept) + 1 \in DOMAIN box
            BY <1>9, <1>10
        <3> QED
            BY <1>7, <1>10, <2>1, <3>1 DEF NoneFor
    <2>4. air[cover.generation] = <<>>
        BY <1>1, <1>7, <2>1, <2>3 DEF NoneFor
    <2>5. ASSUME NEW i \in DOMAIN inbox PROVE inbox[i].generation # cover.generation
        <3>1. i \in 1..Len(kept) /\ i + s = i /\ i \in DOMAIN box
            BY <1>9, <1>10, <2>2
        <3>2. box[i] = inbox[i]
            BY <1>12, <3>1
        <3> QED
            BY <2>1, <3>1, <3>2 DEF NoneFor
    <2> QED
        BY <2>2, <2>4, <2>5 DEF NoneFor
<1>15. Told(cover, box, lg, br, device, fault)
    BY <1>1, <1>13, <1>14 DEF Told
<1>16. (dr => lg \/ cover.unobserved) /\ lg \in BOOLEAN /\ dr \in BOOLEAN
    BY <1>5 DEF SubscriptionInv, Calm
<1>17. Calm(cover, asks, box, lg, br, device, fault, dr)
    BY <1>11, <1>15, <1>16 DEF SubscriptionInv, Calm
<1>18. Calling(cover, call, asks, box, lg, br, device, fault)
    BY <1>14 DEF SubscriptionInv, Calling
<1> QED
    BY <1>6, <1>17, <1>18 DEF SubscriptionInv

\* Time passes for the device as for the owner.
LEMMA Ticks ==
    ASSUME SubscriptionInv, Tick
    PROVE  SubscriptionInv'
<1>1. /\ DeviceWhole(cover, device) /\ CoverWhole(cover)
      /\ cover.generation \in Generations /\ Lifetime \in Nat \ {0}
    BY FixtureBounds DEF SubscriptionInv, Calm, CoverWhole, FixtureOptions
<1>2. PICK x, y, z : x = Less(cover.renew, 1) /\ y = Less(cover.poll, 1) /\ z = Less(cover.expires, 1)
    OBVIOUS
<1>3. PICK d : d = [cover EXCEPT !.renew = x, !.poll = y, !.expires = z]
    OBVIOUS
<1>4. d = [generation |-> cover.generation, subscribed |-> cover.subscribed, due |-> cover.due,
           unobserved |-> cover.unobserved, current |-> cover.current,
           unsubscribe |-> cover.unsubscribe, stopped |-> cover.stopped, renew |-> x,
           poll |-> y, expires |-> z]
    BY <1>1, <1>3 DEF CoverWhole
<1>5. z \in 0..Lifetime /\ z <= cover.expires
    BY <1>1, <1>2 DEF CoverWhole, Less
<1>6. /\ CoverWhole(d) /\ d.generation = cover.generation /\ d.subscribed = cover.subscribed
      /\ d.due = cover.due /\ d.unobserved = cover.unobserved /\ d.current = cover.current
      /\ d.unsubscribe = cover.unsubscribe /\ d.expires = z
    BY <1>1, <1>4, <1>5 DEF CoverWhole
<1>7. PICK lv : lv = [g \in Generations |-> Less(device.left[g], 1)]
    OBVIOUS
<1>8. ASSUME NEW g \in Generations
      PROVE  /\ lv[g] \in 0..Lifetime /\ lv[g] <= device.left[g]
             /\ lv[g] = Less(device.left[g], 1) /\ device.left[g] \in 0..Lifetime
    BY <1>1, <1>7 DEF DeviceWhole, Less
<1>9. PICK dv : dv = [value |-> device.value, left |-> lv]
    OBVIOUS
<1>10. device' = dv
    BY <1>1, <1>7, <1>9 DEF Tick, DeviceWhole
<1>11. DeviceWhole(d, dv)
    <2>1. lv \in [Generations -> 0..Lifetime]
        BY <1>7, <1>8
    <2>2. \A g \in Generations : g > d.generation => lv[g] = 0
        BY <1>1, <1>6, <1>7 DEF DeviceWhole, Less
    <2> QED
        BY <1>1, <1>9, <2>1, <2>2 DEF DeviceWhole
<1>12. PICK cl : cl = IF Free THEN call ELSE [call EXCEPT !.age = Least(@ + 1, Lifetime)]
    OBVIOUS
<1>13. /\ cover' = d /\ call' = cl
       /\ UNCHANGED <<inbox, lag, asks, air, fault, dropped>>
    BY <1>2, <1>3, <1>12 DEF Tick
<1>14. Told(d, inbox, lag, air, dv, fault)
    <2>1. dv.left[cover.generation] > 0 => device.left[cover.generation] > 0
        BY <1>1, <1>8, <1>9
    <2>2. Told(cover, inbox, lag, air, device, fault)
        BY DEF SubscriptionInv, Calm
    <2> QED
        BY <1>6, <1>9, <2>1, <2>2 DEF Told, NewestTells, TellsOf
<1>15. d.subscribed /\ ~fault => dv.left[d.generation] >= d.expires
    <2>1. cover.subscribed /\ ~fault => device.left[cover.generation] >= cover.expires
        BY DEF SubscriptionInv, Calm
    <2>2. device.left[cover.generation] >= cover.expires => lv[cover.generation] >= z
        BY <1>1, <1>2, <1>8 DEF Less, CoverWhole
    <2> QED
        BY <1>6, <1>9, <2>1, <2>2
<1>16. Calm(d, asks, inbox, lag, air, dv, fault, dropped)
    <2>1. Earlier(d, asks)
        BY <1>6 DEF SubscriptionInv, Calm, Earlier
    <2> QED
        BY <1>6, <1>11, <1>14, <1>15, <2>1 DEF SubscriptionInv, Calm
<1>17. /\ cl = [op |-> call.op, next |-> call.next, age |-> cl.age, reply |-> call.reply,
                value |-> call.value]
       /\ cl.age \in Nat
       /\ call.op = "subscribe" => cl.age = Least(call.age + 1, Lifetime)
    BY <1>1, <1>12 DEF SubscriptionInv, Calling, Least, Free
<1>18. Calling(d, cl, asks, inbox, lag, air, dv, fault)
    <2>1. call.op = "subscribe" /\ call.reply = "ok" /\ ~fault =>
              lv[cover.generation] >= Less(Lifetime, cl.age)
        <3>1. SUFFICES ASSUME call.op = "subscribe", call.reply = "ok", ~fault
                       PROVE  lv[cover.generation] >= Less(Lifetime, cl.age)
            OBVIOUS
        <3>2. device.left[cover.generation] >= Less(Lifetime, call.age) /\ call.age \in Nat
            BY <3>1 DEF SubscriptionInv, Calling
        <3>3. PICK u \in 0..Lifetime : u = device.left[cover.generation]
            BY <1>1, <1>8
        <3>4. lv[cover.generation] = Less(u, 1)
            BY <1>1, <1>8, <3>3
        <3> QED
            BY <1>1, <1>17, <3>1, <3>2, <3>3, <3>4 DEF Less, Least
    <2>2. dv.left[cover.generation] > 0 => device.left[cover.generation] > 0
        BY <1>1, <1>8, <1>9
    <2>3. /\ cl.op = call.op /\ cl.reply = call.reply /\ cl.value = call.value
          /\ cl = [op |-> cl.op, next |-> cl.next, age |-> cl.age, reply |-> cl.reply,
                   value |-> cl.value]
          /\ dv.value = device.value /\ dv.left = lv
        BY <1>9, <1>17
    <2> QED
        BY <1>6, <1>17, <2>1, <2>2, <2>3 DEF SubscriptionInv, Calling
<1> QED
    BY <1>10, <1>13, <1>16, <1>18 DEF SubscriptionInv

-----------------------------------------------------------------------------
(* The drain of the channel.                                               *)

\* What holds at 0 and stays so from each number to the next holds up to n.
LEMMA UpTo ==
    ASSUME NEW n \in Nat, NEW S, 0 \in S, \A m \in 1..n : m - 1 \in S => m \in S
    PROVE  \A m \in 0..n : m \in S
<1> DEFINE bad == {m \in 1..n : m \notin S}
<1>1. bad = {}
    <2>1. SUFFICES ASSUME bad # {} PROVE FALSE
        OBVIOUS
    <2>2. PICK m : m = Min(bad)
        OBVIOUS
    <2>3. m \in bad /\ \A k \in bad : m <= k
        <3>1. bad \in SUBSET (1..n)
            OBVIOUS
        <3> QED
            BY <2>1, <2>2, <3>1, FirstExists
    <2>5. m \in 1..n /\ m \notin S
        BY <2>3
    <2>6. m - 1 \notin S
        BY <2>5
    <2>7. m # 1
        BY <2>6
    <2>8. m - 1 \in 1..n /\ m - 1 < m
        BY <2>5, <2>7
    <2>9. m - 1 \in bad
        BY <2>6, <2>8
    <2> QED
        BY <2>3, <2>5, <2>8, <2>9
<1>2. \A m \in 0..n : m = 0 \/ m \in 1..n
    OBVIOUS
<1> QED
    BY <1>1, <1>2

\* The drain so far, as a function of how often it tried.
Draining(N, f) ==
    f = [i \in 0..N |-> IF i = 0 THEN told(expire_coverage(cover), lag)
                        ELSE IF i > Len(inbox) THEN f[i - 1] ELSE dequeue(f[i - 1], inbox[i])]

\* It can always try once more.
LEMMA DrainsFurther ==
    ASSUME NEW n \in Nat \ {0}, NEW g, Draining(n - 1, g)
    PROVE  \E f : Draining(n, f)
<1>1. PICK e : e = IF n > Len(inbox) THEN g[n - 1] ELSE dequeue(g[n - 1], inbox[n])
    OBVIOUS
<1>2. n - 1 \in 0..(n - 1) /\ n - 1 \in Nat
    OBVIOUS
<1>3. PICK f : f = [m \in 0..n |-> IF m = n THEN e ELSE g[m]]
    OBVIOUS
<1>4. \A m \in 0..n : m # n => m \in 0..(n - 1)
    BY <1>2
<1>5. \A m \in 0..n : m # 0 => m - 1 \in 0..(n - 1) /\ m - 1 \in 0..n /\ m - 1 # n
    BY <1>2
<1>6. f[n] = e
    BY <1>3
<1>7. \A m \in 0..(n - 1) : f[m] = g[m]
    <2>1. \A m \in 0..(n - 1) : m \in 0..n /\ m # n
        BY <1>2
    <2> QED
        BY <2>1, <1>3
<1>8. ASSUME NEW m \in 0..n
      PROVE  f[m] = IF m = 0 THEN told(expire_coverage(cover), lag)
                    ELSE IF m > Len(inbox) THEN f[m - 1] ELSE dequeue(f[m - 1], inbox[m])
    <2>1. CASE m = n
        <3>1. f[m] = e /\ f[m - 1] = g[n - 1] /\ m # 0
            BY <2>1, <1>2, <1>6, <1>7
        <3> QED
            BY <2>1, <3>1, <1>1
    <2>2. CASE m # n
        <3>1. m \in 0..(n - 1)
            BY <2>2, <1>4
        <3>2. g[m] = IF m = 0 THEN told(expire_coverage(cover), lag)
                     ELSE IF m > Len(inbox) THEN g[m - 1] ELSE dequeue(g[m - 1], inbox[m])
            BY <3>1 DEF Draining
        <3>3. f[m] = g[m] /\ (m # 0 => f[m - 1] = g[m - 1])
            BY <3>1, <1>5, <1>7
        <3> QED
            BY <3>2, <3>3
    <2> QED
        BY <2>1, <2>2
<1>9. f = [m \in 0..n |-> IF m = 0 THEN told(expire_coverage(cover), lag)
                          ELSE IF m > Len(inbox) THEN f[m - 1]
                          ELSE dequeue(f[m - 1], inbox[m])]
    <2>1. f = [m \in 0..n |-> f[m]]
        BY <1>3
    <2> QED
        BY <2>1, <1>8, Zenon
<1> QED
    BY <1>9 DEF Draining

\* So there is the drain that the owner's recursion names.
LEMMA Drains == Capacity \in Nat /\ Draining(Capacity, drained)
<1> DEFINE S == {n \in Nat : \E f : Draining(n, f)}
<1>1. Capacity \in Nat
    BY FixtureBounds DEF FixtureOptions
<1>2. 0 \in S
    <2>1. PICK f : f = [i \in 0..0 |-> told(expire_coverage(cover), lag)]
        OBVIOUS
    <2>2. Draining(0, f)
        BY <2>1 DEF Draining
    <2> QED
        BY <2>2
<1>3. \A m \in 1..Capacity : m - 1 \in S => m \in S
    <2>1. SUFFICES ASSUME NEW m \in 1..Capacity, m - 1 \in S PROVE m \in S
        OBVIOUS
    <2>2. m \in Nat \ {0}
        BY <1>1
    <2>3. PICK f : Draining(m - 1, f)
        BY <2>1
    <2>4. \E g : Draining(m, g)
        BY <2>2, <2>3, DrainsFurther
    <2> QED
        BY <2>2, <2>4
<1> HIDE DEF S
<1>4. Capacity \in S
    <2>1. \A m \in 0..Capacity : m \in S
        BY <1>1, <1>2, <1>3, UpTo
    <2> QED
        BY <1>1, <2>1
<1>5. \E f : Draining(Capacity, f)
    BY <1>4 DEF S
<1>6. PICK f : f = CHOOSE g : Draining(Capacity, g)
    OBVIOUS
<1>7. drained = f
    BY <1>6 DEF drained, Draining
<1>8. Draining(Capacity, f)
    BY <1>5, <1>6, Zenon
<1> QED
    BY <1>1, <1>7, <1>8

\* Part of a drain: like Moves, but the current sample may be replaced.
Sheds(c, d) ==
    /\ CoverWhole(d) /\ d.generation = c.generation /\ d.expires = c.expires
    /\ d.unsubscribe = c.unsubscribe
    /\ d.subscribed => c.subscribed
    /\ c.due => d.due
    /\ c.unobserved => d.unobserved

\* One notification: another's changes nothing, and one of this identity is the current
\* sample unless something is lost.
LEMMA Dequeues ==
    ASSUME NEW c, CoverWhole(c), NEW n \in Note
    PROVE  /\ Sheds(c, dequeue(c, n))
           /\ n.generation # c.generation => dequeue(c, n) = c
           /\ n.generation = c.generation /\ n.fit # "other" =>
                 \/ dequeue(c, n).due
                 \/ dequeue(c, n).current = [value |-> n.value, generation |-> c.generation]
<1>1. PICK x : x = Least(c.renew, Less(n.left, Margin))
    OBVIOUS
<1>2. PICK soon : soon = [c EXCEPT !.renew = x]
    OBVIOUS
<1>3. Moves(c, soon) /\ CoverWhole(soon)
    BY <1>2, MovesParts DEF Moves
<1>4. PICK low : low = [soon EXCEPT !.subscribed = FALSE]
    OBVIOUS
<1>5. Moves(soon, low) /\ CoverWhole(low)
    BY <1>3, <1>4, MovesParts DEF Moves
<1>6. Moves(low, lose(low)) /\ CoverWhole(lose(low))
    BY <1>5, Loses DEF Moves
<1>7. PICK kept : kept = IF n.left = 0 THEN lose(low) ELSE soon
    OBVIOUS
<1>8. Moves(c, kept) /\ CoverWhole(kept)
    <2>1. Moves(c, soon) /\ Moves(c, lose(low))
        BY <1>3, <1>5, <1>6, MovesOn
    <2> QED
        BY <1>3, <1>6, <1>7, <2>1
<1>9. kept = (LET s == [c EXCEPT !.renew = Least(@, Less(n.left, Margin))]
              IN  IF n.left = 0 THEN lose([s EXCEPT !.subscribed = FALSE]) ELSE s)
    BY <1>1, <1>2, <1>4, <1>7
<1>10. PICK v : v = [value |-> n.value, generation |-> c.generation]
    OBVIOUS
<1>11. PICK heard : heard = [kept EXCEPT !.current = v]
    OBVIOUS
<1>12. heard = [generation |-> kept.generation, subscribed |-> kept.subscribed,
                  due |-> kept.due, unobserved |-> kept.unobserved, current |-> v,
                  unsubscribe |-> kept.unsubscribe, stopped |-> kept.stopped,
                  renew |-> kept.renew, poll |-> kept.poll, expires |-> kept.expires]
    BY <1>8, <1>11 DEF CoverWhole
<1>13. Sheds(c, heard) /\ heard.current = v
    BY <1>8, <1>12 DEF Sheds, Moves, CoverWhole
<1>14. /\ Moves(c, lose(c)) /\ lose(c).due
       /\ Moves(kept, lose(kept)) /\ lose(kept).due /\ Moves(c, lose(kept))
    BY <1>8, Loses, MovesOn
<1>15. CASE ~addressed(c, n)
    <2>1. dequeue(c, n) = c
        BY <1>15 DEF dequeue
    <2>2. Sheds(c, c)
        BY DEF Sheds
    <2> QED
        BY <1>15, <2>1, <2>2 DEF addressed
<1>16. CASE addressed(c, n) /\ n.fit = "many"
    <2>1. dequeue(c, n) = lose(c)
        BY <1>16 DEF dequeue
    <2>2. Sheds(c, lose(c))
        BY <1>14 DEF Sheds, Moves
    <2> QED
        BY <1>14, <1>16, <2>1, <2>2 DEF addressed
<1>17. CASE addressed(c, n) /\ n.fit = "long"
    <2>1. dequeue(c, n) = lose(kept)
        BY <1>9, <1>17 DEF dequeue
    <2>2. Sheds(c, lose(kept))
        BY <1>14 DEF Sheds, Moves
    <2> QED
        BY <1>14, <1>17, <2>1, <2>2 DEF addressed
<1>18. CASE addressed(c, n) /\ n.fit = "other"
    <2>1. dequeue(c, n) = kept
        BY <1>9, <1>18 DEF dequeue
    <2>2. Sheds(c, kept)
        BY <1>8 DEF Sheds, Moves
    <2> QED
        BY <1>18, <2>1, <2>2 DEF addressed
<1>19. CASE addressed(c, n) /\ n.fit = "ok"
    <2>1. dequeue(c, n) = heard
        BY <1>9, <1>10, <1>11, <1>19 DEF dequeue
    <2> QED
        BY <1>10, <1>13, <1>19, <2>1 DEF addressed
<1>20. n.fit \in {"ok", "many", "long", "other"}
    BY DEF Note
<1> QED
    BY <1>15, <1>16, <1>17, <1>18, <1>19, <1>20

\* How far a drain has come after its first m tries.
DrainedTo(d, m) ==
    /\ Sheds(cover, d)
    /\ lag => d.due /\ d.unobserved
    /\ (\A j \in DOMAIN inbox : j <= m => inbox[j].generation # cover.generation)
           => d.current = cover.current
    /\ \A j \in DOMAIN inbox :
          (/\ j <= m /\ inbox[j].generation = cover.generation /\ inbox[j].fit # "other"
           /\ \A k \in DOMAIN inbox : k > j /\ k <= m => inbox[k].generation # cover.generation)
          => d.due \/ d.current = [value |-> inbox[j].value, generation |-> cover.generation]

\* A drain that has come so far comes one further.
LEMMA DrainsOn ==
    ASSUME CoverWhole(cover), Posted(inbox, air), NEW m \in Nat \ {0}, NEW c, DrainedTo(c, m - 1),
           NEW d, d = IF m > Len(inbox) THEN c ELSE dequeue(c, inbox[m])
    PROVE  DrainedTo(d, m)
<1>1. PICK l \in Nat : l = Len(inbox) /\ DOMAIN inbox = 1..l
    BY DEF Posted
<1>2. \A j \in 1..l : j <= m <=> j <= m - 1 \/ j = m
    OBVIOUS
<1>3. CASE m > l
    <2>1. d = c /\ \A j \in 1..l : j <= m - 1
        BY <1>1, <1>3
    <2>2. \A j \in 1..l : j <= m
        BY <1>3
    <2> QED
        BY <1>1, <2>1, <2>2 DEF DrainedTo
<1>4. CASE ~(m > l)
    <2>1. m \in 1..l /\ d = dequeue(c, inbox[m]) /\ m \in DOMAIN inbox /\ inbox[m] \in Note
        BY <1>1, <1>4 DEF Posted
    <2>2. PICK n : n = inbox[m] /\ n \in Note
        BY <2>1
    <2>3. CoverWhole(c) /\ c.generation = cover.generation /\ Sheds(cover, c)
        BY DEF DrainedTo, Sheds
    <2>4. /\ Sheds(c, d)
          /\ n.generation # cover.generation => d = c
          /\ n.generation = cover.generation /\ n.fit # "other" =>
                d.due \/ d.current = [value |-> n.value, generation |-> cover.generation]
        BY <2>1, <2>2, <2>3, Dequeues
    <2>5. Sheds(cover, d)
        BY <2>3, <2>4 DEF Sheds
    <2>6. lag => d.due /\ d.unobserved
        BY <2>4 DEF DrainedTo, Sheds
    <2>7. ASSUME \A j \in DOMAIN inbox : j <= m => inbox[j].generation # cover.generation
          PROVE  d.current = cover.current
        <3>1. n.generation # cover.generation
            BY <1>2, <2>1, <2>2, <2>7
        <3>2. \A j \in DOMAIN inbox : j <= m - 1 => inbox[j].generation # cover.generation
            BY <1>1, <1>2, <2>7
        <3> QED
            BY <2>4, <3>1, <3>2 DEF DrainedTo
    <2>8. ASSUME NEW j \in DOMAIN inbox, j <= m, inbox[j].generation = cover.generation,
                 inbox[j].fit # "other",
                 \A k \in DOMAIN inbox : k > j /\ k <= m => inbox[k].generation # cover.generation
          PROVE  d.due \/ d.current = [value |-> inbox[j].value, generation |-> cover.generation]
        <3>1. CASE j = m
            BY <2>2, <2>4, <2>8, <3>1
        <3>2. CASE j # m
            <4>1. j <= m - 1 /\ m > j
                BY <1>1, <1>2, <2>8, <3>2
            <4>2. n.generation # cover.generation
                BY <2>1, <2>2, <2>8, <4>1
            <4>3. \A k \in DOMAIN inbox : k > j /\ k <= m - 1 => inbox[k].generation # cover.generation
                BY <1>1, <1>2, <2>8
            <4>4. c.due \/ c.current = [value |-> inbox[j].value, generation |-> cover.generation]
                BY <2>8, <4>1, <4>3 DEF DrainedTo
            <4> QED
                BY <2>4, <4>2, <4>4
        <3> QED
            BY <3>1, <3>2
    <2> QED
        BY <2>5, <2>6, <2>7, <2>8 DEF DrainedTo
<1> QED
    BY <1>1, <1>3, <1>4

\* It starts with what the receiver is told of the channel's loss.
LEMMA DrainStarts ==
    ASSUME CoverWhole(cover), Posted(inbox, air), lag \in BOOLEAN,
           NEW d, d = told(expire_coverage(cover), lag)
    PROVE  DrainedTo(d, 0)
<1>1. PICK c : c = expire_coverage(cover)
    OBVIOUS
<1>2. Moves(cover, c) /\ CoverWhole(c)
    BY <1>1, Expires DEF Moves
<1>3. Moves(c, lose(c)) /\ lose(c).due /\ lose(c).unobserved
    BY <1>2, Loses
<1>4. Moves(cover, d) /\ (lag => d.due /\ d.unobserved)
    <2>1. CASE lag
        BY <1>1, <1>2, <1>3, <2>1, MovesOn DEF told
    <2>2. CASE ~lag
        BY <1>1, <1>2, <2>2 DEF told
    <2> QED
        BY <2>1, <2>2
<1>5. \A j \in DOMAIN inbox : ~(j <= 0)
    BY DEF Posted
<1> QED
    BY <1>4, <1>5 DEF DrainedTo, Moves, Sheds

\* And comes to its end.
LEMMA DrainEnds ==
    ASSUME CoverWhole(cover), Posted(inbox, air), lag \in BOOLEAN
    PROVE  Capacity \in Nat /\ DrainedTo(drained[Capacity], Capacity)
<1>1. Capacity \in Nat /\ Draining(Capacity, drained)
    BY Drains
<1>2. PICK f : f = drained /\ Draining(Capacity, f)
    BY <1>1
<1> DEFINE S == {m \in 0..Capacity : DrainedTo(f[m], m)}
<1>3. 0 \in S
    <2>1. 0 \in 0..Capacity
        BY <1>1
    <2>2. f[0] = told(expire_coverage(cover), lag)
        BY <1>2, <2>1 DEF Draining
    <2>3. DrainedTo(f[0], 0)
        BY <2>2, DrainStarts
    <2> QED
        BY <2>1, <2>3
<1>4. \A m \in 1..Capacity : m - 1 \in S => m \in S
    <2>1. SUFFICES ASSUME NEW m \in 1..Capacity, m - 1 \in S PROVE m \in S
        OBVIOUS
    <2>2. m \in 0..Capacity /\ m # 0 /\ m \in Nat \ {0} /\ DrainedTo(f[m - 1], m - 1)
        BY <1>1, <2>1
    <2>3. f[m] = IF m > Len(inbox) THEN f[m - 1] ELSE dequeue(f[m - 1], inbox[m])
        BY <1>2, <2>2 DEF Draining
    <2>4. PICK c, d : c = f[m - 1] /\ d = f[m]
        OBVIOUS
    <2>5. DrainedTo(d, m)
        BY <2>2, <2>3, <2>4, DrainsOn
    <2> QED
        BY <2>2, <2>4, <2>5
<1> HIDE DEF S
<1>5. Capacity \in S
    <2>1. \A m \in 0..Capacity : m \in S
        BY <1>1, <1>3, <1>4, UpTo
    <2> QED
        BY <1>1, <2>1
<1> QED
    BY <1>1, <1>2, <1>5 DEF S

\* Among the rows of the channel for this identity there is a newest.
LEMMA NewestExists ==
    ASSUME NEW box, Len(box) \in Nat, DOMAIN box = 1..Len(box), NEW g,
           \E i \in DOMAIN box : box[i].generation = g
    PROVE  \E i : NewestFor(g, box, i)
<1> DEFINE Below(m) == \A i \in 1..m : box[i].generation # g
           First(m) == \E i \in 1..m : /\ box[i].generation = g
                                       /\ \A j \in 1..m : j > i => box[j].generation # g
           S == {m \in Nat : Below(m) \/ First(m)}
<1>1. 0 \in S
    <2>1. Below(0)
        OBVIOUS
    <2> QED
        BY <2>1
<1>2. \A m \in 1..Len(box) : m - 1 \in S => m \in S
    <2>1. SUFFICES ASSUME NEW m \in 1..Len(box), m - 1 \in S PROVE m \in S
        OBVIOUS
    <2>2. m \in Nat /\ \A i \in 1..m : i = m \/ i \in 1..(m - 1)
        OBVIOUS
    <2>3. CASE box[m].generation = g
        <3>1. m \in 1..m /\ \A j \in 1..m : ~(j > m)
            OBVIOUS
        <3>2. First(m)
            BY <2>3, <3>1
        <3> QED
            BY <2>2, <3>2
    <2>4. CASE box[m].generation # g
        <3>1. CASE Below(m - 1)
            <4>1. Below(m)
                BY <2>2, <2>4, <3>1
            <4> QED
                BY <2>2, <4>1
        <3>2. CASE First(m - 1)
            <4>1. PICK i \in 1..(m - 1) : /\ box[i].generation = g
                                          /\ \A j \in 1..(m - 1) : j > i => box[j].generation # g
                BY <3>2
            <4>2. i \in 1..m /\ \A j \in 1..m : j > i => box[j].generation # g
                BY <2>2, <2>4, <4>1
            <4>3. First(m)
                BY <4>1, <4>2
            <4> QED
                BY <2>2, <4>3
        <3> QED
            BY <2>1, <3>1, <3>2
    <2> QED
        BY <2>3, <2>4
<1>3. Len(box) \in S
    <2> HIDE DEF S
    <2>1. \A m \in 0..Len(box) : m \in S
        BY <1>1, <1>2, UpTo
    <2> QED
        BY <2>1
<1>4. First(Len(box))
    BY <1>3
<1> QED
    BY <1>4 DEF NewestFor

\* What a drain leaves is as calm, with the channel empty.
LEMMA CalmDrained ==
    ASSUME SubscriptionInv, NEW d, DrainedTo(d, Capacity), Capacity \in Nat
    PROVE  Calm(d, asks, <<>>, FALSE, air, device, fault, dropped)
<1>1. /\ Calm(cover, asks, inbox, lag, air, device, fault, dropped) /\ CoverWhole(cover)
      /\ Posted(inbox, air) /\ DeviceWhole(cover, device)
      /\ Told(cover, inbox, lag, air, device, fault) /\ lag \in BOOLEAN
    BY DEF SubscriptionInv, Calm
<1>2. /\ CoverWhole(d) /\ d.generation = cover.generation /\ d.expires = cover.expires
      /\ d.unsubscribe = cover.unsubscribe /\ (d.subscribed => cover.subscribed)
      /\ (cover.due => d.due) /\ (cover.unobserved => d.unobserved)
      /\ (lag => d.due /\ d.unobserved)
    BY DEF DrainedTo, Sheds
<1>3. /\ Len(inbox) \in Nat /\ DOMAIN inbox = 1..Len(inbox) /\ Len(inbox) <= Capacity
      /\ \A i \in DOMAIN inbox : inbox[i] \in Note
    BY <1>1 DEF Posted
<1>4. \A j \in DOMAIN inbox : j <= Capacity
    BY <1>3
<1>5. Posted(<<>>, air)
    BY <1>1, FixtureBounds DEF Posted, FixtureOptions
<1>6. Told(d, <<>>, FALSE, air, device, fault)
    <2>1. SUFFICES ASSUME device.left[cover.generation] > 0, ~fault
                   PROVE  /\ NewestTells(cover.generation, <<>>, air, device)
                          /\ air[cover.generation] = <<>> /\ ~d.due =>
                                d.current # NoSample /\ d.current.value = device.value
        BY <1>2 DEF Told, NoneFor
    <2>2. NewestTells(cover.generation, inbox, air, device)
        BY <1>1, <2>1 DEF Told
    <2>3. NewestTells(cover.generation, <<>>, air, device)
        BY <2>2 DEF NewestTells, NewestFor
    <2>4. ASSUME air[cover.generation] = <<>>, ~d.due
          PROVE  d.current # NoSample /\ d.current.value = device.value
        <3>1. CASE \E i \in DOMAIN inbox : inbox[i].generation = cover.generation
            <4>1. PICK i : NewestFor(cover.generation, inbox, i)
                BY <1>3, <3>1, NewestExists
            <4>2. /\ i \in DOMAIN inbox /\ inbox[i].generation = cover.generation
                  /\ \A k \in DOMAIN inbox : k > i => inbox[k].generation # cover.generation
                BY <4>1 DEF NewestFor
            <4>3. TellsOf(inbox[i], device)
                BY <2>2, <2>4, <4>1, <4>2 DEF NewestTells
            <4>4. d.current = [value |-> inbox[i].value, generation |-> cover.generation]
                BY <1>4, <2>4, <4>2, <4>3 DEF DrainedTo, TellsOf
            <4>5. inbox[i].value \in Values /\ cover.generation \in Generations
                BY <1>1, <1>3, <4>2 DEF Note, CoverWhole
            <4> QED
                BY <4>3, <4>4, <4>5, SampleAssumption DEF TellsOf, Generations
        <3>2. CASE ~\E i \in DOMAIN inbox : inbox[i].generation = cover.generation
            <4>1. NoneFor(cover.generation, inbox, air)
                BY <2>4, <3>2 DEF NoneFor
            <4>2. ~lag /\ ~cover.due
                BY <1>2, <2>4
            <4>3. d.current = cover.current
                BY <3>2 DEF DrainedTo
            <4> QED
                BY <1>1, <2>1, <4>1, <4>2, <4>3 DEF Told
        <3> QED
            BY <3>1, <3>2
    <2> QED
        BY <2>3, <2>4
<1>7. DeviceWhole(d, device)
    BY <1>1, <1>2 DEF DeviceWhole
<1>8. Earlier(d, asks)
    BY <1>1, <1>2 DEF Calm, Earlier
<1>9. dropped => d.unobserved
    BY <1>1, <1>2 DEF Calm
<1> QED
    BY <1>1, <1>2, <1>5, <1>6, <1>7, <1>8, <1>9 DEF Calm

\* Nothing is waited for: what is awaited does not matter.
LEMMA CallingNothing ==
    ASSUME NEW c, NEW d, NEW cl, NEW as, NEW box, NEW lg, NEW ar, NEW dv, NEW fl,
           NEW later, NEW behind,
           Calling(c, cl, as, box, lg, ar, dv, fl), cl.op = "none", d.generation = c.generation
    PROVE  Calling(d, cl, as, later, behind, ar, dv, fl)
BY DEF Calling

\* The owner looks at its coverage, or drains the channel.
LEMMA OwnerLooks ==
    ASSUME SubscriptionInv, Coverage \/ Drain
    PROVE  SubscriptionInv'
<1>1. Calm(cover, asks, inbox, lag, air, device, fault, dropped) /\ CoverWhole(cover)
      /\ Posted(inbox, air) /\ lag \in BOOLEAN /\ Calling(cover, call, asks, inbox, lag, air, device, fault)
    BY DEF SubscriptionInv, Calm
<1>2. call.op = "none" /\ UNCHANGED <<call, asks, air, device, fault, dropped>>
    BY DEF Coverage, Drain, Elsewhere, World, Free
<1>3. PICK c : c = expire_coverage(cover)
    OBVIOUS
<1>4. Moves(cover, c) /\ Moves(cover, lose(c))
    <2>1. Moves(cover, c) /\ CoverWhole(c)
        BY <1>1, <1>3, Expires DEF Moves
    <2> QED
        BY <2>1, Loses, MovesOn
<1>5. CASE cover' \in {c, lose(c)} /\ UNCHANGED <<inbox, lag>>
    <2>1. PICK d : d = cover' /\ Moves(cover, d)
        BY <1>4, <1>5
    <2>2. /\ Calm(d, asks, inbox, lag, air, device, fault, dropped)
          /\ Calling(d, call, asks, inbox, lag, air, device, fault)
        BY <1>1, <1>2, <2>1, CalmMoves, CallingNothing DEF Moves
    <2> QED
        BY <1>2, <1>5, <2>1, <2>2 DEF SubscriptionInv
<1>6. CASE cover' = drained[Capacity] /\ inbox' = <<>> /\ lag' = FALSE
    <2>1. PICK d : d = cover'
        OBVIOUS
    <2>2. Capacity \in Nat /\ DrainedTo(d, Capacity)
        BY <1>1, <1>6, <2>1, DrainEnds
    <2>3. Calm(d, asks, <<>>, FALSE, air, device, fault, dropped)
        BY <2>2, CalmDrained
    <2>4. Calling(d, call, asks, <<>>, FALSE, air, device, fault)
        BY <1>1, <1>2, <2>2, CallingNothing DEF DrainedTo, Sheds
    <2> QED
        BY <1>2, <1>6, <2>1, <2>3, <2>4 DEF SubscriptionInv
<1> QED
    BY <1>3, <1>5, <1>6 DEF Coverage, Drain

-----------------------------------------------------------------------------
(* The theorem.                                                            *)

\* It holds when the client has started.
LEMMA SubscriptionBegins == SubscriptionInit => SubscriptionInv
<1> SUFFICES ASSUME SubscriptionInit PROVE SubscriptionInv
    OBVIOUS
<1>1. /\ Values # {} /\ MaxGenerations \in Nat \ {0} /\ Lifetime \in Nat \ {0}
      /\ Capacity \in Nat /\ 1 \in Generations
    BY SampleAssumption, FixtureBounds DEF FixtureOptions, Generations
<1>2. cover = [generation |-> 1, subscribed |-> FALSE, due |-> TRUE, unobserved |-> FALSE,
               current |-> NoSample, unsubscribe |-> "NotAttempted", stopped |-> FALSE,
               renew |-> 0, poll |-> 0, expires |-> 0]
    BY DEF SubscriptionInit
<1>3. CoverWhole(cover) /\ ~cover.subscribed
    BY <1>1, <1>2 DEF CoverWhole
<1>4. asks = {} /\ inbox = <<>> /\ ~dropped /\ fault = FALSE /\ lag = FALSE /\ dropped = FALSE
    BY DEF SubscriptionInit
<1>5. Earlier(cover, asks)
    BY <1>4 DEF Earlier
<1>6. DeviceWhole(cover, device) /\ \A g \in Generations : device.left[g] = 0
    <2>1. PICK v \in Values : v = CHOOSE w \in Values : TRUE
        BY <1>1
    <2>2. device = [value |-> v, left |-> [g \in Generations |-> 0]]
        BY <2>1 DEF SubscriptionInit
    <2> QED
        BY <1>1, <2>2 DEF DeviceWhole
<1>7. Posted(inbox, air)
    <2>1. air = [g \in Generations |-> <<>>]
        BY DEF SubscriptionInit
    <2> QED
        BY <1>1, <1>4, <2>1 DEF Posted
<1>8. Told(cover, inbox, lag, air, device, fault)
    BY <1>3, <1>6 DEF Told, CoverWhole
<1>9. Calm(cover, asks, inbox, lag, air, device, fault, dropped)
    BY <1>3, <1>4, <1>5, <1>6, <1>7, <1>8 DEF Calm
<1>10. Calling(cover, call, asks, inbox, lag, air, device, fault)
    BY <1>4 DEF SubscriptionInit, Calling, NoWait
<1> QED
    BY <1>9, <1>10 DEF SubscriptionInv

\* Every step keeps it.
LEMMA SubscriptionSteps ==
    SubscriptionInv /\ [SubscriptionNext]_subscriptionVars => SubscriptionInv'
<1> SUFFICES ASSUME SubscriptionInv, [SubscriptionNext]_subscriptionVars
             PROVE  SubscriptionInv'
    OBVIOUS
<1>1. CASE Subscribe \/ Maintain
    BY <1>1, OwnerCalls
<1>2. CASE Reconnect \/ Unsubscribe \/ StopSubscription
    <2>1. UNCHANGED <<air, device, fault, dropped>>
        BY <1>2 DEF Reconnect, Unsubscribe, StopSubscription, Elsewhere, World
    <2>2. \E next : unsubscribe(next)
        BY <1>2 DEF Reconnect, Unsubscribe, StopSubscription
    <2> QED
        BY <2>1, <2>2, OwnerUnsubscribes
<1>3. CASE Coverage \/ Drain
    BY <1>3, OwnerLooks
<1>4. CASE CancelCall \/ SubscribeFails \/ ReadFails
    BY <1>4, CallsEnd
<1>5. CASE SubscribeAnswered
    BY <1>5, SubscribeReturns
<1>6. CASE ReadAnswered
    BY <1>6, ReadReturns
<1>7. CASE UnsubscribeAnswered \/ UnsubscribeFails
    BY <1>7, UnsubscribeReturns
<1>8. CASE ClientStopped
    BY <1>8, ClientStops
<1>9. CASE \E r \in asks : DeviceHandles(r)
    BY <1>9, Subscribed, Handled
<1>10. CASE \E v \in Values \ {device.value}, fit \in {"ok", "many", "long"} : DeviceChanges(v, fit)
    BY <1>10, Changes
<1>11. CASE \E says \in BOOLEAN : DeviceForgets(says)
    BY <1>11, Forgets
<1>12. CASE \E g \in Generations : Notified(g) \/ NotificationLost(g)
    BY <1>12, Reaches, Loss
<1>13. CASE SlotCancelled
    BY <1>13 DEF SlotCancelled, SubscriptionInv
<1>14. CASE Tick
    BY <1>14, Ticks
<1>15. CASE UNCHANGED subscriptionVars
    BY <1>15 DEF subscriptionVars, SubscriptionInv
<1> QED
    BY <1>1, <1>2, <1>3, <1>4, <1>5, <1>6, <1>7, <1>8, <1>9, <1>10, <1>11, <1>12, <1>13,
       <1>14, <1>15 DEF SubscriptionNext

\* What the invariant says of the coverage that is claimed.
LEMMA SubscriptionMeans == SubscriptionInv => CoverageHonest
<1> SUFFICES ASSUME SubscriptionInv PROVE CoverageHonest
    OBVIOUS
<1>1. Backed
    BY DEF SubscriptionInv, Calm, Backed
<1>2. LossTold
    BY DEF SubscriptionInv, Calm, LossTold
<1>3. CurrentTrue
    <2>1. SUFFICES ASSUME cover.subscribed, cover.expires > 0, ~cover.due, ~fault,
                          inbox = <<>>, ~lag, air[cover.generation] = <<>>
                   PROVE  cover.current # NoSample /\ cover.current.value = device.value
        BY DEF CurrentTrue
    <2>2. device.left[cover.generation] > 0
        <3>1. /\ device.left[cover.generation] >= cover.expires
              /\ cover.expires \in Nat /\ device.left[cover.generation] \in Nat
            BY <2>1, FixtureBounds
                DEF SubscriptionInv, Calm, CoverWhole, DeviceWhole, FixtureOptions
        <3> QED
            BY <2>1, <3>1
    <2>3. NoneFor(cover.generation, inbox, air)
        BY <2>1 DEF NoneFor
    <2> QED
        BY <2>1, <2>2, <2>3 DEF SubscriptionInv, Calm, Told
<1> QED
    BY <1>1, <1>2, <1>3 DEF CoverageHonest

\* For every set of values, lifetime, margin, capacity and number of identities: a
\* subscription never claims coverage that the device does not back, every notification
\* the channel dropped is told, and a current sample is current (cov.rs, subscribe, drain,
\* revalidate, reconnect).
THEOREM CoverageIsHonest == SubscriptionSpec => []CoverageHonest
<1>1. SubscriptionInit => SubscriptionInv
    BY SubscriptionBegins
<1>2. SubscriptionInv /\ [SubscriptionNext]_subscriptionVars => SubscriptionInv'
    BY SubscriptionSteps
<1>3. SubscriptionInv => CoverageHonest
    BY SubscriptionMeans
<1> QED
    BY <1>1, <1>2, <1>3, PTL DEF SubscriptionSpec
=============================================================================
