------------------------- MODULE PublicationProofs --------------------------
(***************************************************************************)
(* Proofs about module Publication, for any callers, requests, truthful or *)
(* not, publications and limits.                                           *)
(***************************************************************************)
EXTENDS Publication, TLAPS

-----------------------------------------------------------------------------
(* The inductive invariant.                                                *)

\* Row identities are handed out in order.
RowsBelow ==
    /\ \A j \in 1..Len(accepts) : accepts[j].row < NextRow
    /\ \A i \in 1..Len(actives) : actives[i].row < NextRow

\* A call at `at', with request q, in round r, with guard g, having seen s and
\* been answered a.  It works on a request of the kind its position belongs to.
Placed(at, q, r, a) ==
    /\ at # "idle" => q \in Requests
    /\ at \in {"verify", "capture", "enter"} => q \in AcceptRequests
    /\ at \in {"lookup", "first", "second", "order", "seal"} => q \in ActivateRequests
    /\ at \in {"pending", "reconcile", "commit", "resolve"} => r = "submit"
    /\ at \in {"idle", "capture", "enter", "lookup"} => r = "prepare"
    /\ at = "verify" => r \in {"prepare", "submit"}
    /\ at \notin {"idle", "lookup"} /\ r # "replay" => q.expected < MaxAccepted
    /\ at # "pending" => a = "none"

\* What a reader has seen of a chain is still there.
SeenIsPast(at, s) ==
    /\ s.active <= Len(actives)
    /\ s.accepted <= Len(accepts)
    /\ at = "order" => Joined(s.active, s.accepted)

Holds(r) == r \in {"submit", "resubmit"}

\* An acceptance's ticket: rows that have not changed still say what they said.
AcceptTicket(q, r, g) ==
    /\ g.access <= access.rows
    /\ g.registry <= registry.rows
    /\ q \in AcceptRequests =>
          /\ g.registry = registry.rows => registry.revision = BindingOf[q.seal]
          /\ Holds(r) /\ g.access = access.rows => access.permits

\* An activation's ticket names an acceptance of the chain, newer than the
\* active one unless another activation came in between.
ActivateTicket(at, q, r, g) ==
    q \in ActivateRequests /\ (Holds(r) \/ (at = "seal" /\ r = "prepare")) =>
        /\ g.revision \in 1..Len(accepts)
        /\ accepts[g.revision].req = q.acc
        /\ q.expected <= Len(actives)
        /\ q.expected = Len(actives) /\ Len(actives) > 0 =>
              Revision(actives[Len(actives)]) # g.revision

\* A publication that was found available stays published or is released; an
\* event that was found stays.
Published(q, r) ==
    /\ q \in ActivateRequests /\ Holds(r) =>
          publication[q.acc.seal] \in {"sealed", "released"}
    /\ r = "resubmit" => IsEvent(q)

\* An activation request that no transaction can commit any more.
Dead(q) ==
    \/ q.expected < Len(actives)
    \/ q.acc.expected + 1 < Len(accepts)
    \/ publication[q.acc.seal] = "released"

Answered(q, a) ==
    /\ a = "committed" => IsEvent(q)
    /\ a = "lost" /\ q \in ActivateRequests => ~IsEvent(q) /\ Dead(q)

Fits(at, q, r, g, s, a) ==
    /\ Placed(at, q, r, a) /\ SeenIsPast(at, s) /\ AcceptTicket(q, r, g)
    /\ ActivateTicket(at, q, r, g) /\ Published(q, r) /\ Answered(q, a)

CallInv(c) == Fits(pc[c], req[c], round[c], guard[c], seen[c], answer[c])

IInv ==
    /\ TypeOK /\ ChainsJoin /\ RowsBelow
    /\ \A c \in Callers : CallInv(c)

-----------------------------------------------------------------------------
(* Typing.                                                                 *)

\* The fields of acceptance and activation requests have their types.
LEMMA RequestTypes ==
    /\ \A q \in AcceptRequests : q.op \in Ops /\ q.expected \in Nat /\ q.seal \in Seals
    /\ \A q \in ActivateRequests : q.op \in Ops /\ q.expected \in Nat /\ q.acc \in AcceptRequests
    /\ \A q \in Requests : SealOf(q) \in Seals /\ q.expected \in Nat
BY RequestAssumption DEF SealOf, IsAccept, Requests

\* The empty guard and the empty sighting have their types.
LEMMA ConstantTypes == NoGuard \in GuardRows /\ Unseen \in [active : Nat, accepted : Nat]
BY DEF NoGuard, GuardRows, Unseen

\* The initial state: no event, no row, no call.
LEMMA InitHolds == Init => IInv
<1> SUFFICES ASSUME Init PROVE IInv
    OBVIOUS
<1>1. TypeOK
    <2>1. /\ publication \in [Seals -> {"none", "staged", "sealed", "released"}]
          /\ access \in [rows : Nat, permits : BOOLEAN] /\ expired \in BOOLEAN
          /\ registry \in [rows : Nat, revision : Nat]
        BY DEF Init
    <2>2. /\ accepts \in Seq(AcceptEvent) /\ Len(accepts) <= MaxAccepted
          /\ actives \in Seq(ActiveEvent) /\ Len(actives) <= MaxAccepted
        BY LimitAssumption DEF Init
    <2>3. /\ pc \in [Callers -> PCs]
          /\ req \in [Callers -> Requests \cup {NoRequest}]
          /\ round \in [Callers -> Rounds]
          /\ answer \in [Callers -> Answers]
        BY DEF Init, PCs, Rounds, Answers
    <2>4. guard \in [Callers -> GuardRows] /\ seen \in [Callers -> [active : Nat, accepted : Nat]]
        BY ConstantTypes DEF Init
    <2> QED
        BY <2>1, <2>2, <2>3, <2>4 DEF TypeOK
<1>2. ChainsJoin /\ RowsBelow
    BY DEF Init, ChainsJoin, RowsBelow, Joined, OpsIn, NextRow
<1>3. ASSUME NEW c \in Callers PROVE CallInv(c)
    <2>1. /\ pc[c] = "idle" /\ req[c] = NoRequest /\ round[c] = "prepare" /\ answer[c] = "none"
          /\ guard[c] = NoGuard /\ seen[c] = Unseen
        BY DEF Init
    <2> QED
        BY <2>1, RequestAssumption
        DEF Init, CallInv, Fits, Placed, SeenIsPast, AcceptTicket, ActivateTicket, Published, Answered, Holds,
            NoGuard, Unseen, Requests
<1> QED
    BY <1>1, <1>2, <1>3 DEF IInv

-----------------------------------------------------------------------------
(* The ways a step treats its call.                                        *)

CallTypes ==
    /\ pc \in [Callers -> PCs]
    /\ req \in [Callers -> Requests \cup {NoRequest}]
    /\ round \in [Callers -> Rounds]
    /\ guard \in [Callers -> GuardRows]
    /\ seen \in [Callers -> [active : Nat, accepted : Nat]]
    /\ answer \in [Callers -> Answers]

\* After the step c's call is this, and every other call is as before.
Becomes(c, at, q, r, g, s, a) ==
    /\ CallTypes'
    /\ pc'[c] = at /\ req'[c] = q /\ round'[c] = r
    /\ guard'[c] = g /\ seen'[c] = s /\ answer'[c] = a
    /\ \A d \in Callers \ {c} :
          /\ pc'[d] = pc[d] /\ req'[d] = req[d] /\ round'[d] = round[d]
          /\ guard'[d] = guard[d] /\ seen'[d] = seen[d] /\ answer'[d] = answer[d]

\* A call that begins: request, position and guard are set.
LEMMA BeginBecomes ==
    ASSUME CallTypes, NEW c \in Callers, NEW q \in Requests, NEW at \in PCs,
           NEW g \in GuardRows, Begin(c, q, at, g)
    PROVE  Becomes(c, at, q, round[c], g, seen[c], answer[c])
BY DEF CallTypes, Becomes, Begin

\* A call that moves on: only its position changes.
LEMMA GotoBecomes ==
    ASSUME CallTypes, NEW c \in Callers, NEW at \in PCs, Goto(c, at)
    PROVE  Becomes(c, at, req[c], round[c], guard[c], seen[c], answer[c])
BY DEF CallTypes, Becomes, Goto

\* A call that starts a pass of checks: position and round change.
LEMMA PassBecomes ==
    ASSUME CallTypes, NEW c \in Callers, NEW at \in PCs, NEW r \in Rounds, Pass(c, r, at)
    PROVE  Becomes(c, at, req[c], r, guard[c], seen[c], answer[c])
BY DEF CallTypes, Becomes, Pass

\* A call that returns with its ticket: it waits to be submitted again.
LEMMA KeepBecomes ==
    ASSUME CallTypes, NEW c \in Callers, NEW g \in GuardRows, NEW a \in Answers, Keep(c, g, a)
    PROVE  Becomes(c, "pending", req[c], "submit", g, Unseen, a)
<1>1. "pending" \in PCs /\ "submit" \in Rounds
    BY DEF PCs, Rounds
<1> QED
    BY <1>1, ConstantTypes DEF CallTypes, Becomes, Keep

\* A call that returns without a ticket, or dies: nothing of it is left.
LEMMA ForgetBecomes ==
    ASSUME CallTypes, NEW c \in Callers, Forget(c)
    PROVE  Becomes(c, "idle", NoRequest, "prepare", NoGuard, Unseen, "none")
<1>1. "idle" \in PCs /\ "prepare" \in Rounds /\ "none" \in Answers
    BY DEF PCs, Rounds, Answers
<1> QED
    BY <1>1, ConstantTypes DEF CallTypes, Becomes, Forget

-----------------------------------------------------------------------------
(* What the world and the chains may do, and that it disturbs no call.     *)

Evolves ==
    /\ Len(accepts) <= Len(accepts')
    /\ \A j \in 1..Len(accepts) : accepts'[j] = accepts[j]
    /\ Len(actives) <= Len(actives')
    /\ \A i \in 1..Len(actives) : actives'[i] = actives[i]
    /\ \A i \in (Len(actives) + 1)..Len(actives') : ~Dead(actives'[i].req)
    /\ access.rows <= access'.rows /\ (access'.rows = access.rows => access' = access)
    /\ registry.rows <= registry'.rows /\ (registry'.rows = registry.rows => registry' = registry)
    /\ \A s \in Seals :
          /\ publication[s] = "sealed" => publication'[s] \in {"sealed", "released"}
          /\ publication[s] = "released" => publication'[s] = "released"

\* A prefix of joined chains is joined, and stays so.
LEMMA JoinedPrefix ==
    ASSUME TypeOK, Joined(Len(actives), Len(accepts)),
           NEW n \in Nat, NEW m \in Nat, n <= Len(actives), m = Len(accepts)
    PROVE  Joined(n, m)
<1>1. Len(actives) \in Nat
    BY DEF TypeOK
<1>2. Joined(Len(actives), m)
    OBVIOUS
<1>3. \A i \in 1..n : i \in 1..Len(actives)
    BY <1>1
<1>4. ASSUME NEW i \in 1..n
      PROVE  /\ \E j \in 1..m : /\ accepts[j].req = actives[i].req.acc
                                /\ accepts[j].row < actives[i].row
             /\ i > 1 => Revision(actives[i - 1]) < Revision(actives[i])
    <2>1. i \in 1..Len(actives)
        BY <1>3
    <2> QED
        BY <1>2, <2>1, Zenon DEF Joined
<1> QED
    BY <1>4, Zenon DEF Joined

\* Chains that only grow keep the joins of activation_history.
LEMMA JoinedStays ==
    ASSUME TypeOK, Evolves, NEW n \in Nat, NEW m \in Nat,
           n <= Len(actives), m <= Len(accepts), Joined(n, m)
    PROVE  Joined(n, m)'
<1>1. Len(actives) \in Nat /\ Len(accepts) \in Nat
    BY DEF TypeOK
<1>2. \A j \in 1..m : accepts'[j] = accepts[j]
    BY <1>1 DEF Evolves
<1>3. \A i \in 1..n : actives'[i] = actives[i]
    BY <1>1 DEF Evolves
<1> SUFFICES ASSUME NEW i \in 1..n
             PROVE  /\ \E j \in 1..m : /\ accepts'[j].req = actives'[i].req.acc
                                       /\ accepts'[j].row < actives'[i].row
                    /\ i > 1 => Revision(actives[i - 1])' < Revision(actives[i])'
    BY DEF Joined
<1>4. PICK j \in 1..m : accepts[j].req = actives[i].req.acc /\ accepts[j].row < actives[i].row
    BY DEF Joined
<1>5. i > 1 => Revision(actives[i - 1]) < Revision(actives[i])
    BY DEF Joined
<1>6. i > 1 => i - 1 \in 1..n
    OBVIOUS
<1> QED
    BY <1>2, <1>3, <1>4, <1>5, <1>6 DEF Revision

\* What a call that does not move relies on survives every step of others.
LEMMA FitsStays ==
    ASSUME TypeOK, TypeOK', Evolves, NEW at, NEW q, NEW r, NEW g \in GuardRows,
           NEW s \in [active : Nat, accepted : Nat], NEW a, Fits(at, q, r, g, s, a)
    PROVE  Fits(at, q, r, g, s, a)'
<1>0. /\ Len(actives) \in Nat /\ Len(accepts) \in Nat
      /\ Len(actives') \in Nat /\ Len(accepts') \in Nat
      /\ access.rows \in Nat /\ access'.rows \in Nat
      /\ registry.rows \in Nat /\ registry'.rows \in Nat
    BY DEF TypeOK
<1>e. ASSUME IsEvent(q) PROVE IsEvent(q)'
    <2>1. CASE IsAccept(q)
        <3>1. PICK i \in 1..Len(accepts) : accepts[i].req = q
            BY <1>e, <2>1 DEF IsEvent
        <3>2. i \in 1..Len(accepts') /\ accepts'[i].req = q
            BY <3>1, <1>0 DEF Evolves
        <3> QED
            BY <2>1, <3>2 DEF IsEvent, IsAccept
    <2>2. CASE ~IsAccept(q)
        <3>1. PICK i \in 1..Len(actives) : actives[i].req = q
            BY <1>e, <2>2 DEF IsEvent
        <3>2. i \in 1..Len(actives') /\ actives'[i].req = q
            BY <3>1, <1>0 DEF Evolves
        <3> QED
            BY <2>2, <3>2 DEF IsEvent, IsAccept
    <2> QED
        BY <2>1, <2>2
<1>1. Placed(at, q, r, a)'
    BY DEF Fits, Placed
<1>2. SeenIsPast(at, s)'
    <2>1. s.active \in Nat /\ s.accepted \in Nat
        BY <1>0
    <2>2. s.active <= Len(actives) /\ s.accepted <= Len(accepts)
        BY DEF Fits, SeenIsPast
    <2>3. s.active <= Len(actives') /\ s.accepted <= Len(accepts')
        BY <1>0, <2>1, <2>2 DEF Evolves
    <2>4. at = "order" => Joined(s.active, s.accepted)'
        BY <2>1, <2>2, JoinedStays DEF Fits, SeenIsPast
    <2> QED
        BY <2>3, <2>4 DEF SeenIsPast
<1>3. AcceptTicket(q, r, g)'
    <2>1. g.access \in Nat /\ g.registry \in Nat
        BY <1>0 DEF GuardRows
    <2>2. g.access <= access'.rows /\ g.registry <= registry'.rows
        BY <1>0, <2>1, SMTT(30) DEF Fits, AcceptTicket, Evolves
    <2>3. g.registry = registry'.rows => registry' = registry
        BY <1>0, <2>1 DEF Fits, AcceptTicket, Evolves
    <2>4. g.access = access'.rows => access' = access
        BY <1>0, <2>1 DEF Fits, AcceptTicket, Evolves
    <2> QED
        BY <2>2, <2>3, <2>4 DEF Fits, AcceptTicket, Holds
<1>4. ActivateTicket(at, q, r, g)'
    <2> SUFFICES ASSUME q \in ActivateRequests, Holds(r) \/ (at = "seal" /\ r = "prepare")
                 PROVE  LET n == g.revision IN
                        /\ n \in 1..Len(accepts')
                        /\ accepts'[n].req = q.acc
                        /\ q.expected <= Len(actives')
                        /\ q.expected = Len(actives') /\ Len(actives') > 0
                              => Revision(actives'[Len(actives')]) # n
        BY DEF ActivateTicket, Holds, Revision
    <2>1. /\ g.revision \in 1..Len(accepts)
          /\ accepts[g.revision].req = q.acc
          /\ q.expected <= Len(actives)
          /\ q.expected = Len(actives) /\ Len(actives) > 0
                => Revision(actives[Len(actives)]) # g.revision
        BY DEF Fits, ActivateTicket
    <2>2. q.expected \in Nat
        BY RequestTypes
    <2>3. /\ g.revision \in 1..Len(accepts')
          /\ accepts'[g.revision].req = q.acc
        BY <1>0, <2>1 DEF Evolves
    <2>4. q.expected <= Len(actives')
        BY <1>0, <2>1, <2>2 DEF Evolves
    <2>5. CASE Len(actives') = Len(actives)
        BY <1>0, <2>1, <2>3, <2>4, <2>5 DEF Evolves
    <2>6. CASE Len(actives') # Len(actives)
        <3>1. q.expected # Len(actives')
            BY <1>0, <2>1, <2>2, <2>6 DEF Evolves
        <3> QED
            BY <3>1, <2>3, <2>4
    <2> QED
        BY <2>5, <2>6
<1>5. Published(q, r)'
    BY <1>e, RequestTypes DEF Fits, Published, Holds, Evolves
<1>6. Answered(q, a)'
    <2>2. ASSUME q \in ActivateRequests, ~IsEvent(q), Dead(q)
          PROVE  ~IsEvent(q)'
        <3>1. ~IsAccept(q)
            BY <2>2, RequestAssumption DEF IsAccept
        <3>2. ASSUME NEW i \in 1..Len(actives') PROVE actives'[i].req # q
            <4>1. CASE i \in 1..Len(actives)
                BY <4>1, <3>1, <2>2 DEF IsEvent, Evolves
            <4>2. CASE i \in (Len(actives) + 1)..Len(actives')
                BY <4>2, <2>2 DEF Evolves
            <4> QED
                BY <1>0, <4>1, <4>2
        <3> QED
            BY <3>1, <3>2 DEF IsEvent, IsAccept
    <2>3. ASSUME q \in ActivateRequests, Dead(q)
          PROVE  Dead(q)'
        <3>1. /\ q.expected \in Nat /\ q.acc.expected \in Nat
              /\ q.acc.seal \in Seals
            BY <2>3, RequestTypes
        <3>2. CASE q.expected < Len(actives)
            BY <3>1, <3>2, <1>0 DEF Dead, Evolves
        <3>3. CASE q.acc.expected + 1 < Len(accepts)
            BY <3>1, <3>3, <1>0 DEF Dead, Evolves
        <3>4. CASE publication[q.acc.seal] = "released"
            BY <3>1, <3>4 DEF Dead, Evolves
        <3> QED
            BY <2>3, <3>2, <3>3, <3>4 DEF Dead
    <2> QED
        BY <1>e, <2>2, <2>3 DEF Fits, Answered
<1> QED
    BY <1>1, <1>2, <1>3, <1>4, <1>5, <1>6 DEF Fits

\* A call that does not move is undisturbed.
LEMMA Stable ==
    ASSUME TypeOK, TypeOK', Evolves, NEW c \in Callers, CallInv(c),
           pc'[c] = pc[c], req'[c] = req[c], round'[c] = round[c],
           guard'[c] = guard[c], seen'[c] = seen[c], answer'[c] = answer[c]
    PROVE  CallInv(c)'
<1> DEFINE at == pc[c]
           q == req[c]
           r == round[c]
           g == guard[c]
           s == seen[c]
           a == answer[c]
<1>1. g \in GuardRows /\ s \in [active : Nat, accepted : Nat]
    BY DEF TypeOK
<1>2. PICK at1, q1, r1, g1, s1, a1 :
          at1 = at /\ q1 = q /\ r1 = r /\ g1 = g /\ s1 = s /\ a1 = a
    OBVIOUS
<1>3. Fits(at1, q1, r1, g1, s1, a1)
    BY <1>2 DEF CallInv
<1>4. Fits(at1, q1, r1, g1, s1, a1)'
    BY <1>1, <1>2, <1>3, FitsStays
<1> QED
    BY <1>2, <1>4 DEF CallInv

\* A step that leaves world and chains alone is an evolution.
LEMMA Unmoved == UNCHANGED <<world, chains>> /\ TypeOK => Evolves
<1> SUFFICES ASSUME UNCHANGED <<world, chains>>, TypeOK PROVE Evolves
    OBVIOUS
<1>1. Len(actives) \in Nat /\ Len(accepts) \in Nat /\ access.rows \in Nat /\ registry.rows \in Nat
    BY DEF TypeOK
<1> QED
    BY <1>1 DEF Evolves, world, chains

\* A step of one call that leaves database and world alone.
LEMMA QuietStep ==
    ASSUME IInv, NEW c \in Callers, UNCHANGED <<world, chains>>,
           NEW at, NEW q, NEW r, NEW g, NEW s, NEW a,
           Becomes(c, at, q, r, g, s, a), Fits(at, q, r, g, s, a)
    PROVE  IInv'
<1>1. TypeOK'
    BY DEF IInv, TypeOK, Becomes, CallTypes, world, chains
<1>2. ChainsJoin' /\ RowsBelow'
    <2>1. accepts' = accepts /\ actives' = actives
        BY DEF chains
    <2>2. OpsIn(accepts)' = OpsIn(accepts) /\ OpsIn(actives)' = OpsIn(actives)
        BY <2>1 DEF OpsIn
    <2>3. Joined(Len(actives), Len(accepts))'
        BY <2>1 DEF IInv, ChainsJoin, Joined, Revision
    <2> QED
        BY <2>1, <2>2, <2>3 DEF IInv, ChainsJoin, RowsBelow, NextRow
<1>3. CallInv(c)'
    <2>1. /\ pc'[c] = at /\ req'[c] = q /\ round'[c] = r
          /\ guard'[c] = g /\ seen'[c] = s /\ answer'[c] = a
        BY DEF Becomes
    <2>2. Placed(pc[c], req[c], round[c], answer[c])' /\ SeenIsPast(pc[c], seen[c])'
        BY <2>1 DEF Fits, Placed, SeenIsPast, Joined, Revision, chains
    <2>3. AcceptTicket(req[c], round[c], guard[c])' /\ Published(req[c], round[c])'
        BY <2>1 DEF Fits, AcceptTicket, Published, Holds, IsEvent, IsAccept, world, chains
    <2>4. ActivateTicket(pc[c], req[c], round[c], guard[c])'
        BY <2>1 DEF Fits, ActivateTicket, Holds, Revision, chains
    <2>5. Answered(req[c], answer[c])'
        BY <2>1 DEF Fits, Answered, IsEvent, IsAccept, Dead, chains, world
    <2> QED
        BY <2>2, <2>3, <2>4, <2>5 DEF CallInv, Fits
<1>4. ASSUME NEW d \in Callers, d # c PROVE CallInv(d)'
    <2>1. /\ pc'[d] = pc[d] /\ req'[d] = req[d] /\ round'[d] = round[d]
          /\ guard'[d] = guard[d] /\ seen'[d] = seen[d] /\ answer'[d] = answer[d]
        BY <1>4 DEF Becomes
    <2>2. TypeOK /\ ChainsJoin /\ CallInv(d)
        BY DEF IInv
    <2>3. Evolves
        BY <2>2, Unmoved
    <2> QED
        BY <1>1, <2>1, <2>2, <2>3, Stable
<1> QED
    BY <1>1, <1>2, <1>3, <1>4 DEF IInv

\* Lengths and row counts are numbers, and calls are typed.
LEMMA Naturals ==
    ASSUME TypeOK
    PROVE  /\ Len(actives) \in Nat /\ Len(accepts) \in Nat
           /\ access.rows \in Nat /\ registry.rows \in Nat
           /\ CallTypes
           /\ \A c \in Callers : guard[c] \in GuardRows /\ seen[c] \in [active : Nat, accepted : Nat]
BY DEF TypeOK, CallTypes

-----------------------------------------------------------------------------
(* One lemma per kind of step.                                             *)

\* A call returns without a ticket, or its caller dies.
LEMMA ForgetKeeps ==
    ASSUME IInv, NEW c \in Callers, UNCHANGED <<world, chains>>, Forget(c)
    PROVE  IInv'
<1>0. TypeOK
    BY DEF IInv
<1>1. Becomes(c, "idle", NoRequest, "prepare", NoGuard, Unseen, "none")
    BY <1>0, Naturals, ForgetBecomes
<1>2. Fits("idle", NoRequest, "prepare", NoGuard, Unseen, "none")
    BY <1>0, Naturals, RequestAssumption
    DEF Fits, Placed, SeenIsPast, AcceptTicket, ActivateTicket, Published, Answered, Holds,
        NoGuard, Unseen
<1> QED
    BY <1>1, <1>2, QuietStep

\* The call returns and keeps a ticket that is in order.
LEMMA KeepKeeps ==
    ASSUME IInv, NEW c \in Callers, UNCHANGED <<world, chains>>, NEW a \in Answers,
           Keep(c, guard[c], a), req[c] \in Requests, req[c].expected < MaxAccepted,
           AcceptTicket(req[c], "submit", guard[c]),
           ActivateTicket("pending", req[c], "submit", guard[c]),
           Published(req[c], "submit"), Answered(req[c], a)
    PROVE  IInv'
<1>0. TypeOK
    BY DEF IInv
<1>1. Becomes(c, "pending", req[c], "submit", guard[c], Unseen, a)
    BY <1>0, Naturals, KeepBecomes
<1>2. Placed("pending", req[c], "submit", a) /\ SeenIsPast("pending", Unseen)
    BY <1>0, Naturals DEF Placed, SeenIsPast, Unseen
<1> QED
    BY <1>1, <1>2, QuietStep DEF Fits

\* The same, when the call had the ticket before.
LEMMA TicketKept ==
    ASSUME IInv, NEW c \in Callers, UNCHANGED <<world, chains>>, NEW a \in Answers,
           Keep(c, guard[c], a), Holds(round[c]), Answered(req[c], a)
    PROVE  IInv'
<1>1. Fits(pc[c], req[c], round[c], guard[c], seen[c], answer[c])
    BY DEF IInv, CallInv
<1>2. pc[c] \notin {"idle", "lookup"} /\ round[c] # "replay"
    BY <1>1 DEF Fits, Placed, Holds
<1>3. req[c] \in Requests /\ req[c].expected < MaxAccepted
    BY <1>1, <1>2 DEF Fits, Placed
<1>4. AcceptTicket(req[c], "submit", guard[c]) /\ Published(req[c], "submit")
    BY <1>1 DEF Fits, AcceptTicket, Published, Holds
<1>5. ActivateTicket("pending", req[c], "submit", guard[c])
    BY <1>1 DEF Fits, ActivateTicket, Holds
<1> QED
    BY <1>3, <1>4, <1>5, KeepKeeps

\* An error and an unknown outcome claim nothing.
LEMMA NoAnswer == \A q : Answered(q, "none") /\ Answered(q, "unknown")
BY DEF Answered

\* A read, a check or the custody lock of a call refuses.
LEMMA ReturnKeeps ==
    ASSUME IInv, NEW c \in Callers, UNCHANGED <<world, chains>>, Return(c, "none")
    PROVE  IInv'
<1>1. CASE HasTicket(c)
    <2>1. Keep(c, guard[c], "none") /\ Holds(round[c])
        BY <1>1 DEF Return, HasTicket, Holds
    <2>2. "none" \in Answers
        BY DEF Answers
    <2> QED
        BY <2>1, <2>2, NoAnswer, TicketKept
<1>2. CASE ~HasTicket(c)
    BY <1>2, ForgetKeeps DEF Return
<1> QED
    BY <1>1, <1>2

\* The call moves on: what it holds stays in order at its new position.
LEMMA GotoKeeps ==
    ASSUME IInv, NEW c \in Callers, UNCHANGED <<world, chains>>, NEW at \in PCs,
           Goto(c, at), pc[c] # "pending", at # "order",
           Placed(at, req[c], round[c], "none"),
           ActivateTicket(at, req[c], round[c], guard[c])
    PROVE  IInv'
<1>0. TypeOK
    BY DEF IInv
<1>1. Fits(pc[c], req[c], round[c], guard[c], seen[c], answer[c])
    BY DEF IInv, CallInv
<1>2. answer[c] = "none"
    BY <1>1 DEF Fits, Placed
<1>3. Becomes(c, at, req[c], round[c], guard[c], seen[c], answer[c])
    BY <1>0, Naturals, GotoBecomes
<1>4. Fits(at, req[c], round[c], guard[c], seen[c], answer[c])
    BY <1>1, <1>2 DEF Fits, SeenIsPast
<1> QED
    BY <1>3, <1>4, QuietStep

\* What the invariant says of the call of c.
LEMMA CallFacts ==
    ASSUME IInv, NEW c \in Callers
    PROVE  /\ TypeOK /\ CallTypes
           /\ Len(actives) \in Nat /\ Len(accepts) \in Nat
           /\ access.rows \in Nat /\ registry.rows \in Nat
           /\ guard[c] \in GuardRows /\ seen[c] \in [active : Nat, accepted : Nat]
           /\ Fits(pc[c], req[c], round[c], guard[c], seen[c], answer[c])
BY Naturals DEF IInv, CallInv

\* prepare of an acceptance: limit checked, registry rows captured.
LEMMA PrepareAcceptKeeps ==
    ASSUME IInv, NEW c \in Callers, NEW q \in AcceptRequests, PrepareAccept(c, q)
    PROVE  IInv'
<1> DEFINE g == [NoGuard EXCEPT !.registry = registry.rows]
<1>1. g \in GuardRows /\ g.access = 0 /\ g.registry = registry.rows
    BY CallFacts DEF NoGuard, GuardRows
<1>2. Begin(c, q, "verify", g) /\ q \in Requests /\ "verify" \in PCs
    BY DEF PrepareAccept, Requests, PCs
<1> HIDE DEF g
<1>3. Becomes(c, "verify", q, round[c], g, seen[c], answer[c])
    BY <1>1, <1>2, CallFacts, BeginBecomes
<1>4. pc[c] = "idle" /\ round[c] = "prepare" /\ answer[c] = "none"
    BY <1>2, CallFacts DEF Begin, Fits, Placed
<1>5. Placed("verify", q, round[c], answer[c]) /\ SeenIsPast("verify", seen[c])
    BY <1>2, <1>4, CallFacts DEF PrepareAccept, Placed, SeenIsPast, Fits
<1>6. AcceptTicket(q, round[c], g)
    BY <1>1, <1>4, CallFacts DEF PrepareAccept, AcceptTicket, Holds
<1>7. ActivateTicket("verify", q, round[c], g) /\ Published(q, round[c]) /\ Answered(q, answer[c])
    BY <1>4, RequestAssumption DEF ActivateTicket, Published, Answered, Holds
<1> QED
    BY <1>3, <1>5, <1>6, <1>7, QuietStep DEF Fits, PrepareAccept

\* prepare_activation and activate begin alike.
LEMMA BeginActivationKeeps ==
    ASSUME IInv, NEW c \in Callers, NEW q \in ActivateRequests, NEW at \in {"first", "lookup"},
           at = "first" => q.expected < MaxAccepted,
           Begin(c, q, at, NoGuard), UNCHANGED <<world, chains>>
    PROVE  IInv'
<1>1. q \in Requests /\ at \in PCs /\ q \notin AcceptRequests
    BY RequestAssumption DEF Requests, PCs
<1>2. Becomes(c, at, q, round[c], NoGuard, seen[c], answer[c])
    BY <1>1, CallFacts, ConstantTypes, BeginBecomes
<1>3. pc[c] = "idle" /\ round[c] = "prepare" /\ answer[c] = "none"
    BY CallFacts DEF Begin, Fits, Placed
<1>4. Placed(at, q, round[c], answer[c]) /\ SeenIsPast(at, seen[c])
    BY <1>1, <1>3, CallFacts DEF Placed, SeenIsPast, Fits
<1>5. AcceptTicket(q, round[c], NoGuard)
    BY <1>1, CallFacts DEF AcceptTicket, NoGuard
<1>6. ActivateTicket(at, q, round[c], NoGuard) /\ Published(q, round[c]) /\ Answered(q, answer[c])
    BY <1>3 DEF ActivateTicket, Published, Answered, Holds
<1> QED
    BY <1>2, <1>4, <1>5, <1>6, QuietStep DEF Fits

\* Sealed::verify, before the ticket is built and before its transaction.
LEMMA VerifySealKeeps ==
    ASSUME IInv, NEW c \in Callers, VerifySeal(c)
    PROVE  IInv'
<1> DEFINE at == IF HasTicket(c) THEN "commit" ELSE "capture"
<1>1. Goto(c, at) /\ at \in PCs /\ pc[c] = "verify" /\ at # "order" /\ UNCHANGED <<world, chains>>
    BY DEF VerifySeal, PCs
<1>2. Placed(at, req[c], round[c], "none")
    BY <1>1, CallFacts DEF Fits, Placed, HasTicket
<1>3. ActivateTicket(at, req[c], round[c], guard[c])
    BY <1>1, CallFacts, RequestAssumption DEF Fits, Placed, ActivateTicket
<1> HIDE DEF at
<1> QED
    BY <1>1, <1>2, <1>3, GotoKeeps

\* authority captures the access rows before it authenticates.
LEMMA CaptureAuthorityKeeps ==
    ASSUME IInv, NEW c \in Callers, CaptureAuthority(c)
    PROVE  IInv'
<1> DEFINE g == [guard[c] EXCEPT !.access = access.rows]
<1>1. g \in GuardRows /\ g.access = access.rows /\ g.registry = guard[c].registry
    BY CallFacts DEF GuardRows
<1>2. Becomes(c, "enter", req[c], round[c], g, seen[c], answer[c])
    <2>1. "enter" \in PCs
        BY DEF PCs
    <2> QED
        BY <1>1, <2>1, CallFacts DEF CaptureAuthority, Becomes, CallTypes
<1>3. pc[c] = "capture" /\ round[c] = "prepare" /\ req[c] \in AcceptRequests
    BY CallFacts DEF CaptureAuthority, Fits, Placed
<1> HIDE DEF g
<1>4. Placed("enter", req[c], round[c], answer[c]) /\ SeenIsPast("enter", seen[c])
    BY <1>3, CallFacts DEF Placed, SeenIsPast, Fits
<1>5. AcceptTicket(req[c], round[c], g)
    BY <1>1, <1>3, CallFacts DEF AcceptTicket, Fits, Holds
<1>6. ActivateTicket("enter", req[c], round[c], g) /\ Published(req[c], round[c])
    BY <1>3, RequestAssumption DEF ActivateTicket, Published
<1> QED
    BY <1>2, <1>4, <1>5, <1>6, CallFacts, QuietStep DEF Fits, CaptureAuthority

\* enter_publish: rows that are unchanged since the capture permit.
LEMMA EnterPublishKeeps ==
    ASSUME IInv, NEW c \in Callers, EnterPublish(c)
    PROVE  IInv'
<1>1. pc[c] = "enter" /\ access.permits /\ Keep(c, guard[c], "none") /\ UNCHANGED <<world, chains>>
    BY DEF EnterPublish
<1>2. req[c] \in AcceptRequests /\ req[c] \in Requests /\ req[c].expected < MaxAccepted
    BY <1>1, CallFacts DEF Fits, Placed
<1>3. AcceptTicket(req[c], "submit", guard[c])
    BY <1>1, CallFacts DEF Fits, AcceptTicket
<1>4. ActivateTicket("pending", req[c], "submit", guard[c]) /\ Published(req[c], "submit")
    BY <1>2, RequestAssumption DEF ActivateTicket, Published
<1>5. "none" \in Answers
    BY DEF Answers
<1> QED
    BY <1>1, <1>2, <1>3, <1>4, <1>5, NoAnswer, KeepKeeps

\* The lookup of activate opens a prepare pass or a replay.
LEMMA LookupKeeps ==
    ASSUME IInv, NEW c \in Callers, NEW r \in {"prepare", "replay"}, pc[c] = "lookup",
           r = "prepare" => req[c].expected < MaxAccepted,
           Pass(c, r, "first"), UNCHANGED <<world, chains>>
    PROVE  IInv'
<1>1. "first" \in PCs /\ r \in Rounds
    BY DEF PCs, Rounds
<1>2. Becomes(c, "first", req[c], r, guard[c], seen[c], answer[c])
    BY <1>1, CallFacts, PassBecomes
<1>3. Placed("first", req[c], r, answer[c]) /\ SeenIsPast("first", seen[c])
    BY CallFacts DEF Fits, Placed, SeenIsPast
<1>4. req[c] \in ActivateRequests /\ req[c] \notin AcceptRequests
    BY CallFacts, RequestAssumption DEF Fits, Placed
<1>5. AcceptTicket(req[c], r, guard[c])
    BY <1>4, CallFacts DEF Fits, AcceptTicket
<1>6. ActivateTicket("first", req[c], r, guard[c]) /\ Published(req[c], r)
    BY DEF ActivateTicket, Published, Holds
<1> QED
    BY <1>2, <1>3, <1>5, <1>6, CallFacts, QuietStep DEF Fits

\* The active rows are read first, so the acceptances read next hold them all.
LEMMA ReadChainKeeps ==
    ASSUME IInv, NEW c \in Callers, ReadChain(c)
    PROVE  IInv'
<1>0. "order" \in PCs /\ "second" \in PCs
    BY DEF PCs
<1>1. req[c] \in ActivateRequests /\ req[c] \notin AcceptRequests
    BY CallFacts, RequestAssumption DEF ReadChain, Fits, Placed
<1>2. CASE pc[c] = "first"
    <2> DEFINE s == [seen[c] EXCEPT !.active = Len(actives)]
    <2>1. s \in [active : Nat, accepted : Nat] /\ s.active = Len(actives) /\ s.accepted = seen[c].accepted
        BY CallFacts
    <2>2. Becomes(c, "second", req[c], round[c], guard[c], s, answer[c])
        BY <1>0, <1>2, <2>1, CallFacts DEF ReadChain, ReadOrder, LengthOf, Becomes, CallTypes
    <2> HIDE DEF s
    <2>3. Placed("second", req[c], round[c], answer[c]) /\ SeenIsPast("second", s)
        BY <1>2, <2>1, CallFacts DEF Fits, Placed, SeenIsPast
    <2>4. ActivateTicket("second", req[c], round[c], guard[c])
        BY CallFacts DEF Fits, ActivateTicket
    <2> QED
        BY <2>2, <2>3, <2>4, CallFacts, QuietStep DEF Fits, ReadChain
<1>3. CASE pc[c] = "second"
    <2> DEFINE s == [seen[c] EXCEPT !.accepted = Len(accepts)]
    <2>1. s \in [active : Nat, accepted : Nat] /\ s.active = seen[c].active /\ s.accepted = Len(accepts)
        BY CallFacts
    <2>2. Becomes(c, "order", req[c], round[c], guard[c], s, answer[c])
        BY <1>0, <1>3, <2>1, CallFacts DEF ReadChain, ReadOrder, LengthOf, Becomes, CallTypes
    <2> HIDE DEF s
    <2>3. s.active <= Len(actives)
        BY <2>1, CallFacts DEF Fits, SeenIsPast
    <2>4. Joined(s.active, s.accepted)
        BY <2>1, <2>3, CallFacts, JoinedPrefix DEF IInv, ChainsJoin
    <2>5. Placed("order", req[c], round[c], answer[c]) /\ SeenIsPast("order", s)
        BY <1>3, <2>1, <2>3, <2>4, CallFacts DEF Fits, Placed, SeenIsPast
    <2>6. ActivateTicket("order", req[c], round[c], guard[c])
        BY CallFacts DEF Fits, ActivateTicket
    <2> QED
        BY <2>2, <2>5, <2>6, CallFacts, QuietStep DEF Fits, ReadChain
<1> QED
    BY <1>2, <1>3 DEF ReadChain

\* The checks of the prepare pass establish the ticket's facts.
LEMMA CheckActivationOrderKeeps ==
    ASSUME IInv, NEW c \in Callers, CheckActivationOrder(c)
    PROVE  IInv'
<1> DEFINE g == IF round[c] = "prepare" THEN [guard[c] EXCEPT !.revision = Len(accepts)] ELSE guard[c]
<1>1. /\ g \in GuardRows /\ g.access = guard[c].access /\ g.registry = guard[c].registry
      /\ round[c] = "prepare" => g.revision = Len(accepts)
      /\ round[c] # "prepare" => g = guard[c]
    BY CallFacts DEF GuardRows
<1>2. Becomes(c, "seal", req[c], round[c], g, Unseen, answer[c])
    <2>1. "seal" \in PCs
        BY DEF PCs
    <2> QED
        BY <1>1, <2>1, CallFacts, ConstantTypes DEF CheckActivationOrder, Becomes, CallTypes
<1> HIDE DEF g
<1>3. pc[c] = "order" /\ req[c] \in ActivateRequests /\ req[c] \notin AcceptRequests
    BY CallFacts, RequestAssumption DEF CheckActivationOrder, Fits, Placed
<1>4. Placed("seal", req[c], round[c], answer[c]) /\ SeenIsPast("seal", Unseen)
    BY <1>3, CallFacts DEF Fits, Placed, SeenIsPast, Unseen
<1>5. AcceptTicket(req[c], round[c], g)
    BY <1>1, <1>3, CallFacts DEF Fits, AcceptTicket
<1>6. ActivateTicket("seal", req[c], round[c], g)
    <2>1. CASE round[c] = "prepare"
        <3> DEFINE n == seen[c].active
        <3>1. /\ req[c].expected = n /\ Len(accepts) > 0 /\ accepts[Len(accepts)].req = req[c].acc
              /\ n > 0 => Revision(actives[n]) # Len(accepts)
            BY <2>1 DEF CheckActivationOrder, OrderHolds
        <3>2. n \in Nat /\ n <= Len(actives)
            BY CallFacts DEF Fits, SeenIsPast
        <3>3. g.revision = Len(accepts) /\ Len(accepts) \in 1..Len(accepts)
            BY <1>1, <2>1, <3>1, CallFacts
        <3>4. req[c].expected = Len(actives) /\ Len(actives) > 0 =>
                  Revision(actives[Len(actives)]) # Len(accepts)
            BY <3>1
        <3> QED
            BY <3>1, <3>2, <3>3, <3>4 DEF ActivateTicket
    <2>2. CASE round[c] # "prepare"
        BY <1>1, <1>3, <2>2, CallFacts DEF Fits, ActivateTicket
    <2> QED
        BY <2>1, <2>2
<1> QED
    BY <1>2, <1>4, <1>5, <1>6, CallFacts, QuietStep DEF Fits, CheckActivationOrder

\* activation_seal, at the end of each of the four passes of checks.
LEMMA ActivationSealKeeps ==
    ASSUME IInv, NEW c \in Callers, ActivationSeal(c)
    PROVE  IInv'
<1>0. /\ pc[c] = "seal" /\ Available(req[c]) /\ UNCHANGED <<world, chains>>
      /\ "none" \in Answers /\ "committed" \in Answers /\ "commit" \in PCs
    BY DEF ActivationSeal, Answers, PCs
<1>1. req[c] \in ActivateRequests /\ req[c] \notin AcceptRequests /\ req[c] \in Requests
    BY <1>0, CallFacts, RequestAssumption DEF Fits, Placed
<1>2. CASE round[c] = "prepare"
    <2>1. Keep(c, guard[c], "none")
        BY <1>2 DEF ActivationSeal
    <2>2. req[c].expected < MaxAccepted
        BY <1>0, <1>2, CallFacts DEF Fits, Placed
    <2>3. AcceptTicket(req[c], "submit", guard[c])
        BY <1>1, CallFacts DEF Fits, AcceptTicket
    <2>4. ActivateTicket("pending", req[c], "submit", guard[c])
        BY <1>0, <1>2, CallFacts DEF Fits, ActivateTicket
    <2>5. Published(req[c], "submit")
        BY <1>0, <1>1 DEF Published, Available, SealOf, IsAccept
    <2> QED
        BY <1>0, <1>1, <2>1, <2>2, <2>3, <2>4, <2>5, NoAnswer, KeepKeeps
<1>3. CASE round[c] = "replay"
    BY <1>0, <1>3, ForgetKeeps DEF ActivationSeal
<1>4. CASE round[c] = "submit"
    <2>1. Goto(c, "commit")
        BY <1>4 DEF ActivationSeal
    <2>2. Placed("commit", req[c], round[c], "none")
        BY <1>0, <1>4, CallFacts DEF Fits, Placed
    <2>3. ActivateTicket("commit", req[c], round[c], guard[c])
        BY <1>4, CallFacts DEF Fits, ActivateTicket, Holds
    <2> QED
        BY <1>0, <2>1, <2>2, <2>3, GotoKeeps
<1>5. CASE round[c] = "resubmit"
    <2>1. Keep(c, guard[c], "committed")
        BY <1>5 DEF ActivationSeal
    <2>2. Answered(req[c], "committed") /\ Holds(round[c])
        BY <1>5, CallFacts DEF Fits, Published, Answered, Holds
    <2> QED
        BY <1>0, <2>1, <2>2, TicketKept
<1> QED
    BY <1>2, <1>3, <1>4, <1>5, CallFacts DEF TypeOK, Rounds

\* A ticket is submitted: the answer to its last submit is forgotten.
LEMMA SubmitKeeps ==
    ASSUME IInv, NEW c \in Callers, Submit(c)
    PROVE  IInv'
<1>1. Becomes(c, "reconcile", req[c], round[c], guard[c], seen[c], "none")
    <2>1. "reconcile" \in PCs /\ "none" \in Answers
        BY DEF PCs, Answers
    <2> QED
        BY <2>1, CallFacts DEF Submit, Becomes, CallTypes
<1>2. pc[c] = "pending" /\ round[c] = "submit"
    BY CallFacts DEF Submit, Fits, Placed
<1>3. Placed("reconcile", req[c], round[c], "none") /\ SeenIsPast("reconcile", seen[c])
    BY <1>2, CallFacts DEF Fits, Placed, SeenIsPast
<1>4. ActivateTicket("reconcile", req[c], round[c], guard[c])
    BY <1>2, CallFacts DEF Fits, ActivateTicket, Holds
<1> QED
    BY <1>1, <1>3, <1>4, NoAnswer, CallFacts, QuietStep DEF Fits, Submit

\* A receipt with the bytes of a ticket is an event of its request.
LEMMA SameTicketIsEvent == \A c \in Callers : SameTicket(c) => IsEvent(req[c])
BY DEF SameTicket, IsEvent

\* The receipt lookup that opens submit and submit_activation.
LEMMA ReconcileKeeps ==
    ASSUME IInv, NEW c \in Callers, Reconcile(c)
    PROVE  IInv'
<1>0. /\ pc[c] = "reconcile" /\ UNCHANGED <<world, chains>> /\ Holds(round[c])
      /\ round[c] = "submit" /\ req[c] \in Requests /\ req[c].expected < MaxAccepted
    BY CallFacts DEF Reconcile, Fits, Placed, Holds
<1>1. CASE Goto(c, IF IsAccept(req[c]) THEN "verify" ELSE "first")
    <2> DEFINE at == IF IsAccept(req[c]) THEN "verify" ELSE "first"
    <2>1. at \in PCs /\ at # "order" /\ pc[c] # "pending" /\ Goto(c, at)
        BY <1>0, <1>1 DEF PCs
    <2>2. Placed(at, req[c], round[c], "none")
        BY <1>0 DEF Placed, IsAccept, Requests
    <2>3. ActivateTicket(at, req[c], round[c], guard[c])
        BY <1>0, CallFacts DEF Fits, ActivateTicket
    <2> HIDE DEF at
    <2> QED
        BY <1>0, <2>1, <2>2, <2>3, GotoKeeps
<1>2. CASE SameTicket(c) /\ Keep(c, guard[c], "committed")
    <2>1. Answered(req[c], "committed") /\ "committed" \in Answers
        BY <1>2, SameTicketIsEvent DEF Answered, Answers
    <2> QED
        BY <1>0, <1>2, <2>1, TicketKept
<1>3. CASE SameTicket(c) /\ ~IsAccept(req[c]) /\ Pass(c, "resubmit", "first")
    <2>1. "first" \in PCs /\ "resubmit" \in Rounds
        BY DEF PCs, Rounds
    <2>2. Becomes(c, "first", req[c], "resubmit", guard[c], seen[c], answer[c])
        BY <1>3, <2>1, CallFacts, PassBecomes
    <2>3. req[c] \in ActivateRequests /\ req[c] \notin AcceptRequests
        BY <1>0, <1>3 DEF IsAccept, Requests
    <2>4. Placed("first", req[c], "resubmit", answer[c]) /\ SeenIsPast("first", seen[c])
        BY <1>0, <2>3, CallFacts DEF Fits, Placed, SeenIsPast
    <2>5. AcceptTicket(req[c], "resubmit", guard[c])
        BY <2>3, CallFacts DEF Fits, AcceptTicket
    <2>6. ActivateTicket("first", req[c], "resubmit", guard[c])
        BY <1>0, CallFacts DEF Fits, ActivateTicket
    <2>7. Published(req[c], "resubmit")
        BY <1>0, <1>3, SameTicketIsEvent, CallFacts DEF Fits, Published
    <2> QED
        BY <1>0, <2>2, <2>4, <2>5, <2>6, <2>7, CallFacts, QuietStep DEF Fits
<1> QED
    BY <1>1, <1>2, <1>3 DEF Reconcile

\* The members of the chains are events.
LEMMA EventTypes ==
    ASSUME TypeOK
    PROVE  /\ \A j \in 1..Len(accepts) : accepts[j].row \in Nat /\ accepts[j].req \in AcceptRequests
           /\ \A i \in 1..Len(actives) : actives[i].row \in Nat /\ actives[i].req \in ActivateRequests
<1>1. \A j \in 1..Len(accepts) : accepts[j] \in AcceptEvent
    BY DEF TypeOK
<1>2. \A i \in 1..Len(actives) : actives[i] \in ActiveEvent
    BY DEF TypeOK
<1> QED
    BY <1>1, <1>2 DEF AcceptEvent, ActiveEvent

\* Appending an event adds its operation.
LEMMA OpsAppend ==
    ASSUME NEW S, NEW s \in Seq(S), NEW e \in S
    PROVE  OpsIn(Append(s, e)) = OpsIn(s) \cup {e.req.op}
<1> DEFINE z == Append(s, e)
<1>1. /\ Len(z) = Len(s) + 1 /\ Len(s) \in Nat
      /\ \A i \in 1..Len(s) : z[i] = s[i]
      /\ z[Len(s) + 1] = e
    OBVIOUS
<1> HIDE DEF z
<1>2. ASSUME NEW x \in OpsIn(z) PROVE x \in OpsIn(s) \cup {e.req.op}
    <2>1. PICK i \in 1..Len(z) : x = z[i].req.op
        BY <1>2 DEF OpsIn
    <2>2. i \in 1..Len(s) \/ i = Len(s) + 1
        BY <1>1
    <2> QED
        BY <1>1, <2>1, <2>2 DEF OpsIn
<1>3. ASSUME NEW x \in OpsIn(s) PROVE x \in OpsIn(z)
    <2>1. PICK i \in 1..Len(s) : x = s[i].req.op
        BY <1>3 DEF OpsIn
    <2>2. i \in 1..Len(z) /\ z[i] = s[i]
        BY <1>1
    <2> QED
        BY <2>1, <2>2 DEF OpsIn
<1>4. e.req.op \in OpsIn(z)
    <2>1. Len(s) + 1 \in 1..Len(z)
        BY <1>1
    <2> QED
        BY <1>1, <2>1 DEF OpsIn
<1>5. OpsIn(z) = OpsIn(s) \cup {e.req.op}
    BY <1>2, <1>3, <1>4
<1> QED
    BY <1>5 DEF z

\* What has no receipt has no event.
LEMMA UnusedIsNoEvent ==
    ASSUME NEW q \in Requests, ~Used(q.op) PROVE ~IsEvent(q)
BY DEF Used, OpsIn, IsEvent

\* A ticket whose guards fail can never be committed.
LEMMA RefusedIsDead ==
    ASSUME IInv, NEW c \in Callers, req[c] \in ActivateRequests, Holds(round[c]),
           ~ActivateGuards(req[c], guard[c])
    PROVE  Dead(req[c])
<1> DEFINE q == req[c]
           r == guard[c].revision
<1>1. /\ r \in 1..Len(accepts) /\ accepts[r].req = q.acc /\ q.expected <= Len(actives)
      /\ publication[q.acc.seal] \in {"sealed", "released"}
    BY CallFacts DEF Fits, ActivateTicket, Published
<1>2. q.expected \in Nat /\ q.acc.expected \in Nat
    BY RequestTypes
<1>3. q.acc.expected + 1 = r
    <2>1. accepts[r].req.expected = r - 1
        BY <1>1 DEF IInv, ChainsJoin
    <2> QED
        BY <1>1, <1>2, <2>1, CallFacts
<1>4. CASE Len(actives) # q.expected
    BY <1>1, <1>2, <1>4, CallFacts DEF Dead
<1>5. CASE Len(accepts) # r
    BY <1>1, <1>2, <1>3, <1>5, CallFacts DEF Dead
<1>6. CASE publication[q.acc.seal] # "sealed"
    BY <1>1, <1>6 DEF Dead
<1> QED
    BY <1>1, <1>4, <1>5, <1>6 DEF ActivateGuards

\* A guard fails: the transaction is rolled back and the race is lost.
LEMMA CommitRefusedKeeps ==
    ASSUME IInv, NEW c \in Callers, CommitRefused(c)
    PROVE  IInv'
<1>1. /\ pc[c] = "commit" /\ UNCHANGED <<world, chains>> /\ Keep(c, guard[c], "lost")
      /\ ~Used(req[c].op) /\ ~Guards(c) /\ "lost" \in Answers
    BY DEF CommitRefused, Answers
<1>2. Holds(round[c]) /\ req[c] \in Requests
    BY <1>1, CallFacts DEF Fits, Placed, Holds
<1>3. Answered(req[c], "lost")
    <2> SUFFICES ASSUME req[c] \in ActivateRequests
                 PROVE  ~IsEvent(req[c]) /\ Dead(req[c])
        BY DEF Answered
    <2>1. ~IsEvent(req[c])
        BY <1>1, <1>2, UnusedIsNoEvent
    <2>2. ~ActivateGuards(req[c], guard[c])
        BY <1>1, RequestAssumption DEF Guards, IsAccept
    <2> QED
        BY <1>2, <2>1, <2>2, RefusedIsDead
<1> QED
    BY <1>1, <1>2, <1>3, TicketKept

\* A replayed commit, a failed one and the resolution of an unknown one.
LEMMA AnswerKeeps ==
    ASSUME IInv, NEW c \in Callers, CommitReplayed(c) \/ CommitFails(c) \/ Resolve(c)
    PROVE  IInv'
<1>1. pc[c] \in {"commit", "resolve"} /\ UNCHANGED <<world, chains>>
    BY DEF CommitReplayed, CommitFails, Resolve
<1>2. Holds(round[c]) /\ round[c] = "submit"
    BY <1>1, CallFacts DEF Fits, Placed, Holds
<1>3. \A a \in {"none", "unknown", "committed"} : a \in Answers
    BY DEF Answers
<1>4. CASE \E a \in {"none", "unknown"} : Keep(c, guard[c], a)
    BY <1>1, <1>2, <1>3, <1>4, NoAnswer, TicketKept
<1>5. CASE SameTicket(c) /\ Keep(c, guard[c], "committed")
    <2>1. Answered(req[c], "committed")
        BY <1>5, SameTicketIsEvent DEF Answered
    <2> QED
        BY <1>1, <1>2, <1>3, <1>5, <2>1, TicketKept
<1>6. CASE Goto(c, "resolve")
    <2>1. "resolve" \in PCs
        BY DEF PCs
    <2>2. Placed("resolve", req[c], round[c], "none")
        BY <1>1, <1>2, CallFacts DEF Fits, Placed
    <2>3. ActivateTicket("resolve", req[c], round[c], guard[c])
        BY <1>2, CallFacts DEF Fits, ActivateTicket
    <2> QED
        BY <1>1, <1>6, <2>1, <2>2, <2>3, GotoKeeps
<1> QED
    BY <1>4, <1>5, <1>6 DEF CommitReplayed, CommitFails, Resolve

-----------------------------------------------------------------------------
(* The two transactions.                                                   *)

\* The state after an event was inserted for the call of c: chains in order,
\* and every other call undisturbed.
LEMMA AcceptInserted ==
    ASSUME IInv, NEW c \in Callers, req[c] \in AcceptRequests, pc[c] = "commit",
           ~Used(req[c].op), AcceptGuards(req[c], guard[c]), Insert(c), UNCHANGED world, CallTypes'
    PROVE  /\ TypeOK' /\ ChainsJoin' /\ RowsBelow' /\ Evolves
           /\ \E i \in 1..Len(accepts') : accepts'[i].req = req[c]
<1> DEFINE e == [row |-> NextRow, req |-> req[c], guard |-> guard[c]]
<1>1. accepts' = Append(accepts, e) /\ actives' = actives
    BY DEF Insert, IsAccept
<1>2. e \in AcceptEvent
    BY CallFacts DEF AcceptEvent, NextRow
<1>3. accepts \in Seq(AcceptEvent) /\ actives \in Seq(ActiveEvent)
    BY CallFacts DEF TypeOK
<1>4. e.row = NextRow /\ e.req = req[c]
    OBVIOUS
<1> HIDE DEF e
<1>5. /\ accepts' \in Seq(AcceptEvent) /\ Len(accepts') = Len(accepts) + 1
      /\ \A j \in 1..Len(accepts) : accepts'[j] = accepts[j]
      /\ accepts'[Len(accepts) + 1] = e
    BY <1>1, <1>2, <1>3
<1>6. req[c].expected < MaxAccepted /\ req[c].expected = Len(accepts)
    BY CallFacts DEF Fits, Placed, AcceptGuards
<1>7. TypeOK'
    BY <1>1, <1>5, <1>6, CallFacts, LimitAssumption, SMTT(30) DEF TypeOK, CallTypes, world
<1>8. Evolves
    BY <1>1, <1>5, CallFacts DEF Evolves, world
<1>9. RowsBelow'
    <2>1. NextRow \in Nat /\ NextRow' = NextRow + 1
        BY <1>1, <1>5, CallFacts DEF NextRow
    <2>2. \A j \in 1..Len(accepts) : accepts[j].row \in Nat
        BY CallFacts, EventTypes
    <2>3. \A i \in 1..Len(actives) : actives[i].row \in Nat
        BY CallFacts, EventTypes
    <2>4. ASSUME NEW j \in 1..Len(accepts') PROVE accepts'[j].row < NextRow'
        <3>1. CASE j \in 1..Len(accepts)
            BY <2>1, <2>2, <3>1, <1>5 DEF IInv, RowsBelow
        <3>2. CASE j = Len(accepts) + 1
            BY <2>1, <3>2, <1>4, <1>5
        <3> QED
            BY <3>1, <3>2, <1>5, CallFacts
    <2>5. ASSUME NEW i \in 1..Len(actives) PROVE actives[i].row < NextRow'
        BY <2>1, <2>3 DEF IInv, RowsBelow
    <2> QED
        BY <2>4, <2>5, <1>1 DEF RowsBelow
<1>10. ChainsJoin'
    <2>1. Joined(Len(actives), Len(accepts))'
        <3> SUFFICES ASSUME NEW i \in 1..Len(actives)
                     PROVE  /\ \E j \in 1..Len(accepts') : /\ accepts'[j].req = actives[i].req.acc
                                                           /\ accepts'[j].row < actives[i].row
                            /\ i > 1 => Revision(actives[i - 1]) < Revision(actives[i])
            BY <1>1 DEF Joined, Revision
        <3>1. PICK j \in 1..Len(accepts) : /\ accepts[j].req = actives[i].req.acc
                                           /\ accepts[j].row < actives[i].row
            BY DEF IInv, ChainsJoin, Joined
        <3>2. i > 1 => Revision(actives[i - 1]) < Revision(actives[i])
            BY DEF IInv, ChainsJoin, Joined
        <3>3. j \in 1..Len(accepts') /\ accepts'[j] = accepts[j]
            BY <1>5, CallFacts
        <3> QED
            BY <3>1, <3>2, <3>3
    <2>2. \A j \in 1..Len(accepts') : accepts'[j].req.expected = j - 1
        BY <1>4, <1>5, <1>6, CallFacts DEF IInv, ChainsJoin
    <2>3. OpsIn(accepts)' = OpsIn(accepts) \cup {req[c].op}
        BY <1>1, <1>2, <1>3, <1>4, OpsAppend
    <2>4. req[c].op \notin OpsIn(actives)
        BY DEF Used
    <2>5. OpsIn(actives)' = OpsIn(actives)
        BY <1>1 DEF OpsIn
    <2>6. OpsIn(accepts)' \cap OpsIn(actives)' = {}
        BY <2>3, <2>4, <2>5 DEF IInv, ChainsJoin
    <2> QED
        BY <2>1, <2>2, <2>6, <1>1 DEF IInv, ChainsJoin
<1>11. \E i \in 1..Len(accepts') : accepts'[i].req = req[c]
    BY <1>4, <1>5, CallFacts
<1> QED
    BY <1>7, <1>8, <1>9, <1>10, <1>11

\* An activation names a revision that has been accepted.
LEMMA RevisionBound ==
    ASSUME IInv, NEW i \in 1..Len(actives)
    PROVE  Revision(actives[i]) \in 1..Len(accepts)
<1>0. TypeOK /\ Len(accepts) \in Nat
    BY Naturals DEF IInv
<1>1. PICK j \in 1..Len(accepts) : accepts[j].req = actives[i].req.acc
    BY DEF IInv, ChainsJoin, Joined
<1>2. accepts[j].req.expected = j - 1
    BY DEF IInv, ChainsJoin
<1>3. Revision(actives[i]) = j
    BY <1>0, <1>1, <1>2 DEF Revision
<1> QED
    BY <1>3

\* The same for an activation; it names the newest acceptance, newer than the
\* one that was active.
LEMMA ActivateInserted ==
    ASSUME IInv, NEW c \in Callers, req[c] \in ActivateRequests, pc[c] = "commit",
           ~Used(req[c].op), ActivateGuards(req[c], guard[c]), Insert(c), UNCHANGED world, CallTypes'
    PROVE  /\ TypeOK' /\ ChainsJoin' /\ RowsBelow' /\ Evolves
           /\ \E i \in 1..Len(actives') : actives'[i].req = req[c]
           /\ Len(actives') = Len(actives) + 1
           /\ Revision(actives'[Len(actives')]) = Len(accepts)
           /\ Len(actives) > 0 => Revision(actives[Len(actives)]) < Len(accepts)
           /\ Len(accepts) > 0
<1> DEFINE e == [row |-> NextRow, req |-> req[c]]
           k == Len(accepts)
           n == Len(actives)
<1>1. actives' = Append(actives, e) /\ accepts' = accepts
    BY RequestAssumption DEF Insert, IsAccept
<1>2. e \in ActiveEvent
    BY CallFacts DEF ActiveEvent, NextRow
<1>3. accepts \in Seq(AcceptEvent) /\ actives \in Seq(ActiveEvent)
    BY CallFacts DEF TypeOK
<1>4. e.row = NextRow /\ e.req = req[c] /\ Revision(e) = req[c].acc.expected + 1
    BY DEF Revision
<1> HIDE DEF e
<1>5. /\ actives' \in Seq(ActiveEvent) /\ Len(actives') = n + 1
      /\ \A i \in 1..n : actives'[i] = actives[i]
      /\ actives'[n + 1] = e
    BY <1>1, <1>2, <1>3
<1>6. /\ n \in Nat /\ k \in Nat
      /\ req[c].expected < MaxAccepted /\ req[c].expected = n
      /\ k \in 1..k /\ accepts[k].req = req[c].acc
      /\ n > 0 => Revision(actives[n]) # k
    <2>1. Holds(round[c]) /\ req[c].expected < MaxAccepted
        BY CallFacts DEF Fits, Placed, Holds
    <2>2. guard[c].revision = k /\ req[c].expected = n
        BY DEF ActivateGuards
    <2> QED
        BY <2>1, <2>2, CallFacts DEF Fits, ActivateTicket
<1>7. accepts[k].req.expected = k - 1 /\ Revision(e) = k
    BY <1>4, <1>6 DEF IInv, ChainsJoin
<1>8. n > 0 => Revision(actives[n]) < k
    BY <1>6, RevisionBound
<1>9. TypeOK'
    BY <1>1, <1>5, <1>6, CallFacts, LimitAssumption, SMTT(30) DEF TypeOK, CallTypes, world
<1>10. Evolves
    <2>1. ~Dead(req[c])
        BY <1>4, <1>6, <1>7 DEF Dead, ActivateGuards
    <2>2. \A i \in (n + 1)..Len(actives') : i = n + 1
        BY <1>5, <1>6
    <2>3. \A i \in (n + 1)..Len(actives') : ~Dead(actives'[i].req)
        BY <1>4, <1>5, <2>1, <2>2
    <2> QED
        BY <1>1, <1>5, <1>6, <2>3, CallFacts DEF Evolves, world
<1>11. RowsBelow'
    <2>1. NextRow \in Nat /\ NextRow' = NextRow + 1
        BY <1>1, <1>5, CallFacts DEF NextRow
    <2>2. ASSUME NEW j \in 1..Len(accepts) PROVE accepts[j].row < NextRow'
        BY <2>1, CallFacts, EventTypes DEF IInv, RowsBelow
    <2>3. ASSUME NEW i \in 1..Len(actives') PROVE actives'[i].row < NextRow'
        <3>1. CASE i \in 1..n
            BY <2>1, <3>1, <1>5, CallFacts, EventTypes DEF IInv, RowsBelow
        <3>2. CASE i = n + 1
            BY <2>1, <3>2, <1>4, <1>5
        <3> QED
            BY <3>1, <3>2, <1>5, <1>6
    <2> QED
        BY <2>2, <2>3, <1>1 DEF RowsBelow
<1>12. ChainsJoin'
    <2>1. Joined(Len(actives), Len(accepts))'
        <3> SUFFICES ASSUME NEW i \in 1..Len(actives')
                     PROVE  /\ \E j \in 1..k : /\ accepts[j].req = actives'[i].req.acc
                                               /\ accepts[j].row < actives'[i].row
                            /\ i > 1 => Revision(actives'[i - 1]) < Revision(actives'[i])
            BY <1>1 DEF Joined, Revision
        <3>1. CASE i \in 1..n
            <4>1. /\ \E j \in 1..k : /\ accepts[j].req = actives[i].req.acc
                                     /\ accepts[j].row < actives[i].row
                  /\ i > 1 => Revision(actives[i - 1]) < Revision(actives[i])
                BY <3>1 DEF IInv, ChainsJoin, Joined
            <4>2. actives'[i] = actives[i] /\ (i > 1 => actives'[i - 1] = actives[i - 1])
                BY <3>1, <1>5, <1>6
            <4> QED
                BY <4>1, <4>2
        <3>2. CASE i = n + 1
            <4>1. accepts[k].row < NextRow
                BY <1>6 DEF IInv, RowsBelow
            <4>2. actives'[i] = e /\ (i > 1 => n > 0 /\ actives'[i - 1] = actives[n])
                BY <3>2, <1>5, <1>6
            <4> QED
                BY <4>1, <4>2, <1>4, <1>6, <1>7, <1>8
        <3> QED
            BY <3>1, <3>2, <1>5, <1>6
    <2>2. ASSUME NEW i \in 1..Len(actives') PROVE actives'[i].req.expected = i - 1
        <3>1. CASE i \in 1..n
            BY <3>1, <1>5 DEF IInv, ChainsJoin
        <3>2. CASE i = n + 1
            BY <3>2, <1>4, <1>5, <1>6
        <3> QED
            BY <3>1, <3>2, <1>5, <1>6
    <2>3. OpsIn(actives)' = OpsIn(actives) \cup {req[c].op}
        BY <1>1, <1>2, <1>3, <1>4, OpsAppend
    <2>4. req[c].op \notin OpsIn(accepts)
        BY DEF Used
    <2>5. OpsIn(accepts)' = OpsIn(accepts)
        BY <1>1 DEF OpsIn
    <2>6. OpsIn(accepts)' \cap OpsIn(actives)' = {}
        BY <2>3, <2>4, <2>5 DEF IInv, ChainsJoin
    <2> QED
        BY <2>1, <2>2, <2>6, <1>1 DEF IInv, ChainsJoin
<1>13. \E i \in 1..Len(actives') : actives'[i].req = req[c]
    BY <1>4, <1>5, <1>6
<1> QED
    BY <1>5, <1>6, <1>7, <1>8, <1>9, <1>10, <1>11, <1>12, <1>13

\* Either transaction, with its answer or without.
LEMMA CommitKeeps ==
    ASSUME IInv, NEW c \in Callers, Commit(c)
    PROVE  IInv'
<1>0. /\ pc[c] = "commit" /\ ~Used(req[c].op) /\ Guards(c) /\ Insert(c) /\ UNCHANGED world
      /\ Keep(c, guard[c], "committed") \/ Goto(c, "resolve")
    BY DEF Commit
<1>1. round[c] = "submit" /\ req[c] \in Requests /\ req[c].expected < MaxAccepted
    BY <1>0, CallFacts DEF Fits, Placed
<1>2. PICK at, s, a : /\ Becomes(c, at, req[c], "submit", guard[c], s, a)
                      /\ at \in {"pending", "resolve"} /\ a \in {"none", "committed"}
                      /\ at = "resolve" => a = "none"
                      /\ s = Unseen \/ s = seen[c]
    <2>1. "committed" \in Answers /\ "resolve" \in PCs
        BY DEF Answers, PCs
    <2>2. CASE Keep(c, guard[c], "committed")
        BY <2>1, <2>2, CallFacts, KeepBecomes
    <2>3. CASE Goto(c, "resolve")
        <3>1. Becomes(c, "resolve", req[c], round[c], guard[c], seen[c], answer[c])
            BY <2>1, <2>3, CallFacts, GotoBecomes
        <3>2. answer[c] = "none"
            BY <1>0, CallFacts DEF Fits, Placed
        <3> QED
            BY <3>1, <3>2, <1>1
    <2> QED
        BY <1>0, <2>2, <2>3
<1>3. CallTypes'
    BY <1>2 DEF Becomes
<1>4. /\ TypeOK' /\ ChainsJoin' /\ RowsBelow' /\ Evolves
      /\ \/ req[c] \in AcceptRequests /\ \E i \in 1..Len(accepts') : accepts'[i].req = req[c]
         \/ req[c] \in ActivateRequests /\ \E i \in 1..Len(actives') : actives'[i].req = req[c]
    <2>1. CASE req[c] \in AcceptRequests
        BY <1>0, <1>3, <2>1, AcceptInserted DEF Guards, IsAccept
    <2>2. CASE req[c] \in ActivateRequests
        BY <1>0, <1>3, <2>2, ActivateInserted, RequestAssumption DEF Guards, IsAccept
    <2> QED
        BY <1>1, <2>1, <2>2 DEF Requests
<1>5. CallInv(c)'
    <2>1. PICK q, g : q = req[c] /\ g = guard[c]
        OBVIOUS
    <2>2. Fits(at, q, "submit", g, s, "none")
        <3>1. Placed(at, q, "submit", "none")
            BY <1>1, <1>2, <2>1 DEF Placed
        <3>2. SeenIsPast(at, s)
            BY <1>2, CallFacts DEF Fits, SeenIsPast, Unseen
        <3>3. ActivateTicket(at, q, "submit", g)
            BY <1>1, <1>2, <2>1, CallFacts DEF Fits, ActivateTicket, Holds
        <3>4. AcceptTicket(q, "submit", g) /\ Published(q, "submit")
            BY <1>1, <2>1, CallFacts DEF Fits
        <3> QED
            BY <3>1, <3>2, <3>3, <3>4, NoAnswer DEF Fits
    <2>3. g \in GuardRows /\ s \in [active : Nat, accepted : Nat]
        BY <1>2, <2>1, CallFacts, ConstantTypes
    <2>4. Fits(at, q, "submit", g, s, "none")'
        BY <1>4, <2>2, <2>3, CallFacts, FitsStays
    <2>5. IsEvent(q)'
        BY <1>4, <2>1, RequestAssumption DEF IsEvent, IsAccept
    <2>6. Answered(q, a)'
        BY <1>2, <2>5 DEF Answered
    <2>7. Placed(at, q, "submit", a)'
        BY <1>2, <2>4 DEF Fits, Placed
    <2>8. Fits(at, q, "submit", g, s, a)'
        BY <2>4, <2>6, <2>7 DEF Fits
    <2>9. /\ pc'[c] = at /\ req'[c] = q /\ round'[c] = "submit"
          /\ guard'[c] = g /\ seen'[c] = s /\ answer'[c] = a
        BY <1>2, <2>1 DEF Becomes
    <2> QED
        BY <2>8, <2>9 DEF CallInv
<1>6. ASSUME NEW d \in Callers, d # c PROVE CallInv(d)'
    <2>1. /\ pc'[d] = pc[d] /\ req'[d] = req[d] /\ round'[d] = round[d]
          /\ guard'[d] = guard[d] /\ seen'[d] = seen[d] /\ answer'[d] = answer[d]
        BY <1>2, <1>6 DEF Becomes
    <2> QED
        BY <1>4, <2>1, Stable DEF IInv
<1> QED
    BY <1>4, <1>5, <1>6 DEF IInv

\* Registry, access gate, seal store and clock disturb nobody's facts.
LEMMA WorldKeeps == IInv /\ World => IInv'
<1> SUFFICES ASSUME IInv, World PROVE IInv'
    OBVIOUS
<1>0. TypeOK /\ UNCHANGED chains /\ UNCHANGED calls
    BY DEF IInv, World
<1>1. /\ publication' \in [Seals -> {"none", "staged", "sealed", "released"}]
      /\ \A s \in Seals :
            /\ publication[s] = "sealed" => publication'[s] \in {"sealed", "released"}
            /\ publication[s] = "released" => publication'[s] = "released"
    BY <1>0 DEF World, Stage, Publish, Release, AccessRow, Expire, RegistryRow, TypeOK
<1>2. /\ access' \in [rows : Nat, permits : BOOLEAN]
      /\ access.rows <= access'.rows /\ (access'.rows = access.rows => access' = access)
    BY <1>0 DEF World, Stage, Publish, Release, AccessRow, Expire, RegistryRow, TypeOK
<1>3. /\ registry' \in [rows : Nat, revision : Nat]
      /\ registry.rows <= registry'.rows /\ (registry'.rows = registry.rows => registry' = registry)
    BY <1>0 DEF World, Stage, Publish, Release, AccessRow, Expire, RegistryRow, TypeOK
<1>4. expired' \in BOOLEAN
    BY <1>0 DEF World, Stage, Publish, Release, AccessRow, Expire, RegistryRow, TypeOK
<1>5. TypeOK'
    BY <1>0, <1>1, <1>2, <1>3, <1>4 DEF TypeOK, chains, calls
<1>6. Evolves
    BY <1>0, <1>1, <1>2, <1>3, Naturals DEF Evolves, chains
<1>7. ChainsJoin' /\ RowsBelow'
    <2>1. accepts' = accepts /\ actives' = actives
        BY <1>0 DEF chains
    <2>2. OpsIn(accepts)' = OpsIn(accepts) /\ OpsIn(actives)' = OpsIn(actives)
        BY <2>1 DEF OpsIn
    <2>3. Joined(Len(actives), Len(accepts))'
        BY <2>1 DEF IInv, ChainsJoin, Joined, Revision
    <2> QED
        BY <2>1, <2>2, <2>3 DEF IInv, ChainsJoin, RowsBelow, NextRow
<1>8. ASSUME NEW c \in Callers PROVE CallInv(c)'
    BY <1>0, <1>5, <1>6, Stable DEF IInv, calls
<1> QED
    BY <1>5, <1>7, <1>8 DEF IInv

\* Nothing moves at all.
LEMMA StutterKeeps == IInv /\ UNCHANGED vars => IInv'
<1> SUFFICES ASSUME IInv, UNCHANGED vars PROVE IInv'
    OBVIOUS
<1>1. UNCHANGED <<world, chains>> /\ UNCHANGED calls /\ TypeOK
    BY DEF vars, IInv
<1>2. TypeOK'
    BY <1>1 DEF TypeOK, world, chains, calls
<1>3. Evolves
    BY <1>1, Unmoved
<1>4. ChainsJoin' /\ RowsBelow'
    <2>1. accepts' = accepts /\ actives' = actives
        BY <1>1 DEF chains
    <2>2. OpsIn(accepts)' = OpsIn(accepts) /\ OpsIn(actives)' = OpsIn(actives)
        BY <2>1 DEF OpsIn
    <2>3. Joined(Len(actives), Len(accepts))'
        BY <2>1 DEF IInv, ChainsJoin, Joined, Revision
    <2> QED
        BY <2>1, <2>2, <2>3 DEF IInv, ChainsJoin, RowsBelow, NextRow
<1>5. ASSUME NEW c \in Callers PROVE CallInv(c)'
    BY <1>1, <1>2, <1>3, Stable DEF IInv, calls
<1> QED
    BY <1>2, <1>4, <1>5 DEF IInv

\* Every step keeps the invariant.
LEMMA NextKeeps == IInv /\ [Next]_vars => IInv'
<1> SUFFICES ASSUME IInv, [Next]_vars PROVE IInv'
    OBVIOUS
<1>1. CASE UNCHANGED vars
    BY <1>1, StutterKeeps
<1>2. CASE World
    BY <1>2, WorldKeeps
<1>3. ASSUME NEW c \in Callers, Step(c) PROVE IInv'
    <2>1. ASSUME NEW q \in AcceptRequests, PrepareAccept(c, q) PROVE IInv'
        BY <2>1, PrepareAcceptKeeps
    <2>2. ASSUME NEW q \in ActivateRequests, PrepareActivation(c, q) \/ Activate(c, q)
          PROVE  IInv'
        <3>1. CASE PrepareActivation(c, q)
            BY <3>1, BeginActivationKeeps DEF PrepareActivation
        <3>2. CASE Activate(c, q)
            BY <3>2, BeginActivationKeeps DEF Activate
        <3> QED
            BY <2>2, <3>1, <3>2
    <2>3. CASE VerifySeal(c) \/ CaptureAuthority(c) \/ EnterPublish(c)
        BY <2>3, VerifySealKeeps, CaptureAuthorityKeeps, EnterPublishKeeps
    <2>4. CASE LookupMiss(c)
        BY <2>4, LookupKeeps DEF LookupMiss
    <2>5. CASE LookupHit(c)
        BY <2>5, LookupKeeps DEF LookupHit
    <2>6. CASE ReadChain(c) \/ CheckActivationOrder(c) \/ ActivationSeal(c)
        BY <2>6, ReadChainKeeps, CheckActivationOrderKeeps, ActivationSealKeeps
    <2>7. CASE Submit(c) \/ Reconcile(c)
        BY <2>7, SubmitKeeps, ReconcileKeeps
    <2>8. CASE Commit(c) \/ CommitRefused(c)
        BY <2>8, CommitKeeps, CommitRefusedKeeps
    <2>9. CASE CommitReplayed(c) \/ CommitFails(c) \/ Resolve(c)
        BY <2>9, AnswerKeeps
    <2>10. CASE Refuse(c)
        BY <2>10, ReturnKeeps DEF Refuse
    <2>11. CASE Drop(c)
        BY <2>11, ForgetKeeps DEF Drop
    <2> QED
        BY <1>3, <2>1, <2>2, <2>3, <2>4, <2>5, <2>6, <2>7, <2>8, <2>9, <2>10, <2>11 DEF Step
<1> QED
    BY <1>1, <1>2, <1>3 DEF Next

\* Only a transaction moves a chain.
LEMMA OnlyCommitMoves ==
    ASSUME [Next]_vars, ~UNCHANGED chains
    PROVE  \E c \in Callers : Commit(c)
<1>1. ~UNCHANGED <<world, chains>> /\ ~UNCHANGED vars
    BY DEF vars
<1>2. ~World
    BY DEF World
<1>3. PICK c \in Callers : Step(c)
    BY <1>1, <1>2 DEF Next
<1>4. Commit(c)
    BY <1>1, <1>3
    DEF Step, PrepareAccept, PrepareActivation, Activate, VerifySeal, CaptureAuthority, EnterPublish,
        LookupMiss, LookupHit, ReadChain, CheckActivationOrder, ActivationSeal, Submit, Reconcile,
        CommitRefused, CommitReplayed, CommitFails, Resolve, Refuse, Drop
<1> QED
    BY <1>4

-----------------------------------------------------------------------------
(* The theorems.                                                           *)

\* The inductive invariant holds in every reachable state of submit,
\* submit_activation, activate and their callers.
THEOREM InductiveInvariant == Spec => []IInv
BY InitHolds, NextKeeps, PTL DEF Spec

\* Both chains stay within MAX_ACCEPTED, whatever callers ask for: the bound
\* is checked by prepare alone, and the guards of submit carry it over.
THEOREM PublicationTyped == Spec => []TypeOK
<1>1. IInv => TypeOK
    BY DEF IInv
<1> QED
    BY <1>1, InductiveInvariant, PTL

\* The rows submit and submit_activation leave are always the history that
\* activation_history accepts.
THEOREM ChainsAlwaysJoin == Spec => []ChainsJoin
<1>1. IInv => ChainsJoin
    BY DEF IInv
<1> QED
    BY <1>1, InductiveInvariant, PTL

\* The two SELECTs of activation_history, straddling any commits, never see
\* an activation without its acceptance.
THEOREM NeverTorn == Spec => []ReadsNeverTorn
<1>1. IInv => ReadsNeverTorn
    BY DEF IInv, CallInv, Fits, SeenIsPast, ReadsNeverTorn
<1> QED
    BY <1>1, InductiveInvariant, PTL

\* What submit and submit_activation answer is true, and a lost race of
\* submit_activation is final.
THEOREM TrueAnswers == Spec => []AnswersTrue
<1>1. IInv => AnswersTrue
    <2> SUFFICES ASSUME IInv, NEW c \in Callers
                 PROVE  /\ answer[c] = "committed" => IsEvent(req[c])
                        /\ answer[c] = "lost" /\ ~IsAccept(req[c]) => ~IsEvent(req[c])
        BY DEF AnswersTrue
    <2>1. Placed(pc[c], req[c], round[c], answer[c]) /\ Answered(req[c], answer[c])
        BY DEF IInv, CallInv, Fits
    <2>2. answer[c] # "none" => req[c] \in Requests
        BY <2>1 DEF Placed
    <2> QED
        BY <2>1, <2>2 DEF Answered, IsAccept, Requests
<1> QED
    BY <1>1, InductiveInvariant, PTL

\* submit commits an acceptance only while the credential permits it and is
\* live, the registry is at the publication's revision and the publication
\* is available: the guards on row numbers are as good as checking again.
THEOREM AuthorizedAccepts == Spec => AcceptsAuthorized
<1> DEFINE A == Len(accepts') > Len(accepts) =>
                   LET q == accepts'[Len(accepts')].req IN
                   /\ access.permits /\ ~expired
                   /\ registry.revision = BindingOf[q.seal]
                   /\ publication[q.seal] = "sealed"
<1>1. IInv /\ [Next]_vars => [A]_vars
    <2> SUFFICES ASSUME IInv, [Next]_vars, Len(accepts') > Len(accepts)
                 PROVE  LET q == accepts'[Len(accepts')].req IN
                        /\ access.permits /\ ~expired
                        /\ registry.revision = BindingOf[q.seal]
                        /\ publication[q.seal] = "sealed"
        OBVIOUS
    <2>0. accepts \in Seq(AcceptEvent) /\ Len(accepts) \in Nat
        BY DEF IInv, TypeOK
    <2>1. accepts' # accepts
        BY <2>0
    <2>2. PICK c \in Callers : Commit(c)
        BY <2>1, OnlyCommitMoves DEF chains
    <2>3. IsAccept(req[c]) /\ AcceptGuards(req[c], guard[c]) /\ pc[c] = "commit"
        BY <2>1, <2>2 DEF Commit, Insert, Guards
    <2>4. Placed(pc[c], req[c], round[c], answer[c]) /\ AcceptTicket(req[c], round[c], guard[c])
        BY DEF IInv, CallInv, Fits
    <2>5. access.permits /\ registry.revision = BindingOf[req[c].seal]
        BY <2>3, <2>4 DEF Placed, AcceptTicket, AcceptGuards, Holds, IsAccept
    <2>6. accepts'[Len(accepts')].req = req[c]
        <3> DEFINE e == [row |-> NextRow, req |-> req[c], guard |-> guard[c]]
        <3>1. accepts' = Append(accepts, e)
            BY <2>2, <2>3 DEF Commit, Insert
        <3>2. e.req = req[c]
            OBVIOUS
        <3> HIDE DEF e
        <3>3. accepts'[Len(accepts')] = e
            BY <3>1, <2>0
        <3> QED
            BY <3>2, <3>3
    <2> QED
        BY <2>3, <2>5, <2>6 DEF AcceptGuards
<1>2. Spec => [][A]_vars
    BY <1>1, InductiveInvariant, PTL DEF Spec
<1> QED
    BY <1>2 DEF AcceptsAuthorized

\* Acceptance and activation, with all their reads, refusals, lost answers and
\* deaths, are the two atomic steps of module Pointer: in particular the
\* active pointer only ever jumps forward to the newest acceptance.
THEOREM PointerRefinement == Spec => ImplementsPointer
<1>1. Init => P!Init
    BY DEF Init, P!Init, ActiveRevision
<1>2. IInv /\ [Next]_vars => [P!Next]_(P!vars)
    <2> SUFFICES ASSUME IInv, [Next]_vars PROVE [P!Next]_(P!vars)
        OBVIOUS
    <2>0. /\ accepts \in Seq(AcceptEvent) /\ actives \in Seq(ActiveEvent)
          /\ Len(accepts) \in Nat /\ Len(actives) \in Nat
        BY DEF IInv, TypeOK
    <2>1. CASE UNCHANGED chains
        BY <2>1 DEF chains, P!vars, ActiveRevision, Revision
    <2>2. ASSUME NEW c \in Callers, Commit(c), IsAccept(req[c]) PROVE P!Accept
        <3> DEFINE e == [row |-> NextRow, req |-> req[c], guard |-> guard[c]]
        <3>1. accepts' = Append(accepts, e) /\ actives' = actives
            BY <2>2 DEF Commit, Insert
        <3> HIDE DEF e
        <3>2. Len(accepts') = Len(accepts) + 1
            BY <3>1, <2>0
        <3>3. Len(accepts) < MaxAccepted
            BY <2>2, CallFacts DEF Commit, Guards, AcceptGuards, Fits, Placed
        <3>4. ActiveRevision' = ActiveRevision
            BY <3>1 DEF ActiveRevision, Revision
        <3> QED
            BY <3>2, <3>3, <3>4 DEF P!Accept
    <2>3. ASSUME NEW c \in Callers, Commit(c), ~IsAccept(req[c]) PROVE P!Activate
        <3>1. req[c] \in ActivateRequests /\ pc[c] = "commit"
            BY <2>3, CallFacts DEF Commit, Fits, Placed, Requests, IsAccept
        <3>2. CallTypes'
            BY <2>3, NextKeeps, Naturals DEF IInv, TypeOK, CallTypes
        <3>3. /\ Len(actives') = Len(actives) + 1
              /\ Revision(actives'[Len(actives')]) = Len(accepts)
              /\ Len(actives) > 0 => Revision(actives[Len(actives)]) < Len(accepts)
              /\ Len(accepts) > 0
            BY <2>3, <3>1, <3>2, ActivateInserted DEF Commit, Guards
        <3>4. accepts' = accepts
            BY <2>3 DEF Commit, Insert
        <3>5. actives = <<>> <=> Len(actives) = 0
            BY <2>0
        <3>6. actives' # <<>>
            BY <3>3, <2>0
        <3>7. ActiveRevision' = Len(accepts)
            BY <3>3, <3>6 DEF ActiveRevision, Revision
        <3>8. ActiveRevision < Len(accepts)
            BY <3>3, <3>5, <2>0 DEF ActiveRevision
        <3> QED
            BY <3>4, <3>7, <3>8 DEF P!Activate
    <2> QED
        BY <2>1, <2>2, <2>3, OnlyCommitMoves DEF P!Next
<1> QED
    BY <1>1, <1>2, InductiveInvariant, PTL DEF Spec, ImplementsPointer, P!Spec

=============================================================================
