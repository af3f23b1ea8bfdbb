------------------------------ MODULE Semantics ------------------------------
(***************************************************************************)
(* Vocabulary conversion and the native fixture graph                      *)
(* (src/src/semantics/convert.rs, profile.rs, materialize.rs, and the site *)
(* of src/src/domain/fixture.rs).                                          *)
(*                                                                         *)
(* A site of external candidates is converted, all of it or none, and      *)
(* applied to a binding set whose revision moves when anything moved.      *)
(* Apart from that, a plan of nodes and edges is reconciled with a native  *)
(* graph by one caller at a time: every insert commits by itself, a call   *)
(* may fail before or after its commit, and the plan is tried again.       *)
(* StepKeys are numbers where the code sorts them; a digest is what it is  *)
(* the digest of.                                                          *)
(***************************************************************************)
EXTENDS Naturals, Sequences, FiniteSets

CONSTANTS
    Sites,         \* sites that are imported: non-empty sets of candidates
    MAX_BINDING_REVISION, \* u32::MAX of the revision
    Plans,         \* requests for a plan: relations with their term, observes or not
    Reports,       \* extraction reports, which give every row its evidence
    MaxAttempts    \* bound on the reconciliations

ASSUME SemanticsAssumption == MAX_BINDING_REVISION \in Nat \ {0} /\ MaxAttempts \in Nat

VARIABLES
    bound,     \* the binding set: its revision and what it was converted from
    taken,     \* the site that was accepted last (history)
    graph,     \* the native graph: the rows of each key
    attempt,   \* the reconciliation that runs
    attempts,  \* how many there have been
    settled    \* plans of which a reconciliation returned without an error (history)

conversionVars == <<bound, taken>>
graphVars == <<graph, attempt, attempts, settled>>
semanticsVars == <<conversionVars, graphVars>>

-----------------------------------------------------------------------------
\* Conversion.

SUPPORTED_UNITS == {"degC", "percent", "Pa", "L/s"}
SUPPORTED_MODES == {"occupied", "unoccupied", "standby"}

\* Profile::classify: the kind, or why there is none.
classify(class) ==
    CASE class = "AHU" -> "ahu" [] class = "VAV" -> "vav" [] class = "SAT" -> "sensor-sat"
      [] class \in {"Chiller", "Boiler", "Meter"} -> "out-of-scenario" [] OTHER -> "unknown"

unsupported_token(item) ==
    \/ item.unit \notin SUPPORTED_UNITS
    \/ item.value.kind = "mode" /\ item.value.text \notin SUPPORTED_MODES

\* The order of the checks on one candidate.
verdict(item) ==
    LET kind == classify(item.class)
    IN IF kind \in {"out-of-scenario", "unknown"} THEN kind
       ELSE IF kind # item.slot.prefix THEN "slot-mismatch"
       ELSE IF unsupported_token(item) THEN "invalid-input"
       ELSE "mapped"

\* ExternalSite::new: at least one candidate, source keys distinct.
admitted_site(site) == site # {} /\ \A i, j \in site : i.key = j.key => i = j

content_digest(site) == {[slot |-> i.slot, unit |-> i.unit, value |-> i.value] : i \in site}

\* The first failure in the order of source keys wins; then collisions of slots.
convert(site) ==
    LET bad == {i \in site : verdict(i) # "mapped"}
        first == CHOOSE i \in bad : \A j \in bad : i.key <= j.key
        claimed == {i.slot : i \in {k \in site : \E j \in site \ {k} : j.slot = k.slot}}
    IN IF bad # {} THEN [result |-> verdict(first), bindings |-> {}]
       ELSE IF claimed # {} THEN [result |-> "collision", bindings |-> {}]
       ELSE [result |-> "ok",
             bindings |-> {[item |-> i, kind |-> classify(i.class)] : i \in site}]

from_conversion(site, revision) ==
    [revision |-> revision, input |-> site, content |-> content_digest(site),
     bindings |-> convert(site).bindings]

\* Mutant: a site with the same semantic content is the same input.
is_noop_ContentOnly(site) == content_digest(site) = bound.content

\* The profile is pinned; input and content digests decide.
is_noop(site) == site = bound.input /\ content_digest(site) = bound.content

apply(site) ==
    /\ admitted_site(site) /\ convert(site).result = "ok"
    /\ \/ is_noop(site) /\ bound' = bound
       \/ /\ ~is_noop(site) /\ bound.revision < MAX_BINDING_REVISION
          /\ bound' = from_conversion(site, bound.revision + 1)
    /\ taken' = site
    /\ UNCHANGED graphVars

-----------------------------------------------------------------------------
\* The plan of the frozen site.

Equipment == {"ahu-1", "vav-101", "vav-102", "sensor-sat-1"}
SharedSensor == "sensor-sat-1"

LocatedIn == {[kind |-> "located-in", a |-> "ahu-1", b |-> "scope-a"],
              [kind |-> "located-in", a |-> "vav-101", b |-> "scope-a"],
              [kind |-> "located-in", a |-> "vav-102", b |-> "scope-b"]}
ServedBy == {[kind |-> "served-by", a |-> v, b |-> "ahu-1"] : v \in {"vav-101", "vav-102"}}
ObservedBy == {[kind |-> "observed-by", a |-> e, b |-> SharedSensor] : e \in Equipment \ {SharedSensor}}
Relationships == LocatedIn \union ServedBy \union ObservedBy

\* The sensor is where its first reading is.
scope_of(id) == IF id = SharedSensor THEN "scope-a"
                ELSE (CHOOSE r \in LocatedIn : r.a = id).b
same_scope(a, b) == scope_of(a) = scope_of(b)

\* A step: the key, what it joins, and its row with the evidence of the report.
node(scope, role, id, report) ==
    [key |-> <<0, scope, role, id>>, ends |-> {}, body |-> report]
edge(scope, from, to, role, iri, report) ==
    LET a == <<0, scope, "installed", from>>
        b == <<0, scope, role, to>>
    IN [key |-> <<1, a, iri, b>>, ends |-> {a, b}, body |-> report]

Nodes(report) ==
    {node(scope_of(id), "installed", id, report) : id \in Equipment}
    \union {node(s, "location", "", report) : s \in {"scope-a", "scope-b"}}
    \union {node(scope_of(SharedSensor), "property", SharedSensor, report)}

\* Whether a relation can be written with this term, in one scope.
writable(r, iri) ==
    /\ r \in Relationships
    /\ CASE r.kind = "located-in" -> scope_of(r.a) = r.b /\ iri \in {"hasLocation", "locatedIn"}
         [] r.kind = "served-by" -> same_scope(r.b, r.a) /\ iri = "feeds"
         [] OTHER -> same_scope(r.a, r.b) /\ iri \in {"hasPoint", "isPointOf"}

relation_edge(r, iri, report) ==
    CASE r.kind = "located-in" -> edge(r.b, r.a, "", "location", iri, report)
      [] r.kind = "served-by" -> edge(scope_of(r.b), r.b, r.a, "installed", iri, report)
      [] iri = "hasPoint" -> edge(scope_of(r.a), r.a, r.b, "installed", iri, report)
      [] OTHER -> edge(scope_of(r.a), r.b, r.a, "installed", iri, report)

observes_edge(report) ==
    edge(scope_of(SharedSensor), SharedSensor, SharedSensor, "property", "observes", report)

\* Plan::tiny_site: one relation that cannot be written refuses the whole plan.
plannable(p) == \A q \in p.relations : writable(q.relation, q.iri)
tiny_site(p, report) ==
    Nodes(report) \union {relation_edge(q.relation, q.iri, report) : q \in p.relations}
                  \union (IF p.observes THEN {observes_edge(report)} ELSE {})

-----------------------------------------------------------------------------
\* Reconciliation.

AllSteps == UNION {tiny_site(p, r) : p \in {q \in Plans : plannable(q)}, r \in Reports}
StepKeys == {s.key : s \in AllSteps}
NoAttempt == [steps |-> {}, missing |-> {}]

\* Mutant: what is not there exactly is missing.
missing_Inexact(steps) == {s \in steps : ~ \E i \in DOMAIN graph[s.key] : graph[s.key][i] = s.body}

missing(steps) == {s \in steps : graph[s.key] = <<>>}
exact(steps) == \A s \in steps : graph[s.key] = <<s.body>>

\* Every identity is looked up before anything is written; one that is there twice,
\* or with other contents, refuses the plan.  Any lookup may also fail.
reconcile(p, report) ==
    LET steps == tiny_site(p, report)
    IN /\ attempt = NoAttempt /\ attempts < MaxAttempts /\ attempts' = attempts + 1
       /\ plannable(p)
       /\ \/ UNCHANGED <<attempt, settled>>
          \/ /\ exact(steps \ missing(steps))
             /\ IF missing(steps) = {}
                THEN settled' = settled \union {steps} /\ UNCHANGED attempt
                ELSE attempt' = [steps |-> steps, missing |-> missing(steps)] /\ UNCHANGED settled
       /\ UNCHANGED <<graph, conversionVars>>

\* Steps run in the order of their keys, nodes before edges.
due(s) == s \in attempt.missing /\ (s.ends # {} => \A t \in attempt.missing : t.ends # {})

\* MATCH ... INSERT: a row for every pair of end points that match.
Inserted(s) ==
    IF \A k \in s.ends : graph[k] # <<>>
    THEN [graph EXCEPT ![s.key] = Append(@, s.body)] ELSE graph

\* An insert and the two lookups that confirm it.
insert_row(s) ==
    /\ due(s) /\ graph' = Inserted(s)
    /\ IF graph'[s.key] # <<s.body>>
       THEN attempt' = NoAttempt /\ UNCHANGED settled
       ELSE IF attempt.missing = {s}
       THEN attempt' = NoAttempt /\ settled' = settled \union {attempt.steps}
       ELSE attempt' = [attempt EXCEPT !.missing = @ \ {s}] /\ UNCHANGED settled
    /\ UNCHANGED <<attempts, conversionVars>>

\* The native call fails before or after its commit, or the process dies there.
insert_row_fails(s) ==
    /\ due(s) /\ graph' \in {graph, Inserted(s)}
    /\ attempt' = NoAttempt
    /\ UNCHANGED <<attempts, settled, conversionVars>>

SemanticsInit ==
    /\ \E site \in Sites : admitted_site(site) /\ convert(site).result = "ok"
                           /\ bound = from_conversion(site, 1) /\ taken = site
    /\ graph = [k \in StepKeys |-> <<>>]
    /\ attempt = NoAttempt /\ attempts = 0 /\ settled = {}

SemanticsNext ==
    \/ \E site \in Sites : apply(site)
    \/ \E p \in Plans, report \in Reports : reconcile(p, report)
    \/ \E s \in attempt.missing : insert_row(s) \/ insert_row_fails(s)

SemanticsSpec == SemanticsInit /\ [][SemanticsNext]_semanticsVars

-----------------------------------------------------------------------------
\* The binding set is the conversion of the site accepted last, in every field and
\* with one binding for each slot.
BoundCurrent ==
    /\ bound.bindings = convert(taken).bindings
    /\ \A x, y \in bound.bindings : x.item.slot = y.item.slot => x = y
    /\ \A x \in bound.bindings : x.kind = x.item.slot.prefix

\* No key has two rows however often plans are tried again; what a reconciliation
\* left settled is there with its own contents from then on; an edge joins two
\* nodes of one scope.
GraphExact ==
    /\ \A k \in StepKeys : Len(graph[k]) <= 1
    /\ \A steps \in settled : \A s \in steps : graph[s.key] = <<s.body>>
    /\ \A s \in AllSteps : graph[s.key] # <<>> =>
         (\A k \in s.ends : graph[k] # <<>>) /\ Cardinality({k[2] : k \in s.ends}) <= 1

\* An import takes effect whole or not at all, and what the binding set and the
\* native graph hold is what the accepted inputs say, through inputs that differ in
\* labels only, failures in the middle of a plan and plans that disagree
\* (convert.rs: convert, apply; materialize.rs: tiny_site, reconcile).
SemanticsSound == BoundCurrent /\ GraphExact
=============================================================================
