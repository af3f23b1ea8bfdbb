---------------------------- MODULE MCOperations ----------------------------
(***************************************************************************)
(* The operational components that share no state in these models: store   *)
(* files, the outbox, the access gate, the binding registry, recovery and  *)
(* the semantics tools.  One of them moves, the others rest.               *)
(***************************************************************************)
EXTENDS StoreFile, Outbox, Access, Binding, Recovery, Semantics, TLC

\* An issue within the policy of the bootstrap, one past it, and a rotation's heir.
MCRequests ==
    { [cap |-> "c", key |-> "k1", scope |-> "a", ceiling |-> 2, role |-> "publisher",
       policy |-> [scopes |-> {"a"}, admin |-> 1, expires |-> 1]],
      [cap |-> "d", key |-> "k1", scope |-> "a", ceiling |-> 1, role |-> "publisher",
       policy |-> [scopes |-> {"a"}, admin |-> 2, expires |-> Never]],
      [cap |-> "d", key |-> "k1", scope |-> "a", ceiling |-> 1, role |-> "reviewer",
       policy |-> entry_only(1)] }

MCPoints == { [equipment |-> "e2", scope |-> "a", class |-> "service", unit |-> "degC"] }
MCCandidates ==
    { [equipment |-> "e2", scope |-> "a", class |-> "service", unit |-> "degC",
       requested |-> "sense", effective |-> "sense", feedback |-> "absent",
       status |-> "new"] }
bound_row(kind, sequence) ==
    [kind |-> kind, body |-> [id |-> "e1", address |-> "x"], sequence |-> sequence,
     revision |-> sequence - 1, op |-> NoWork, entitled |-> TRUE]
\* An empty history, and one in which the address was retired.
MCBegun == { <<>>, <<bound_row("equipment", 1), bound_row("retire", 2)>> }

key(cap, n) == [cap |-> cap, key |-> n]
MCRecoveries ==
    { [op |-> "p", kind |-> "provision", current |-> key("root", 0), new |-> key(Account, 1)],
      [op |-> "b", kind |-> "rebootstrap", current |-> key(Account, 1), new |-> key("pub", 1)],
      [op |-> "r", kind |-> "rotate", current |-> key(Account, 1), new |-> key(Account, 2)],
      [op |-> "t", kind |-> "rotate", current |-> key(Account, 1), new |-> key(Account, 2)] }
MCStrangers == { [cap |-> "pub", key |-> 1, shape |-> "publisher"] }

one == [kind |-> "number", text |-> "1"]
item(n, class, prefix, label, unit, v) ==
    [key |-> n, class |-> class, slot |-> [prefix |-> prefix, n |-> 1], label |-> label,
     unit |-> unit, value |-> v]
\* Candidates that differ in a label only, that claim one slot, that fail two checks.
MCSites ==
    LET ahu == item(1, "AHU", "ahu", "a", "degC", one)
        vav == item(2, "VAV", "vav", "a", "Pa", one)
        mode(m) == item(3, "VAV", "vav", "a", "Pa", [kind |-> "mode", text |-> m])
    IN { {ahu}, {[ahu EXCEPT !.label = "b"]}, {ahu, vav}, {ahu, mode("occupied")},
         {ahu, mode("defrost")}, {vav, mode("occupied")}, {ahu, [ahu EXCEPT !.label = "b"]}, {},
         {vav, item(4, "VAV", "ahu", "a", "Pa", one)},
         {vav, item(4, "Chiller", "ahu", "a", "furlong", one)} }
relation(kind, a, b, iri) == [relation |-> [kind |-> kind, a |-> a, b |-> b], iri |-> iri]
MCPlans ==
    { [relations |-> {relation("served-by", "vav-101", "ahu-1", "feeds")}, observes |-> FALSE],
      [relations |-> {relation("observed-by", "ahu-1", "sensor-sat-1", "isPointOf")},
       observes |-> TRUE],
      [relations |-> {relation("observed-by", "vav-102", "sensor-sat-1", "hasPoint")},
       observes |-> TRUE] }

-----------------------------------------------------------------------------
\* The component that moves.
VARIABLE moving

allVars == <<moving, storeVars, outboxVars, accessVars, bindingVars, recoveryVars,
             semanticsVars>>

\* A component with several initial states rests in one of them.
OperationsInit ==
    /\ moving \in {"files", "outbox", "access", "binding", "recovery",
                   "semantics"}
    /\ StoreInit /\ OutboxInit /\ AccessInit /\ BindingInit
    /\ RecoveryInit /\ SemanticsInit
    /\ moving # "files" => leaf = NoFile
    /\ moving # "binding" => history = <<>>
    /\ moving # "semantics" => \A i \in taken : i.key = 1 /\ i.label = "a"

OperationsNext ==
    \/ /\ moving = "files" /\ StoreNext
       /\ UNCHANGED <<moving, outboxVars, accessVars, bindingVars,
                      recoveryVars, semanticsVars>>
    \/ /\ moving = "outbox" /\ OutboxNext
       /\ UNCHANGED <<moving, storeVars, accessVars, bindingVars,
                      recoveryVars, semanticsVars>>
    \/ /\ moving = "access" /\ AccessNext
       /\ UNCHANGED <<moving, storeVars, outboxVars, bindingVars,
                      recoveryVars, semanticsVars>>
    \/ /\ moving = "binding" /\ BindingNext
       /\ UNCHANGED <<moving, storeVars, outboxVars, accessVars,
                      recoveryVars, semanticsVars>>
    \/ /\ moving = "recovery" /\ RecoveryNext
       /\ UNCHANGED <<moving, storeVars, outboxVars, accessVars, bindingVars,
                      semanticsVars>>
    \/ /\ moving = "semantics" /\ SemanticsNext
       /\ UNCHANGED <<moving, storeVars, outboxVars, accessVars, bindingVars,
                      recoveryVars>>

OperationsSpec == OperationsInit /\ [][OperationsNext]_allVars

\* One pair stands for the two callers, registries and desks alike:
\* only one component moves, and in it the pair can be exchanged.
Symmetry == Permutations(Desks) \cup Permutations(Operations)
=============================================================================
