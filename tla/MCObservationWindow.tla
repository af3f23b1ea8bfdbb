------------------------ MODULE MCObservationWindow ------------------------
EXTENDS ObservationWindow, TLC

CONSTANTS h1, h2

MCHandles == {h1, h2}
MCKeys == {"k"}
b1 == [key |-> "k", act |-> 1]
b2 == [key |-> "k", act |-> 2]
MCBindings == {b1, b2}
early == [boot |-> 1, mark |-> 1, receipt |-> 1, source |-> None]
late == [boot |-> 1, mark |-> 2, receipt |-> 2, source |-> None]
optional(e) == [binding |-> b1, evidence |-> e, mandatory |-> FALSE]
mandatory(e) == [binding |-> b1, evidence |-> e, mandatory |-> TRUE]
MCInputs == {optional(late)}

\* The journal after open, select_binding(b1) and two captures: the first is
\* current, the second is mandatory and carries earlier evidence.
Journal ==
    [state |-> [rev |-> 4, epoch |-> 1, next |-> 2, gen |-> 1,
                selected |-> [k \in MCKeys |-> b1], current |-> [k \in MCKeys |-> 0]],
     rows |-> {[seq |-> s, gen |-> 1, by |-> h1, settled |-> FALSE,
                input |-> IF s = 0 THEN optional(late) ELSE mandatory(early)] : s \in 0 .. 1},
     pins |-> {}, gaps |-> {}]

\* A fresh store, or h1 at work on that journal.
MCInit ==
    \/ Init
    \/ /\ db = Journal
       /\ lease = [h \in Handles |-> IF h = h1 THEN 1 ELSE 0]
       /\ receipts = {} /\ log = {} /\ clock = [boot |-> 1, t |-> 0]
       /\ captured = None /\ token = [h \in Handles |-> None]
       /\ call = [h \in Handles |-> None] /\ orphan = None
       /\ commits = 0 /\ crashes = 0

\* Crashes are followed on the fresh store, whose revision stays below that of
\* the seeded journal.
Bound == crashes = 0 \/ db.state = None \/ db.state.rev < Journal.state.rev

MCSpec == MCInit /\ [][Next]_vars

=============================================================================
