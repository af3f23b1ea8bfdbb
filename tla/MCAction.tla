------------------------------ MODULE MCAction ------------------------------
(***************************************************************************)
(* Three operations, each a SET or a release of one piece of equipment: at *)
(* most two SETs in two consecutive ticks of a clock of three that can be  *)
(* set back, and one slot for announcements.  The preview's seal, and the  *)
(* dispatch of one admitted row with its recovery (MCDispatch), share no   *)
(* state with the journal: one of the three moves, the others rest.        *)
(***************************************************************************)
EXTENDS ActionJournal, MCDispatch, TLC

CONSTANTS o1, o2, o3

VARIABLE moving

MCOps == {o1, o2, o3}
MCRequests == { [target |-> "ahu", kind |-> "set", rev |-> 1],
                [target |-> "ahu", kind |-> "release", rev |-> 1] }

\* The channel is followed up to the second admission, which can find it full.
Announced == Cardinality(Rows) <= 2 \/ essential = << >>

ActionInit ==
    /\ moving \in {"journal", "preview", "dispatch"}
    /\ JournalInit /\ PreviewInit /\ DispatchInit
    /\ moving # "journal" => now = 0
    /\ moving # "dispatch" => row = admitted(setting) /\ peer8.confirms /\ peer8.above = Nil

ActionNext ==
    \/ moving = "journal" /\ JournalNext /\ UNCHANGED <<moving, previewVars, dispatchVars>>
    \/ moving = "preview" /\ PreviewNext /\ UNCHANGED <<moving, journalVars, dispatchVars>>
    \/ moving = "dispatch" /\ DispatchSteps /\ UNCHANGED <<moving, journalVars, previewVars>>

ActionSpec == ActionInit /\ [][ActionNext]_<<moving, journalVars, previewVars, dispatchVars>>

Symmetry == Permutations(MCOps)
=============================================================================
