------------------------------ MODULE Pointer -------------------------------
(***************************************************************************)
(* What the acceptance store promises about one scope: a revision that     *)
(* grows by one with each acceptance, and an active pointer that only ever *)
(* jumps to the newest accepted revision, never back and never to the one  *)
(* it already names.  These are the two steps that modules ActionJoined    *)
(* and Runtime assume of their environment.  Implemented by Publication.   *)
(***************************************************************************)
EXTENDS Naturals

CONSTANT MaxAccepted

VARIABLES
    accepted,   \* newest accepted revision; 0: none
    active      \* revision the active pointer names; 0: none

vars == <<accepted, active>>

Init == accepted = 0 /\ active = 0

Accept ==
    /\ accepted < MaxAccepted
    /\ accepted' = accepted + 1
    /\ UNCHANGED active

Activate ==
    /\ active < accepted
    /\ active' = accepted
    /\ UNCHANGED accepted

Next == Accept \/ Activate

Spec == Init /\ [][Next]_vars

=============================================================================
