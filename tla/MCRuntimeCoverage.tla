------------------------- MODULE MCRuntimeCoverage -------------------------
(***************************************************************************)
(* The controller of MCRuntime and one COV subscription with a device that *)
(* holds two values, one place in its channel, one notification in the air *)
(* and one trouble.  They share no state: one moves, the other rests.      *)
(***************************************************************************)
EXTENDS MCRuntime, Subscription

VARIABLE moving

CoverageInit == moving \in {"runtime", "subscription"} /\ Init /\ SubscriptionInit

CoverageSpec ==
    /\ CoverageInit
    /\ [][\/ moving = "runtime" /\ Next /\ UNCHANGED <<moving, subscriptionVars>>
          \/ moving = "subscription" /\ SubscriptionNext /\ UNCHANGED <<moving, vars>>
         ]_<<moving, vars, subscriptionVars>>
=============================================================================
