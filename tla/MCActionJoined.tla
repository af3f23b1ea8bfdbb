--------------------------- MODULE MCActionJoined ---------------------------
(***************************************************************************)
(* The two protocols that journal an intent before its effect, which share *)
(* no row: one moves, the other rests.  Actions: two operations on one     *)
(* piece of equipment, a SET or a release of one revision, two actors, two *)
(* revisions, two ticks, any number of crashes; the announcement channel   *)
(* refuses everything (MaxTasks = 0), since nothing here reads it and      *)
(* MCAction covers it.  The API: two coordinators that draft, edit or      *)
(* report a finding under one operation identity, seal either revision and *)
(* accept.                                                                 *)
(***************************************************************************)
EXTENDS ActionJoined, ApiJournal, TLC

CONSTANTS o1, o2, ann, bob

VARIABLE moving

MCOps == {o1, o2}
MCActors == {ann, bob}
Ahu == [scope |-> "site", equipment |-> "ahu"]
MCTargets == {Ahu}
MCRequests == { [target |-> Ahu, kind |-> "set", rev |-> 1],
                [target |-> Ahu, kind |-> "release", rev |-> 1] }

api(op, kind, parent) == [op |-> op, kind |-> kind, parent |-> parent, input |-> 1]
MCRequested ==
    { api("d", "draft", NoRequest), api("e", "edit", "d"), api("e", "finding", "d"),
      api("s", "seal", "d"), api("s", "seal", "e"), api("a", "accept", "s") }

JoinedInit ==
    /\ moving \in {"action", "api"} /\ Init /\ ApiInit
    /\ moving = "api" => now = 0

JoinedSpec ==
    /\ JoinedInit
    /\ [][\/ moving = "action" /\ Next /\ UNCHANGED <<moving, apiVars>>
          \/ moving = "api" /\ ApiNext /\ UNCHANGED <<moving, vars>>
         ]_<<moving, vars, apiVars>>

\* The same pair names the coordinators: only one component moves.
Symmetry == Permutations(MCOps) \cup Permutations(MCActors)
=============================================================================
