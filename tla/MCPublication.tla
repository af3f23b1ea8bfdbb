--------------------------- MODULE MCPublication ----------------------------
(***************************************************************************)
(* Two callers, two publications staged at the registry's first revision,  *)
(* two revisions.  One acceptance operation is used with two expectations, *)
(* a third acceptance lies beyond the limit, and an activation reuses the  *)
(* identity of an acceptance.  Seals, which a publication is staged from   *)
(* and which share no state with it here, are taken and released in two    *)
(* native stores.  One of the two moves, the other rests.                  *)
(***************************************************************************)
EXTENDS Publication, Seal, TLC

CONSTANTS c1, c2, s1, s2, a1, a2, b1, b2

VARIABLE moving

MCCallers == {c1, c2}
MCOps == {a1, a2, b1, b2}
MCSeals == {s1, s2}
First == [op |-> a1, expected |-> 0, seal |-> s1]
Rival == [op |-> a2, expected |-> 0, seal |-> s2]
Second == [op |-> a2, expected |-> 1, seal |-> s2]
Third == [op |-> b1, expected |-> 2, seal |-> s1]
MCAcceptRequests == {First, Rival, Second, Third}
MCActivateRequests ==
    { [op |-> b1, expected |-> 0, acc |-> First],
      [op |-> b2, expected |-> 0, acc |-> Second],
      [op |-> b2, expected |-> 1, acc |-> Second],
      [op |-> b2, expected |-> 1, acc |-> First],
      [op |-> a2, expected |-> 0, acc |-> First] }
MCBindingOf == [s \in MCSeals |-> 0]
\* While authority or the registry moves, one caller at a time, and two rows in all.
Alone ==
    /\ access.rows + registry.rows > 0 => \A c, d \in Callers : c # d => "idle" \in {pc[c], pc[d]}
    /\ access.rows + registry.rows <= 2

\* A root over a finding, and one that reaches itself.
MCChildren ==
    [k \in RowKeys |-> CASE k = "f" -> {} [] k = "a" -> {"f"} [] OTHER -> {"a", "c"}]
MCPublishes ==
    { [op |-> "s1", root |-> "a"], [op |-> "s2", root |-> "a"], [op |-> "s2", root |-> "c"] }

\* Around seals, one trouble at a time: a death, a change of authority, a doubled row.
OneTrouble == deaths + grantRows + (IF copies["a"] = 2 THEN 1 ELSE 0) <= 1

PublicationInit == moving \in {"publication", "seal"} /\ Init /\ SealInit

PublicationSpec ==
    /\ PublicationInit
    /\ [][\/ moving = "publication" /\ Next /\ UNCHANGED <<moving, sealVars>>
          \/ moving = "seal" /\ SealNext /\ UNCHANGED <<moving, vars>>
         ]_<<moving, vars, sealVars>>

\* The same pair names the native stores: only one component moves.
Symmetry == Permutations(MCCallers)
=============================================================================
