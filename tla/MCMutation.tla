----------------------------- MODULE MCMutation -----------------------------
(***************************************************************************)
(* Two threads on one store.  Operation o1 has an original ticket and one  *)
(* rebuilt under the same identity with another body; o2 is a Change whose *)
(* body may match zero rows, rebuilt after a restart; one ticket belongs   *)
(* to another store.                                                       *)
(***************************************************************************)
EXTENDS Mutation

CONSTANTS c1, c2

MCCallers == {c1, c2}
MCOps == {"o1", "o2"}
MCRows == 0..2

Insert1 == [shape |-> "Insert", store |-> "s", body |-> "a"]
Insert2 == [shape |-> "Insert", store |-> "s", body |-> "b"]
Change == [shape |-> "Change", store |-> "s", body |-> "a"]
Foreign == [shape |-> "Insert", store |-> "other", body |-> "a"]

MCRequests == {Insert1, Insert2, Change, Foreign}
MCTickets == { [op |-> "o1", req |-> Insert1, rebuilt |-> FALSE],
               [op |-> "o1", req |-> Insert2, rebuilt |-> TRUE],
               [op |-> "o2", req |-> Change,  rebuilt |-> TRUE],
               [op |-> "o2", req |-> Foreign, rebuilt |-> FALSE] }

=============================================================================
