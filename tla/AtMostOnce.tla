----------------------------- MODULE AtMostOnce -----------------------------
(***************************************************************************)
(* What the durable store promises its callers about an attempt identity:  *)
(* the effects of an operation are applied at most once, together with the *)
(* receipt that binds the operation to its exact request and its rows, and *)
(* a receipt, once written, is never replaced.  Nothing is said of how.    *)
(* Implemented by module Mutation.                                         *)
(***************************************************************************)
EXTENDS Naturals

CONSTANTS Ops, Requests, Rows, NoReceipt

VARIABLES
    receipts,   \* receipts[op]: NoReceipt, or the request and rows bound to op
    effects     \* effects[op]: how many times a body ran to commit for op

vars == <<receipts, effects>>

Init ==
    /\ receipts = [op \in Ops |-> NoReceipt]
    /\ effects = [op \in Ops |-> 0]

\* One transaction: body effects and receipt become visible together, once.
Apply(op, req, rows) ==
    /\ receipts[op] = NoReceipt
    /\ receipts' = [receipts EXCEPT ![op] = [req |-> req, rows |-> rows]]
    /\ effects' = [effects EXCEPT ![op] = @ + 1]

Next == \E op \in Ops, req \in Requests, rows \in Rows : Apply(op, req, rows)

Spec == Init /\ [][Next]_vars

=============================================================================
