------------------------------ MODULE Recovery ------------------------------
(***************************************************************************)
(* Recovery of the credentials of one scope (src/src/api/recovery.rs): the *)
(* recovery account is provisioned by an administrator, and then issues a  *)
(* new publisher or rotates its own key.                                   *)
(*                                                                         *)
(* A call journals its intent, looks whether its credential exists already *)
(* and whether this very operation issued it, and otherwise issues it: an  *)
(* issue is a read of the access history and a commit under a guard on its *)
(* length.  Callers lose answers and call again with the same operation,   *)
(* possibly with a key that their first call has revoked; others issue,    *)
(* revoke and cancel meanwhile.                                            *)
(***************************************************************************)
EXTENDS Naturals, Sequences, FiniteSets

CONSTANTS Desks,        \* Api values over one store
          Recoveries,   \* the calls: operation, kind, current and new credential
          Strangers,    \* issues by others: capability, key, shape
          MaxLedger,    \* bound on the rows of the access history
          MaxWithdrawn, \* bound on the cancellations
          NoIntent

\* A credential is a capability and a key, a rotation keeps the capability, and no
\* other issue carries the reason text of a recovery operation.
ASSUME RecoveryAssumption ==
    /\ {MaxLedger, MaxWithdrawn} \subseteq Nat
    /\ NoIntent \notin Recoveries
    /\ \A c \in Recoveries :
          /\ c.kind \in {"provision", "rebootstrap", "rotate"}
          /\ c.op \notin {"bootstrap", "stranger"}
          /\ c.new = [cap |-> c.new.cap, key |-> c.new.key]
          /\ c.kind = "rotate" => c.new.cap = c.current.cap

VARIABLES ledger,     \* the access history: issues and revocations in order
          intended,   \* the journaled call of each operation
          withdrawn,  \* operations with a cancellation row
          desk,       \* what each caller is doing
          given       \* credentials answered, with their operation (history)

recoveryVars == <<ledger, intended, withdrawn, desk, given>>

Account == "api-recovery"
Recovering == {c.op : c \in Recoveries}
NoDesk == [at |-> "idle", call |-> NoIntent, done |-> FALSE, read |-> 0]

Issued(cap, key, shape, why) ==
    [row |-> "issue", cap |-> cap, key |-> key, shape |-> shape, why |-> why]
Revoked(cap, key) == [row |-> "revoke", cap |-> cap, key |-> key, shape |-> "none", why |-> "none"]

\* The scope was bootstrapped with an administrator.
RecoveryInit ==
    /\ ledger = << Issued("root", 0, "administrator", "bootstrap") >>
    /\ intended = [o \in Recovering |-> NoIntent]
    /\ withdrawn = {}
    /\ desk = [d \in Desks |-> NoDesk]
    /\ given = {}

-----------------------------------------------------------------------------
\* The access gate, from the history.
IssuesOf(cap) == {i \in DOMAIN ledger : ledger[i].row = "issue" /\ ledger[i].cap = cap}
Known(cap) == IssuesOf(cap) # {}
newest(cap) == ledger[CHOOSE i \in IssuesOf(cap) : \A k \in IssuesOf(cap) : k <= i]
is_revoked(c) == \E i \in DOMAIN ledger : ledger[i] = Revoked(c.cap, c.key)
authenticates(c) == Known(c.cap) /\ newest(c.cap).key = c.key /\ ~is_revoked(c)
issue_reason(cap) == newest(cap).why

\* check_recovery: the recovery account of this scope, with exactly its policy.
check_recovery(c) == c.cap = Account /\ newest(Account).shape = "recovery"

\* Who may start what; a rotation may be proved by its successor.
entitled_provision(c) == authenticates(c.current) /\ newest(c.current.cap).shape = "administrator"
entitled_rebootstrap(c) == authenticates(c.current) /\ check_recovery(c.current) /\ c.new.cap # Account
entitled_rotate(c) == authenticates(c.current) /\ check_recovery(c.current)

Starts(d, c, done) ==
    /\ desk[d] = NoDesk
    /\ desk' = [desk EXCEPT ![d] = [NoDesk EXCEPT !.at = "remember", !.call = c, !.done = done]]
    /\ UNCHANGED <<ledger, intended, withdrawn, given>>

provision_recovery(d, c) == c.kind = "provision" /\ entitled_provision(c) /\ Starts(d, c, FALSE)
rebootstrap(d, c) == c.kind = "rebootstrap" /\ entitled_rebootstrap(c) /\ Starts(d, c, FALSE)
rotate_account(d, c) == c.kind = "rotate" /\ entitled_rotate(c) /\ Starts(d, c, FALSE)

\* Mutant: the journaled rotation and a live successor are proof enough.
completed_BySuccessor(c) == intended[c.op] = c /\ authenticates(c.new) /\ check_recovery(c.new)

\* A rotation whose old key no longer authenticates: it is this operation's if the
\* newest issue carries its reason and the old key is revoked.
completed(c) ==
    /\ intended[c.op] = c
    /\ authenticates(c.new) /\ check_recovery(c.new)
    /\ issue_reason(Account) = c.op /\ is_revoked(c.current)

rotate_again(d, c) ==
    c.kind = "rotate" /\ ~authenticates(c.current) /\ completed(c) /\ Starts(d, c, TRUE)

-----------------------------------------------------------------------------
To(d, at) == desk' = [desk EXCEPT ![d].at = at]
Leaves(d) == desk' = [desk EXCEPT ![d] = NoDesk]
Gives(d) ==
    /\ given' = given \union {[op |-> desk[d].call.op, new |-> desk[d].call.new]}
    /\ Leaves(d)

\* remember, in whose commit the credential that proves the call is still live; the
\* answer may be lost.
remembered(d) ==
    LET c == desk[d].call
    IN /\ desk[d].at = "remember"
       /\ authenticates(IF desk[d].done THEN c.new ELSE c.current)
       /\ intended[c.op] \in {NoIntent, c}
       /\ intended' = [intended EXCEPT ![c.op] = c]
       /\ \/ To(d, IF c.kind = "rotate" /\ ~desk[d].done THEN "dispatch" ELSE "look")
          \/ Leaves(d)
       /\ UNCHANGED <<ledger, withdrawn, given>>

\* Does the credential exist: no capability of that name, or the right one.
look(d) ==
    LET c == desk[d].call
    IN /\ desk[d].at = "look"
       /\ \/ desk[d].done /\ Gives(d)
          \/ /\ ~desk[d].done /\ ~Known(c.new.cap)
             /\ To(d, "dispatch") /\ UNCHANGED given
          \/ /\ ~desk[d].done /\ authenticates(c.new)
             /\ newest(c.new.cap).shape = (IF c.kind = "provision" THEN "recovery" ELSE "publisher")
             /\ To(d, "found") /\ UNCHANGED given
       /\ UNCHANGED <<ledger, intended, withdrawn>>

\* Mutant: a credential that exists is the answer.
own_Any(c) == Known(c.new.cap)

\* issue_reason: this operation issued it, and not another one.
own(c) == issue_reason(c.new.cap) = c.op

found(d) ==
    /\ desk[d].at = "found" /\ own(desk[d].call)
    /\ Gives(d)
    /\ UNCHANGED <<ledger, intended, withdrawn>>

\* dispatchable, then the gate reads the history and checks the issuer.
dispatched(d) ==
    LET c == desk[d].call
    IN /\ desk[d].at = "dispatch" /\ c.op \notin withdrawn
       /\ authenticates(c.current)
       /\ IF c.kind = "rotate" THEN \A i \in IssuesOf(Account) : ledger[i].key # c.new.key
                               ELSE ~Known(c.new.cap)
       /\ desk' = [desk EXCEPT ![d].at = "commit", ![d].read = Len(ledger)]
       /\ UNCHANGED <<ledger, intended, withdrawn, given>>

\* Mutant: the batch is not tied to the history it was built from.
same_history_Any(d) == TRUE

same_history(d) == Len(ledger) = desk[d].read

\* What each kind of call writes.
written(c) ==
    CASE c.kind = "provision" -> << Issued(c.new.cap, c.new.key, "recovery", c.op) >>
      [] c.kind = "rebootstrap" -> << Issued(c.new.cap, c.new.key, "publisher", c.op) >>
      [] OTHER -> << Revoked(c.current.cap, c.current.key),
                     Issued(c.new.cap, c.new.key, "recovery", c.op) >>

\* The batch commits and the answer is given or lost, or it is refused.
committed(d) ==
    LET rows == written(desk[d].call)
    IN /\ desk[d].at = "commit" /\ same_history(d)
       /\ Len(ledger) + Len(rows) <= MaxLedger
       /\ ledger' = ledger \o rows
       /\ Gives(d) \/ (Leaves(d) /\ UNCHANGED given)
       /\ UNCHANGED <<intended, withdrawn>>

\* Every refusal on the way, and the death of the caller.
Withdraws(d) ==
    desk[d] # NoDesk /\ Leaves(d) /\ UNCHANGED <<ledger, intended, withdrawn, given>>

-----------------------------------------------------------------------------
\* Others: an issue of their own, a revocation, a cancellation.
StrangerIssues(s) ==
    /\ ~Known(s.cap) /\ Len(ledger) < MaxLedger
    /\ ledger' = Append(ledger, Issued(s.cap, s.key, s.shape, "stranger"))
    /\ UNCHANGED <<intended, withdrawn, desk, given>>

StrangerRevokes(c) ==
    /\ authenticates(c) /\ Len(ledger) < MaxLedger
    /\ ledger' = Append(ledger, Revoked(c.cap, c.key))
    /\ UNCHANGED <<intended, withdrawn, desk, given>>

CancelOperation(op) ==
    /\ intended[op] # NoIntent /\ Cardinality(withdrawn) < MaxWithdrawn
    /\ withdrawn' = withdrawn \union {op}
    /\ UNCHANGED <<ledger, intended, desk, given>>

RecoveryNext ==
    \/ \E d \in Desks :
         \/ \E c \in Recoveries : provision_recovery(d, c) \/ rebootstrap(d, c)
                                  \/ rotate_account(d, c) \/ rotate_again(d, c)
         \/ remembered(d) \/ look(d) \/ found(d) \/ dispatched(d) \/ committed(d) \/ Withdraws(d)
    \/ \E s \in Strangers : StrangerIssues(s)
    \/ \E c \in Recoveries : StrangerRevokes(c.new) \/ CancelOperation(c.op)

RecoverySpec == RecoveryInit /\ [][RecoveryNext]_recoveryVars

-----------------------------------------------------------------------------
IssuedBy(op) == {i \in DOMAIN ledger : ledger[i].row = "issue" /\ ledger[i].why = op}

\* A recovery operation issues one credential at most, the one it journaled; what
\* any call of it answers is that credential, however often it is called, by how
\* many and with which of the two keys (recovery.rs: the reason and revocation
\* checks of provision_recovery and recover, gate.rs: the guarded batch).  And no
\* capability ever has two keys that authenticate.
RecoveryProven ==
    /\ \A op \in Recovering : Cardinality(IssuedBy(op)) <= 1
    /\ \A op \in Recovering : \A i \in IssuedBy(op) :
         intended[op] # NoIntent /\ intended[op].new = [cap |-> ledger[i].cap, key |-> ledger[i].key]
    /\ \A a \in given : IssuedBy(a.op) # {} /\ intended[a.op].new = a.new
    /\ \A cap \in {"root", Account, "pub"} : \A i, k \in IssuesOf(cap) :
         i < k => is_revoked([cap |-> cap, key |-> ledger[i].key])
=============================================================================
