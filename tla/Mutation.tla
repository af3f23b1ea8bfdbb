------------------------------ MODULE Mutation ------------------------------
(***************************************************************************)
(* The receipt protocol of the SQLite store (src/src/storage/sqlite/       *)
(* mutation.rs, admission.rs, execution.rs): callers submit prepared       *)
(* tickets, each attempt runs in a sqlite3 child that takes the database   *)
(* writer lock (BEGIN IMMEDIATE), looks the operation's receipt up, runs   *)
(* the body, writes the receipt and commits.  Responses can be lost, the   *)
(* child can be killed, and the whole process can crash and leave a child  *)
(* behind that still commits.                                              *)
(***************************************************************************)
EXTENDS Naturals, FiniteSets

CONSTANTS
    Callers,        \* threads of the process that call the store
    Ops,            \* attempt identities (OperationId)
    Requests,       \* request bytes: shape, store identity and body
    Rows,           \* response rows; 0 stands for a Change of zero rows
    Tickets,        \* PreparedMutation values, see TicketAssumption
    ThisStore,      \* identity of the opened store
    MaxRunning,     \* StoreBounds.max_running_operations
    MaxCrashes,     \* bound on process crashes
    SharedClones,   \* may a second thread submit a clone of a ticket while
                    \* its first attempt is still running
    NoReceipt, NoCaller, NoTicket

\* A ticket binds an operation to a request; `rebuilt' tells a ticket made by
\* with_operation, whose attempted flag starts true.
ASSUME TicketAssumption ==
    /\ \A q \in Requests : q.shape \in {"Insert", "Rows", "Change"}
    /\ \A t \in Tickets : /\ t.op \in Ops
                          /\ t.req \in Requests
                          /\ t.rebuilt \in BOOLEAN

ASSUME BoundAssumption ==
    /\ MaxRunning \in Nat
    /\ MaxCrashes \in Nat
    /\ SharedClones \in BOOLEAN
    /\ Rows \subseteq Nat
    /\ NoCaller \notin Callers
    /\ NoTicket \notin Tickets
    /\ NoReceipt \notin [req : Requests, rows : Rows]

Modes == {"submit", "reconcile", "reconcile_operation"}
Phases == {"idle", "admit", "barrier", "lookup", "stage", "commit"}
Verdicts == {"none", "Committed", "NotCommitted", "Conflict", "Unknown"}

VARIABLES
    receipts,   \* table storage_receipts, committed content
    effects,    \* how many committed transactions ran op's body
    writer,     \* the caller whose child holds SQLite's writer lock
    orphan,     \* a child that outlived a crash with its COMMIT dispatched
    attempted,  \* the attempted flag of each ticket, shared by its clones
    phase,      \* where each caller is in submit or reconcile
    mode,       \* which of the three it runs
    ticket,     \* on which ticket
    retried,    \* the value attempted had when the call began
    staged,     \* the rows the caller's open transaction has produced
    result,     \* what the last step returned to its caller, if it returned
    crashes     \* number of crashes so far

db == <<receipts, effects>>
calls == <<phase, mode, ticket, retried, staged>>
vars == <<db, writer, orphan, attempted, calls, result, crashes>>

Receipt == [req : Requests, rows : Rows]
Verdict == [kind : Verdicts, rows : Rows \cup {NoReceipt}]
Says(kind) == [kind |-> kind, rows |-> NoReceipt]
Silent == [ticket |-> NoTicket, mode |-> "submit", verdict |-> Says("none")]

TypeOK ==
    /\ receipts \in [Ops -> Receipt \cup {NoReceipt}]
    /\ effects \in [Ops -> Nat]
    /\ writer \in Callers \cup {NoCaller}
    /\ orphan \in [ticket : Tickets, rows : Rows] \cup {NoTicket}
    /\ attempted \in [Tickets -> BOOLEAN]
    /\ phase \in [Callers -> Phases]
    /\ mode \in [Callers -> Modes]
    /\ ticket \in [Callers -> Tickets \cup {NoTicket}]
    /\ retried \in [Callers -> BOOLEAN]
    /\ staged \in [Callers -> Rows \cup {NoReceipt}]
    /\ result \in [ticket : Tickets \cup {NoTicket}, mode : Modes, verdict : Verdict]
    /\ crashes \in Nat

-----------------------------------------------------------------------------
Init ==
    /\ receipts = [op \in Ops |-> NoReceipt]
    /\ effects = [op \in Ops |-> 0]
    /\ writer = NoCaller
    /\ orphan = NoTicket
    /\ attempted = [t \in Tickets |-> t.rebuilt]
    /\ phase = [c \in Callers |-> "idle"]
    /\ mode = [c \in Callers |-> "submit"]
    /\ ticket = [c \in Callers |-> NoTicket]
    /\ retried = [c \in Callers |-> FALSE]
    /\ staged = [c \in Callers |-> NoReceipt]
    /\ result = Silent
    /\ crashes = 0

\* A sqlite3 child exists, and its Operation slot is held, in these phases.
Running == {c \in Callers : phase[c] \in {"barrier", "lookup", "stage", "commit"}}

\* The outcome of a receipt's rows: a Change of zero rows is a conflict.
outcome(req, rows) ==
    IF req.shape = "Change" /\ rows = 0
      THEN Says("Conflict")
      ELSE [kind |-> "Committed", rows |-> rows]

\* The call returns v; dropping the connection kills and reaps the child,
\* which rolls an uncommitted transaction back and frees the writer lock.
Return(c, v) ==
    /\ result' = [ticket |-> ticket[c], mode |-> mode[c], verdict |-> v]
    /\ phase' = [phase EXCEPT ![c] = "idle"]
    /\ mode' = [mode EXCEPT ![c] = "submit"]
    /\ ticket' = [ticket EXCEPT ![c] = NoTicket]
    /\ retried' = [retried EXCEPT ![c] = FALSE]
    /\ staged' = [staged EXCEPT ![c] = NoReceipt]
    /\ writer' = IF writer = c THEN NoCaller ELSE writer
    /\ UNCHANGED <<attempted, orphan, crashes>>

Goto(c, p) ==
    /\ phase' = [phase EXCEPT ![c] = p]
    /\ result' = Silent
    /\ UNCHANGED <<mode, ticket, retried, attempted, orphan, crashes>>

-----------------------------------------------------------------------------
\* Some thread is inside the first submit of this ticket.
FirstAttemptRuns(t) ==
    \E d \in Callers : /\ phase[d] # "idle"
                       /\ ticket[d] = t
                       /\ mode[d] = "submit"
                       /\ ~retried[d]

\* submit, up to the call of admitted(true): attempted is swapped to true.
Submit(c, t) ==
    /\ phase[c] = "idle"
    /\ SharedClones \/ ~FirstAttemptRuns(t)
    /\ attempted' = [attempted EXCEPT ![t] = TRUE]
    /\ IF t.req.store # ThisStore
         THEN /\ result' = [ticket |-> t, mode |-> "submit", verdict |-> Says("Conflict")]
              /\ UNCHANGED calls
         ELSE /\ phase' = [phase EXCEPT ![c] = "admit"]
              /\ mode' = [mode EXCEPT ![c] = "submit"]
              /\ ticket' = [ticket EXCEPT ![c] = t]
              /\ retried' = [retried EXCEPT ![c] = attempted[t]]
              /\ result' = Silent
              /\ UNCHANGED staged
    /\ UNCHANGED <<db, writer, orphan, crashes>>

\* reconcile and reconcile_operation (which has the identity only): no flag is
\* touched, and the store is compared after the lookup.
Reconcile(c, t, m) ==
    /\ phase[c] = "idle"
    /\ mode' = [mode EXCEPT ![c] = m]
    /\ ticket' = [ticket EXCEPT ![c] = t]
    /\ result' = Silent
    /\ phase' = [phase EXCEPT ![c] = "admit"]
    /\ UNCHANGED <<db, writer, orphan, attempted, retried, staged, crashes>>

\* Operation::start: the bounded counter of running operations admits one more.
StartOperation(c) ==
    /\ phase[c] = "admit"
    /\ Cardinality(Running) < MaxRunning
    /\ Goto(c, "barrier")
    /\ UNCHANGED <<db, writer, staged>>

\* BEGIN IMMEDIATE succeeds and the schema and file identity are re-verified.
Admit(c) ==
    /\ phase[c] = "barrier"
    /\ writer = NoCaller
    /\ orphan = NoTicket
    /\ writer' = c
    /\ Goto(c, "lookup")
    /\ UNCHANGED <<db, staged>>

\* Mutant: a retry whose admission fails is reported as a known noncommit.
AdmitFails_ForgetsRetry(c) ==
    /\ phase[c] \in {"admit", "barrier"}
    /\ Return(c, Says(IF mode[c] = "submit" THEN "NotCommitted" ELSE "Unknown"))
    /\ UNCHANGED db

\* Mutant: waiting for the writer lock has no deadline.
AdmitFails_WaitsForever(c) ==
    /\ phase[c] = "admit"
    /\ Return(c, Says("Unknown"))
    /\ UNCHANGED db

\* admitted(true) fails: no slot, busy past its retries, deadline, identity.
AdmitFails(c) ==
    /\ phase[c] \in {"admit", "barrier"}
    /\ Return(c, Says(IF mode[c] = "submit" /\ ~retried[c]
                        THEN "NotCommitted" ELSE "Unknown"))
    /\ UNCHANGED db

\* The receipt query fails: nothing was shown about the operation.
LookupFails(c) ==
    /\ phase[c] = "lookup"
    /\ Return(c, Says("Unknown"))
    /\ UNCHANGED db

\* Mutant: the replayed receipt is not compared with the request.
Replay_AnyRequest(m, t, r) == outcome(r.req, r.rows)

\* What a receipt r tells a call of mode m on ticket t: its rows, when it is
\* for the same request (reconcile_operation: for this store), else a conflict.
Replay(m, t, r) ==
    IF m = "reconcile_operation"
      THEN IF r.req.store = ThisStore THEN outcome(r.req, r.rows) ELSE Says("Unknown")
      ELSE IF r.req = t.req /\ t.req.store = ThisStore
             THEN outcome(t.req, r.rows) ELSE Says("Conflict")

LookupHit(c) ==
    /\ phase[c] = "lookup"
    /\ receipts[ticket[c].op] # NoReceipt
    /\ Return(c, Replay(mode[c], ticket[c], receipts[ticket[c].op]))
    /\ UNCHANGED db

\* No receipt under the writer lock: a reconciliation reports a known
\* noncommit, a submit goes on to run the body.
ReconcileMiss(c) ==
    /\ phase[c] = "lookup"
    /\ mode[c] # "submit"
    /\ receipts[ticket[c].op] = NoReceipt
    /\ Return(c, Says(IF mode[c] = "reconcile" /\ ticket[c].req.store # ThisStore
                        THEN "Conflict" ELSE "NotCommitted"))
    /\ UNCHANGED db

\* Mutant: the body runs without the receipt lookup.
SubmitMiss_NoLookup(c) ==
    /\ phase[c] = "lookup"
    /\ mode[c] = "submit"
    /\ Goto(c, "stage")
    /\ UNCHANGED <<db, writer, staged>>

SubmitMiss(c) ==
    /\ phase[c] = "lookup"
    /\ mode[c] = "submit"
    /\ receipts[ticket[c].op] = NoReceipt
    /\ Goto(c, "stage")
    /\ UNCHANGED <<db, writer, staged>>

\* Bounds, guard, body or receipt insert fail in the open transaction: the
\* child is reaped before the noncommit is reported.
StageFails(c) ==
    /\ phase[c] = "stage"
    /\ Return(c, Says("NotCommitted"))
    /\ UNCHANGED db

\* Body and receipt are written in the open transaction, not yet committed.
Stage(c, rows) ==
    /\ phase[c] = "stage"
    /\ CASE ticket[c].req.shape = "Change" -> rows \in {0, 1}
         [] ticket[c].req.shape = "Insert" -> rows > 0
         [] OTHER -> TRUE
    /\ staged' = [staged EXCEPT ![c] = rows]
    /\ Goto(c, "commit")
    /\ UNCHANGED <<db, writer>>

\* Mutant: the receipt keeps the rows and not the request they answer.
Durable_NoRequest(t, rows) ==
    /\ receipts' = [receipts EXCEPT ![t.op] = [rows |-> rows]]
    /\ effects' = [effects EXCEPT ![t.op] = @ + 1]

\* The transaction of ticket t with these rows becomes durable.
Durable(t, rows) ==
    /\ receipts' = [receipts EXCEPT ![t.op] = [req |-> t.req, rows |-> rows]]
    /\ effects' = [effects EXCEPT ![t.op] = @ + 1]

\* COMMIT succeeds and the child exits cleanly.
Commit(c) ==
    /\ phase[c] = "commit"
    /\ Durable(ticket[c], staged[c])
    /\ Return(c, outcome(ticket[c].req, staged[c]))

\* COMMIT took effect and the answer was lost, malformed or late.
CommitLost(c) ==
    /\ phase[c] = "commit"
    /\ Durable(ticket[c], staged[c])
    /\ Return(c, Says("Unknown"))

\* COMMIT failed or its child was killed first: the caller cannot tell.
CommitFails(c) ==
    /\ phase[c] = "commit"
    /\ Return(c, Says("Unknown"))
    /\ UNCHANGED db

\* The process dies.  Every caller is gone; a child whose COMMIT had been
\* sent keeps the lock and decides on its own.  Tickets come back through
\* with_operation on the persisted identity, so each counts as attempted.
Crash ==
    /\ crashes < MaxCrashes
    /\ crashes' = crashes + 1
    /\ orphan' = IF writer # NoCaller /\ phase[writer] = "commit"
                   THEN [ticket |-> ticket[writer], rows |-> staged[writer]]
                   ELSE orphan
    /\ writer' = NoCaller
    /\ attempted' = [t \in Tickets |-> TRUE]
    /\ phase' = [c \in Callers |-> "idle"]
    /\ mode' = [c \in Callers |-> "submit"]
    /\ ticket' = [c \in Callers |-> NoTicket]
    /\ retried' = [c \in Callers |-> FALSE]
    /\ staged' = [c \in Callers |-> NoReceipt]
    /\ result' = Silent
    /\ UNCHANGED db

OrphanCommits ==
    /\ orphan # NoTicket
    /\ Durable(orphan.ticket, orphan.rows)
    /\ orphan' = NoTicket
    /\ result' = Silent
    /\ UNCHANGED <<writer, attempted, calls, crashes>>

OrphanRollsBack ==
    /\ orphan # NoTicket
    /\ orphan' = NoTicket
    /\ result' = Silent
    /\ UNCHANGED <<db, writer, attempted, calls, crashes>>

-----------------------------------------------------------------------------
Step(c) ==
    \/ StartOperation(c) \/ Admit(c) \/ AdmitFails(c)
    \/ LookupFails(c) \/ LookupHit(c) \/ ReconcileMiss(c) \/ SubmitMiss(c)
    \/ StageFails(c) \/ \E rows \in Rows : Stage(c, rows)
    \/ Commit(c) \/ CommitLost(c) \/ CommitFails(c)

Next ==
    \/ \E c \in Callers, t \in Tickets : Submit(c, t)
    \/ \E c \in Callers, t \in Tickets, m \in Modes \ {"submit"} : Reconcile(c, t, m)
    \/ \E c \in Callers : Step(c)
    \/ Crash \/ OrphanCommits \/ OrphanRollsBack

Spec == Init /\ [][Next]_vars

\* Every operation runs against a wall deadline after which its child is
\* killed and reaped, so a call that began always takes its next step.
FairSpec ==
    /\ Spec
    /\ \A c \in Callers : WF_vars(Step(c))
    /\ WF_vars(OrphanCommits \/ OrphanRollsBack)

-----------------------------------------------------------------------------
\* The effects of an operation are committed at most once, and exactly when
\* its receipt is, whatever is retried, lost, killed or orphaned (submit).
EffectsMatchReceipts ==
    \A op \in Ops : effects[op] = IF receipts[op] = NoReceipt THEN 0 ELSE 1

\* A receipt is evidence for ever: no retry, no other request under the same
\* identity and no orphaned child replaces it ("conflict, never overwrite").
ReceiptsPermanent ==
    [][\A op \in Ops : receipts[op] # NoReceipt => receipts'[op] = receipts[op]]_vars

\* A call that returns Committed names the rows its operation's receipt holds,
\* for the caller's own request (reconcile_operation asks by identity alone),
\* so that every replay of an operation tells the same story.
CommittedIsReceipt ==
    result.verdict.kind = "Committed" =>
        LET r == receipts[result.ticket.op]
        IN  /\ r # NoReceipt
            /\ r.rows = result.verdict.rows
            /\ r.req = result.ticket.req \/ result.mode = "reconcile_operation"

\* At the moment a call returns NotCommitted, the operation is not committed
\* under this caller's request ("Noncommit is known only before COMMIT
\* dispatch ... or after a successful writer-barrier receipt lookup").
NoncommitIsKnown ==
    result.verdict.kind = "NotCommitted" =>
        LET r == receipts[result.ticket.op]
        IN  r = NoReceipt \/ r.req # result.ticket.req

\* No call hangs: a submit or reconcile in progress returns (or the process
\* crashes), because the lock is always given up by a killed or ended child.
CallsReturn ==
    \A c \in Callers : phase[c] # "idle" ~> phase[c] = "idle"

\* Mutation implements the abstract at-most-once store.
Abstract == INSTANCE AtMostOnce
ImplementsAtMostOnce == Abstract!Spec

=============================================================================
