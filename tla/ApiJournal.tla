----------------------------- MODULE ApiJournal -----------------------------
(***************************************************************************)
(* The in-process API (src/src/api): durable intents, their effects, and   *)
(* cancellation, in one scope.                                             *)
(*                                                                         *)
(* A call first journals what it intends, under a guard on the access      *)
(* history and on the number of intents it read, and then dispatches the   *)
(* effect to its owner in a second commit.  Callers die or lose answers    *)
(* between the two and call again under the same operation identity; other *)
(* coordinators journal, cancel and revoke meanwhile.                      *)
(***************************************************************************)
EXTENDS Naturals, Sequences, FiniteSets

CONSTANTS
    Coordinators,       \* Api values over the same store
    Requested,          \* the calls that are made: operation, kind, parent, input
    PageSizes,          \* page sizes readers ask for
    MAX_WORK,           \* intents of a scope
    MaxGrants,          \* bound on the changes of the access history
    NoRequest

ASSUME ApiAssumption == {MAX_WORK, MaxGrants} \cup PageSizes \subseteq Nat

VARIABLES
    journal,    \* the intents; entitled is history
    effects,    \* the owners' receipts: what each operation identity committed
    cancels,    \* operations with a cancellation row
    session,    \* what each coordinator is doing
    grants,     \* the access history: its version, and whether the caller may publish
    halted      \* operations cancelled before any dispatch of theirs (history)

apiVars == <<journal, effects, cancels, session, grants, halted>>

Quiet == [at |-> "idle", call |-> NoRequest, seen |-> 0, captured |-> 0]

ApiInit ==
    /\ journal = <<>>
    /\ effects = {}
    /\ cancels = {}
    /\ session = [s \in Coordinators |-> Quiet]
    /\ grants = [version |-> 0, publisher |-> TRUE]
    /\ halted = {}

-----------------------------------------------------------------------------
Intended(j, op) == {i \in DOMAIN j : j[i].op = op}
intent(op) == journal[CHOOSE i \in Intended(journal, op) : TRUE]

\* effect_row, seal_effect and AcceptanceStore::reconcile: by receipt.
effect_row(op) == {e \in effects : e.op = op}

\* The revisions of a draft, oldest first.
Revisions(j, subject) ==
    {i \in DOMAIN j : j[i].subject = subject /\ j[i].kind \in {"draft", "edit"}}

\* read_revision: a staged revision whose bytes are the intent's.
read_revision(op) ==
    \E i \in Intended(journal, op) :
        /\ journal[i].kind \in {"draft", "edit"}
        /\ \E e \in effect_row(op) : e.input = journal[i].input

\* seal_effect: the commit of a seal, from its receipt.
seal_effect(op) ==
    IF \E i \in Intended(journal, op) : journal[i].kind = "seal" THEN effect_row(op) ELSE {}

subject_of(c) == IF c.kind = "draft" THEN c.op ELSE intent(c.parent).subject

Matches(i, c) ==
    i.kind = c.kind /\ i.parent = c.parent /\ i.input = c.input

-----------------------------------------------------------------------------
\* Mutant: only a seal that was committed freezes the draft.
Frozen_Committed(j, subject) ==
    \E i \in DOMAIN j : j[i].kind = "seal" /\ j[i].subject = subject /\ effect_row(j[i].op) # {}

\* A persisted seal intent freezes its draft, cancelled or lost.
Frozen(j, subject) == \E i \in DOMAIN j : j[i].kind = "seal" /\ j[i].subject = subject

\* The newest revision of a draft in a history.
Newest(j, subject, op) ==
    \A i \in Revisions(j, subject) :
        (\A k \in Revisions(j, subject) : k <= i) => j[i].op = op

\* What remember requires of the history it read before it journals an edit or
\* a seal: the parent is the newest revision, and nothing is frozen.
Editable(j, c) ==
    c.kind \in {"edit", "seal"} =>
        Newest(j, subject_of(c), c.parent) /\ ~Frozen(j, subject_of(c))

\* The caller enters as publisher, the history of intents is read and the
\* access history captured.
remember(s, c) ==
    /\ session[s] = Quiet
    /\ grants.publisher
    /\ Len(journal) <= MAX_WORK
    /\ session' = [session EXCEPT ![s] = [at |-> "captured", call |-> c, seen |-> Len(journal),
                                          captured |-> grants.version]]
    /\ UNCHANGED <<journal, effects, cancels, grants, halted>>

\* The operations up to remember.
draft(s, c) == c.kind = "draft" /\ remember(s, c)
edit(s, c) == c.kind = "edit" /\ read_revision(c.parent) /\ remember(s, c)
seal(s, c) == c.kind = "seal" /\ read_revision(c.parent) /\ remember(s, c)
prepare_accept(s, c) == c.kind = "accept" /\ seal_effect(c.parent) # {} /\ remember(s, c)
record_finding(s, c) == c.kind = "finding" /\ read_revision(c.parent) /\ remember(s, c)

\* The authority of remember, then the intent found in the history or the one
\* to be appended.
authorized(s) ==
    LET c == session[s].call
        old == {i \in Intended(journal, c.op) : i <= session[s].seen}
    IN  /\ session[s].at = "captured"
        /\ grants.publisher
        /\ IF old # {}
             THEN /\ \A i \in old : Matches(journal[i], c)
                  /\ session' = [session EXCEPT ![s].at = "journaled"]
             ELSE /\ session[s].seen < MAX_WORK
                  /\ Editable(SubSeq(journal, 1, session[s].seen), c)
                  /\ session' = [session EXCEPT ![s].at = "append"]
        /\ UNCHANGED <<journal, effects, cancels, grants, halted>>

\* Mutant: the number of intents that was read is not in the guard.
Guarded_Access(s) == grants.version = session[s].captured

\* The condition of the append.
Guarded(s) ==
    /\ grants.version = session[s].captured
    /\ Len(journal) = session[s].seen

\* append: intent and receipt in one commit; its answer may be lost, and so may
\* the answer of the reconciliation that follows.
append(s) ==
    LET c == session[s].call
    IN  /\ session[s].at = "append"
        /\ Guarded(s) /\ Intended(journal, c.op) = {}
        /\ journal' = Append(journal, [op |-> c.op, kind |-> c.kind, subject |-> subject_of(c),
                                       parent |-> c.parent, input |-> c.input,
                                       entitled |-> grants.publisher])
        /\ \/ session' = [session EXCEPT ![s].at = "journaled"]
           \/ session' = [session EXCEPT ![s] = Quiet]
        /\ UNCHANGED <<effects, cancels, grants, halted>>

\* The same request was committed by another coordinator from the same history.
append_replayed(s) ==
    LET c == session[s].call
    IN  /\ session[s].at = "append"
        /\ \E i \in Intended(journal, c.op) :
              i = session[s].seen + 1 /\ Matches(journal[i], c)
        /\ session' = [session EXCEPT ![s].at = "journaled"]
        /\ UNCHANGED <<journal, effects, cancels, grants, halted>>

\* submit_accept of a prepared acceptance starts from the journal.
submit_accept(s, c) ==
    /\ session[s] = Quiet
    /\ grants.publisher
    /\ c.kind = "accept" /\ Intended(journal, c.op) # {}
    /\ Matches(intent(c.op), c)
    /\ session' = [session EXCEPT ![s] = [Quiet EXCEPT !.at = "journaled", !.call = c]]
    /\ UNCHANGED <<journal, effects, cancels, grants, halted>>

\* Mutant: whether the operation was cancelled is not asked.
dispatchable_Always(s) ==
    /\ session[s].at = "journaled"
    /\ effect_row(session[s].call.op) = {}
    /\ session' = [session EXCEPT ![s].at = "dispatching"]
    /\ UNCHANGED <<journal, effects, cancels, grants, halted>>

\* No receipt yet, and not cancelled.
dispatchable(s) ==
    /\ session[s].at = "journaled"
    /\ effect_row(session[s].call.op) = {}
    /\ session[s].call.op \notin cancels
    /\ session' = [session EXCEPT ![s].at = "dispatching"]
    /\ UNCHANGED <<journal, effects, cancels, grants, halted>>

\* An owner commits under the operation's identity, or finds it committed; the
\* answer may be lost.
Commits(s, kinds) ==
    LET c == session[s].call
    IN  /\ session[s].at = "dispatching" /\ c.kind \in kinds
        /\ effects' = IF effect_row(c.op) # {} THEN effects
                      ELSE effects \cup {[op |-> c.op, kind |-> c.kind, input |-> c.input]}
        /\ session' = [session EXCEPT ![s] = Quiet]
        /\ UNCHANGED <<journal, cancels, grants, halted>>

\* Staging needs no authority; sealing, accepting and findings are guarded by
\* their owners.
write_draft(s) == Commits(s, {"draft", "edit"})
seal_commit(s) == grants.publisher /\ Commits(s, {"seal"})
accept_commit(s) == grants.publisher /\ Commits(s, {"accept"})
emit_finding_effect(s) == grants.publisher /\ Commits(s, {"finding"})

\* cancel: of a journaled operation, under the access guard.
cancel(s, op) ==
    /\ session[s] = Quiet
    /\ grants.publisher
    /\ Intended(journal, op) # {} /\ op \notin cancels
    /\ session' = [session EXCEPT ![s] = [Quiet EXCEPT !.at = "cancelling", !.captured = grants.version,
                                                       !.call = [op |-> op]]]
    /\ UNCHANGED <<journal, effects, cancels, grants, halted>>

cancel_append(s) ==
    LET op == session[s].call.op
        dispatching == \E t \in Coordinators :
                          session[t].at = "dispatching" /\ session[t].call.op = op
    IN  /\ session[s].at = "cancelling"
        /\ grants.version = session[s].captured
        /\ cancels' = cancels \cup {op}
        /\ halted' = IF dispatching \/ effect_row(op) # {} THEN halted ELSE halted \cup {op}
        /\ session' = [session EXCEPT ![s] = Quiet]
        /\ UNCHANGED <<journal, effects, grants>>

\* A refusal, a conflict, the answer to a retry, or the process dies.
Returns(s) ==
    /\ session[s] # Quiet
    /\ session' = [session EXCEPT ![s] = Quiet]
    /\ UNCHANGED <<journal, effects, cancels, grants, halted>>

\* Somebody changes the access history, and may revoke this caller.
GrantsChange ==
    /\ grants.version < MaxGrants
    /\ \E publisher \in {grants.publisher, FALSE} :
          grants' = [version |-> grants.version + 1, publisher |-> publisher]
    /\ UNCHANGED <<journal, effects, cancels, session, halted>>

ApiNext ==
    \/ \E s \in Coordinators :
          \/ \E c \in Requested :
                \/ draft(s, c) \/ edit(s, c) \/ seal(s, c) \/ prepare_accept(s, c)
                \/ record_finding(s, c) \/ submit_accept(s, c) \/ cancel(s, c.op)
          \/ authorized(s) \/ append(s) \/ append_replayed(s) \/ dispatchable(s)
          \/ write_draft(s) \/ seal_commit(s) \/ accept_commit(s) \/ emit_finding_effect(s)
          \/ cancel_append(s) \/ Returns(s)
    \/ GrantsChange

ApiSpec == ApiInit /\ [][ApiNext]_apiVars

-----------------------------------------------------------------------------
\* What readers are told.
page(items, offset, size) ==
    [items |-> SubSeq(items, offset + 1, IF offset + size < Len(items) THEN offset + size ELSE Len(items)),
     next |-> IF offset + size < Len(items) THEN {offset + size} ELSE {}]

work_status(i) ==
    [op |-> i.op, cancel_requested |-> i.op \in cancels, effect |-> effect_row(i.op)]

\* sealed: the first seal intent of a draft, with its commit or pending.
sealed(subject) ==
    {work_status(journal[i]) : i \in {k \in DOMAIN journal :
        /\ journal[k].kind = "seal" /\ journal[k].subject = subject
        /\ \A m \in DOMAIN journal : journal[m].kind = "seal" /\ journal[m].subject = subject => k <= m}}

\* Whatever is lost, retried or raced: an operation is journaled once and by
\* someone entitled; a draft's revisions are one chain, each edit and the seal
\* made on the newest; a seal intent, even one cancelled or never dispatched,
\* is the only one and no revision follows it, so what is sealed is the last
\* revision; an effect is the one its intent described, and follows its
\* parent's; an operation cancelled before it was dispatched never takes effect;
\* the pages of the operations list tile it (remember, seal, cancel, page).
ApiJournalSound ==
    /\ Len(journal) <= MAX_WORK
    /\ \A i \in DOMAIN journal :
          LET me == journal[i]
              before == SubSeq(journal, 1, i - 1)
          IN  /\ me.entitled
              /\ Intended(journal, me.op) = {i}
              /\ me.kind \in {"edit", "seal"} =>
                    Newest(before, me.subject, me.parent) /\ ~Frozen(before, me.subject)
              /\ sealed(me.subject) # {} => Cardinality(sealed(me.subject)) = 1
    /\ \A e \in effects :
          /\ Cardinality(effect_row(e.op)) = 1
          /\ \E i \in DOMAIN journal :
                /\ journal[i].op = e.op /\ journal[i].kind = e.kind /\ journal[i].input = e.input
                /\ e.kind # "draft" => effect_row(journal[i].parent) # {}
    /\ \A op \in halted : effect_row(op) = {}
    /\ \A size \in PageSizes \ {0}, offset \in DOMAIN journal \cup {0} :
          LET p == page(journal, offset, size)
          IN  /\ Len(p.items) <= size
              /\ \A n \in p.next : p.items \o SubSeq(journal, n + 1, Len(journal)) =
                                      SubSeq(journal, offset + 1, Len(journal))
              /\ p.next = {} => p.items = SubSeq(journal, offset + 1, Len(journal))
=============================================================================
