------------------------------- MODULE Access -------------------------------
(***************************************************************************)
(* Capabilities, issuance, rotation and revocation (src/src/access).       *)
(*                                                                         *)
(* The admission log is a set of additive outbox rows.  Every operation    *)
(* reads the whole log, checks the presented credential against it, and    *)
(* submits a batch guarded by the exact log it read and by the expiry it   *)
(* checked.  Between the read and the commit anything may be committed by  *)
(* another caller and the wall clock moves, forwards or back.              *)
(***************************************************************************)
EXTENDS Integers, Sequences, FiniteSets

CONSTANTS
    Callers,            \* processes that use an AccessGate
    Keys,               \* key identities callers choose from
    Secrets,            \* key material callers choose from
    Requests,           \* what administrators are asked to issue
    MaxTime,            \* the wall clock's range
    ReplayRows,         \* max_replay_rows: the most rows a read accepts
    NoBatch             \* the caller has nothing prepared

\* A policy without expiry outlasts the clock, one without administration is
\* below every level.
Never == MaxTime + 1
NoAdmin == -1

\* A policy is of an entry without administration, or of an administrator of at
\* least one scope (CapabilityPolicy::administrator).
ASSUME AccessAssumption ==
    /\ MaxTime \in Nat
    /\ ReplayRows \in Nat
    /\ Callers \cap Secrets = {}
    /\ \A q \in Requests :
          /\ q.ceiling \in Nat /\ q.policy.expires \in Nat
          /\ q.policy.admin \in Nat \cup {NoAdmin}
          /\ q.policy.admin = NoAdmin <=> q.policy.scopes = {}

entry_only(expires) == [scopes |-> {}, admin |-> NoAdmin, expires |-> expires]

VARIABLES
    log,        \* the admission rows in id order
    authored,   \* of each row: its author, when, and after how many rows (history)
    prepared,   \* each caller's batch between its read and its submit
    held,       \* key material some caller knows
    wall        \* the wall clock

accessVars == <<log, authored, prepared, held, wall>>

AccessInit ==
    /\ log = <<>> /\ authored = <<>>
    /\ prepared = [g \in Callers |-> NoBatch]
    /\ held = Secrets
    /\ wall = 0

-----------------------------------------------------------------------------
\* What decode_issue refuses of a row that was written.
decode_issue(r) ==
    /\ r.gen >= 1
    /\ IF r.policy.admin = NoAdmin THEN r.policy.scopes = {}
       ELSE r.policy.scopes # {} /\ r.policy.admin <= r.ceiling

Issues(l) == {l[i] : i \in {j \in DOMAIN l : l[j].kind = "issue"}}
Revokes(l) == {l[i] : i \in {j \in DOMAIN l : l[j].kind = "revoke"}}

\* State::read: a log past the horizon, an undecodable row, or a repeated
\* generation or key of a capability refuses every operation.
read(l) ==
    /\ Len(l) <= ReplayRows
    /\ \A r \in Issues(l) : decode_issue(r)
    /\ \A i, j \in DOMAIN l :
          i # j /\ l[i].kind = "issue" /\ l[j].kind = "issue" /\ l[i].cap = l[j].cap =>
              l[i].gen # l[j].gen /\ l[i].key # l[j].key

\* require_bootstrapped: one marker, and both bootstrap capabilities issued.
require_bootstrapped(l) ==
    /\ Cardinality({i \in DOMAIN l : l[i].kind = "bootstrap"}) = 1
    /\ {"reviewer-1", "publisher-1"} \subseteq {r.cap : r \in Issues(l)}

\* AccessGate::open of a store with that log.
gate_open(l) == read(l) /\ require_bootstrapped(l)

latest(l, cap) ==
    CHOOSE r \in Issues(l) : r.cap = cap /\ \A s \in Issues(l) : s.cap = cap => s.gen <= r.gen

matched(l, cred) == CHOOSE r \in Issues(l) : r.cap = cred.cap /\ r.key = cred.key

require_live(policy, now) == now < policy.expires

\* State::checked: the first refusal, or ok.
checked(l, cred, scope, rotating, now) ==
    LET m == matched(l, cred)
        stale == m.gen # latest(l, cred.cap).gen
    IN  IF Len(l) = 0 THEN "not-bootstrapped"
        ELSE IF ~require_bootstrapped(l) THEN "invalid-record"
        ELSE IF cred.cap \notin {r.cap : r \in Issues(l)} THEN "unknown-capability"
        ELSE IF ~\E r \in Issues(l) : r.cap = cred.cap /\ r.key = cred.key
        THEN "forged-credential"
        ELSE IF m.fp # cred.secret THEN "forged-credential"
        ELSE IF scope # m.scope /\ scope # "any" THEN "scope-denied"
        ELSE IF rotating /\ stale THEN "stale-generation"
        ELSE IF \E v \in Revokes(l) : v.cap = m.cap /\ v.key = m.key
        THEN "revoked-credential"
        ELSE IF stale THEN "stale-generation"
        ELSE IF ~require_live(m.policy, now) THEN "expired-credential"
        ELSE "ok"

\* Mutant: the delegated administrative ceiling is compared with the
\* administrator's, not with the ceiling of the credential it is issued on.
authorize_Ceiling(policy, r) ==
    /\ policy.admin # NoAdmin
    /\ r.scope \in policy.scopes
    /\ r.ceiling <= policy.admin
    /\ r.policy.admin <= policy.admin
    /\ r.policy.scopes \subseteq policy.scopes
    /\ r.policy.expires <= policy.expires

\* CapabilityPolicy::authorize: everything requested is within the
\* administrator's own policy.
authorize(policy, r) ==
    /\ policy.admin # NoAdmin
    /\ r.scope \in policy.scopes
    /\ r.ceiling <= policy.admin
    /\ r.policy.admin <= policy.admin /\ r.policy.admin <= r.ceiling
    /\ r.policy.scopes \subseteq policy.scopes
    /\ r.policy.expires <= policy.expires

\* enter: what enter_review and enter_publish answer to a credential.
enter(l, cred, scope, required, now) ==
    LET c == checked(l, cred, scope, FALSE, now)
        m == matched(l, cred)
    IN  IF ~read(l) THEN "invalid-record"
        ELSE IF c # "ok" THEN c
        ELSE IF m.ceiling < (IF required = "publisher" THEN 2 ELSE 1) THEN "ceiling-exceeded"
        ELSE IF m.role = "reviewer" /\ required = "publisher" THEN "role-denied"
        ELSE "ok"

\* Credentials somebody could present: any pair of names with known material.
Presentable == [cap : {r.cap : r \in Issues(log)}, key : Keys, secret : held]

-----------------------------------------------------------------------------
issue_row(cred, req) ==
    [kind |-> "issue", cap |-> cred.cap, key |-> cred.key, fp |-> cred.secret, gen |-> 1,
     scope |-> req.scope, ceiling |-> req.ceiling, role |-> req.role, policy |-> req.policy]

revoke_row(m) == [kind |-> "revoke", cap |-> m.cap, key |-> m.key, gen |-> m.gen]

\* batch: the rows, guarded by the log that was read and by an expiry.
batch(g, rows, expires, author) ==
    /\ prepared' = [prepared EXCEPT ![g] =
                      [guard |-> log, rows |-> rows, expires |-> expires, author |-> author]]
    /\ UNCHANGED <<log, authored, held, wall>>

\* bootstrap: marker, reviewer and publisher in one batch, with key material
\* that only this caller has.
bootstrap(g) ==
    LET cred(cap, key) == [cap |-> cap, key |-> key, secret |-> g]
        reviewer == [scope |-> "a", ceiling |-> 1, role |-> "reviewer", policy |-> entry_only(Never)]
        publisher == [scope |-> "a", ceiling |-> 2, role |-> "publisher",
                      policy |-> [scopes |-> {"a", "b"}, admin |-> 2, expires |-> Never]]
    IN  /\ prepared[g] = NoBatch
        /\ log = <<>>
        /\ batch(g, << [kind |-> "bootstrap"],
                       issue_row(cred("reviewer-1", "k1"), reviewer),
                       issue_row(cred("publisher-1", "k1"), publisher) >>, Never, NoBatch)

\* earliest: a batch lives as long as the shorter of two policies.
earliest(a, b) == IF a.expires < b.expires THEN a.expires ELSE b.expires

\* issue and issue_with_policy.
issue_with_policy(g, administrator, cred, req) ==
    LET admin == matched(log, administrator)
    IN  /\ prepared[g] = NoBatch
        /\ read(log)
        /\ checked(log, administrator, "any", FALSE, wall) = "ok"
        /\ authorize(admin.policy, req)
        /\ require_live(req.policy, wall)
        /\ cred.cap \notin {r.cap : r \in Issues(log)}
        /\ batch(g, <<issue_row(cred, req)>>, earliest(admin.policy, req.policy), administrator)

\* rotate: the old key is revoked and its successor issued together.
rotate(g, current, key, secret) ==
    LET m == matched(log, current)
    IN  /\ prepared[g] = NoBatch
        /\ read(log)
        /\ checked(log, current, "any", TRUE, wall) = "ok"
        /\ ~\E r \in Issues(log) : r.cap = m.cap /\ r.key = key
        /\ batch(g, << revoke_row(m),
                       [kind |-> "issue", cap |-> m.cap, key |-> key, fp |-> secret,
                        gen |-> m.gen + 1, scope |-> m.scope, ceiling |-> m.ceiling,
                        role |-> m.role, policy |-> m.policy] >>,
                 m.policy.expires, current)

\* revoke: of the presented credential itself.
revoke(g, current) ==
    LET m == matched(log, current)
    IN  /\ prepared[g] = NoBatch
        /\ read(log)
        /\ checked(log, current, "any", FALSE, wall) = "ok"
        /\ batch(g, <<revoke_row(m)>>, m.policy.expires, current)

\* Mutant: the guard counts the capability rows that were issued only.
Unchanged_Issues(p) == Issues(log) = Issues(p.guard)

\* The guard of State::read: count and bytes of every row.
Unchanged(p) == log = p.guard

\* Mutant: the expiry is not evaluated again in the transaction.
Live_Checked(p) == TRUE

\* access_guard_live, evaluated in the transaction.
Live(p) == wall < p.expires

\* submit: under the writer lock both guards are evaluated and the rows
\* appended, all or none.  Bootstrap keys are known only if the answer arrives;
\* an unknown outcome is never retried.
submit_batch(g) ==
    LET p == prepared[g]
        committed == Unchanged(p) /\ Live(p)
        stamps == [i \in DOMAIN p.rows |-> [author |-> p.author, at |-> wall, before |-> Len(log)]]
    IN  /\ p # NoBatch
        /\ log' = IF committed THEN log \o p.rows ELSE log
        /\ authored' = IF committed THEN authored \o stamps ELSE authored
        /\ \E answered \in BOOLEAN :
              held' = IF committed /\ answered /\ p.author = NoBatch THEN held \cup {g} ELSE held
        /\ prepared' = [prepared EXCEPT ![g] = NoBatch]
        /\ UNCHANGED wall

\* The store refuses for its own reasons, or the caller dies.
Abandon(g) ==
    /\ prepared[g] # NoBatch
    /\ prepared' = [prepared EXCEPT ![g] = NoBatch]
    /\ UNCHANGED <<log, authored, held, wall>>

Clock == wall' \in 0 .. MaxTime /\ UNCHANGED <<log, authored, prepared, held>>

AccessNext ==
    \/ \E g \in Callers :
          \/ bootstrap(g) \/ submit_batch(g) \/ Abandon(g)
          \/ \E current \in Presentable :
                \/ \E r \in Requests, secret \in Secrets :
                      issue_with_policy(g, current, [cap |-> r.cap, key |-> r.key, secret |-> secret], r)
                \/ \E key \in Keys, secret \in Secrets : rotate(g, current, key, secret)
                \/ revoke(g, current)
    \/ Clock

AccessSpec == AccessInit /\ [][AccessNext]_accessVars

-----------------------------------------------------------------------------
\* Whoever wrote a row was entitled to at the instant it was committed, not
\* just when the log was read: the author's key was the newest, unrevoked and
\* unexpired, an issue was within the author's policy, and a rotation handed on
\* exactly what it replaced.  A revocation or expiry that races with a prepared
\* batch wins (issue_with_policy, rotate, revoke, submit).
AuthorityAtCommit ==
    \A i \in DOMAIN log :
        LET r == log[i]
            w == authored[i]
            l == SubSeq(log, 1, w.before)
            m == matched(l, w.author)
        IN  w.author # NoBatch =>
                /\ checked(l, w.author, "any", FALSE, w.at) = "ok"
                /\ r.kind = "issue" /\ r.gen = 1 => authorize(m.policy, r)
                /\ r.kind = "issue" /\ r.gen > 1 =>
                      /\ r.cap = m.cap /\ r.gen = m.gen + 1
                      /\ r.policy = m.policy /\ r.scope = m.scope
                      /\ r.ceiling = m.ceiling /\ r.role = m.role
                /\ r.kind = "revoke" => r.cap = m.cap /\ r.key = m.key

\* The gate never writes a log it would refuse to read, short of the horizon:
\* one bootstrap, every issue decodable, and per capability a line of
\* generations of which all but the newest are revoked, so at most one key of a
\* capability ever enters and a publisher's entry needs a publisher's ceiling
\* and role (State::read, enter).
GateReadable ==
    /\ Len(log) \in 1 .. ReplayRows => gate_open(log)
    /\ \A r \in Issues(log) :
          /\ r.gen = 1 \/ \E s \in Issues(log) : s.cap = r.cap /\ s.gen = r.gen - 1
          /\ r.gen = latest(log, r.cap).gen \/ \E v \in Revokes(log) : v.cap = r.cap /\ v.key = r.key
    /\ \A scope \in {"a", "b"} :
          LET entering(role) == {c \in Presentable : enter(log, c, scope, role, wall) = "ok"}
          IN  /\ entering("publisher") \subseteq entering("reviewer")
              /\ \A c, d \in entering("reviewer") : c.cap = d.cap => c = d

\* No row of the access log was written without the authority it needed, and the
\* log can always be read back (gate.rs, state.rs).
AccessSound == AuthorityAtCommit /\ GateReadable
=============================================================================
