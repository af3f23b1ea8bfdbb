------------------------------ MODULE Runtime ------------------------------
(***************************************************************************)
(* The runtime controller (src/src/runtime/mod.rs, admission.rs, task.rs,  *)
(* owners.rs, with the slots of bacnet/cov_admission.rs and                *)
(* modbus/admission.rs).  One thread owns a Runtime and calls begin_start, *)
(* enqueue, dispatch_next, cancel, poll, take_result and stop on it; every *)
(* job runs in a thread of its own that holds the lease and its budget     *)
(* reservations until it is joined.  Publications are activated meanwhile, *)
(* deadlines pass, the controller may drop the Runtime with jobs running,  *)
(* and another Runtime for the same stores may be built.                   *)
(***************************************************************************)
EXTENDS Naturals, FiniteSets, Sequences, FiniteSetsExt

CONSTANTS
    QueueSlots,     \* QUEUE_SLOTS, a bound per work class
    RunningSlots,   \* RUNNING_SLOTS
    SlotKind,       \* "cov" or "modbus": which subscription slot is in use
    MaxWork,        \* bound on the work admitted by one Runtime
    MaxStarts,      \* bound on incarnations
    MaxGen,         \* bound on activations
    NoJob, NoSession

Classes == {"sense", "reconcile", "optional"}

ASSUME RuntimeAssumption ==
    /\ QueueSlots \in [Classes -> Nat] /\ RunningSlots \in [Classes -> Nat]
    /\ SlotKind \in {"cov", "modbus"}
    /\ MaxWork \in Nat /\ MaxStarts \in Nat /\ MaxGen \in Nat

Start == 0                      \* the start job; work is numbered from 1
Ids == 1..MaxWork
JobIds == 0..MaxWork

\* What a job's thread is about to do; "done" has a result to join.
Phases == {"begin", "verified", "reading", "read", "done"}
\* started, refused: Output::Started with a selection or an error; ok: a read
\* envelope; stale: an error that puts the runtime on hold; fault: any other.
Results == {"none", "started", "refused", "ok", "stale", "fault"}
Job == [class : Classes, inc : Nat, gen : Nat, phase : Phases,
        result : Results, cancelled : BOOLEAN]
Session == [inc : Nat, gen : Nat]
States == {"Absent", "Stopped", "Starting", "RunningInert", "Held", "Stopping", "Unresolved"}
Work == [id : Ids, class : Classes]

\* Who may hold a clone of the lease: jobs by their number, the Runtime itself
\* and the slot.  (The clone of the opened stores is never the last one: whoever
\* has the stores, the Runtime or a thread, holds the lease besides.)
TheRuntime == MaxWork + 1
TheSlot == MaxWork + 2
Holders == JobIds \cup {TheRuntime, TheSlot}
Result == [ok : BOOLEAN, class : Classes, inc : Nat]

ASSUME NoneAssumption == NoJob \notin Job /\ NoJob \notin Result /\ NoSession \notin Session

VARIABLES
    state,      \* Runtime.state; "Absent": no Runtime object
    opened,     \* a start was spawned
    owners,     \* the opened stores are kept
    session,    \* the selection of the current incarnation
    inc,        \* Runtime.incarnation; 0: none
    lastInc,    \* the process-wide counter INCARNATION
    sequence,   \* work admitted so far
    queue,      \* VecDeque<Queued>
    job,        \* Vec<Running> by work id, with the state of its thread
    completed,  \* VecDeque<Completed> by work id
    retained,   \* Budget.queued per class
    running,    \* Budget.running per class
    lease,      \* holders of a clone of the one lease of these stores
    slot,       \* state of the subscription slot and its owner
    listed,     \* the slot is in cov_slots or modbus_slots
    cutoff,     \* the slot is cancelled
    abandoned,  \* threads and slot owner of a dropped Runtime, still alive
    expired,    \* jobs whose deadline has passed
    gen,        \* generation of the active publication and authority
    disturbed,  \* work whose publication changed during its adapter read
    asked       \* work whose cancellation the controller accepted

life == <<state, opened, owners, session, inc, lastInc>>
work == <<sequence, queue, job, completed>>
held == <<retained, running, lease>>
slots == <<slot, listed, cutoff>>
world == <<abandoned, expired, gen, disturbed, asked>>
vars == <<life, work, held, slots, world>>

SlotStates == {"none", "permit", "connecting", "open", "receiving", "joined", "lost", "abandoned"}

TypeOK ==
    /\ state \in States /\ opened \in BOOLEAN /\ owners \in BOOLEAN
    /\ session \in Session \cup {NoSession}
    /\ inc \in Nat /\ lastInc \in Nat /\ sequence \in Nat
    /\ queue \in Seq(Work)
    /\ job \in [JobIds -> Job \cup {NoJob}]
    /\ completed \in [Ids -> Result \cup {NoJob}]
    /\ \A c \in Classes : retained[c] \in 0..QueueSlots[c] /\ running[c] \in 0..RunningSlots[c]
    /\ slot \in SlotStates /\ listed \in BOOLEAN /\ cutoff \in BOOLEAN
    /\ lease \subseteq Holders /\ abandoned \subseteq Holders /\ expired \subseteq JobIds /\ gen \in Nat
    /\ disturbed \subseteq Ids /\ asked \subseteq Ids

-----------------------------------------------------------------------------
Live == {i \in JobIds : job[i] # NoJob}
Zero == [c \in Classes |-> 0]
NoJobs == [i \in JobIds |-> NoJob]
NoResults == [i \in Ids |-> NoJob]

\* Runtime::default and Lease::acquire: a fresh object with a fresh budget.
Fresh ==
    /\ opened' = FALSE /\ owners' = FALSE /\ session' = NoSession /\ inc' = 0
    /\ sequence' = 0 /\ queue' = << >> /\ job' = NoJobs /\ completed' = NoResults
    /\ retained' = Zero /\ running' = Zero
    /\ slot' = "none" /\ listed' = FALSE /\ cutoff' = FALSE
    /\ expired' = {} /\ disturbed' = {} /\ asked' = {}

Init ==
    /\ state = "Absent"
    /\ opened = FALSE /\ owners = FALSE /\ session = NoSession
    /\ inc = 0 /\ lastInc = 0 /\ sequence = 0
    /\ queue = << >> /\ job = NoJobs /\ completed = NoResults
    /\ retained = Zero /\ running = Zero
    /\ slot = "none" /\ listed = FALSE /\ cutoff = FALSE
    /\ lease = {} /\ abandoned = {} /\ expired = {} /\ gen = 1 /\ disturbed = {} /\ asked = {}

\* OWNERS has no entry for these stores that can still be upgraded: every clone
\* of their lease is gone.
LeaseFree == lease = {}

Inert ==
    /\ LeaseFree
    /\ state' = "Stopped"
    /\ lease' = {TheRuntime}
    /\ Fresh
    /\ UNCHANGED <<lastInc, abandoned, gen>>

\* The slot keeps its retained reservation and its clone of the lease: a Modbus
\* slot until it is finished, a COV slot until the runtime and the owner have
\* both let go of it.
Reserved == slot # "none" /\ (slot = "joined" => SlotKind = "cov")
\* An owner outside the runtime keeps the slot.
Owned == Reserved /\ slot \notin {"lost", "abandoned"}

\* What a dropped Runtime leaves behind: unfinished threads, and its slot with
\* an owner.
Survivors == {i \in Live : job[i].phase # "done"} \cup (IF Owned THEN {TheSlot} ELSE {})

\* Drop for Runtime and Task: unfinished threads are told to stop, not joined,
\* and keep what was moved into them; what finished threads returned, the slot
\* nobody else has and the Runtime's own clone are dropped with it.
Drop ==
    /\ state \notin {"Absent", "Stopping"}
    /\ state' = "Absent"
    /\ abandoned' = abandoned \cup Survivors
    /\ lease' = lease \ (({TheRuntime, TheSlot} \cup Live) \ Survivors)
    /\ Fresh
    /\ UNCHANGED <<lastInc, gen>>

\* An abandoned thread ends, or the owner of an abandoned slot drops it: what it
\* holds goes with it.
AbandonedExits(h) ==
    /\ h \in abandoned
    /\ abandoned' = abandoned \ {h}
    /\ lease' = lease \ {h}
    /\ UNCHANGED <<life, work, retained, running, slots, expired, gen, disturbed, asked>>

-----------------------------------------------------------------------------
NewJob(class, incarnation, g) ==
    [class |-> class, inc |-> incarnation, gen |-> g, phase |-> "begin",
     result |-> "none", cancelled |-> FALSE]

\* Mutant: the thread works without a clone of the lease.
Spawned_NoClone(i) == UNCHANGED lease

\* Task::spawn moves a clone of the lease into the thread, next to its
\* reservations; it comes back with the result, to be dropped at the join.
Spawned(i) == lease' = lease \cup {i}

\* Mutant: the bound itself is taken for room.
Room_OffByOne(counts, bounds, class) == counts[class] <= bounds[class]

\* Budget::reserve admits one more.
Room(counts, bounds, class) == counts[class] < bounds[class]

BeginStart ==
    /\ state = "Stopped" /\ Live = {}
    /\ opened => owners
    /\ lastInc < MaxStarts
    /\ Room(retained, QueueSlots, "reconcile") /\ Room(running, RunningSlots, "reconcile")
    /\ retained' = [retained EXCEPT !["reconcile"] = @ + 1]
    /\ running' = [running EXCEPT !["reconcile"] = @ + 1]
    /\ lastInc' = lastInc + 1 /\ inc' = lastInc + 1
    /\ opened' = TRUE /\ session' = NoSession /\ state' = "Starting"
    /\ job' = [job EXCEPT ![Start] = NewJob("reconcile", lastInc + 1, 0)]
    /\ Spawned(Start)
    /\ UNCHANGED <<owners, sequence, queue, completed, slots, world>>

Enqueue(class) ==
    /\ state = "RunningInert" /\ session # NoSession
    /\ sequence < MaxWork
    /\ Room(retained, QueueSlots, class)
    /\ retained' = [retained EXCEPT ![class] = @ + 1]
    /\ sequence' = sequence + 1
    /\ queue' = Append(queue, [id |-> sequence + 1, class |-> class])
    /\ UNCHANGED <<life, job, completed, running, lease, slots, world>>

\* Late, or its class has a free slot.
Eligible(i) == queue[i].id \in expired \/ Room(running, RunningSlots, queue[i].class)

\* Mutant: the search stops at mandatory work.
NextIndex_MandatoryOnly ==
    LET mandatory == {i \in 1..Len(queue) : queue[i].class # "optional" /\ Eligible(i)}
    IN  IF mandatory # {} THEN {Min(mandatory)} ELSE {}

\* The position dispatch_next takes: the first eligible mandatory item, else the
\* first eligible item of any class.
NextIndex ==
    LET all == {i \in 1..Len(queue) : Eligible(i)}
        mandatory == {i \in all : queue[i].class # "optional"}
    IN  IF mandatory # {} THEN {Min(mandatory)} ELSE IF all # {} THEN {Min(all)} ELSE {}

Without(i) == SubSeq(queue, 1, i - 1) \o SubSeq(queue, i + 1, Len(queue))

Finished(ok, class, incarnation) == [ok |-> ok, class |-> class, inc |-> incarnation]

\* The item is late, or its thread cannot be spawned: it completes with an error
\* and keeps its retained reservation.
DispatchFails(i) ==
    /\ state = "RunningInert"
    /\ i \in NextIndex
    /\ queue' = Without(i)
    /\ completed' = [completed EXCEPT ![queue[i].id] = Finished(FALSE, queue[i].class, inc)]
    /\ UNCHANGED <<life, sequence, job, held, slots, world>>

DispatchNext(i) ==
    /\ state = "RunningInert"
    /\ i \in NextIndex
    /\ queue[i].id \notin expired
    /\ running' = [running EXCEPT ![queue[i].class] = @ + 1]
    /\ queue' = Without(i)
    /\ job' = [job EXCEPT ![queue[i].id] = NewJob(queue[i].class, session.inc, session.gen)]
    /\ Spawned(queue[i].id)
    /\ UNCHANGED <<life, sequence, completed, retained, slots, world>>

CancelQueued(i) ==
    /\ i \in 1..Len(queue)
    /\ queue' = Without(i)
    /\ completed' = [completed EXCEPT ![queue[i].id] = Finished(FALSE, queue[i].class, inc)]
    /\ asked' = asked \cup {queue[i].id}
    /\ UNCHANGED <<life, sequence, job, held, slots, abandoned, expired, gen, disturbed>>

CancelRunning(i) ==
    /\ i \in Live \ {Start}
    /\ state # "Stopping"
    /\ job' = [job EXCEPT ![i].cancelled = TRUE]
    /\ asked' = asked \cup {i}
    /\ UNCHANGED <<life, sequence, queue, completed, held, slots, abandoned, expired, gen, disturbed>>

\* What is recorded of jobs and work that nothing refers to any more.
Settled(S) ==
    /\ expired' = expired \ S /\ disturbed' = disturbed \ S /\ asked' = asked \ S
    /\ UNCHANGED <<abandoned, gen>>

TakeResult(i) ==
    /\ completed[i] # NoJob
    /\ completed' = [completed EXCEPT ![i] = NoJob]
    /\ retained' = [retained EXCEPT ![completed[i].class] = @ - 1]
    /\ Settled({i})
    /\ UNCHANGED <<life, sequence, queue, job, running, lease, slots>>

-----------------------------------------------------------------------------
\* The job's thread i moves to a phase, or ends with a result.
Thread(i, phase, result) ==
    /\ job' = [job EXCEPT ![i].phase = phase, ![i].result = result]
    /\ UNCHANGED <<life, sequence, queue, completed, held, slots, world>>
InPhase(i, phase) == i \in Live /\ job[i].phase = phase

\* Cancellation::check.
Interrupted(i) == job[i].cancelled \/ i \in expired

\* Any check, store read, adapter call or panic ends the work with an error that
\* leaves the runtime running.
ThreadFaults(i) ==
    /\ i \in Live /\ job[i].phase # "done"
    /\ Thread(i, "done", "fault")

\* begin_start's thread: the stores are opened unless kept (failure: fault),
\* then the selection of the present generation is made, or refused.
StartOpens ==
    /\ InPhase(Start, "begin") /\ ~Interrupted(Start)
    /\ Thread(Start, "verified", "none")

StartSelects ==
    /\ InPhase(Start, "verified") /\ ~Interrupted(Start)
    /\ job' = [job EXCEPT ![Start].phase = "done", ![Start].result = "started",
                          ![Start].gen = gen]
    /\ UNCHANGED <<life, sequence, queue, completed, held, slots, world>>

StartRefused ==
    /\ InPhase(Start, "verified")
    /\ Thread(Start, "done", "refused")

\* Sealed content is verified against the selection.
WorkVerifies(i) ==
    /\ i # Start /\ InPhase(i, "begin") /\ ~Interrupted(i)
    /\ Thread(i, "verified", "none")

\* verify_content or check_generation fails: the publication moved on, or the
\* credential, a store or the sealed content is refused.  An error of the family
\* that holds the runtime.
WorkIsStale(i) ==
    /\ i # Start
    /\ InPhase(i, "begin") \/ InPhase(i, "verified") \/ InPhase(i, "read")
    /\ Thread(i, "done", "stale")

\* check_generation and the cancellation pass: the adapter is called.
WorkHandsOff(i) ==
    /\ i # Start /\ InPhase(i, "verified")
    /\ job[i].gen = gen /\ ~Interrupted(i)
    /\ Thread(i, "reading", "none")

AdapterReturns(i) ==
    /\ i # Start /\ InPhase(i, "reading")
    /\ Thread(i, "read", "none")

\* Mutant: the generation is not checked again after the read.
WorkSucceeds_NoRecheck(i) ==
    /\ i # Start /\ InPhase(i, "read")
    /\ ~Interrupted(i)
    /\ Thread(i, "done", "ok")

\* The generation and the cancellation are checked again, then candidates are
\* retained and the envelope is returned.
WorkSucceeds(i) ==
    /\ i # Start /\ InPhase(i, "read")
    /\ job[i].gen = gen /\ ~Interrupted(i)
    /\ Thread(i, "done", "ok")

ThreadStep(i) ==
    \/ ThreadFaults(i)
    \/ WorkVerifies(i) \/ WorkIsStale(i) \/ WorkHandsOff(i) \/ AdapterReturns(i) \/ WorkSucceeds(i)

StartStep == StartOpens \/ StartSelects \/ StartRefused

-----------------------------------------------------------------------------
Ending == state \in {"Stopping", "Unresolved"}
SlotGone == ~listed \/ slot = "joined"

\* A poll cancels a running job that is past its deadline.
PollCancels(i) ==
    /\ i \in Live \cap expired /\ ~job[i].cancelled
    /\ job' = [job EXCEPT ![i].cancelled = TRUE]
    /\ UNCHANGED <<life, sequence, queue, completed, held, slots, world>>

\* Mutant: the result of a thread that finished before the cancellation wins.
Joined_ResultWins(i) == job[i].result

\* What poll makes of a finished job: an interruption overrides its result, and
\* so does another incarnation.
Joined(i) ==
    IF inc # job[i].inc THEN "stale"
    ELSE IF Interrupted(i) THEN "fault" ELSE job[i].result

\* Joining drops what the thread returned, its running slot and its clone of the
\* lease; owners that were opened are kept.
Join(i) ==
    /\ InPhase(i, "done")
    /\ running' = [running EXCEPT ![job[i].class] = @ - 1]
    /\ lease' = lease \ {i}
    /\ owners' = (owners \/ job[i].result \in {"started", "refused"})

\* Mutant: the retained reservation outlives the job.
Forget_KeepsReservation(i) ==
    /\ job' = [job EXCEPT ![i] = NoJob]
    /\ UNCHANGED retained

Forget(i) ==
    /\ job' = [job EXCEPT ![i] = NoJob]
    /\ retained' = [retained EXCEPT ![job[i].class] = @ - 1]

\* While stopping, the result is dropped; the last join completes the stop.
PollDiscards(i) ==
    /\ Ending
    /\ Join(i) /\ Forget(i)
    /\ state' = IF Live = {i} /\ ~listed THEN "Stopped" ELSE state
    /\ Settled({i})
    /\ UNCHANGED <<opened, session, inc, lastInc, sequence, queue, completed, slots>>

PollStart ==
    /\ ~Ending
    /\ Join(Start) /\ Forget(Start)
    /\ IF Joined(Start) = "started"
         THEN /\ session' = [inc |-> job[Start].inc, gen |-> job[Start].gen]
              /\ state' = "RunningInert"
         ELSE state' = "Held" /\ UNCHANGED session
    /\ Settled({Start})
    /\ UNCHANGED <<opened, inc, lastInc, sequence, queue, completed, slots>>

\* A result that does not hold the runtime.
PollWork(i) ==
    /\ ~Ending
    /\ Join(i)
    /\ Joined(i) # "stale"
    /\ job' = [job EXCEPT ![i] = NoJob]
    /\ completed' = [completed EXCEPT ![i] = Finished(Joined(i) = "ok", job[i].class, job[i].inc)]
    /\ UNCHANGED <<state, opened, session, inc, lastInc, sequence, queue, retained, slots, world>>

\* Mutant: on hold, the other jobs are left running.
PollHolds_JobsRunOn(i) ==
    /\ ~Ending
    /\ Join(i)
    /\ Joined(i) = "stale"
    /\ state' = "Held"
    /\ queue' = << >>
    /\ completed' = [k \in Ids |->
          IF k = i THEN Finished(FALSE, job[i].class, job[i].inc)
          ELSE IF \E n \in 1..Len(queue) : queue[n].id = k
                 THEN LET q == CHOOSE n \in 1..Len(queue) : queue[n].id = k
                      IN  Finished(FALSE, queue[q].class, inc)
                 ELSE completed[k]]
    /\ job' = [job EXCEPT ![i] = NoJob]
    /\ UNCHANGED <<opened, session, inc, lastInc, sequence, retained, slots, world>>

\* A stale generation or lost authority: the runtime is held, queued work is
\* completed as cancelled and every other job is told to stop.
PollHolds(i) ==
    /\ ~Ending
    /\ Join(i)
    /\ Joined(i) = "stale"
    /\ state' = "Held"
    /\ queue' = << >>
    /\ completed' = [k \in Ids |->
          IF k = i THEN Finished(FALSE, job[i].class, job[i].inc)
          ELSE IF \E n \in 1..Len(queue) : queue[n].id = k
                 THEN LET q == CHOOSE n \in 1..Len(queue) : queue[n].id = k
                      IN  Finished(FALSE, queue[q].class, inc)
                 ELSE completed[k]]
    /\ job' = [k \in JobIds |-> IF k = i \/ job[k] = NoJob THEN NoJob
                                ELSE [job[k] EXCEPT !.cancelled = TRUE]]
    /\ UNCHANGED <<opened, session, inc, lastInc, sequence, retained, slots, world>>

\* A poll drops a joined slot from its list.
PollSlot ==
    /\ listed /\ slot = "joined"
    /\ listed' = FALSE
    /\ state' = IF Ending /\ Live = {} THEN "Stopped" ELSE state
    /\ UNCHANGED <<opened, owners, session, inc, lastInc, work, held, slot, cutoff, world>>

PollStops ==
    /\ Ending /\ Live = {} /\ ~listed
    /\ state' = "Stopped"
    /\ UNCHANGED <<opened, owners, session, inc, lastInc, work, held, slots, world>>

\* How many queued and completed items of a class stop throws away.
Discarded(class) ==
    Cardinality({n \in 1..Len(queue) : queue[n].class = class})
    + Cardinality({i \in Ids : completed[i] # NoJob /\ completed[i].class = class})

\* Mutant: results of before the stop stay takeable.
Stop_KeepsResults ==
    /\ state \notin {"Absent", "Stopping"}
    /\ state' = "Stopping"
    /\ queue' = << >>
    /\ retained' = [c \in Classes |->
          retained[c] - Cardinality({n \in 1..Len(queue) : queue[n].class = c})]
    /\ session' = NoSession
    /\ cutoff' = (slot # "none")
    /\ job' = [i \in JobIds |-> IF job[i] = NoJob THEN NoJob
                                ELSE [job[i] EXCEPT !.cancelled = TRUE]]
    /\ UNCHANGED <<opened, owners, inc, lastInc, sequence, completed, running, lease, slot, listed, world>>

\* stop: intake is sealed, queued work and results are dropped, every slot and
\* job is cancelled; then polls follow, until nothing is left or time is up.
Stop ==
    /\ state \notin {"Absent", "Stopping"}
    /\ state' = "Stopping"
    /\ queue' = << >> /\ completed' = NoResults
    /\ retained' = [c \in Classes |-> retained[c] - Discarded(c)]
    /\ session' = NoSession
    /\ cutoff' = (slot # "none")
    /\ job' = [i \in JobIds |-> IF job[i] = NoJob THEN NoJob
                                ELSE [job[i] EXCEPT !.cancelled = TRUE]]
    /\ Settled(Ids \ Live)
    /\ UNCHANGED <<opened, owners, inc, lastInc, sequence, running, lease, slot, listed>>

\* Mutant: out of time, stop reports a stopped runtime.
StopTimesOut_ClaimsStopped ==
    /\ state = "Stopping"
    /\ state' = "Stopped"
    /\ UNCHANGED <<opened, owners, session, inc, lastInc, work, held, slots, world>>

\* Out of time with jobs or slots left: Unresolved keeps them.
StopTimesOut ==
    /\ state = "Stopping"
    /\ Live # {} \/ listed
    /\ state' = "Unresolved"
    /\ UNCHANGED <<opened, owners, session, inc, lastInc, work, held, slots, world>>

-----------------------------------------------------------------------------
\* admit_cov, admit_modbus: content and generation are verified, a joined slot is
\* dropped, and the one slot takes a retained sensing reservation.  (The owner of
\* an earlier COV slot is taken to be dropped by then.)
AdmitSlot ==
    /\ state = "RunningInert" /\ session # NoSession /\ session.gen = gen
    /\ SlotGone /\ ~Reserved
    /\ Room(retained, QueueSlots, "sense")
    /\ retained' = [retained EXCEPT !["sense"] = @ + 1]
    /\ lease' = lease \cup {TheSlot}
    /\ slot' = "permit" /\ listed' = TRUE /\ cutoff' = FALSE
    /\ UNCHANGED <<life, work, running, world>>

SlotTo(s) ==
    /\ slot' = s
    /\ UNCHANGED <<life, work, held, listed, cutoff, world>>

\* Slot::receive: a retained and a running sensing reservation are borrowed.
SlotBorrows(s) ==
    /\ ~cutoff
    /\ Room(retained, QueueSlots, "sense") /\ Room(running, RunningSlots, "sense")
    /\ slot' = s
    /\ retained' = [retained EXCEPT !["sense"] = @ + 1]
    /\ running' = [running EXCEPT !["sense"] = @ + 1]
    /\ UNCHANGED <<life, work, lease, listed, cutoff, world>>

SlotReturns(s) ==
    /\ slot' = s
    /\ retained' = [retained EXCEPT !["sense"] = @ - 1]
    /\ running' = [running EXCEPT !["sense"] = @ - 1]
    /\ UNCHANGED <<life, work, lease, listed, cutoff, world>>

\* Slot::finish: a Modbus slot drops its reservation and its clone.
SlotFinishes ==
    /\ slot' = "joined"
    /\ retained' = [retained EXCEPT !["sense"] = IF SlotKind = "modbus" THEN @ - 1 ELSE @]
    /\ lease' = IF SlotKind = "modbus" THEN lease \ {TheSlot} ELSE lease
    /\ UNCHANGED <<life, work, running, listed, cutoff, world>>

\* The COV permit becomes a subscription, unless the slot was cancelled first.
SlotOpens == SlotKind = "cov" /\ slot = "permit" /\ ~cutoff /\ SlotTo("open")

\* Starting its client fails: the slot is finished.
SlotOpenFails == SlotKind = "cov" /\ slot = "permit" /\ ~cutoff /\ SlotFinishes

\* A Modbus permit connects, which is itself a receive: with no room for it the
\* permit is dropped.
SlotConnects == SlotKind = "modbus" /\ slot = "permit" /\ SlotBorrows("connecting")

SlotConnected == slot = "connecting" /\ ~cutoff /\ SlotReturns("open")

\* The connection is refused, out of time, cancelled or given up by its caller:
\* what it borrowed goes back, then the permit is dropped and finishes the slot.
SlotConnectFails ==
    /\ SlotKind = "modbus" /\ slot = "connecting"
    /\ slot' = "joined"
    /\ retained' = [retained EXCEPT !["sense"] = @ - 2]
    /\ running' = [running EXCEPT !["sense"] = @ - 1]
    /\ lease' = lease \ {TheSlot}
    /\ UNCHANGED <<life, work, listed, cutoff, world>>

\* Mutant: a permit that is dropped leaves its slot as it is.
PermitDropped_NotFinished ==
    /\ slot = "permit"
    /\ SlotTo("lost")

\* The permit is dropped unopened, be it by the early return of an open that
\* finds the slot cancelled: a Modbus permit finishes its slot, a COV permit
\* has no Drop.
PermitDropped ==
    /\ slot = "permit"
    /\ IF SlotKind = "modbus" THEN SlotFinishes ELSE SlotTo("lost")

\* A read, a drain or a renewal borrows for its duration.
SlotReceives == slot = "open" /\ SlotBorrows("receiving")

SlotReceived == slot = "receiving" /\ SlotReturns("open")

\* Subscription::stop, Client::shutdown: tasks are joined, the slot finished.
SlotCloses == slot = "open" /\ SlotFinishes

\* The owner is dropped without closing: never joined, as it says.
SlotAbandoned == slot = "open" /\ SlotTo("abandoned")

\* The owner of a closed slot drops it: a COV reservation goes with it.
OwnerDrops ==
    /\ slot = "joined" /\ ~listed
    /\ slot' = "none"
    /\ retained' = [retained EXCEPT !["sense"] = IF SlotKind = "cov" THEN @ - 1 ELSE @]
    /\ lease' = IF SlotKind = "cov" THEN lease \ {TheSlot} ELSE lease
    /\ UNCHANGED <<life, work, running, listed, cutoff, world>>

\* The lifetime of the slot ends: its check fails from here on.
SlotExpires ==
    /\ slot \in {"permit", "connecting", "open", "receiving"} /\ ~cutoff
    /\ cutoff' = TRUE
    /\ UNCHANGED <<life, work, held, slot, listed, world>>

SlotStep == SlotOpens \/ SlotOpenFails \/ SlotConnects \/ SlotConnected \/ SlotConnectFails
            \/ PermitDropped \/ SlotReceives \/ SlotReceived \/ SlotCloses \/ SlotAbandoned
            \/ SlotExpires \/ OwnerDrops

-----------------------------------------------------------------------------
DeadlinePasses(i) ==
    /\ i \in (Live \cup {queue[n].id : n \in 1..Len(queue)}) \ expired
    /\ expired' = expired \cup {i}
    /\ UNCHANGED <<life, work, held, slots, abandoned, gen, disturbed, asked>>

\* A publication is activated or the credential revoked, behind the runtime.
Activate ==
    /\ gen < MaxGen
    /\ gen' = gen + 1
    /\ disturbed' = disturbed \cup {i \in Live \ {Start} : job[i].phase = "reading"}
    /\ UNCHANGED <<life, work, held, slots, abandoned, expired, asked>>

\* One poll visits every job and every slot; here each visit is a step.
PollJob(i) ==
    \/ PollCancels(i) \/ PollDiscards(i)
    \/ i = Start /\ PollStart
    \/ i # Start /\ (PollWork(i) \/ PollHolds(i))
PollSlots == PollSlot \/ PollStops

Dispatch == \E i \in 1..Len(queue) : DispatchNext(i) \/ DispatchFails(i)

Next ==
    \/ Inert \/ Drop
    \/ \E h \in Holders : AbandonedExits(h)
    \/ BeginStart
    \/ \E c \in Classes : Enqueue(c)
    \/ Dispatch
    \/ \E i \in 1..Len(queue) : CancelQueued(i)
    \/ \E i \in Ids : CancelRunning(i) \/ TakeResult(i)
    \/ StartStep \/ \E i \in JobIds : ThreadStep(i)
    \/ \E i \in JobIds : PollJob(i)
    \/ PollSlots
    \/ Stop \/ StopTimesOut
    \/ AdmitSlot \/ SlotStep
    \/ \E i \in JobIds : DeadlinePasses(i)
    \/ Activate

Spec == Init /\ [][Next]_vars

\* Threads run against a deadline their adapter honours; the controller that
\* keeps a Runtime goes on polling and dispatching it, as its documentation
\* asks; the deadline of every item passes; a cancelled slot owner closes or drops
\* what it holds, and a cancelled connection ends.
Fairness ==
    /\ \A i \in Ids : WF_vars(ThreadStep(i))
    /\ WF_vars(StartStep \/ ThreadStep(Start))
    /\ \A i \in JobIds : WF_vars(PollJob(i))
    /\ WF_vars(PollSlots)
    /\ WF_vars(Dispatch)
    /\ \A i \in Ids : WF_vars(DeadlinePasses(i))
    /\ WF_vars(cutoff /\ (PermitDropped \/ SlotConnectFails \/ SlotReceived \/ SlotCloses))

FairSpec == Spec /\ Fairness

-----------------------------------------------------------------------------
Queued(class) == Cardinality({n \in 1..Len(queue) : queue[n].class = class})
Jobs(class) == Cardinality({i \in Live : job[i].class = class})
Kept(class) == Cardinality({i \in Ids : completed[i] # NoJob /\ completed[i].class = class})
SlotHolds(class) == IF class = "sense" /\ Reserved THEN 1 ELSE 0
Borrowed(class) == IF class = "sense" /\ slot \in {"connecting", "receiving"} THEN 1 ELSE 0

\* The budget counts exactly what is alive: no path of cancel, failed spawn,
\* hold, stop or late join leaks a reservation or gives one back twice
\* (Reservation, its shared Arcs and their Drop).
BudgetExact ==
    \A c \in Classes :
        /\ retained[c] = Queued(c) + Jobs(c) + Kept(c) + SlotHolds(c) + Borrowed(c)
        /\ running[c] = Jobs(c) + Borrowed(c)

\* Stopped means joined: no thread, queued item, result or listed slot is left,
\* and the budget is as good as new, so that a restart is never refused for room.
StoppedIsQuiet ==
    state = "Stopped" =>
        /\ Live = {} /\ queue = << >> /\ ~listed
        /\ running = Zero /\ (~Reserved => retained = Zero)
        /\ session = NoSession

\* Results and jobs are of the present incarnation: nothing read before a stop
\* is taken after it, and the session in use is the one that was started.
SameIncarnation ==
    /\ \A i \in Live : job[i].inc = inc
    /\ \A i \in Ids : completed[i] # NoJob => completed[i].inc = inc /\ state \in {"RunningInert", "Held"}
    /\ session # NoSession => session.inc = inc

\* A successful result was read under one publication: none was activated
\* between the check before the adapter call and the check after it.
ReadUndisturbed ==
    \A i \in Ids : completed[i] # NoJob /\ completed[i].ok => i \notin disturbed

\* Once cancel is accepted for running work, its envelope is never delivered,
\* even when the thread had already finished.
CancelWins ==
    \A i \in Ids : completed[i] # NoJob /\ completed[i].ok => i \notin asked

\* A held runtime has sealed its intake: nothing is queued and every job left
\* has been told to stop, so that nothing stale is delivered after the hold.
HeldIsSealed ==
    state = "Held" => queue = << >> /\ \A i \in Live : job[i].cancelled

\* A result that is handed out belongs to the work it is the result of: of this
\* incarnation, read under one publication and not cancelled, and none is left to
\* be handed out under a hold (poll, take, cancel, stop).
ResultsSound == SameIncarnation /\ ReadUndisturbed /\ CancelWins /\ HeldIsSealed

\* Who can still reach the stores: the Runtime, its unjoined threads, an unfinished
\* slot, and what dropped Runtimes have left behind.
Users ==
    (IF state = "Absent" THEN {} ELSE {TheRuntime}) \cup Live
    \cup (IF Reserved THEN {TheSlot} ELSE {}) \cup abandoned

\* The lease is held by exactly those who can still reach the stores, so that a
\* new Runtime never works beside a thread or a slot of a dropped one, and no
\* clone without a user refuses the stores for ever (Lease::acquire; the clones
\* that Task::spawn and the slots carry, over join, finish, drop and exit).
OneOwner ==
    /\ lease = Users
    /\ abandoned # {} => state = "Absent"

\* A stop completes once the threads have ended, unless the owner of a slot was
\* dropped unclosed ("Retry stop to observe their exit").
StopCompletes ==
    state \in {"Stopping", "Unresolved"} ~> (state \in {"Stopped", "Absent"} \/ slot = "abandoned")

Waits(i) == \E n \in 1..Len(queue) : queue[n].id = i
MandatoryWaits(i) == \E n \in 1..Len(queue) : queue[n].id = i /\ queue[n].class # "optional"
\* dispatch_next would take mandatory work now.
MandatoryFirst == \E n \in NextIndex : queue[n].class # "optional"

\* Work that is admitted is settled, by a result or by a stop, also behind late
\* items, busy classes and a slot that borrows their running place.  Mandatory
\* work and what is dispatched end however much is admitted after them; optional
\* work is dispatched, unless eligible mandatory work comes up again and again
\* (dispatch_next).
WorkSettles ==
    \A i \in Ids :
        /\ MandatoryWaits(i) \/ i \in Live ~> ~Waits(i) /\ i \notin Live
        /\ (Waits(i) ~> ~Waits(i)) \/ []<>MandatoryFirst

=============================================================================
