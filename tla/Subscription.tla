---- MODULE Subscription ----
(***************************************************************************)
(* One change-of-value subscription of the BACnet runtime and its device:  *)
(* src/src/runtime/bacnet/cov.rs.                                          *)
(*                                                                         *)
(* One owner drives the Subscription; each of its operations may wait for  *)
(* an answer of the device, and the future of a waiting operation may be   *)
(* dropped.  Requests, answers and notifications travel over a network     *)
(* that delays and loses them; a request whose caller has given up can     *)
(* still reach the device.  Instants are kept as the time left until them, *)
(* in units of the renewal margin, so no clock grows.                      *)
(***************************************************************************)
EXTENDS Naturals, Sequences

CONSTANTS Values,          \* what the monitored property may hold
          Lifetime,        \* options.lifetime
          Margin,          \* options.margin
          Capacity,        \* options.capacity, of the notification channel
          MaxGenerations,  \* the subscriber identities that can be drawn
          MaxTroubles,     \* bound on changes, losses and dropped futures
          MaxAir,          \* bound on the notifications of one subscriber under way
          NoSample

\* FixtureOptions::new refuses every other choice.
FixtureOptions ==
    /\ Lifetime \in Nat \ {0}
    /\ Margin \in Nat \ {0} /\ Margin < Lifetime
    /\ Capacity \in 1..16

ASSUME FixtureBounds == FixtureOptions

\* The property holds something, there is an identity, and no sample is the absence of one.
ASSUME SampleAssumption ==
    /\ Values # {} /\ MaxGenerations \in Nat \ {0}
    /\ NoSample \notin [value : Values, generation : 1..MaxGenerations]

VARIABLES cover,     \* the Subscription: its deadlines, coverage and current sample
          inbox,     \* the broadcast channel between the client and the receiver
          lag,       \* the receiver has not been told yet of what the channel dropped
          call,      \* the operation that waits for the device
          asks,      \* requests under way to the device
          air,       \* notifications under way, in order for one subscriber identity
          device,    \* the property and the lifetime left of each subscription
          cut,       \* the runtime has cancelled the slot
          fault,     \* the device forgot the subscription, or a notification was lost
          troubles,  \* changes, losses and dropped futures so far
          dropped    \* the channel dropped a notification of the current identity

subscriptionVars == <<cover, inbox, lag, call, asks, air, device, cut, fault, dropped, troubles>>

Generations == 1..MaxGenerations
Least(a, b) == IF a < b THEN a ELSE b
Less(a, b) == IF a > b THEN a - b ELSE 0

Waiting == {"subscribe", "read", "unsubscribe", "stop"}
NoWait == [op |-> "none", next |-> "none", age |-> 0, reply |-> "none", value |-> NoSample]

\* Subscription::open: the client is started, nothing is asked of the device yet.
SubscriptionInit ==
    /\ cover = [generation |-> 1, subscribed |-> FALSE, due |-> TRUE, unobserved |-> FALSE,
                current |-> NoSample, unsubscribe |-> "NotAttempted", stopped |-> FALSE,
                renew |-> 0, poll |-> 0, expires |-> 0]
    /\ inbox = <<>> /\ lag = FALSE /\ call = NoWait /\ asks = {}
    /\ air = [g \in Generations |-> <<>>]
    /\ device = [value |-> CHOOSE v \in Values : TRUE, left |-> [g \in Generations |-> 0]]
    /\ cut = FALSE /\ fault = FALSE /\ dropped = FALSE /\ troubles = 0

-----------------------------------------------------------------------------
\* The parts of the operations that only touch the Subscription.

lose(c) == [c EXCEPT !.unobserved = TRUE, !.due = TRUE]

expire_coverage(c) ==
    IF c.subscribed /\ c.expires = 0
    THEN lose([c EXCEPT !.subscribed = FALSE]) ELSE c

check_current(c) == ~c.stopped /\ c.unsubscribe = "NotAttempted" /\ ~cut

\* Mutant: the lifetime is counted from the answer and not from the request.
granted_FromAnswer(c, age) ==
    [c EXCEPT !.expires = Lifetime, !.renew = Lifetime - Margin, !.subscribed = TRUE]

\* The lifetime runs from the start of the request, whenever the answer comes.
granted(c, age) ==
    LET left == Less(Lifetime, age)
        kept == [c EXCEPT !.expires = left, !.renew = Less(left, Margin)]
    IN IF left = 0 THEN lose(kept) ELSE [kept EXCEPT !.subscribed = TRUE]

-----------------------------------------------------------------------------
\* Requests: the operation stops at its await, the request is under way.

\* What an operation that is over asked for may still reach the device.
Unawaited == {[r EXCEPT !.live = FALSE] : r \in asks}

Asks(kind, generation, next) ==
    /\ call' = [NoWait EXCEPT !.op = kind, !.next = next]
    /\ asks' = Unawaited \union {[kind |-> kind, generation |-> generation, live |-> TRUE]}

Returns(c) == cover' = c /\ call' = NoWait /\ asks' = Unawaited

\* revalidate: one read at most, and none before the last failure is a margin old.
revalidate(c) ==
    \/ (check_current(c) /\ c.due => c.poll > 0) /\ Returns(c)
    \/ check_current(c) /\ c.due /\ Returns(lose(c))
    \/ /\ check_current(c) /\ c.due /\ c.poll = 0
       /\ cover' = [c EXCEPT !.poll = Margin]
       /\ Asks("read", c.generation, "none")

\* What maintain does once its renewal has ended, in an error or not.
renewed(c, failed) == revalidate(IF failed THEN [c EXCEPT !.renew = Margin] ELSE c)
Continues(c, failed) == IF call.next = "maintain" THEN renewed(c, failed) ELSE Returns(c)

subscribe(c, next) ==
    /\ cover' = [c EXCEPT !.subscribed = FALSE, !.renew = Margin]
    /\ Asks("subscribe", c.generation, next)

maintain(c) ==
    LET now == expire_coverage(c)
    IN \/ ~check_current(c) /\ Returns(c)
       \/ check_current(c) /\ c.renew > 0 /\ revalidate(now)
       \/ check_current(c) /\ c.renew = 0 /\ renewed(lose(now), TRUE)
       \/ check_current(c) /\ c.renew = 0 /\ subscribe(now, "maintain")

\* Mutant: the identity survives the reconnect.
identity_Kept(c) == [c EXCEPT !.unsubscribe = "NotAttempted"]

identity(c) == [c EXCEPT !.generation = @ + 1, !.unsubscribe = "NotAttempted"]

\* reconnect, once the old identity is unsubscribed or known not to be.
reidentify(c) ==
    IF c.generation = MaxGenerations
    THEN Returns(c) /\ UNCHANGED <<inbox, lag>>
    ELSE /\ inbox' = <<>> /\ lag' = FALSE
         /\ maintain([lose(identity(c)) EXCEPT !.subscribed = FALSE, !.current = NoSample,
                                               !.renew = 0])

client_stop(c) == cover' = c /\ call' = [NoWait EXCEPT !.op = "stop"] /\ asks' = Unawaited

\* What follows an unsubscribe, by the operation that asked for it.
unsubscribed(c, next) ==
    CASE next = "reconnect" -> reidentify(c)
      [] next = "stop" -> client_stop(c) /\ UNCHANGED <<inbox, lag>>
      [] OTHER -> Returns(c) /\ UNCHANGED <<inbox, lag>>

unsubscribe(next) ==
    IF cover.stopped \/ cover.unsubscribe # "NotAttempted"
    THEN unsubscribed(cover, next)
    ELSE /\ cover' = [cover EXCEPT !.subscribed = FALSE, !.unsubscribe = "Uncertain"]
         /\ Asks("unsubscribe", cover.generation, next)
         /\ UNCHANGED <<inbox, lag>>

-----------------------------------------------------------------------------
\* The owner's operations.

World == <<air, device, cut, fault, dropped>>
Elsewhere == <<World, troubles>>

Trouble == troubles < MaxTroubles /\ troubles' = troubles + 1

Free == call.op = "none"

Subscribe ==
    /\ Free /\ check_current(cover)
    /\ \/ subscribe(cover, "none")
       \/ Returns(lose(cover))
    /\ UNCHANGED <<inbox, lag, Elsewhere>>

Maintain == Free /\ maintain(cover) /\ UNCHANGED <<inbox, lag, Elsewhere>>

Reconnect == Free /\ unsubscribe("reconnect") /\ UNCHANGED Elsewhere

Unsubscribe == Free /\ unsubscribe("none") /\ UNCHANGED Elsewhere

StopSubscription == Free /\ ~cover.stopped /\ unsubscribe("stop") /\ UNCHANGED Elsewhere

Coverage == Free /\ cover' = expire_coverage(cover)
            /\ UNCHANGED <<inbox, lag, call, asks, Elsewhere>>

\* Mutant: the identity a notification names is not compared.
addressed_Anyone(c, n) == TRUE

\* Mutant: a channel that dropped notifications is not a loss.
told_Quietly(c, behind) == c

addressed(c, n) == n.generation = c.generation

\* One notification out of the channel.
dequeue(c, n) ==
    LET soon == [c EXCEPT !.renew = Least(@, Less(n.left, Margin))]
        kept == IF n.left = 0 THEN lose([soon EXCEPT !.subscribed = FALSE]) ELSE soon
    IN IF ~addressed(c, n) THEN c
       ELSE CASE n.fit = "many" -> lose(c)
              [] n.fit = "long" -> lose(kept)
              [] n.fit = "other" -> kept
              [] OTHER -> [kept EXCEPT !.current =
                               [value |-> n.value, generation |-> c.generation]]

told(c, behind) == IF behind THEN lose(c) ELSE c

\* drain empties the channel: it tries once more than the channel can hold.
drained[i \in 0..Capacity] ==
    IF i = 0 THEN told(expire_coverage(cover), lag)
    ELSE IF i > Len(inbox) THEN drained[i - 1] ELSE dequeue(drained[i - 1], inbox[i])

Drain ==
    /\ Free /\ check_current(cover)
    /\ \/ cover' = drained[Capacity] /\ inbox' = <<>> /\ lag' = FALSE
       \/ cover' = lose(expire_coverage(cover)) /\ UNCHANGED <<inbox, lag>>
    /\ UNCHANGED <<call, asks, Elsewhere>>

\* The owner drops the future of a waiting operation.
CancelCall == ~Free /\ Trouble /\ Returns(cover) /\ UNCHANGED <<inbox, lag, World>>

-----------------------------------------------------------------------------
\* The answer, or the failure, of what an operation waits for.

Answered(op) == call.op = op /\ call.reply = "ok"
Failed(op) == call.op = op /\ Trouble

SubscribeAnswered ==
    /\ Answered("subscribe")
    /\ LET after == IF check_current(cover) THEN granted(cover, call.age) ELSE cover
       IN Continues(after, ~after.subscribed)
    /\ UNCHANGED <<inbox, lag, Elsewhere>>

SubscribeFails ==
    /\ Failed("subscribe") /\ Continues(lose(cover), TRUE)
    /\ UNCHANGED <<inbox, lag, World>>

ReadAnswered ==
    /\ Answered("read")
    /\ \/ Returns(IF check_current(cover)
                  THEN [cover EXCEPT !.current = [value |-> call.value,
                                                  generation |-> cover.generation],
                                     !.due = FALSE, !.poll = 0]
                  ELSE cover)
       \/ Returns(cover)                     \* a reply about something else, or too long
    /\ UNCHANGED <<inbox, lag, Elsewhere>>

ReadFails ==
    /\ Failed("read") /\ Returns([cover EXCEPT !.poll = Margin])
    /\ UNCHANGED <<inbox, lag, World>>

UnsubscribeAnswered ==
    /\ Answered("unsubscribe")
    /\ unsubscribed([cover EXCEPT !.unsubscribe = "Confirmed"], call.next)
    /\ UNCHANGED Elsewhere

UnsubscribeFails ==
    /\ Failed("unsubscribe")
    /\ unsubscribed([cover EXCEPT !.unsubscribe = "Failed"], call.next)
    /\ UNCHANGED World

\* The client's own stop: its tasks are joined, or the stop is reported as failed.
ClientStopped ==
    /\ call.op = "stop"
    /\ \E joined \in BOOLEAN :
         /\ Returns([cover EXCEPT !.stopped = joined])
         /\ cut' = (cut \/ joined)
    /\ UNCHANGED <<inbox, lag, air, device, fault, dropped, troubles>>

-----------------------------------------------------------------------------
\* The device, the network and time.

Owner == <<cover, lag, inbox, cut, dropped>>

Notes(value, left, fit) ==
    [g \in Generations |-> IF left[g] > 0
       THEN Append(air[g], [generation |-> g, value |-> value, left |-> left[g], fit |-> fit])
       ELSE air[g]]

Roomy(g) == Len(air[g]) < MaxAir

\* The device handles a request, and sends a subscriber the present value at once.
DeviceHandles(r) ==
    /\ r \in asks /\ (r.kind = "subscribe" => Roomy(r.generation))
    /\ asks' = asks \ {r}
    /\ call' = IF r.live THEN [call EXCEPT !.reply = "ok", !.value = device.value] ELSE call
    /\ device' = CASE r.kind = "subscribe" -> [device EXCEPT !.left[r.generation] = Lifetime]
                   [] r.kind = "unsubscribe" -> [device EXCEPT !.left[r.generation] = 0]
                   [] OTHER -> device
    /\ air' = IF r.kind = "subscribe"
              THEN [air EXCEPT ![r.generation] = Notes(device.value, device'.left, "ok")[r.generation]]
              ELSE air
    /\ fault' = (fault /\ ~(r.kind = "subscribe" /\ r.generation = cover.generation))
    /\ UNCHANGED <<Owner, troubles>>

\* The property changes and every subscriber is notified; the notification may hold
\* more properties, or a longer value, than the runtime takes.
DeviceChanges(value, fit) ==
    /\ Trouble
    /\ \A g \in Generations : device.left[g] > 0 => Roomy(g)
    /\ device' = [device EXCEPT !.value = value]
    /\ air' = Notes(value, device.left, fit)
    /\ UNCHANGED <<Owner, call, asks, fault>>

\* The device gives the subscription up, and may say so.
DeviceForgets(says) ==
    LET g == cover.generation
    IN /\ device.left[g] > 0 /\ Roomy(g) /\ Trouble
       /\ device' = [device EXCEPT !.left[g] = 0]
       /\ air' = IF says
                 THEN [air EXCEPT ![g] = Append(@, [generation |-> g, value |-> device.value,
                                                    left |-> 0, fit |-> "other"])]
                 ELSE air
       /\ fault' = TRUE
       /\ UNCHANGED <<Owner, call, asks>>

\* A notification reaches the channel, which drops its oldest when it is full.
Notified(g) ==
    /\ air[g] # <<>>
    /\ air' = [air EXCEPT ![g] = Tail(@)]
    /\ LET full == Len(inbox) = Capacity
       IN /\ inbox' = Append(IF full THEN Tail(inbox) ELSE inbox, Head(air[g]))
          /\ lag' = (lag \/ full)
          /\ dropped' = (dropped \/ (full /\ Head(inbox).generation = cover.generation))
    /\ UNCHANGED <<cover, call, asks, device, cut, fault, troubles>>

NotificationLost(g) ==
    /\ air[g] # <<>> /\ Trouble
    /\ air' = [air EXCEPT ![g] = Tail(@)]
    /\ fault' = (fault \/ g = cover.generation)
    /\ UNCHANGED <<Owner, call, asks, device>>

SlotCancelled ==
    /\ ~cut /\ Trouble /\ cut' = TRUE
    /\ UNCHANGED <<cover, inbox, lag, call, asks, air, device, fault, dropped>>

Tick ==
    /\ cover' = [cover EXCEPT !.renew = Less(@, 1), !.poll = Less(@, 1), !.expires = Less(@, 1)]
    /\ device' = [device EXCEPT !.left = [g \in Generations |-> Less(@[g], 1)]]
    /\ call' = IF Free THEN call ELSE [call EXCEPT !.age = Least(@ + 1, Lifetime)]
    /\ UNCHANGED <<inbox, lag, asks, air, cut, fault, dropped, troubles>>

SubscriptionNext ==
    \/ Subscribe \/ Maintain \/ Reconnect \/ Unsubscribe \/ StopSubscription \/ Coverage
    \/ Drain \/ CancelCall
    \/ SubscribeAnswered \/ SubscribeFails \/ ReadAnswered \/ ReadFails
    \/ UnsubscribeAnswered \/ UnsubscribeFails \/ ClientStopped
    \/ \E r \in asks : DeviceHandles(r)
    \/ \E v \in Values \ {device.value}, fit \in {"ok", "many", "long"} : DeviceChanges(v, fit)
    \/ \E says \in BOOLEAN : DeviceForgets(says)
    \/ \E g \in Generations : Notified(g) \/ NotificationLost(g)
    \/ SlotCancelled \/ Tick

SubscriptionSpec == SubscriptionInit /\ [][SubscriptionNext]_subscriptionVars

-----------------------------------------------------------------------------
\* Coverage that is claimed and has not run out is backed by the device: it holds
\* this identity's subscription for at least as long.
Backed ==
    cover.subscribed /\ ~fault => device.left[cover.generation] >= cover.expires

\* A notification the channel dropped is a loss the owner is told of at its next
\* drain, and from then on for good.
LossTold == dropped => lag \/ cover.unobserved

\* With coverage claimed, nothing to revalidate and nothing under way, the current
\* sample is what the device holds.
CurrentTrue ==
    (/\ cover.subscribed /\ cover.expires > 0 /\ ~cover.due /\ ~fault /\ Free
     /\ inbox = <<>> /\ ~lag /\ air[cover.generation] = <<>>)
        => cover.current # NoSample /\ cover.current.value = device.value

\* A subscription claims no more than it has: coverage the device backs, every
\* dropped notification told, and a current sample that is current, through
\* renewals whose futures are dropped, late requests of an earlier identity,
\* overflow of the channel and reconnects (cov.rs, subscribe, drain, revalidate,
\* reconnect).
CoverageHonest == Backed /\ LossTold /\ CurrentTrue
====
