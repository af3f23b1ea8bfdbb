--------------------------- MODULE MCObservation ---------------------------
(***************************************************************************)
(* The durable window and the synthetic receiver share no state and no     *)
(* caller, so each is explored while the other rests in its initial state. *)
(***************************************************************************)
EXTENDS MCObservationWindow, Receiver

bytes == [sized |-> TRUE, context |-> FALSE, tag |-> 4, lvt |-> 4, canonical |-> TRUE,
          exact |-> TRUE, width |-> 4, body |-> "finite"]
celsius == [from |-> "engineering", token |-> 62]
value(b) == [kind |-> "Value", bytes |-> b]
good == [outcome |-> value(bytes), units |-> celsius, codec |-> "Scalar", lag |-> Nothing,
         matching |-> 1]

MCContexts == {[key |-> "k", act |-> a, unit |-> "degC"] : a \in 1 .. 2}
MCPlain ==
    {good, [good EXCEPT !.lag = 1, !.units.token = 98], [good EXCEPT !.matching = 2]}
\* A Real that is not a number, an Unsigned, a Boolean that is neither, text
\* under either codec, Null, a context tag and an answer without a value.
reply(tag, lvt, width, body) ==
    value([bytes EXCEPT !.tag = tag, !.lvt = lvt, !.width = width, !.body = body])
MCOdd ==
    {[good EXCEPT !.outcome = o] :
        o \in {reply(4, 4, 4, "nonfinite"), reply(2, 1, 1, "finite"), reply(1, 2, 0, "finite"),
               reply(7, 4, 4, "decimal"), reply(0, 0, 0, "finite"),
               value([bytes EXCEPT !.context = TRUE]), [kind |-> "Timeout"]}}
    \cup {[good EXCEPT !.outcome = reply(7, 4, 4, body), !.codec = "ExactDecimalText"] :
              body \in {"decimal", "utf8"}}
MCReads == MCPlain \cup MCOdd

OddReplies ==
    MCOdd \cap ({records[i].read : i \in DOMAIN records}
               \cup (IF raw = Nothing THEN {} ELSE {raw.read}))

\* Odd replies come one at a time, and they and resumes are explored with the
\* clocks at rest; a third commit neither after a crash nor after a tick.
Bounds ==
    /\ Bound
    /\ OddReplies # {} => Len(records) <= 1 /\ real = 0 /\ faults = [wall |-> 0, mono |-> 0]
    /\ allocation <= 1 \/ real = 0
    /\ commits <= 2 \/ crashes + clock.t = 0

ObservationInit == MCInit /\ ReceiverInit

MCObservationSpec ==
    /\ ObservationInit
    /\ [][\/ Next /\ ReceiverInit /\ UNCHANGED receiverVars
          \/ ReceiverNext /\ Init /\ UNCHANGED vars]_<<vars, receiverVars>>
=============================================================================
