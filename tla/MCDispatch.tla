----------------------------- MODULE MCDispatch -----------------------------
(***************************************************************************)
(* A SET at 13, another value that reads the same in the preview's text, a *)
(* release and a legacy row; readings of the present that agree with the   *)
(* row, and readings that are behind it.                                   *)
(***************************************************************************)
EXTENDS Dispatch

target == [scope |-> "scope-a", equipment |-> "ahu-1", binding |-> 1, accepted |-> 1]
setting == [ceiling |-> 2, role |-> "publisher", target |-> target, status |-> "valid", priority |-> 8,
          object |-> [type |-> "analog-value", property |-> "present-value", index |-> 0],
          unit |-> "degC", requested |-> 13, override |-> 0, aliases |-> <<"a", "b">>,
          observed |-> 0, now |-> 1, release |-> [target |-> "ahu-1", admitted |-> FALSE]]
MCDrafts ==
    { setting,
      [setting EXCEPT !.override = 12],
      [setting EXCEPT !.release.admitted = TRUE],
      [setting EXCEPT !.requested = 24, !.override = 25] }

admitted(d) ==
    LET p == Made(d, TRUE, NoProfile)
    IN  [op |-> 1, legacy |-> FALSE, lifecycle |-> "admitted", actor |-> "ann", ceiling |-> 2,
         target |-> p.target, text |-> p.text, bits |-> p.bits, release |-> p.release,
         kind |-> action_kind(p.release), expected |-> 0, generation |-> 1, created |-> 1,
         deadline |-> DEADLINE_SECS]
MCAdmissions ==
    LET r == admitted(setting)
    IN  { r, admitted([setting EXCEPT !.release.admitted = TRUE]),
          [r EXCEPT !.lifecycle = "terminal"], [r EXCEPT !.legacy = TRUE],
          [r EXCEPT !.expected = 1, !.generation = 2] }

present == [actor |-> "ann", ceiling |-> 2, role |-> "publisher", binding |-> 1, accepted |-> 1,
            status |-> "valid", generation |-> 0]
MCPresented ==
    {[preview |-> Made(d, TRUE, NoProfile), current |-> c] :
        d \in {e \in MCDrafts : Previewable(e)},
        c \in {present, [present EXCEPT !.generation = 1]}}

MCRoutes ==
    { [realm |-> "ahu-1", host |-> "loopback", port |-> 4000],
      [realm |-> "ahu-1", host |-> "loopback", port |-> 8080],
      [realm |-> "ahu-1", host |-> "other", port |-> 4000] }

\* The dispatch alone.
CancelSpec ==
    /\ DispatchInit /\ PreviewInit
    /\ [][DispatchSteps /\ UNCHANGED previewVars]_<<dispatchVars, previewVars>>
=============================================================================
