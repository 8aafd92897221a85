---------------------------- MODULE ErrorTracking ----------------------------
(***************************************************************************)
(* lib/client/src/error_tracking.rs, for one error type. The tracker       *)
(* counts the errors of a key and remembers when the last one happened.    *)
(* The code only compares durations, so the model keeps the age of the     *)
(* last error instead of its Instant; an age stops growing at MaxAge and a *)
(* count at CountCap, where no comparison can tell more. The kept messages *)
(* are only logged and are left out.                                       *)
(***************************************************************************)
EXTENDS Naturals, FiniteSetsExt

CONSTANTS SkipDuration, KeepDuration, LogInterval

MaxAge == Max({SkipDuration, KeepDuration})

\* an absent key of state_by_key
NoErrors == [count |-> 0, age |-> 0]

NewTracker(keys) == [state_by_key |-> [k \in keys |-> NoErrors], last_log |-> 0]

should_skip(state, threshold) == state.count >= threshold /\ state.age < SkipDuration

had_too_many_errors(t, key, threshold) == should_skip(t.state_by_key[key], threshold)

record(t, key, CountCap) ==
    [t EXCEPT !.state_by_key[key] =
        [count |-> Min({@.count + 1, CountCap}), age |-> 0]]

clear(t, key) == [t EXCEPT !.state_by_key[key] = NoErrors]

wipe_old(t) ==
    [t EXCEPT !.state_by_key =
        [k \in DOMAIN @ |-> IF @[k].age < KeepDuration THEN @[k] ELSE NoErrors]]

update(t) ==
    IF t.last_log < LogInterval THEN t ELSE wipe_old([t EXCEPT !.last_log = 0])

(* One unit of time. *)
Elapse(t) ==
    [state_by_key |-> [k \in DOMAIN t.state_by_key |->
        IF t.state_by_key[k] = NoErrors THEN NoErrors
        ELSE [t.state_by_key[k] EXCEPT !.age = Min({@ + 1, MaxAge})]],
     last_log |-> Min({t.last_log + 1, LogInterval})]

=============================================================================
