---------------------------- MODULE AccountHeader ----------------------------
(***************************************************************************)
(* The five lists of slots of a mango account and what resizing them means *)
(* for their contents.                                                     *)
(***************************************************************************)
EXTENDS Integers, Sequences, SequencesExt, FiniteSets

CONSTANT
    MaxHealthAccounts,  \* max_health_accounts()
    MaxPerpOo,          \* most perp order slots
    MaxTcs              \* most conditional swap slots

(* In the order in which they are stored. *)
Sections == <<"token", "serum3", "perp", "perp_oo", "tcs">>

Names == ToSet(Sections)

expected_health_accounts(h) == 2 * h.token + h.serum3 + 2 * h.perp

check_resize_from(new, prev) ==
    /\ expected_health_accounts(new) > expected_health_accounts(prev) =>
            MaxHealthAccounts >= expected_health_accounts(new)
    /\ new.perp_oo > prev.perp_oo => MaxPerpOo >= new.perp_oo
    /\ new.tcs > prev.tcs => MaxTcs >= new.tcs

(* A slot is empty or holds one thing. *)
Free == <<>>

IsActive(slot) == slot # Free

Pad(slots, n) == slots \o [i \in 1 .. n - Len(slots) |-> Free]

(* Perp order slots keep their index, because the leaves of the book refer *)
(* to it; the active slots of the other lists move to the front.           *)
Kept(name, slots) ==
    IF name = "perp_oo"
    THEN SubSeq(slots, 1, SelectLastInSeq(slots, IsActive))
    ELSE SelectSeq(slots, IsActive)

Fits(slots, h) == \A s \in Names : h[s] >= Len(Kept(s, slots[s]))

Resized(slots, h) == [s \in Names |-> Pad(Kept(s, slots[s]), h[s])]
=============================================================================
