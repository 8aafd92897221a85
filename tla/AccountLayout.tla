---------------------------- MODULE AccountLayout ----------------------------
(***************************************************************************)
(* The bytes of a mango account while it is resized in place: the lists of *)
(* slots follow each other, each behind its length, and resizing moves the *)
(* blocks inside the one buffer. A cell stands for the largest number of   *)
(* bytes all sizes are multiples of.                                       *)
(***************************************************************************)
EXTENDS AccountHeader

CONSTANTS
    Size,        \* cells of a slot of each list
    Reserved,    \* cells of the reserved bytes at the end
    Headers,     \* slot counts of the accounts and of the requests
    MinSlots     \* counts below which the size migration does not go

LayoutAssumption ==
    /\ \A s \in Names : Size[s] \in Nat \ {0}
    /\ Headers \subseteq [Names -> Nat]

VARIABLES dynamic, start, new, active, pc

vars == <<dynamic, start, new, active, pc>>

-----------------------------------------------------------------------------
(* Offsets, in cells. A length takes one cell with its padding. *)

dynamic_token_vec_offset == 1

dynamic_serum3_vec_offset(h) ==
    dynamic_token_vec_offset + 1 + Size.token * h.token

dynamic_perp_vec_offset(h) ==
    dynamic_serum3_vec_offset(h) + 1 + Size.serum3 * h.serum3

dynamic_perp_oo_vec_offset(h) ==
    dynamic_perp_vec_offset(h) + 1 + Size.perp * h.perp

dynamic_tcs_vec_offset(h) ==
    dynamic_perp_oo_vec_offset(h) + 1 + Size.perp_oo * h.perp_oo

VecOffset(h, s) ==
    CASE s = "token" -> dynamic_token_vec_offset
      [] s = "serum3" -> dynamic_serum3_vec_offset(h)
      [] s = "perp" -> dynamic_perp_vec_offset(h)
      [] s = "perp_oo" -> dynamic_perp_oo_vec_offset(h)
      [] s = "tcs" -> dynamic_tcs_vec_offset(h)

SlotOffset(h, s, raw_index) == VecOffset(h, s) + 1 + raw_index * Size[s]

reserved_bytes_offset(h) == SlotOffset(h, "tcs", h.tcs)

account_size(h) == reserved_bytes_offset(h) + Reserved

(* Accounts of the first version end before the conditional swaps, those   *)
(* of the second before the reserved bytes.                                *)
SizeOfVersion(v, h) ==
    CASE v = 1 -> VecOffset(h, "tcs")
      [] v = 2 -> reserved_bytes_offset(h)
      [] v = 3 -> account_size(h)

Cell(s, slot, k) == <<s, slot, k>>

LengthCell(n) == <<"length", n>>

Zero == <<"zero", 0>>

get_helper(mem, h, s, i) == mem[SlotOffset(h, s, i)][2]

ReadSlots(mem, h, s) == [i \in 1 .. h[s] |-> get_helper(mem, h, s, i - 1)]

(* The counts, read from the front. A buffer that ends before the length   *)
(* of the conditional swaps has none.                                      *)
from_bytes(mem) ==
    FoldLeft(LAMBDA h, s :
                LET at == VecOffset(h, s) IN
                [h EXCEPT ![s] = IF at \in DOMAIN mem THEN mem[at][2] ELSE 0],
             [s \in Names |-> 0], Sections)

Encode(h, slots, len) ==
    LET In(s, a) == a \in SlotOffset(h, s, 0) .. SlotOffset(h, s, h[s]) - 1
        At(s, a) == a - SlotOffset(h, s, 0)
    IN [a \in 0 .. len - 1 |->
          IF \E s \in Names : a = VecOffset(h, s)
          THEN LengthCell(h[CHOOSE s \in Names : a = VecOffset(h, s)])
          ELSE IF \E s \in Names : In(s, a)
          THEN LET s == CHOOSE s \in Names : In(s, a) IN
               Cell(s, slots[s][1 + At(s, a) \div Size[s]], At(s, a) % Size[s])
          ELSE Zero]

realloc(mem, len) ==
    [a \in 0 .. len - 1 |-> IF a \in DOMAIN mem THEN mem[a] ELSE Zero]

sol_memmove(mem, dst, src, n) ==
    [a \in DOMAIN mem |->
        IF a \in dst .. dst + n - 1 THEN mem[src + (a - dst)] ELSE mem[a]]

-----------------------------------------------------------------------------
(* The passes of resize_dynamic_content *)

ToFront(mem, h, s, i, to) ==
    IF i = to THEN mem
    ELSE sol_memmove(mem, SlotOffset(h, s, to), SlotOffset(h, s, i), Size[s])

Blocked(mem, h, s) == SelectLastInSeq(ReadSlots(mem, h, s), IsActive)

Defrag(mem, h, s) ==
    IF s = "perp_oo" THEN [mem |-> mem, active |-> Blocked(mem, h, s)]
    ELSE FoldLeft(LAMBDA acc, i :
               IF get_helper(acc.mem, h, s, i) = Free THEN acc
               ELSE [mem |-> ToFront(acc.mem, h, s, i, acc.active),
                     active |-> acc.active + 1],
             [mem |-> mem, active |-> 0], [i \in 1 .. h[s] |-> i - 1])

DefragPass(mem, h) ==
    FoldLeft(LAMBDA acc, s : LET d == Defrag(acc.mem, h, s) IN
                [mem |-> d.mem, active |-> [acc.active EXCEPT ![s] = d.active]],
             [mem |-> mem, active |-> [s \in Names |-> 0]], Sections)

MoveBlock(mem, h, s) ==
    sol_memmove(mem, SlotOffset(new, s, 0), SlotOffset(h, s, 0),
                Size[s] * active[s])

(* Fault: blocks that move left are moved from right to left. *)
LeftPassBackwards(mem, h) ==
    FoldRight(LAMBDA s, m : IF SlotOffset(new, s, 0) < SlotOffset(h, s, 0)
                            THEN MoveBlock(m, h, s) ELSE m,
              Sections, mem)

LeftPass(mem, h) ==
    FoldLeft(LAMBDA m, s : IF SlotOffset(new, s, 0) < SlotOffset(h, s, 0)
                           THEN MoveBlock(m, h, s) ELSE m,
             mem, Sections)

RightPass(mem, h) ==
    FoldRight(LAMBDA s, m : IF SlotOffset(new, s, 0) > SlotOffset(h, s, 0)
                            THEN MoveBlock(m, h, s) ELSE m,
              Sections, mem)

DefaultPass(mem) ==
    LET Unused(s, a) == a \in SlotOffset(new, s, active[s])
                              .. SlotOffset(new, s, new[s]) - 1
    IN [a \in DOMAIN mem |->
          IF \E s \in Names : Unused(s, a)
          THEN LET s == CHOOSE s \in Names : Unused(s, a)
               IN Cell(s, Free, (a - SlotOffset(new, s, 0)) % Size[s])
          ELSE IF a \in reserved_bytes_offset(new) .. account_size(new) - 1
          THEN Zero ELSE mem[a]]

write_lengths(mem) ==
    [a \in DOMAIN mem |->
        IF \E s \in Names : a = VecOffset(new, s)
        THEN LengthCell(new[CHOOSE s \in Names : a = VecOffset(new, s)])
        ELSE mem[a]]

-----------------------------------------------------------------------------
(* Slots of one list: each is free or holds its own thing. *)
Slots(n) == {[i \in 1 .. n |-> IF i \in on THEN <<i>> ELSE Free] :
                    on \in SUBSET (1 .. n)}

Init ==
    \E h \in Headers, v \in 1 .. 3 :
      /\ v = 1 => h.tcs = 0
      /\ start \in [h : {h}, v : {v},
                    slots : [token : Slots(h.token), serum3 : Slots(h.serum3),
                             perp : Slots(h.perp), perp_oo : Slots(h.perp_oo),
                             tcs : Slots(h.tcs)]]
      /\ dynamic = Encode(h, start.slots, SizeOfVersion(v, h))
      /\ new = h
      /\ active = [s \in Names |-> 0]
      /\ pc = "idle"

CountActive(h, s) == Len(SelectSeq(ReadSlots(dynamic, h, s), IsActive))

Lesser(a, b) == IF a < b THEN a ELSE b
Greater(a, b) == IF a > b THEN a ELSE b

(* Accounts that have the size of the newest version were migrated before. *)
MigratedHeader ==
    LET h == from_bytes(dynamic) IN
    [s \in Names |->
        IF s \in {"token", "serum3", "perp"}
        THEN Lesser(h[s], Greater(CountActive(h, s), MinSlots[s])) ELSE h[s]]

Begin(h) ==
    /\ new' = h
    /\ dynamic' = realloc(dynamic, Greater(account_size(h), Cardinality(DOMAIN dynamic)))
    /\ pc' = "defrag"
    /\ UNCHANGED <<start, active>>

account_expand ==
    /\ pc = "idle"
    /\ \E h \in Headers : Begin(h)

account_size_migration ==
    /\ pc = "idle"
    /\ Cardinality(DOMAIN dynamic) # account_size(from_bytes(dynamic))
    /\ Begin(MigratedHeader)

(* A request that breaks the limits or does not fit fails and the          *)
(* transaction undoes everything.                                          *)
DefragStep ==
    /\ pc = "defrag"
    /\ LET h == from_bytes(dynamic)
           d == DefragPass(dynamic, h)
           ok == check_resize_from(new, h) /\ \A s \in Names : new[s] >= d.active[s]
       IN /\ dynamic' = IF ok THEN d.mem ELSE dynamic
          /\ active' = IF ok THEN d.active ELSE active
          /\ pc' = IF ok THEN "left" ELSE "failed"
    /\ UNCHANGED <<start, new>>

LeftStep ==
    /\ pc = "left"
    /\ dynamic' = LeftPass(dynamic, start.h)
    /\ pc' = "right"
    /\ UNCHANGED <<start, new, active>>

RightStep ==
    /\ pc = "right"
    /\ dynamic' = RightPass(dynamic, start.h)
    /\ pc' = "default"
    /\ UNCHANGED <<start, new, active>>

(* Defaulting, the lengths, and giving back what a smaller account does    *)
(* not need.                                                               *)
FinishStep ==
    /\ pc = "default"
    /\ dynamic' = realloc(write_lengths(DefaultPass(dynamic)), account_size(new))
    /\ pc' = "done"
    /\ UNCHANGED <<start, new, active>>

Next == account_expand \/ account_size_migration \/ DefragStep \/ LeftStep
        \/ RightStep \/ FinishStep

Spec == Init /\ [][Next]_vars

-----------------------------------------------------------------------------
(* Properties *)

(* The bytes parse to the requested header, and every list holds what      *)
(* Resized says: no memmove of a block overwrote one that still had to be  *)
(* moved, whatever mixture of lists grew and shrank, and every cell of a   *)
(* slot arrived.                                                           *)
ContentPreserved ==
    pc = "done" =>
        /\ from_bytes(dynamic) = new
        /\ dynamic = Encode(new, Resized(start.slots, new), account_size(new))

=============================================================================
