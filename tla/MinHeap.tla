------------------------------ MODULE MinHeap ------------------------------
(***************************************************************************)
(* The binary heap of timers of minheap-internal.h: a sequence of elements *)
(* ordered by a key (the deadline of an event), kept in the array p of the *)
(* C structure.  Position i of the sequence is p[i - 1].                   *)
(***************************************************************************)
EXTENDS Integers, Sequences

Parent(i) == i \div 2

(* min_heap_shift_up_: moves the hole towards the root while the parent is *)
(* later than e, and puts e there.                                         *)
ShiftUp(h, key, hole, e) ==
    LET up[i \in 1..Len(h)] ==
          IF i # 1 /\ key[h[Parent(i)]] > key[e]
          THEN [up[Parent(i)] EXCEPT ![i] = h[Parent(i)]]
          ELSE [h EXCEPT ![i] = e]
    IN  up[hole]

(* The child min_heap_shift_down_ compares e with: the right one, unless   *)
(* there is none or it is later than the left one.                         *)
SmallerChild(h, key, i) ==
    IF 2 * i + 1 > Len(h) \/ key[h[2 * i + 1]] > key[h[2 * i]]
    THEN 2 * i ELSE 2 * i + 1

(* min_heap_shift_down_: moves the hole towards the leaves.                *)
ShiftDown(h, key, hole, e) ==
    LET down[i \in 1..Len(h)] ==
          LET c == SmallerChild(h, key, i)
          IN  IF 2 * i > Len(h) \/ ~(key[e] > key[h[c]])
              THEN [h EXCEPT ![i] = e]
              ELSE [down[c] EXCEPT ![i] = h[c]]
    IN  down[hole]

min_heap_push(h, key, e) == ShiftUp(Append(h, e), key, Len(h) + 1, e)

Position(h, e) == CHOOSE i \in 1..Len(h) : h[i] = e

(* min_heap_erase: the last element takes the place of e and is shifted    *)
(* into place, up if it is earlier than the parent of the hole.            *)
min_heap_erase(h, key, e) ==
    LET i == Position(h, e)
        rest == SubSeq(h, 1, Len(h) - 1)
        last == h[Len(h)]
    IN  IF i = Len(h) THEN rest
        ELSE IF i > 1 /\ key[h[Parent(i)]] > key[last]
             THEN ShiftUp(rest, key, i, last)
             ELSE ShiftDown(rest, key, i, last)

(* What event_base_assert_ok requires of the heap.                         *)
IsHeap(h, key) == \A i \in 2..Len(h) : key[h[Parent(i)]] =< key[h[i]]

=============================================================================
