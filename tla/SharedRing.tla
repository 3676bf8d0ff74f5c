----------------------------- MODULE SharedRing -----------------------------
(***************************************************************************)
(* The rings of queue.c as they lie in shared memory, and what each store  *)
(* of an operation does to one.  ConnQueue has the operations as wholes;   *)
(* these are for processes that may be killed in the middle of one, or be  *)
(* two in the same ring.                                                   *)
(*                                                                         *)
(* capacity is the field init stores: no process gets as far as a store    *)
(* before that, because a ring of zeros is full to those who add and empty *)
(* to those who take.                                                      *)
(***************************************************************************)
EXTENDS Integers

RingType(capacity, Item) ==
  [front : 0 .. capacity - 1, rear : 0 .. capacity - 1, size : Int,
   slot : [0 .. capacity - 1 -> Item]]

\* Memory that nobody has written to yet.
ZeroedRing(capacity, zero) ==
  [front |-> 0, rear |-> 0, size |-> 0,
   slot |-> [i \in 0 .. capacity - 1 |-> zero]]

\* The header is written anew; what lies in the slots stays.
Emptied(q, capacity) ==
  [front |-> 0, rear |-> capacity - 1, size |-> 0, slot |-> q.slot]

\* Enqueue: rear, the item, size.
RearMoved(q, capacity) == [q EXCEPT !.rear = (q.rear + 1) % capacity]
ItemStored(q, item) == [q EXCEPT !.slot[q.rear] = item]
Counted(q) == [q EXCEPT !.size = q.size + 1]

\* Dequeue: the item is copied, then front and size.
FirstItem(q) == q.slot[q.front]
FrontMoved(q, capacity) == [q EXCEPT !.front = (q.front + 1) % capacity]
Discounted(q) == [q EXCEPT !.size = q.size - 1]

\* The n items from the front on.
Items(q, n, capacity) ==
  [k \in 1 .. n |-> q.slot[(q.front + (k - 1)) % capacity]]
=============================================================================
