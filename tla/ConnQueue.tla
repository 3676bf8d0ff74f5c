----------------------------- MODULE ConnQueue -----------------------------
(***************************************************************************)
(* The ring of queue.c that carries connections from the clients to accept *)
(* (Connect_enqueue, Connect_dequeue) and acceptions back (Accept_enqueue, *)
(* Accept_dequeue: the same code over another item).  Callers hold the     *)
(* queue's lock, so each call is one step.  The items are numbered in the  *)
(* order they are put.                                                     *)
(***************************************************************************)
EXTENDS Integers, Sequences

CONSTANTS
  Capacity,     \* CONNECT_QUEUE_CAPACITY or ACCEPT_QUEUE_CAPACITY
  MaxItems      \* bound: items put over the life of the queue

ASSUME ConnAssumption == Capacity \in Nat \ {0} /\ MaxItems \in Nat

VARIABLES
  front, rear, size,   \* the fields of connect_queue
  array,               \* the items behind queue_start_offset; 0 is no item
  put,                 \* number of items accepted
  got                  \* the items handed out, oldest first

vars == <<front, rear, size, array, put, got>>

Slots == 0 .. Capacity - 1
-----------------------------------------------------------------------------
\* Slips the code could have had; each stands in for the definition it is
\* named after to show that a property notices.
Slip_isFull == FALSE
Slip_NextFront == front + 1
Slip_FirstRear == 0          \* instead of the capacity - 1 put there on purpose
-----------------------------------------------------------------------------
FirstRear == Capacity - 1

Init ==
  /\ front = 0 /\ rear = FirstRear /\ size = 0
  /\ array = [i \in Slots |-> 0]
  /\ put = 0 /\ got = <<>>

isFull == size = Capacity
NextFront == (front + 1) % Capacity

\* A full queue returns -1 and changes nothing.
Enqueue ==
  /\ ~isFull /\ put < MaxItems
  /\ rear' = (rear + 1) % Capacity
  /\ array' = [array EXCEPT ![rear'] = put + 1]
  /\ size' = size + 1
  /\ put' = put + 1
  /\ UNCHANGED <<front, got>>

\* An empty queue returns NULL and changes nothing.
Dequeue ==
  /\ size # 0
  /\ got' = Append(got, array[front])
  /\ front' = NextFront
  /\ size' = size - 1
  /\ UNCHANGED <<rear, array, put>>

Next == Enqueue \/ Dequeue

Spec == Init /\ [][Next]_vars
-----------------------------------------------------------------------------
\* The indices stay in the array and the size in the capacity.
TypeOK ==
  /\ front \in Slots /\ rear \in Slots
  /\ size \in 0 .. Capacity
  /\ array \in [Slots -> Nat]
  /\ put \in Nat
  /\ got \in Seq(Nat)

\* The size tells an empty ring from a full one, which front and rear cannot:
\* the slot after rear is always the one size slots after front, the items got
\* are the first ones put, and the ring holds the others from front on.
RingHolds ==
  /\ (rear + 1) % Capacity = (front + size) % Capacity
  /\ put = Len(got) + size
  /\ \A i \in 1 .. Len(got) : got[i] = i
  /\ \A k \in 0 .. size - 1 : array[(front + k) % Capacity] = Len(got) + k + 1
=============================================================================
