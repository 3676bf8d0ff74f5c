---------------------------- MODULE StreamQueue ----------------------------
(***************************************************************************)
(* The byte ring of share_queue.c (stream_enqueue, stream_dequeue), which  *)
(* carries one direction of one connection.  Callers hold the queue's      *)
(* lock, so each call is one step.                                         *)
(*                                                                         *)
(* The two buffers of a share_unit lie one after the other (share.h), and  *)
(* memcpy and memset run on linearly from the index they start at.  So     *)
(* m_arr has the ring's own cells 0 .. Capacity-1 and, behind them, as     *)
(* many cells of whatever follows it in shared memory.  A byte is named by *)
(* its position in the stream, 1, 2, 3, ...; memset leaves 0.              *)
(***************************************************************************)
EXTENDS Integers, Sequences

CONSTANTS
  Capacity,     \* q->capacity: STREAM_QUEUE_CAPACITY in the code
  MaxLen,       \* bound: the longest len a caller passes
  MaxBytes      \* bound: bytes offered over the life of the queue

ASSUME StreamAssumption ==
  /\ Capacity \in Nat \ {0}
  /\ MaxLen \in Nat
  /\ MaxBytes \in Nat

VARIABLES
  front, rear, current_size,   \* the fields of share_queue
  m_arr,                       \* the memory from message_start_offset on
  sent,                        \* number of bytes accepted (the return values)
  rcvd,                        \* the bytes handed out, oldest first
  run,                         \* bytes accepted since the queue was last empty
  lapped,                      \* some run was longer than the ring
  strayed                      \* some copy ran past the ring's last cell

vars == <<front, rear, current_size, m_arr, sent, rcvd, run, lapped, strayed>>

Cells == 0 .. 2 * Capacity - 1
OwnCells == 0 .. Capacity - 1
Foreign == -1                  \* what the memory's other owner stores there

Lesser(a, b) == IF a < b THEN a ELSE b

\* C's remainder truncates towards zero: (-1) % Capacity is -1, or 0 if
\* Capacity is 1.
CRem(a) == IF a < 0 THEN -((-a) % Capacity) ELSE a % Capacity
-----------------------------------------------------------------------------
\* Slips the code could have had; each stands in for the definition it is
\* named after to show that a property notices.
Slip_AddLen(len) == len                           \* no clamp to the room left
Slip_EnqueueAt == IF front = -1 THEN 0 ELSE rear  \* writes over the last byte
Slip_FrontAfter(n) == CRem(front + n)             \* no reset when emptied
Slip_CopyOut(n) == [k \in 1 .. n |-> m_arr[front]]
-----------------------------------------------------------------------------
Init ==
  /\ front = -1 /\ rear = -1 /\ current_size = 0
  /\ m_arr = [i \in Cells |-> IF i \in OwnCells THEN 0 ELSE Foreign]
  /\ sent = 0 /\ rcvd = <<>>
  /\ run = 0 /\ lapped = FALSE /\ strayed = FALSE

AddLen(len) == Lesser(Capacity - current_size, len)

EnqueueAt == IF front = -1 THEN 0 ELSE CRem(rear + 1)

CopyIn(at, n) ==
  [i \in Cells |-> IF at <= i /\ i < at + n THEN sent + 1 + (i - at)
                                            ELSE m_arr[i]]

\* stream_enqueue, past its return of -1 for a full queue.
Enqueue(len) ==
  /\ current_size # Capacity
  /\ sent + len <= MaxBytes
  /\ LET n == AddLen(len)
         at == EnqueueAt
     IN /\ front' = IF front = -1 THEN 0 ELSE front
        /\ rear' = CRem(at + n - 1)
        /\ m_arr' = CopyIn(at, n)
        /\ current_size' = current_size + n
        /\ sent' = sent + n
        /\ run' = run + n
        /\ lapped' = (lapped \/ run + n > Capacity)
        /\ strayed' = (strayed \/ at + n > Capacity)
        /\ UNCHANGED rcvd

CopyOut(n) == [k \in 1 .. n |-> m_arr[front + k - 1]]

Clear(n) ==
  [i \in Cells |-> IF front <= i /\ i < front + n THEN 0 ELSE m_arr[i]]

FrontAfter(n) == IF current_size = n THEN -1 ELSE CRem(front + n)

\* stream_dequeue, past its return of an empty buffer for front == -1.
Dequeue(len) ==
  /\ front # -1
  /\ LET n == Lesser(current_size, len)
     IN /\ rcvd' = rcvd \o CopyOut(n)
        /\ m_arr' = Clear(n)
        /\ current_size' = current_size - n
        /\ front' = FrontAfter(n)
        /\ rear' = IF current_size = n THEN -1 ELSE rear
        /\ run' = IF current_size = n THEN 0 ELSE run
        /\ strayed' = (strayed \/ front + n > Capacity)
        /\ UNCHANGED <<sent, lapped>>

\* The owner of the memory behind the ring (the response queue behind the
\* request queue, the next unit behind that) stores into its first cell.
NeighbourWrite ==
  /\ m_arr' = [m_arr EXCEPT ![Capacity] = Foreign]
  /\ UNCHANGED <<front, rear, current_size, sent, rcvd, run, lapped, strayed>>

Next ==
  \/ \E len \in 0 .. MaxLen : Enqueue(len)
  \/ \E len \in 0 .. MaxLen : Dequeue(len)
  \/ NeighbourWrite

Spec == Init /\ [][Next]_vars
-----------------------------------------------------------------------------
\* Every variable stays in its range; a zero-length enqueue leaves rear at -1.
TypeOK ==
  /\ front \in -1 .. Capacity - 1
  /\ rear \in -1 .. Capacity - 1
  /\ current_size \in 0 .. Capacity
  /\ m_arr \in [Cells -> Int]
  /\ sent \in Nat
  /\ rcvd \in Seq(Int)
  /\ run \in Nat
  /\ lapped \in BOOLEAN
  /\ strayed \in BOOLEAN

\* front, rear and current_size agree with one another in every state, full,
\* empty or wrapped: the cell after rear is the one current_size cells after
\* front, and an unset front means an empty queue with an unset rear.
RingShape ==
  IF front = -1
    THEN rear = -1 /\ current_size = 0 /\ run = 0
    ELSE (rear + 1) % Capacity = (front + current_size) % Capacity

\* As long as no copy ran past the last cell, the bytes handed out are the
\* bytes accepted, in order, and the ring holds exactly the bytes that are
\* still to come, whatever wraps of front and rear happened on the way.
Contents ==
  /\ sent = Len(rcvd) + current_size
  /\ ~strayed =>
       /\ \A i \in 1 .. Len(rcvd) : rcvd[i] = i
       /\ \A k \in 0 .. current_size - 1 :
            m_arr[(front + k) % Capacity] = Len(rcvd) + k + 1

\* The copies stay inside the ring's own cells for callers that put at most
\* Capacity bytes between two moments at which the queue is empty.  (They do
\* not stay there in general: memcpy does not wrap where rear does.)
StaysInBuffer == strayed => lapped
=============================================================================
