--------------------------- MODULE DatagramQueue ---------------------------
(***************************************************************************)
(* The message ring of share_queue.c (datagram_enqueue, datagram_dequeue)  *)
(* between my_send of the client and recvfrom of the server, one load or   *)
(* store of shared memory at a time.  Both take the request lock; but      *)
(* select, when the server is tinydtls, throws away a message that nobody  *)
(* answered, and that dequeue runs without the lock (socket_hook.c).  The  *)
(* accesses of that dequeue race with the client's, so each is a step.     *)
(*                                                                         *)
(* A message is its number, 1, 2, 3, ...; 0 is a message of length 0.      *)
(***************************************************************************)
EXTENDS Integers, Sequences

CONSTANTS
  Capacity,     \* DATAGRAM_QUEUE_CAPACITY
  MaxMessages   \* bound: messages the client sends

ASSUME DatagramAssumption ==
  Capacity \in Nat \ {0} /\ MaxMessages \in Nat

VARIABLES
  front, rear, current_size, m_arr,   \* the queue in shared memory
  lock,                               \* who holds request_lock
  cpc, csize,                         \* the client: where, and its register
  spc, sfront, ssize, locked,         \* the server: where, its registers, and
                                      \* whether its dequeue took the lock
  read_count,                         \* recvfroms since the last answer, up to 2
  sent,                               \* messages the client has put
  taken,                              \* messages dequeued, oldest first
  raced                               \* history: a drain met an enqueue

ring == <<front, rear, current_size, m_arr>>
client == <<cpc, csize>>
server == <<spc, sfront, ssize, locked, read_count>>
vars == <<ring, lock, client, server, sent, taken, raced>>

Slots == 0 .. Capacity - 1
\* Inside datagram_enqueue or datagram_dequeue, not just waiting to be.
Enqueuing == cpc \notin {"idle", "lock"}
Dequeuing == spc \notin {"idle", "poll", "lock"}
-----------------------------------------------------------------------------
\* Slips the code could have had; each stands in for the definition it is
\* named after to show that a property notices.
Slip_Free == TRUE                         \* recvfrom without the lock, too
Slip_Emptied == front = (rear + 1) % Capacity
Slip_NextRear == rear + 1                 \* no wrap
-----------------------------------------------------------------------------
\* The lock can be taken.
Free == lock = "free"
\* datagram_dequeue takes the last message.
Emptied == front = rear
NextRear == (rear + 1) % Capacity
\* The condition my_send polls before it takes the lock.
Room == current_size # Capacity

Init ==
  /\ front = -1 /\ rear = -1 /\ current_size = 0
  /\ m_arr = [i \in Slots |-> 0]
  /\ lock = "free"
  /\ cpc = "idle" /\ csize = 0
  /\ spc = "idle" /\ sfront = -1 /\ ssize = 0 /\ locked = FALSE
  /\ read_count = 0
  /\ sent = 0 /\ taken = <<>> /\ raced = FALSE
-----------------------------------------------------------------------------
(* The client: my_send and datagram_enqueue *)

SendPoll ==
  /\ cpc = "idle" /\ sent < MaxMessages
  /\ Room
  /\ cpc' = "lock"
  /\ UNCHANGED <<ring, lock, csize, server, sent, taken, raced>>

SendLock ==
  /\ cpc = "lock"
  /\ Free /\ lock' = "client"
  /\ cpc' = "check"
  /\ raced' = (raced \/ (Dequeuing /\ ~locked))
  /\ UNCHANGED <<ring, csize, server, sent, taken>>

\* A full queue returns -1: my_send unlocks and returns 0.
EnqueueCheck ==
  /\ cpc = "check"
  /\ IF current_size = Capacity
       THEN cpc' = "idle" /\ lock' = "free"
       ELSE cpc' = (IF front = -1 THEN "setRear" ELSE "advance") /\ UNCHANGED lock
  /\ UNCHANGED <<ring, csize, server, sent, taken, raced>>

\* q->front = q->rear = 0
EnqueueSetRear ==
  /\ cpc = "setRear"
  /\ rear' = 0
  /\ cpc' = "setFront"
  /\ UNCHANGED <<front, current_size, m_arr, lock, csize, server, sent, taken, raced>>

EnqueueSetFront ==
  /\ cpc = "setFront"
  /\ front' = 0
  /\ cpc' = "copy"
  /\ UNCHANGED <<rear, current_size, m_arr, lock, csize, server, sent, taken, raced>>

EnqueueAdvance ==
  /\ cpc = "advance"
  /\ rear' = NextRear
  /\ cpc' = "copy"
  /\ UNCHANGED <<front, current_size, m_arr, lock, csize, server, sent, taken, raced>>

\* memcpy to m_arr[q->rear]
EnqueueCopy ==
  /\ cpc = "copy" /\ rear # -1
  /\ m_arr' = [i \in Slots |-> IF i = rear THEN sent + 1 ELSE m_arr[i]]
  /\ sent' = sent + 1
  /\ cpc' = "load"
  /\ UNCHANGED <<front, rear, current_size, lock, csize, server, taken, raced>>

\* A drain has just reset rear, and m_arr[-1] is the memory before the ring:
\* the unit's queue headers and locks, or nothing that is mapped.  Whatever
\* follows is not modelled: both sides stop.
EnqueueStray ==
  /\ cpc = "copy" /\ rear = -1
  /\ cpc' = "wrecked" /\ spc' = "wrecked"
  /\ UNCHANGED <<ring, lock, csize, sfront, ssize, locked, read_count, sent,
                 taken, raced>>

\* q->current_size++
EnqueueLoad ==
  /\ cpc = "load"
  /\ csize' = current_size
  /\ cpc' = "store"
  /\ UNCHANGED <<ring, lock, server, sent, taken, raced>>

EnqueueStore ==
  /\ cpc = "store"
  /\ current_size' = csize + 1
  /\ lock' = "free"
  /\ cpc' = "idle" /\ csize' = 0
  /\ UNCHANGED <<front, rear, m_arr, server, sent, taken, raced>>
-----------------------------------------------------------------------------
(* The server: recvfrom, sendto, select, and datagram_dequeue *)

\* recvfrom counts first.  On a nonblocking socket, or with MSG_DONTWAIT, it
\* returns -1 if there is no message; else it polls for one.
ReceiveStart ==
  /\ spc = "idle"
  /\ read_count' = IF read_count < 2 THEN read_count + 1 ELSE 2
  /\ \/ spc' = "poll"
     \/ current_size = 0 /\ UNCHANGED spc
  /\ UNCHANGED <<ring, lock, client, sfront, ssize, locked, sent, taken, raced>>

ReceivePoll ==
  /\ spc = "poll"
  /\ current_size # 0
  /\ spc' = "lock"
  /\ UNCHANGED <<ring, lock, client, sfront, ssize, locked, read_count, sent,
                 taken, raced>>

ReceiveLock ==
  /\ spc = "lock"
  /\ Free /\ lock' = "server"
  /\ locked' = TRUE
  /\ spc' = "test"
  /\ UNCHANGED <<ring, client, sfront, ssize, read_count, sent, taken, raced>>

\* sendto answers.
Answer ==
  /\ spc = "idle" /\ read_count # 0
  /\ read_count' = 0
  /\ UNCHANGED <<ring, lock, client, spc, sfront, ssize, locked, sent, taken, raced>>

\* select, after exactly one recvfrom that no sendto has answered: it takes the
\* next message away, if there is one, and tells the harness that the last one
\* was malformed.
Drain ==
  /\ spc = "idle" /\ read_count = 1
  /\ read_count' = 0
  /\ IF current_size > 0
       THEN /\ spc' = "test"
            /\ raced' = (raced \/ Enqueuing)
       ELSE UNCHANGED <<spc, raced>>
  /\ UNCHANGED <<ring, lock, client, sfront, ssize, locked, sent, taken>>

Finish ==
  /\ spc' = "idle" /\ sfront' = -1 /\ ssize' = 0 /\ locked' = FALSE
  /\ lock' = IF locked THEN "free" ELSE lock

\* An unset front means an empty message, and the queue is left alone.
DequeueTest ==
  /\ spc = "test"
  /\ IF front = -1
       THEN Finish
       ELSE /\ spc' = "take" /\ sfront' = front
            /\ UNCHANGED <<lock, ssize, locked>>
  /\ UNCHANGED <<ring, client, read_count, sent, taken, raced>>

DequeueTake ==
  /\ spc = "take"
  /\ taken' = Append(taken, m_arr[sfront])
  /\ m_arr' = [m_arr EXCEPT ![sfront] = 0]
  /\ spc' = "compare"
  /\ UNCHANGED <<front, rear, current_size, lock, client, sfront, ssize, locked,
                 read_count, sent, raced>>

DequeueCompare ==
  /\ spc = "compare"
  /\ spc' = IF Emptied THEN "resetFront" ELSE "advance"
  /\ UNCHANGED <<ring, lock, client, sfront, ssize, locked, read_count, sent,
                 taken, raced>>

DequeueResetFront ==
  /\ spc = "resetFront"
  /\ front' = -1
  /\ spc' = "resetRear"
  /\ UNCHANGED <<rear, current_size, m_arr, lock, client, sfront, ssize, locked,
                 read_count, sent, taken, raced>>

DequeueResetRear ==
  /\ spc = "resetRear"
  /\ rear' = -1
  /\ spc' = "load"
  /\ UNCHANGED <<front, current_size, m_arr, lock, client, sfront, ssize, locked,
                 read_count, sent, taken, raced>>

DequeueAdvance ==
  /\ spc = "advance"
  /\ front' = (sfront + 1) % Capacity
  /\ spc' = "load"
  /\ UNCHANGED <<rear, current_size, m_arr, lock, client, sfront, ssize, locked,
                 read_count, sent, taken, raced>>

\* q->current_size--
DequeueLoad ==
  /\ spc = "load"
  /\ ssize' = current_size
  /\ spc' = "store"
  /\ UNCHANGED <<ring, lock, client, sfront, locked, read_count, sent, taken, raced>>

DequeueStore ==
  /\ spc = "store"
  /\ current_size' = ssize - 1
  /\ Finish
  /\ UNCHANGED <<front, rear, m_arr, client, read_count, sent, taken, raced>>

Next ==
  \/ SendPoll \/ SendLock \/ EnqueueCheck \/ EnqueueSetRear \/ EnqueueSetFront
  \/ EnqueueAdvance \/ EnqueueCopy \/ EnqueueStray \/ EnqueueLoad
  \/ EnqueueStore
  \/ ReceiveStart \/ ReceivePoll \/ ReceiveLock \/ Answer \/ Drain
  \/ DequeueTest \/ DequeueTake \/ DequeueCompare \/ DequeueResetFront
  \/ DequeueResetRear \/ DequeueAdvance \/ DequeueLoad \/ DequeueStore

Spec == Init /\ [][Next]_vars
-----------------------------------------------------------------------------
\* The variables keep their types, whatever races.
TypeOK ==
  /\ front \in -1 .. Capacity - 1 /\ rear \in -1 .. Capacity - 1
  /\ current_size \in Int
  /\ m_arr \in [Slots -> 0 .. MaxMessages]
  /\ lock \in {"free", "client", "server"}
  /\ csize \in Int /\ ssize \in Int /\ sfront \in -1 .. Capacity - 1
  /\ locked \in BOOLEAN /\ read_count \in 0 .. 2
  /\ sent \in 0 .. MaxMessages /\ taken \in Seq(0 .. MaxMessages)

\* With both sides at rest, and as long as no drain overlapped an enqueue, the
\* three fields agree: unset and zero together, or current_size slots from
\* front to rear around the ring, which hold the messages still to come.
RestsWellFormed ==
  ~Enqueuing /\ ~Dequeuing /\ ~raced =>
    /\ (front = -1) = (current_size = 0)
    /\ (front = -1) = (rear = -1)
    /\ front # -1 => (front + current_size) % Capacity = (rear + 1) % Capacity
    /\ \A k \in 0 .. current_size - 1 :
         m_arr[(front + k) % Capacity] = sent - current_size + k + 1

\* "remove message from request queue to avoid request queue being exhausted"
\* (select): a queue with nothing in it to receive is not full.
NeverExhausted ==
  ~Enqueuing /\ ~Dequeuing /\ front = -1 => current_size < Capacity
=============================================================================
