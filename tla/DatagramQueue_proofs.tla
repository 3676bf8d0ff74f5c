------------------------ MODULE DatagramQueue_proofs ------------------------
(***************************************************************************)
(* The message ring keeps its fields in agreement, and is a first-in       *)
(* first-out channel, for every capacity and number of messages, as long   *)
(* as no drain of select has overlapped an enqueue: the lock and the order *)
(* of the loads and stores suffice for all the rest.                       *)
(***************************************************************************)
EXTENDS MCDatagramQueue, SequencesExt, TLAPS

\* The client has checked for room, but has not put its message yet.
ToPut == {"lock", "check", "setRear", "setFront", "advance", "copy"}
\* The server's register has the front.
Fronted == {"take", "compare", "resetFront", "resetRear", "advance"}

\* Where both sides may be, whatever races.
Placed ==
  /\ cpc \in ToPut \cup {"idle", "load", "store", "wrecked"}
  /\ spc \in Fronted \cup {"idle", "poll", "lock", "test", "load", "store", "wrecked"}
  /\ cpc \in ToPut => sent < MaxMessages
  /\ spc \in Fronted => sfront # -1

\* The lock is held where the code says so; and one side at a time is in the
\* ring, unless a drain has come in between.
Owned ==
  /\ cpc # "wrecked" =>
       /\ Enqueuing <=> lock = "client"
       /\ locked <=> lock = "server"
       /\ locked => Dequeuing
  /\ cpc = "wrecked" => spc = "wrecked"
  /\ ~raced => ~(Enqueuing /\ Dequeuing)

\* n slots from front on hold the messages behind message m.
Runs(n, m) == \A k \in 0 .. n - 1 : m_arr[(front + k) % Capacity] = m + k + 1

Empty == front = -1 /\ rear = -1
Spans(n, m) ==
  /\ front \in Slots /\ n \in 1 .. Capacity
  /\ rear = (front + (n - 1)) % Capacity
  /\ Runs(n, m)
Whole(n, m) == (n = 0 /\ Empty) \/ Spans(n, m)

\* Messages put and not taken yet.
Waiting == sent - Len(taken)

\* What the enqueue has done so far ...
Putting ==
  /\ cpc \in ToPut => current_size = Waiting
  /\ cpc = "check" => Whole(Waiting, Len(taken))
  /\ cpc = "setRear" => Waiting = 0 /\ Empty
  /\ cpc = "setFront" => Waiting = 0 /\ front = -1 /\ rear = 0
  /\ cpc = "advance" => Spans(Waiting, Len(taken)) /\ Waiting < Capacity
  /\ cpc = "copy" =>
       /\ front \in Slots /\ Waiting \in 0 .. Capacity - 1
       /\ rear = (front + Waiting) % Capacity /\ Runs(Waiting, Len(taken))
  /\ cpc \in {"load", "store"} =>
       current_size = Waiting - 1 /\ Spans(Waiting, Len(taken))
  /\ cpc = "store" => csize = current_size

\* ... and the dequeue: front stays behind until it is advanced, and the size
\* until the last store.
Taking ==
  /\ spc \in {"test", "take"} =>
       current_size = Waiting /\ Whole(Waiting, Len(taken))
  /\ spc = "take" => Waiting # 0 /\ sfront = front
  /\ spc \in {"compare", "resetFront", "advance"} =>
       /\ current_size = Waiting + 1 /\ sfront = front /\ front \in Slots
       /\ Waiting \in 0 .. Capacity - 1
       /\ rear = (front + Waiting) % Capacity
       /\ \A k \in 1 .. Waiting : m_arr[(front + k) % Capacity] = Len(taken) + k
  /\ spc \in {"resetFront", "resetRear"} => Waiting = 0
  /\ spc = "advance" => Waiting # 0
  /\ spc = "resetRear" => current_size = 1 /\ front = -1
  /\ spc \in {"load", "store"} =>
       current_size = Waiting + 1 /\ Whole(Waiting, Len(taken))
  /\ spc = "store" => ssize = current_size

\* As long as nothing has raced, the ring is what the steps taken make of it.
Ordered ==
  ~raced =>
    /\ \A i \in 1 .. Len(taken) : taken[i] = i
    /\ ~Enqueuing /\ ~Dequeuing =>
         current_size = Waiting /\ Whole(Waiting, Len(taken))
    /\ ~Dequeuing => Putting
    /\ ~Enqueuing => Taking

IInv == TypeOK /\ Placed /\ Owned /\ Ordered
-----------------------------------------------------------------------------
(* Slots around the ring *)

\* Up to a whole ring along, an index wraps at most once.
LEMMA Around ==
  ASSUME NEW f \in Slots, NEW k \in 0 .. Capacity
  PROVE  /\ (f + k) % Capacity = IF f + k < Capacity THEN f + k ELSE f + k - Capacity
         /\ (f + k) % Capacity \in Slots
<1>1. Capacity \in Nat /\ Capacity > 0 /\ f \in Nat /\ f < Capacity /\ k \in Nat
      /\ k <= Capacity
  BY DatagramAssumption DEF Slots
<1>2. CASE f + k < Capacity
  BY <1>1, <1>2 DEF Slots
<1>3. CASE f + k >= Capacity
  <2>1. f + k - Capacity \in Nat /\ f + k - Capacity < Capacity
    BY <1>1, <1>3
  <2>2. (f + k) % Capacity = f + k - Capacity
    BY <1>1, <1>3, <2>1
  <2> QED BY <1>1, <1>3, <2>1, <2>2 DEF Slots
<1> QED BY <1>1, <1>2, <1>3

\* Less than a ring apart, slots differ.
LEMMA Apart ==
  ASSUME NEW f \in Slots, NEW j \in 0 .. Capacity - 1, NEW k \in 0 .. Capacity - 1, j # k
  PROVE  (f + j) % Capacity # (f + k) % Capacity
<1>1. Capacity \in Nat /\ f \in Nat /\ f < Capacity
  BY DatagramAssumption DEF Slots
<1>2. /\ j \in 0 .. Capacity /\ k \in 0 .. Capacity
      /\ j \in Nat /\ k \in Nat /\ j < Capacity /\ k < Capacity
  BY <1>1
<1>3. (f + j) % Capacity = IF f + j < Capacity THEN f + j ELSE f + j - Capacity
  BY <1>2, Around
<1>4. (f + k) % Capacity = IF f + k < Capacity THEN f + k ELSE f + k - Capacity
  BY <1>2, Around
<1> QED BY <1>1, <1>2, <1>3, <1>4

\* One slot on, from either end.
LEMMA OneOn ==
  ASSUME NEW f \in Slots, NEW k \in 0 .. Capacity - 1
  PROVE  /\ (((f + k) % Capacity) + 1) % Capacity = (f + (k + 1)) % Capacity
         /\ (f + 1) % Capacity \in Slots
         /\ (((f + 1) % Capacity) + k) % Capacity = (f + (k + 1)) % Capacity
<1>1. Capacity \in Nat /\ Capacity > 0 /\ f \in Nat /\ f < Capacity
  BY DatagramAssumption DEF Slots
<1>2. /\ k \in 0 .. Capacity /\ k + 1 \in 0 .. Capacity /\ 1 \in 0 .. Capacity
      /\ k \in Nat /\ k < Capacity
  BY <1>1
<1>3. PICK g \in Slots : g = (f + k) % Capacity
  BY <1>2, Around
<1>4. PICK h \in Slots : h = (f + 1) % Capacity
  BY <1>2, Around
<1>5. g = IF f + k < Capacity THEN f + k ELSE f + k - Capacity
  BY <1>2, <1>3, Around
<1>6. h = IF f + 1 < Capacity THEN f + 1 ELSE f + 1 - Capacity
  BY <1>2, <1>4, Around
<1>7. (f + (k + 1)) % Capacity = IF f + (k + 1) < Capacity THEN f + (k + 1)
                                 ELSE f + (k + 1) - Capacity
  BY <1>2, Around
<1>8. (g + 1) % Capacity = IF g + 1 < Capacity THEN g + 1 ELSE g + 1 - Capacity
  BY <1>2, Around
<1>9. (h + k) % Capacity = IF h + k < Capacity THEN h + k ELSE h + k - Capacity
  BY <1>2, Around
<1>10. g \in Nat /\ h \in Nat
  BY DEF Slots
<1>11. (g + 1) % Capacity = (f + (k + 1)) % Capacity
  BY <1>1, <1>2, <1>5, <1>7, <1>8, <1>10
<1>12. (h + k) % Capacity = (f + (k + 1)) % Capacity
  BY <1>1, <1>2, <1>6, <1>7, <1>9, <1>10
<1> QED BY <1>3, <1>4, <1>11, <1>12

LEMMA NoneOn == \A f \in Slots : (f + 0) % Capacity = f
<1>1. 0 \in 0 .. Capacity /\ Capacity \in Nat
  BY DatagramAssumption
<1>2. ASSUME NEW f \in Slots PROVE (f + 0) % Capacity = f
  <2>1. (f + 0) % Capacity = IF f + 0 < Capacity THEN f + 0 ELSE f + 0 - Capacity
    BY <1>1, Around
  <2>2. f \in Nat /\ f < Capacity
    BY <1>1 DEF Slots
  <2> QED BY <1>1, <2>1, <2>2
<1> QED BY <1>2
-----------------------------------------------------------------------------
(* Types and places *)

LEMMA PlacedInit == Init => TypeOK /\ Placed /\ Owned
<1> SUFFICES ASSUME Init PROVE TypeOK /\ Placed /\ Owned
  OBVIOUS
<1>1. TypeOK
  <2>1. /\ 0 \in 0 .. MaxMessages /\ -1 \in -1 .. Capacity - 1 /\ 0 \in 0 .. 2
        /\ << >> \in Seq(0 .. MaxMessages)
    BY DatagramAssumption
  <2>2. m_arr \in [Slots -> 0 .. MaxMessages]
    BY <2>1 DEF Init
  <2>3. locked \in BOOLEAN
    BY DEF Init
  <2>4. /\ front \in -1 .. Capacity - 1 /\ rear \in -1 .. Capacity - 1
        /\ sfront \in -1 .. Capacity - 1 /\ csize \in Int /\ ssize \in Int
        /\ current_size \in Int /\ read_count \in 0 .. 2 /\ sent \in 0 .. MaxMessages
    BY <2>1 DEF Init
  <2>5. taken \in Seq(0 .. MaxMessages) /\ lock \in {"free", "client", "server"}
    BY <2>1 DEF Init
  <2> QED BY <2>2, <2>3, <2>4, <2>5 DEF TypeOK
<1>2. Placed
  BY DEF Init, Placed, ToPut, Fronted
<1>3. Owned
  BY DEF Init, Owned, Enqueuing, Dequeuing
<1> QED BY <1>1, <1>2, <1>3

\* The enqueue keeps the types.
LEMMA PlacedClient ==
  ASSUME TypeOK, Placed,
         \/ SendPoll \/ SendLock \/ EnqueueCheck \/ EnqueueSetRear \/ EnqueueSetFront
         \/ EnqueueAdvance \/ EnqueueCopy \/ EnqueueStray \/ EnqueueLoad \/ EnqueueStore
  PROVE  TypeOK' /\ Placed'
<1>1. Capacity \in Nat /\ Capacity > 0 /\ MaxMessages \in Nat
  BY DatagramAssumption
<1>2. CASE SendPoll
  BY <1>2 DEF SendPoll, ring, server, TypeOK, Placed, ToPut, Fronted
<1>3. CASE SendLock
  BY <1>3 DEF SendLock, ring, server, TypeOK, Placed, ToPut, Fronted
<1>4. CASE EnqueueCheck
  BY <1>4 DEF EnqueueCheck, ring, server, TypeOK, Placed, ToPut, Fronted
<1>5. CASE EnqueueSetRear \/ EnqueueSetFront
  <2>1. 0 \in -1 .. Capacity - 1
    BY <1>1
  <2> QED BY <1>5, <2>1 DEF EnqueueSetRear, EnqueueSetFront, server, TypeOK, Placed, ToPut, Fronted
<1>6. CASE EnqueueAdvance
  <2>1. rear' = (rear + 1) % Capacity /\ rear + 1 \in Nat
    BY <1>1, <1>6 DEF EnqueueAdvance, NextRear, TypeOK
  <2>2. rear' \in 0 .. Capacity - 1
    BY <1>1, <2>1
  <2> QED BY <1>1, <1>6, <2>2 DEF EnqueueAdvance, server, TypeOK, Placed, ToPut, Fronted
<1>7. CASE EnqueueCopy
  <2>1. sent \in 0 .. MaxMessages /\ sent < MaxMessages
    BY <1>7 DEF EnqueueCopy, Placed, ToPut, TypeOK
  <2>2. sent + 1 \in 0 .. MaxMessages
    BY <1>1, <2>1
  <2>3. m_arr' \in [Slots -> 0 .. MaxMessages]
    BY <1>7, <2>2 DEF EnqueueCopy, TypeOK
  <2> QED BY <1>7, <2>2, <2>3 DEF EnqueueCopy, server, TypeOK, Placed, ToPut, Fronted
<1>8. CASE EnqueueStray
  BY <1>8 DEF EnqueueStray, ring, TypeOK, Placed, ToPut, Fronted
<1>9. CASE EnqueueLoad
  BY <1>9 DEF EnqueueLoad, ring, server, TypeOK, Placed, ToPut, Fronted
<1>10. CASE EnqueueStore
  BY <1>10 DEF EnqueueStore, server, TypeOK, Placed, ToPut, Fronted
<1> QED BY <1>2, <1>3, <1>4, <1>5, <1>6, <1>7, <1>8, <1>9, <1>10

\* So does the dequeue.
LEMMA PlacedServer ==
  ASSUME TypeOK, Placed,
         \/ ReceiveStart \/ ReceivePoll \/ ReceiveLock \/ Answer \/ Drain
         \/ DequeueTest \/ DequeueTake \/ DequeueCompare \/ DequeueResetFront
         \/ DequeueResetRear \/ DequeueAdvance \/ DequeueLoad \/ DequeueStore
  PROVE  TypeOK' /\ Placed'
<1>1. /\ Capacity \in Nat /\ Capacity > 0
      /\ -1 \in -1 .. Capacity - 1 /\ 0 \in 0 .. MaxMessages
  BY DatagramAssumption
<1>2. CASE ReceiveStart
  BY <1>2 DEF ReceiveStart, ring, client, TypeOK, Placed, ToPut, Fronted
<1>3. CASE ReceivePoll \/ ReceiveLock
  BY <1>3 DEF ReceivePoll, ReceiveLock, ring, client, TypeOK, Placed, ToPut, Fronted
<1>4. CASE Answer
  BY <1>4 DEF Answer, ring, client, TypeOK, Placed, ToPut, Fronted
<1>5. CASE Drain
  BY <1>5 DEF Drain, ring, client, TypeOK, Placed, ToPut, Fronted
<1>6. ASSUME Finish
      PROVE  /\ sfront' \in -1 .. Capacity - 1 /\ ssize' \in Int /\ locked' \in BOOLEAN
             /\ lock' \in {"free", "client", "server"} /\ spc' = "idle"
  <2>1. spc' = "idle" /\ sfront' = -1 /\ ssize' = 0 /\ lock' \in {"free", lock}
    BY <1>6 DEF Finish
  <2>2. locked' \in BOOLEAN
    BY <1>6 DEF Finish
  <2>3. lock \in {"free", "client", "server"}
    BY DEF TypeOK
  <2> QED BY <1>1, <2>1, <2>2, <2>3
<1>7. CASE DequeueTest
  <2>1. CASE Finish
    <3>1. /\ sfront' \in -1 .. Capacity - 1 /\ ssize' \in Int /\ locked' \in BOOLEAN
          /\ lock' \in {"free", "client", "server"} /\ spc' = "idle"
      BY <1>6, <2>1
    <3> QED BY <1>7, <3>1 DEF DequeueTest, ring, client, TypeOK, Placed, ToPut, Fronted
  <2>2. CASE front # -1 /\ spc' = "take" /\ sfront' = front /\ UNCHANGED <<lock, ssize, locked>>
    BY <1>7, <2>2 DEF DequeueTest, ring, client, TypeOK, Placed, ToPut, Fronted
  <2> QED BY <1>7, <2>1, <2>2 DEF DequeueTest
<1>8. CASE DequeueTake
  <2>1. sfront \in Slots
    BY <1>1, <1>8 DEF DequeueTake, TypeOK, Placed, Fronted, Slots
  <2>2. m_arr[sfront] \in 0 .. MaxMessages /\ taken \in Seq(0 .. MaxMessages)
    BY <2>1 DEF TypeOK
  <2>3. taken' \in Seq(0 .. MaxMessages)
    <3> DEFINE S == 0 .. MaxMessages
    <3>1. m_arr[sfront] \in S /\ taken \in Seq(S)
      BY <2>2
    <3> HIDE DEF S
    <3>2. Append(taken, m_arr[sfront]) \in Seq(S)
      BY <3>1
    <3> QED BY <1>8, <3>2 DEF DequeueTake, S
  <2>4. m_arr' \in [Slots -> 0 .. MaxMessages]
    BY <1>1, <1>8 DEF DequeueTake, TypeOK
  <2> QED BY <1>8, <2>3, <2>4 DEF DequeueTake, client, TypeOK, Placed, ToPut, Fronted
<1>9. CASE DequeueCompare
  BY <1>9 DEF DequeueCompare, ring, client, TypeOK, Placed, ToPut, Fronted
<1>10. CASE DequeueResetFront \/ DequeueResetRear
  BY <1>1, <1>10 DEF DequeueResetFront, DequeueResetRear, client, TypeOK, Placed, ToPut, Fronted
<1>11. CASE DequeueAdvance
  <2>1. front' = (sfront + 1) % Capacity /\ sfront + 1 \in Nat
    BY <1>1, <1>11 DEF DequeueAdvance, TypeOK
  <2>2. front' \in 0 .. Capacity - 1
    BY <1>1, <2>1
  <2> QED BY <1>1, <1>11, <2>2 DEF DequeueAdvance, client, TypeOK, Placed, ToPut, Fronted
<1>12. CASE DequeueLoad
  BY <1>12 DEF DequeueLoad, ring, client, TypeOK, Placed, ToPut, Fronted
<1>13. CASE DequeueStore
  <2>1. /\ sfront' \in -1 .. Capacity - 1 /\ ssize' \in Int /\ locked' \in BOOLEAN
        /\ lock' \in {"free", "client", "server"} /\ spc' = "idle"
    BY <1>6, <1>13 DEF DequeueStore
  <2>2. current_size' \in Int
    BY <1>13 DEF TypeOK, DequeueStore
  <2> QED BY <1>13, <2>1, <2>2 DEF DequeueStore, client, TypeOK, Placed, ToPut, Fronted
<1> QED BY <1>2, <1>3, <1>4, <1>5, <1>7, <1>8, <1>9, <1>10, <1>11, <1>12, <1>13

LEMMA PlacedNext == TypeOK /\ Placed /\ [Next]_vars => TypeOK' /\ Placed'
<1>1. TypeOK /\ Placed /\ UNCHANGED vars => TypeOK' /\ Placed'
  BY DEF vars, ring, client, server, TypeOK, Placed
<1> QED BY <1>1, PlacedClient, PlacedServer DEF Next
-----------------------------------------------------------------------------
(* The lock *)

\* The steps of the client.
LEMMA OwnedClient ==
  ASSUME Placed, Owned,
         ~raced => ~EnqueueStray,
         \/ SendPoll \/ SendLock \/ EnqueueCheck \/ EnqueueSetRear \/ EnqueueSetFront
         \/ EnqueueAdvance \/ EnqueueCopy \/ EnqueueStray \/ EnqueueLoad \/ EnqueueStore
  PROVE  Owned'
<1>1. CASE SendPoll
  BY <1>1 DEF SendPoll, Owned, Enqueuing, Dequeuing, server
<1>2. CASE SendLock
  BY <1>2 DEF SendLock, Owned, Enqueuing, Dequeuing, server, Free
<1>3. CASE EnqueueCheck
  BY <1>3 DEF EnqueueCheck, Owned, Enqueuing, Dequeuing, server
<1>4. CASE EnqueueSetRear \/ EnqueueSetFront \/ EnqueueAdvance
  BY <1>4 DEF EnqueueSetRear, EnqueueSetFront, EnqueueAdvance, Owned, Enqueuing,
     Dequeuing, server
<1>5. CASE EnqueueCopy \/ EnqueueLoad
  BY <1>5 DEF EnqueueCopy, EnqueueLoad, Owned, Enqueuing, Dequeuing, server
<1>6. CASE EnqueueStore
  BY <1>6 DEF EnqueueStore, Owned, Enqueuing, Dequeuing, server
<1>7. CASE EnqueueStray
  BY <1>7 DEF EnqueueStray, Owned
<1> QED BY <1>1, <1>2, <1>3, <1>4, <1>5, <1>6, <1>7

\* The steps of the server.
LEMMA OwnedServer ==
  ASSUME Placed, Owned,
         \/ ReceiveStart \/ ReceivePoll \/ ReceiveLock \/ Answer \/ Drain
         \/ DequeueTest \/ DequeueTake \/ DequeueCompare \/ DequeueResetFront
         \/ DequeueResetRear \/ DequeueAdvance \/ DequeueLoad \/ DequeueStore
  PROVE  Owned'
<1>1. CASE ReceiveStart \/ ReceivePoll
  BY <1>1 DEF ReceiveStart, ReceivePoll, Owned, Enqueuing, Dequeuing, client
<1>2. CASE ReceiveLock
  BY <1>2 DEF ReceiveLock, Owned, Enqueuing, Dequeuing, client, Free
<1>3. CASE Answer
  BY <1>3 DEF Answer, Owned, Enqueuing, Dequeuing, client
<1>4. CASE Drain
  BY <1>4 DEF Drain, Owned, Enqueuing, Dequeuing, client
<1>5. CASE DequeueTest
  BY <1>5 DEF DequeueTest, Finish, Owned, Enqueuing, Dequeuing, client
<1>6. CASE DequeueTake \/ DequeueCompare
  BY <1>6 DEF DequeueTake, DequeueCompare, Owned, Enqueuing, Dequeuing, client
<1>7. CASE DequeueResetFront \/ DequeueResetRear \/ DequeueAdvance
  BY <1>7 DEF DequeueResetFront, DequeueResetRear, DequeueAdvance, Owned, Enqueuing,
     Dequeuing, client
<1>8. CASE DequeueLoad
  BY <1>8 DEF DequeueLoad, Owned, Enqueuing, Dequeuing, client
<1>9. CASE DequeueStore
  BY <1>9 DEF DequeueStore, Finish, Owned, Enqueuing, Dequeuing, client
<1> QED BY <1>1, <1>2, <1>3, <1>4, <1>5, <1>6, <1>7, <1>8, <1>9
-----------------------------------------------------------------------------
(* The ring *)

\* A step that leaves the ring alone leaves the messages in it.
LEMMA SameRing ==
  ASSUME UNCHANGED <<front, rear, m_arr, sent, taken>>
  PROVE  /\ Waiting' = Waiting /\ (Len(taken))' = Len(taken)
         /\ Whole(Waiting, Len(taken)) => Whole(Waiting, Len(taken))'
         /\ Spans(Waiting, Len(taken)) => Spans(Waiting, Len(taken))'
         /\ Runs(Waiting, Len(taken)) => Runs(Waiting, Len(taken))'
         /\ Empty => Empty'
BY DEF Waiting, Whole, Spans, Runs, Empty

\* What the numbers of the ring are.
LEMMA RingNumbers ==
  ASSUME TypeOK
  PROVE  /\ Capacity \in Nat /\ Capacity > 0 /\ sent \in Nat /\ Len(taken) \in Nat
         /\ current_size \in Int /\ Waiting \in Int /\ Waiting = sent - Len(taken)
         /\ front \in Slots \cup {-1} /\ taken \in Seq(Nat)
BY DatagramAssumption DEF TypeOK, Waiting, Slots

\* front tells a ring with messages from an empty one.
LEMMA FrontTells ==
  ASSUME NEW n, NEW m, Whole(n, m)
  PROVE  IF front = -1 THEN n = 0 /\ Empty ELSE Spans(n, m) /\ n # 0
<1>1. -1 \notin Slots
  BY DatagramAssumption DEF Slots
<1>2. Spans(n, m) => front \in Slots /\ n # 0
  BY DatagramAssumption DEF Spans
<1> QED BY <1>1, <1>2 DEF Whole, Empty

LEMMA OrderedInit == Init => Ordered
<1> SUFFICES ASSUME Init PROVE Ordered
  OBVIOUS
<1>1. /\ front = -1 /\ rear = -1 /\ current_size = 0 /\ sent = 0 /\ taken = << >>
      /\ cpc = "idle" /\ spc = "idle"
  BY DEF Init
<1>2. Len(taken) = 0 /\ Waiting = 0
  <2>1. Len(<< >>) = 0
    OBVIOUS
  <2>2. Len(taken) = 0
    BY <1>1, <2>1
  <2>3. sent = 0
    BY <1>1
  <2>4. sent - Len(taken) = 0
    BY <2>2, <2>3
  <2> QED BY <2>2, <2>4 DEF Waiting
<1>3. Whole(Waiting, Len(taken))
  BY <1>1, <1>2 DEF Whole, Empty
<1>4. \A i \in 1 .. Len(taken) : taken[i] = i
  BY <1>2
<1>5. Putting /\ Taking
  BY <1>1 DEF Putting, Taking, ToPut
<1> QED BY <1>1, <1>2, <1>3, <1>4, <1>5 DEF Ordered

\* At rest, and inside one of the two.
LEMMA AtRest ==
  ASSUME Placed, Ordered, ~raced, ~Enqueuing, ~Dequeuing
  PROVE  /\ \A i \in 1 .. Len(taken) : taken[i] = i
         /\ current_size = Waiting /\ Whole(Waiting, Len(taken)) /\ Putting /\ Taking
BY DEF Ordered

LEMMA InsidePut ==
  ASSUME Owned, Ordered, ~raced, Enqueuing
  PROVE  /\ \A i \in 1 .. Len(taken) : taken[i] = i
         /\ ~Dequeuing /\ Putting
BY DEF Owned, Ordered

LEMMA InsideTake ==
  ASSUME Owned, Ordered, ~raced, Dequeuing
  PROVE  /\ \A i \in 1 .. Len(taken) : taken[i] = i
         /\ ~Enqueuing /\ Taking
BY DEF Owned, Ordered

\* What has to be shown of a step, by where it leaves the two sides.
LEMMA ToRest ==
  ASSUME Placed', ~Enqueuing', ~Dequeuing', (\A i \in 1 .. Len(taken) : taken[i] = i)',
         current_size' = Waiting', Whole(Waiting, Len(taken))'
  PROVE  Ordered'
<1>1. cpc' \in {"idle", "lock"} /\ spc' \in {"idle", "poll", "lock"}
  BY DEF Placed, Enqueuing, Dequeuing
<1>2. Putting'
  BY <1>1 DEF Putting
<1>3. Taking'
  BY <1>1 DEF Taking
<1> QED BY <1>2, <1>3 DEF Ordered

LEMMA ToPutting ==
  ASSUME Enqueuing', (\A i \in 1 .. Len(taken) : taken[i] = i)', Putting'
  PROVE  Ordered'
BY DEF Ordered

LEMMA ToTaking ==
  ASSUME Dequeuing', (\A i \in 1 .. Len(taken) : taken[i] = i)', Taking'
  PROVE  Ordered'
BY DEF Ordered
-----------------------------------------------------------------------------
(* The enqueue *)

LEMMA OrderedPoll ==
  ASSUME IInv, Placed', ~raced, SendPoll
  PROVE  Ordered'
<1>1. UNCHANGED <<front, rear, current_size, m_arr, sent, taken, raced, spc, sfront, ssize>>
  BY DEF SendPoll, ring, server
<1>2. ~Enqueuing /\ ~Enqueuing' /\ cpc' = "lock"
  BY DEF SendPoll, Enqueuing
<1>3. CASE Dequeuing
  <2>1. Dequeuing'
    BY <1>1, <1>3 DEF Dequeuing
  <2>2. Taking /\ \A i \in 1 .. Len(taken) : taken[i] = i
    BY <1>3, InsideTake DEF IInv
  <2>3. Taking'
    BY <1>1, <2>2, SameRing DEF Taking
  <2> QED BY <1>1, <2>1, <2>2, <2>3, ToTaking
<1>4. CASE ~Dequeuing
  <2>1. ~Dequeuing'
    BY <1>1, <1>4 DEF Dequeuing
  <2>2. /\ \A i \in 1 .. Len(taken) : taken[i] = i
        /\ current_size = Waiting /\ Whole(Waiting, Len(taken))
    BY <1>2, <1>4, AtRest DEF IInv
  <2> QED BY <1>1, <1>2, <2>1, <2>2, SameRing, ToRest
<1> QED BY <1>3, <1>4

LEMMA OrderedLock ==
  ASSUME IInv, ~raced', SendLock
  PROVE  Ordered'
<1>1. UNCHANGED <<front, rear, current_size, m_arr, sent, taken>>
  BY DEF SendLock, ring
<1>2. ~Enqueuing /\ Enqueuing' /\ cpc = "lock" /\ cpc' = "check"
  BY DEF SendLock, Enqueuing
<1>3. ~raced /\ ~Dequeuing
  BY DEF IInv, Owned, SendLock, Free
<1>4. /\ \A i \in 1 .. Len(taken) : taken[i] = i
      /\ current_size = Waiting /\ Whole(Waiting, Len(taken))
  BY <1>2, <1>3, AtRest DEF IInv
<1>5. Putting'
  BY <1>1, <1>2, <1>4, SameRing DEF Putting
<1> QED BY <1>1, <1>2, <1>4, <1>5, ToPutting

LEMMA OrderedCheck ==
  ASSUME IInv, Placed', ~raced, EnqueueCheck
  PROVE  Ordered'
<1>1. UNCHANGED <<front, rear, current_size, m_arr, sent, taken, spc>>
  BY DEF EnqueueCheck, ring, server
<1>2. cpc = "check" /\ Enqueuing
  BY DEF EnqueueCheck, Enqueuing
<1>3. /\ \A i \in 1 .. Len(taken) : taken[i] = i
      /\ ~Dequeuing /\ Putting
  BY <1>2, InsidePut DEF IInv
<1>4. current_size = Waiting /\ Whole(Waiting, Len(taken))
  BY <1>2, <1>3 DEF Putting, ToPut
<1>5. CASE cpc' = "idle"
  <2>1. ~Enqueuing' /\ ~Dequeuing'
    BY <1>1, <1>3, <1>5 DEF Enqueuing, Dequeuing
  <2> QED BY <1>1, <1>3, <1>4, <2>1, SameRing, ToRest
<1>6. CASE cpc' = "setRear" /\ front = -1
  <2>1. Waiting = 0 /\ Empty /\ Enqueuing'
    BY <1>4, <1>6, FrontTells DEF Enqueuing
  <2>2. Putting'
    BY <1>1, <1>4, <1>6, <2>1, SameRing DEF Putting
  <2> QED BY <1>1, <1>3, <2>1, <2>2, ToPutting
<1>7. CASE cpc' = "advance" /\ front # -1 /\ current_size # Capacity
  <2>1. Spans(Waiting, Len(taken)) /\ Enqueuing'
    BY <1>4, <1>7, FrontTells DEF Enqueuing
  <2>2. Waiting < Capacity
    BY <1>4, <1>7, <2>1, DatagramAssumption DEF Spans
  <2>3. Putting'
    BY <1>1, <1>4, <1>7, <2>1, <2>2, SameRing DEF Putting
  <2> QED BY <1>1, <1>3, <2>1, <2>3, ToPutting
<1> QED BY <1>5, <1>6, <1>7 DEF EnqueueCheck

LEMMA OrderedSet ==
  ASSUME IInv, ~raced, EnqueueSetRear \/ EnqueueSetFront
  PROVE  Ordered'
<1>1. UNCHANGED <<current_size, m_arr, sent, taken, spc>>
  BY DEF EnqueueSetRear, EnqueueSetFront, server
<1>2. cpc \in {"setRear", "setFront"} /\ Enqueuing /\ Enqueuing'
  BY DEF EnqueueSetRear, EnqueueSetFront, Enqueuing
<1>3. /\ \A i \in 1 .. Len(taken) : taken[i] = i
      /\ ~Dequeuing /\ Putting
  BY <1>2, InsidePut DEF IInv
<1>4. current_size = Waiting /\ Waiting = 0 /\ front = -1 /\ Waiting' = Waiting
  BY <1>1, <1>2, <1>3 DEF Putting, ToPut, Empty, Waiting
<1>5. CASE EnqueueSetRear
  <2>1. cpc' = "setFront" /\ rear' = 0 /\ front' = -1
    BY <1>4, <1>5 DEF EnqueueSetRear
  <2>2. Putting'
    BY <1>1, <1>4, <2>1 DEF Putting
  <2> QED BY <1>1, <1>2, <1>3, <2>2, ToPutting
<1>6. CASE EnqueueSetFront
  <2>1. cpc' = "copy" /\ front' = 0 /\ rear' = 0
    BY <1>3, <1>6 DEF EnqueueSetFront, Putting
  <2>2. 0 \in Slots /\ 0 \in 0 .. Capacity - 1
    BY DatagramAssumption DEF Slots
  <2>3. (0 + 0) % Capacity = 0
    BY <2>2, NoneOn
  <2>4. Runs(0, Len(taken))'
    BY DEF Runs
  <2>5. front' \in Slots /\ Waiting' = 0 /\ rear' = (front' + Waiting') % Capacity
    BY <1>4, <2>1, <2>2, <2>3
  <2>6. Runs(Waiting, Len(taken))'
    BY <2>4, <2>5
  <2>7. Putting'
    BY <1>1, <1>4, <2>1, <2>2, <2>5, <2>6 DEF Putting
  <2> QED BY <1>1, <1>2, <1>3, <2>7, ToPutting
<1> QED BY <1>5, <1>6

LEMMA OrderedAdvance ==
  ASSUME IInv, ~raced, EnqueueAdvance
  PROVE  Ordered'
<1>1. UNCHANGED <<front, current_size, m_arr, sent, taken, spc>>
  BY DEF EnqueueAdvance, server
<1>2. /\ cpc = "advance" /\ cpc' = "copy" /\ Enqueuing /\ Enqueuing'
      /\ rear' = (rear + 1) % Capacity
  BY DEF EnqueueAdvance, Enqueuing, NextRear
<1>3. /\ \A i \in 1 .. Len(taken) : taken[i] = i
      /\ ~Dequeuing /\ Putting
  BY <1>2, InsidePut DEF IInv
<1>4. current_size = Waiting /\ Spans(Waiting, Len(taken)) /\ Waiting < Capacity
  BY <1>2, <1>3 DEF Putting, ToPut
<1>5. /\ front \in Slots /\ Waiting \in 1 .. Capacity /\ Runs(Waiting, Len(taken))
      /\ rear = (front + (Waiting - 1)) % Capacity
  BY <1>4 DEF Spans
<1>6. /\ Waiting \in 0 .. Capacity - 1 /\ Waiting - 1 \in 0 .. Capacity - 1
      /\ (Waiting - 1) + 1 = Waiting
  BY <1>4, <1>5, DatagramAssumption
<1>7. rear' = (front + Waiting) % Capacity
  <2> DEFINE k == Waiting - 1
  <2>1. k \in 0 .. Capacity - 1 /\ k + 1 = Waiting
    BY <1>6
  <2> HIDE DEF k
  <2>2. (((front + k) % Capacity) + 1) % Capacity = (front + (k + 1)) % Capacity
    BY <1>5, <2>1, OneOn
  <2> QED BY <1>2, <1>5, <2>1, <2>2 DEF k
<1>8. Waiting' = Waiting /\ Runs(Waiting, Len(taken))'
  BY <1>1, <1>5 DEF Runs, Waiting
<1>9. Putting'
  BY <1>1, <1>2, <1>4, <1>5, <1>6, <1>7, <1>8 DEF Putting
<1> QED BY <1>1, <1>2, <1>3, <1>9, ToPutting

\* What the copy finds: there is a slot behind the messages.
LEMMA CopyFinds ==
  ASSUME IInv, ~raced, cpc = "copy"
  PROVE  /\ \A i \in 1 .. Len(taken) : taken[i] = i
         /\ ~Dequeuing /\ current_size = Waiting /\ front \in Slots
         /\ Waiting \in 0 .. Capacity - 1 /\ rear = (front + Waiting) % Capacity
         /\ Runs(Waiting, Len(taken)) /\ rear \in Slots
<1>1. Enqueuing
  BY DEF Enqueuing
<1>2. /\ \A i \in 1 .. Len(taken) : taken[i] = i
      /\ ~Dequeuing /\ Putting
  BY <1>1, InsidePut DEF IInv
<1>3. /\ current_size = Waiting /\ front \in Slots
      /\ Waiting \in 0 .. Capacity - 1 /\ rear = (front + Waiting) % Capacity
      /\ Runs(Waiting, Len(taken))
  BY <1>2 DEF Putting, ToPut
<1>4. Waiting \in 0 .. Capacity
  BY <1>3, DatagramAssumption
<1>5. rear \in Slots
  BY <1>3, <1>4, Around
<1> QED BY <1>2, <1>3, <1>5

\* It stays inside the ring.
LEMMA NoStray ==
  ASSUME IInv, ~raced
  PROVE  ~EnqueueStray
<1>1. -1 \notin Slots
  BY DatagramAssumption DEF Slots
<1> QED BY <1>1, CopyFinds DEF EnqueueStray

LEMMA OrderedCopy ==
  ASSUME IInv, ~raced, EnqueueCopy
  PROVE  Ordered'
<1>1. UNCHANGED <<front, rear, current_size, taken, spc>>
  BY DEF EnqueueCopy, server
<1>2. /\ cpc = "copy" /\ cpc' = "load" /\ Enqueuing' /\ sent' = sent + 1
      /\ m_arr' = [i \in Slots |-> IF i = rear THEN sent + 1 ELSE m_arr[i]]
  BY DEF EnqueueCopy, Enqueuing
<1>3. /\ \A i \in 1 .. Len(taken) : taken[i] = i
      /\ ~Dequeuing /\ current_size = Waiting /\ front \in Slots
      /\ Waiting \in 0 .. Capacity - 1 /\ rear = (front + Waiting) % Capacity
      /\ Runs(Waiting, Len(taken)) /\ rear \in Slots
  BY <1>2, CopyFinds
<1>4. /\ Capacity \in Nat /\ sent \in Nat /\ Len(taken) \in Nat
      /\ Waiting = sent - Len(taken)
  BY RingNumbers DEF IInv
<1>5. /\ Waiting' = Waiting + 1 /\ Waiting' \in 1 .. Capacity /\ Waiting' - 1 = Waiting
      /\ sent + 1 = Len(taken) + Waiting + 1
  BY <1>1, <1>2, <1>3, <1>4 DEF Waiting
<1>6. ASSUME NEW k \in 0 .. Waiting
      PROVE  m_arr'[(front + k) % Capacity] = Len(taken) + k + 1
  <2>1. k \in 0 .. Capacity - 1 /\ k \in 0 .. Capacity
    BY <1>3, <1>4
  <2>2. (front + k) % Capacity \in Slots
    BY <1>3, <2>1, Around
  <2>3. CASE k = Waiting
    BY <1>2, <1>3, <1>5, <2>2, <2>3
  <2>4. CASE k # Waiting
    <3>1. k \in 0 .. Waiting - 1
      BY <1>3, <1>4, <2>4
    <3>2. (front + k) % Capacity # rear
      BY <1>3, <2>1, <2>4, Apart
    <3>3. m_arr'[(front + k) % Capacity] = m_arr[(front + k) % Capacity]
      BY <1>2, <2>2, <3>2
    <3>4. m_arr[(front + k) % Capacity] = Len(taken) + k + 1
      BY <1>3, <3>1 DEF Runs
    <3> QED BY <3>3, <3>4
  <2> QED BY <2>3, <2>4
<1>7. Runs(Waiting, Len(taken))'
  <2>1. Waiting' - 1 = Waiting /\ front' = front /\ Len(taken') = Len(taken)
    BY <1>1, <1>5
  <2> QED BY <1>6, <2>1 DEF Runs
<1>8. Spans(Waiting, Len(taken))'
  BY <1>1, <1>3, <1>5, <1>7 DEF Spans
<1>9. Putting'
  BY <1>1, <1>2, <1>3, <1>5, <1>8 DEF Putting, ToPut
<1> QED BY <1>1, <1>2, <1>3, <1>9, ToPutting

LEMMA OrderedSize ==
  ASSUME IInv, Placed', ~raced, EnqueueLoad \/ EnqueueStore
  PROVE  Ordered'
<1>1. UNCHANGED <<front, rear, m_arr, sent, taken, spc>>
  BY DEF EnqueueLoad, EnqueueStore, ring, server
<1>2. cpc \in {"load", "store"} /\ Enqueuing
  BY DEF EnqueueLoad, EnqueueStore, Enqueuing
<1>3. /\ \A i \in 1 .. Len(taken) : taken[i] = i
      /\ ~Dequeuing /\ Putting
  BY <1>2, InsidePut DEF IInv
<1>4. current_size = Waiting - 1 /\ Spans(Waiting, Len(taken))
  BY <1>2, <1>3 DEF Putting
<1>5. CASE EnqueueLoad
  <2>1. cpc' = "store" /\ Enqueuing' /\ csize' = current_size' /\ UNCHANGED current_size
    BY <1>5 DEF EnqueueLoad, Enqueuing, ring
  <2>2. Putting'
    BY <1>1, <1>4, <2>1, SameRing DEF Putting, ToPut
  <2> QED BY <1>1, <1>3, <2>1, <2>2, ToPutting
<1>6. CASE EnqueueStore
  <2>1. cpc = "store" /\ cpc' = "idle" /\ current_size' = csize + 1
    BY <1>6 DEF EnqueueStore
  <2>2. ~Enqueuing' /\ ~Dequeuing'
    BY <1>1, <1>3, <2>1 DEF Enqueuing, Dequeuing
  <2>3. csize = current_size
    BY <1>3, <2>1 DEF Putting
  <2>4. current_size' = Waiting' /\ Whole(Waiting, Len(taken))
    BY <1>1, <1>4, <2>1, <2>3, RingNumbers, SameRing DEF Whole, IInv
  <2> QED BY <1>1, <1>3, <2>2, <2>4, SameRing, ToRest
<1> QED BY <1>5, <1>6
-----------------------------------------------------------------------------
(* The dequeue *)

LEMMA OrderedReceive ==
  ASSUME IInv, Placed', ~raced, ReceiveStart \/ ReceivePoll \/ Answer
  PROVE  Ordered'
<1>1. UNCHANGED <<front, rear, current_size, m_arr, sent, taken, cpc, csize>>
  BY DEF ReceiveStart, ReceivePoll, Answer, ring, client
<1>2. ~Dequeuing /\ ~Dequeuing'
  BY DEF ReceiveStart, ReceivePoll, Answer, Dequeuing
<1>3. CASE Enqueuing
  <2>1. Enqueuing'
    BY <1>1, <1>3 DEF Enqueuing
  <2>2. Putting /\ \A i \in 1 .. Len(taken) : taken[i] = i
    BY <1>3, InsidePut DEF IInv
  <2>3. Putting'
    BY <1>1, <2>2, SameRing DEF Putting
  <2> QED BY <1>1, <2>1, <2>2, <2>3, ToPutting
<1>4. CASE ~Enqueuing
  <2>1. ~Enqueuing'
    BY <1>1, <1>4 DEF Enqueuing
  <2>2. /\ \A i \in 1 .. Len(taken) : taken[i] = i
        /\ current_size = Waiting /\ Whole(Waiting, Len(taken))
    BY <1>2, <1>4, AtRest DEF IInv
  <2> QED BY <1>1, <1>2, <2>1, <2>2, SameRing, ToRest
<1> QED BY <1>3, <1>4

LEMMA OrderedBegin ==
  ASSUME IInv, Placed', ~raced', ReceiveLock \/ Drain
  PROVE  Ordered'
<1>1. UNCHANGED <<front, rear, current_size, m_arr, sent, taken, cpc, csize>>
  BY DEF ReceiveLock, Drain, ring, client
<1>2. ~Dequeuing /\ (spc' = "test" \/ (Drain /\ UNCHANGED <<spc, raced>>))
  <2>1. ~Dequeuing
    BY DEF ReceiveLock, Drain, Dequeuing
  <2>2. CASE ReceiveLock
    BY <2>1, <2>2 DEF ReceiveLock
  <2>3. CASE Drain
    BY <2>1, <2>3, Zenon DEF Drain
  <2> QED BY <2>2, <2>3
<1>3. CASE spc' = "test"
  <2>1. ~raced /\ ~Enqueuing
    <3>1. CASE ReceiveLock
      BY <3>1 DEF ReceiveLock, IInv, Owned, Free, Enqueuing
    <3>2. CASE Drain
      <4>1. spc = "idle"
        BY <3>2 DEF Drain
      <4> QED BY <1>3, <3>2, <4>1 DEF Drain
    <3> QED BY <3>1, <3>2
  <2>2. /\ \A i \in 1 .. Len(taken) : taken[i] = i
        /\ current_size = Waiting /\ Whole(Waiting, Len(taken))
    BY <1>2, <2>1, AtRest DEF IInv
  <2>3. Taking'
    BY <1>1, <1>3, <2>2, SameRing DEF Taking
  <2>4. Dequeuing'
    BY <1>3 DEF Dequeuing
  <2> QED BY <1>1, <2>2, <2>3, <2>4, ToTaking
<1>4. CASE Drain /\ UNCHANGED <<spc, raced>>
  <2>1. ~raced /\ ~Dequeuing'
    BY <1>2, <1>4 DEF Dequeuing
  <2>2. CASE Enqueuing
    <3>1. Enqueuing'
      BY <1>1, <2>2 DEF Enqueuing
    <3>2. Putting /\ \A i \in 1 .. Len(taken) : taken[i] = i
      BY <2>1, <2>2, InsidePut DEF IInv
    <3>3. Putting'
      BY <1>1, <3>2, SameRing DEF Putting
    <3> QED BY <1>1, <3>1, <3>2, <3>3, ToPutting
  <2>3. CASE ~Enqueuing
    <3>1. ~Enqueuing'
      BY <1>1, <2>3 DEF Enqueuing
    <3>2. /\ \A i \in 1 .. Len(taken) : taken[i] = i
          /\ current_size = Waiting /\ Whole(Waiting, Len(taken))
      BY <1>2, <2>1, <2>3, AtRest DEF IInv
    <3> QED BY <1>1, <2>1, <3>1, <3>2, SameRing, ToRest
  <2> QED BY <2>2, <2>3
<1> QED BY <1>2, <1>3, <1>4

LEMMA OrderedTest ==
  ASSUME IInv, Placed', ~raced, DequeueTest
  PROVE  Ordered'
<1>1. UNCHANGED <<front, rear, current_size, m_arr, sent, taken, cpc>>
  BY DEF DequeueTest, ring, client
<1>2. spc = "test" /\ Dequeuing
  BY DEF DequeueTest, Dequeuing
<1>3. /\ \A i \in 1 .. Len(taken) : taken[i] = i
      /\ ~Enqueuing /\ Taking
  BY <1>2, InsideTake DEF IInv
<1>4. current_size = Waiting /\ Whole(Waiting, Len(taken))
  BY <1>2, <1>3 DEF Taking
<1>5. CASE spc' = "idle"
  <2>1. ~Enqueuing' /\ ~Dequeuing'
    BY <1>1, <1>3, <1>5 DEF Enqueuing, Dequeuing
  <2> QED BY <1>1, <1>3, <1>4, <2>1, SameRing, ToRest
<1>6. CASE front # -1 /\ spc' = "take" /\ sfront' = front
  <2>1. Waiting # 0 /\ Dequeuing'
    BY <1>4, <1>6, FrontTells DEF Dequeuing
  <2>2. Taking'
    BY <1>1, <1>4, <1>6, <2>1, SameRing DEF Taking
  <2> QED BY <1>1, <1>3, <2>1, <2>2, ToTaking
<1> QED BY <1>5, <1>6 DEF DequeueTest, Finish

\* The front slot holds the message that has waited longest.
LEMMA TakeFinds ==
  ASSUME IInv, ~raced, spc = "take"
  PROVE  /\ \A i \in 1 .. Len(taken) : taken[i] = i
         /\ ~Enqueuing /\ current_size = Waiting /\ Spans(Waiting, Len(taken))
         /\ sfront = front /\ m_arr[sfront] = Len(taken) + 1
<1>1. Dequeuing
  BY DEF Dequeuing
<1>2. /\ \A i \in 1 .. Len(taken) : taken[i] = i
      /\ ~Enqueuing /\ Taking
  BY <1>1, InsideTake DEF IInv
<1>3. current_size = Waiting /\ Whole(Waiting, Len(taken)) /\ sfront = front /\ Waiting # 0
  BY <1>2 DEF Taking
<1>4. Spans(Waiting, Len(taken))
  BY <1>3 DEF Whole
<1>5. m_arr[(front + 0) % Capacity] = Len(taken) + 0 + 1
  BY <1>4, DatagramAssumption DEF Spans, Runs
<1>6. (front + 0) % Capacity = front
  BY <1>4, NoneOn DEF Spans
<1>7. Len(taken) + 0 + 1 = Len(taken) + 1
  BY RingNumbers DEF IInv
<1> QED BY <1>2, <1>3, <1>4, <1>5, <1>6, <1>7

LEMMA OrderedTake ==
  ASSUME IInv, ~raced, DequeueTake
  PROVE  Ordered' /\ taken' = Append(taken, Len(taken) + 1)
<1>1. UNCHANGED <<front, rear, current_size, sent, sfront, cpc>>
  BY DEF DequeueTake, client
<1>2. /\ spc = "take" /\ spc' = "compare" /\ Dequeuing'
      /\ m_arr' = [m_arr EXCEPT ![sfront] = 0]
      /\ taken' = Append(taken, m_arr[sfront])
  BY DEF DequeueTake, Dequeuing
<1>3. /\ \A i \in 1 .. Len(taken) : taken[i] = i
      /\ ~Enqueuing /\ current_size = Waiting /\ Spans(Waiting, Len(taken))
      /\ sfront = front /\ m_arr[sfront] = Len(taken) + 1
  BY <1>2, TakeFinds
<1>4. /\ Capacity \in Nat /\ sent \in Nat /\ Len(taken) \in Nat
      /\ Waiting = sent - Len(taken) /\ taken \in Seq(Nat)
  BY RingNumbers DEF IInv
<1>5. /\ front \in Slots /\ Waiting \in 1 .. Capacity /\ Runs(Waiting, Len(taken))
      /\ rear = (front + (Waiting - 1)) % Capacity
  BY <1>3 DEF Spans
<1>6. taken' = Append(taken, Len(taken) + 1)
  BY <1>2, <1>3
<1>7. Len(taken') = Len(taken) + 1 /\ \A i \in 1 .. Len(taken') : taken'[i] = i
  BY <1>3, <1>4, <1>6
<1>8. /\ Waiting' = Waiting - 1 /\ Waiting' \in 0 .. Capacity - 1
      /\ current_size' = Waiting' + 1
  BY <1>1, <1>3, <1>4, <1>5, <1>7 DEF Waiting
<1>9. ASSUME NEW k \in 1 .. Waiting'
      PROVE  m_arr'[(front + k) % Capacity] = Len(taken') + k
  <2>1. k \in 0 .. Capacity - 1 /\ k \in 0 .. Capacity /\ k # 0 /\ k \in 0 .. Waiting - 1
        /\ 0 \in 0 .. Capacity - 1
    BY <1>4, <1>5, <1>8
  <2>2. (front + k) % Capacity \in Slots
    BY <1>5, <2>1, Around
  <2>3. (front + k) % Capacity # (front + 0) % Capacity
    BY <1>5, <2>1, Apart
  <2>4. (front + k) % Capacity # sfront
    BY <1>3, <1>5, <2>3, NoneOn
  <2>5. m_arr'[(front + k) % Capacity] = m_arr[(front + k) % Capacity]
    BY <1>2, <2>2, <2>4 DEF IInv, TypeOK
  <2>6. m_arr[(front + k) % Capacity] = Len(taken) + k + 1
    BY <1>5, <2>1 DEF Runs
  <2>7. Len(taken) + k + 1 = Len(taken') + k
    BY <1>4, <1>7, <2>1
  <2> QED BY <2>5, <2>6, <2>7
<1>10. Taking'
  BY <1>1, <1>2, <1>3, <1>5, <1>8, <1>9 DEF Taking
<1> QED BY <1>2, <1>6, <1>7, <1>10, ToTaking

\* Between the take and the new front.
LEMMA OrderedFront ==
  ASSUME IInv, ~raced, DequeueCompare \/ DequeueResetFront \/ DequeueResetRear
  PROVE  Ordered'
<1>1. UNCHANGED <<current_size, m_arr, sent, taken, sfront, cpc>>
  BY DEF DequeueCompare, DequeueResetFront, DequeueResetRear, client, ring
<1>2. Dequeuing /\ Dequeuing'
  BY DEF DequeueCompare, DequeueResetFront, DequeueResetRear, Dequeuing
<1>3. /\ \A i \in 1 .. Len(taken) : taken[i] = i
      /\ ~Enqueuing /\ Taking
  BY <1>2, InsideTake DEF IInv
<1>4. Waiting' = Waiting
  BY <1>1 DEF Waiting
<1>5. CASE DequeueCompare
  <2>1. /\ spc = "compare" /\ UNCHANGED <<front, rear>>
        /\ spc' = IF front = rear THEN "resetFront" ELSE "advance"
    BY <1>5 DEF DequeueCompare, Emptied, ring
  <2>2. /\ current_size = Waiting + 1 /\ sfront = front /\ front \in Slots
        /\ Waiting \in 0 .. Capacity - 1
        /\ rear = (front + Waiting) % Capacity
        /\ \A k \in 1 .. Waiting : m_arr[(front + k) % Capacity] = Len(taken) + k
    BY <1>3, <2>1 DEF Taking
  <2>3. front = rear <=> Waiting = 0
    <3>1. 0 \in 0 .. Capacity - 1 /\ (front + 0) % Capacity = front
      BY <2>2, NoneOn, DatagramAssumption
    <3>2. Waiting # 0 => (front + Waiting) % Capacity # (front + 0) % Capacity
      BY <2>2, <3>1, Apart
    <3> QED BY <2>2, <3>1, <3>2
  <2>4. Taking'
    BY <1>1, <1>4, <2>1, <2>2, <2>3 DEF Taking
  <2> QED BY <1>1, <1>2, <1>3, <2>4, ToTaking
<1>6. CASE DequeueResetFront
  <2>1. spc = "resetFront" /\ spc' = "resetRear" /\ front' = -1
    BY <1>6 DEF DequeueResetFront
  <2>2. current_size = Waiting + 1 /\ Waiting = 0
    BY <1>3, <2>1 DEF Taking
  <2>3. Taking'
    BY <1>1, <1>4, <2>1, <2>2 DEF Taking
  <2> QED BY <1>1, <1>2, <1>3, <2>3, ToTaking
<1>7. CASE DequeueResetRear
  <2>1. spc = "resetRear" /\ spc' = "load" /\ rear' = -1 /\ front' = front
    BY <1>7 DEF DequeueResetRear
  <2>2. current_size = 1 /\ Waiting = 0 /\ front = -1
    BY <1>3, <2>1 DEF Taking
  <2>3. Whole(Waiting, Len(taken))'
    BY <1>4, <2>1, <2>2 DEF Whole, Empty
  <2>4. current_size' = Waiting' + 1
    BY <1>1, <1>4, <2>2
  <2>5. Taking'
    BY <2>1, <2>3, <2>4 DEF Taking
  <2> QED BY <1>1, <1>2, <1>3, <2>5, ToTaking
<1> QED BY <1>5, <1>6, <1>7

LEMMA OrderedNewFront ==
  ASSUME IInv, ~raced, DequeueAdvance
  PROVE  Ordered'
<1>1. UNCHANGED <<rear, current_size, m_arr, sent, taken, cpc>>
  BY DEF DequeueAdvance, client
<1>2. /\ spc = "advance" /\ spc' = "load" /\ Dequeuing /\ Dequeuing'
      /\ front' = (sfront + 1) % Capacity
  BY DEF DequeueAdvance, Dequeuing
<1>3. /\ \A i \in 1 .. Len(taken) : taken[i] = i
      /\ ~Enqueuing /\ Taking
  BY <1>2, InsideTake DEF IInv
<1>4. /\ current_size = Waiting + 1 /\ sfront = front /\ front \in Slots
      /\ Waiting \in 0 .. Capacity - 1 /\ Waiting # 0
      /\ rear = (front + Waiting) % Capacity
      /\ \A k \in 1 .. Waiting : m_arr[(front + k) % Capacity] = Len(taken) + k
  BY <1>2, <1>3 DEF Taking
<1>5. /\ Capacity \in Nat /\ Capacity > 0 /\ Len(taken) \in Nat
  BY RingNumbers DEF IInv
<1>6. ASSUME NEW k \in 0 .. Capacity - 1
      PROVE  (front' + k) % Capacity = (front + (k + 1)) % Capacity /\ front' \in Slots
  BY <1>2, <1>4, OneOn
<1>7. 0 \in 0 .. Capacity - 1 /\ Waiting - 1 \in 0 .. Capacity - 1
      /\ (Waiting - 1) + 1 = Waiting /\ Waiting \in 1 .. Capacity
  BY <1>4, <1>5
<1>8. front' \in Slots /\ rear = (front' + (Waiting - 1)) % Capacity
  <2>1. (front' + (Waiting - 1)) % Capacity = (front + ((Waiting - 1) + 1)) % Capacity
    BY <1>6, <1>7
  <2> QED BY <1>4, <1>6, <1>7, <2>1
<1>9. ASSUME NEW k \in 0 .. Waiting - 1
      PROVE  m_arr[(front' + k) % Capacity] = Len(taken) + k + 1
  <2>1. k \in 0 .. Capacity - 1 /\ k + 1 \in 1 .. Waiting
    BY <1>4, <1>5
  <2>2. m_arr[(front + (k + 1)) % Capacity] = Len(taken) + (k + 1)
    BY <1>4, <2>1
  <2>3. Len(taken) + (k + 1) = Len(taken) + k + 1
    BY <1>5, <2>1
  <2> QED BY <1>6, <2>1, <2>2, <2>3
<1>10. Waiting' = Waiting
  BY <1>1 DEF Waiting
<1>11. Spans(Waiting, Len(taken))'
  BY <1>1, <1>7, <1>8, <1>9, <1>10 DEF Spans, Runs
<1>12. Taking'
  BY <1>1, <1>2, <1>4, <1>10, <1>11 DEF Taking, Whole
<1> QED BY <1>1, <1>2, <1>3, <1>12, ToTaking

LEMMA OrderedUnsize ==
  ASSUME IInv, Placed', ~raced, DequeueLoad \/ DequeueStore
  PROVE  Ordered'
<1>1. UNCHANGED <<front, rear, m_arr, sent, taken, cpc>>
  BY DEF DequeueLoad, DequeueStore, ring, client
<1>2. spc \in {"load", "store"} /\ Dequeuing
  BY DEF DequeueLoad, DequeueStore, Dequeuing
<1>3. /\ \A i \in 1 .. Len(taken) : taken[i] = i
      /\ ~Enqueuing /\ Taking
  BY <1>2, InsideTake DEF IInv
<1>4. current_size = Waiting + 1 /\ Whole(Waiting, Len(taken))
  BY <1>2, <1>3 DEF Taking
<1>5. CASE DequeueLoad
  <2>1. spc' = "store" /\ Dequeuing' /\ ssize' = current_size' /\ UNCHANGED current_size
    BY <1>5 DEF DequeueLoad, Dequeuing, ring
  <2>2. Taking'
    BY <1>1, <1>4, <2>1, SameRing DEF Taking
  <2> QED BY <1>1, <1>3, <2>1, <2>2, ToTaking
<1>6. CASE DequeueStore
  <2>1. spc = "store" /\ spc' = "idle" /\ current_size' = ssize - 1
    BY <1>6 DEF DequeueStore, Finish
  <2>2. ~Enqueuing' /\ ~Dequeuing'
    BY <1>1, <1>3, <2>1 DEF Enqueuing, Dequeuing
  <2>3. ssize = current_size
    BY <1>3, <2>1 DEF Taking
  <2>4. current_size' = Waiting'
    BY <1>1, <1>4, <2>1, <2>3, RingNumbers, SameRing DEF IInv
  <2> QED BY <1>1, <1>3, <1>4, <2>2, <2>4, SameRing, ToRest
<1> QED BY <1>5, <1>6
-----------------------------------------------------------------------------
(* The invariant *)

LEMMA OrderedStutter ==
  ASSUME IInv, UNCHANGED vars
  PROVE  Ordered'
<1>1. UNCHANGED <<front, rear, current_size, m_arr, sent, taken, cpc, csize, spc,
                  sfront, ssize>>
  BY DEF vars, ring, client, server
<1>2. UNCHANGED raced
  BY DEF vars
<1>3. /\ Enqueuing' <=> Enqueuing
      /\ Dequeuing' <=> Dequeuing
      /\ Putting => Putting'
      /\ Taking => Taking'
  BY <1>1, SameRing DEF Enqueuing, Dequeuing, Putting, Taking
<1> QED BY <1>1, <1>2, <1>3, SameRing DEF IInv, Ordered

LEMMA OrderedNext ==
  ASSUME IInv, Placed', [Next]_vars
  PROVE  Ordered'
<1>1. CASE raced'
  BY <1>1 DEF Ordered
<1>2. CASE ~raced' /\ (SendLock \/ ReceiveLock \/ Drain)
  BY <1>2, OrderedLock, OrderedBegin
<1>3. CASE ~raced' /\ ~(SendLock \/ ReceiveLock \/ Drain)
  <2>1. CASE UNCHANGED vars
    BY <2>1, OrderedStutter
  <2>2. CASE ~UNCHANGED vars
    <3>1. ~raced
      BY <1>3, <2>2
      DEF Next, SendPoll, EnqueueCheck, EnqueueSetRear, EnqueueSetFront,
          EnqueueAdvance, EnqueueCopy, EnqueueStray, EnqueueLoad, EnqueueStore,
          ReceiveStart, ReceivePoll, Answer, DequeueTest, DequeueTake,
          DequeueCompare, DequeueResetFront, DequeueResetRear, DequeueAdvance,
          DequeueLoad, DequeueStore
    <3> QED
      BY <1>3, <2>2, <3>1, OrderedPoll, OrderedCheck, OrderedSet, OrderedAdvance,
         OrderedCopy, NoStray, OrderedSize, OrderedReceive, OrderedTest, OrderedTake,
         OrderedFront, OrderedNewFront, OrderedUnsize
      DEF Next
  <2> QED BY <2>1, <2>2
<1> QED BY <1>1, <1>2, <1>3

LEMMA OwnedNext ==
  ASSUME IInv, [Next]_vars
  PROVE  Owned'
<1>1. CASE UNCHANGED vars
  BY <1>1 DEF vars, client, server, IInv, Owned, Enqueuing, Dequeuing
<1> QED BY <1>1, NoStray, OwnedClient, OwnedServer DEF Next, IInv

LEMMA Inductive == IInv /\ [Next]_vars => IInv'
<1> SUFFICES ASSUME IInv, [Next]_vars PROVE IInv'
  OBVIOUS
<1>1. TypeOK' /\ Placed'
  BY PlacedNext DEF IInv
<1> QED BY <1>1, OwnedNext, OrderedNext DEF IInv

LEMMA Invariance == Spec => []IInv
<1>1. Init => IInv
  BY PlacedInit, OrderedInit DEF IInv
<1> QED BY <1>1, Inductive, PTL DEF Spec

\* Whatever races, no field of the ring leaves its type; a copy that would go
\* to the slot before the first is the step the model stops at.
THEOREM TypesKept == Spec => []TypeOK
<1>1. IInv => TypeOK
  BY DEF IInv
<1> QED BY <1>1, Invariance, PTL

\* At rest front, rear and current_size agree and the slots hold the messages
\* still to come, in order, unless a drain has overlapped an enqueue.
THEOREM RestsAreWhole == Spec => []RestsWellFormed
<1>1. IInv => RestsWellFormed
  <2> SUFFICES ASSUME IInv, ~Enqueuing, ~Dequeuing, ~raced PROVE RestsWellFormed
    BY DEF RestsWellFormed
  <2>1. current_size = Waiting /\ Whole(Waiting, Len(taken))
    BY AtRest DEF IInv
  <2>2. /\ Capacity \in Nat /\ Capacity > 0 /\ sent \in Nat /\ Len(taken) \in Nat
        /\ Waiting = sent - Len(taken)
    BY RingNumbers DEF IInv
  <2>3. CASE front = -1
    <3>1. current_size = 0 /\ rear = -1
      BY <2>1, <2>3, FrontTells DEF Empty
    <3> QED BY <2>3, <3>1 DEF RestsWellFormed
  <2>4. CASE front # -1
    <3>1. Spans(Waiting, Len(taken)) /\ Waiting # 0
      BY <2>1, <2>4, FrontTells
    <3>2. /\ front \in Slots /\ Waiting \in 1 .. Capacity
          /\ rear = (front + (Waiting - 1)) % Capacity /\ Runs(Waiting, Len(taken))
      BY <3>1 DEF Spans
    <3>3. Waiting - 1 \in 0 .. Capacity - 1 /\ Waiting - 1 \in 0 .. Capacity
          /\ (Waiting - 1) + 1 = Waiting
      BY <2>2, <3>2
    <3>4. rear \in Slots /\ -1 \notin Slots
      BY <3>2, <3>3, Around DEF Slots
    <3>5. (rear + 1) % Capacity = (front + Waiting) % Capacity
      <4> DEFINE k == Waiting - 1
      <4>1. k \in 0 .. Capacity - 1 /\ k + 1 = Waiting /\ rear = (front + k) % Capacity
        BY <3>2, <3>3
      <4> HIDE DEF k
      <4>2. (((front + k) % Capacity) + 1) % Capacity = (front + (k + 1)) % Capacity
        BY <3>2, <4>1, OneOn
      <4> QED BY <4>1, <4>2
    <3>6. ASSUME NEW k \in 0 .. current_size - 1
          PROVE  m_arr[(front + k) % Capacity] = sent - current_size + k + 1
      <4>1. m_arr[(front + k) % Capacity] = Len(taken) + k + 1
        BY <2>1, <3>2, <3>6 DEF Runs
      <4>2. Len(taken) = sent - current_size
        BY <2>1, <2>2
      <4> QED BY <4>1, <4>2
    <3> QED BY <2>1, <2>4, <3>1, <3>4, <3>5, <3>6 DEF RestsWellFormed
  <2> QED BY <2>3, <2>4
<1> QED BY <1>1, Invariance, PTL
-----------------------------------------------------------------------------
(* The items are numbered as they are put *)

\* The first n items put, in order.
Counting(n) == [i \in 1 .. n |-> i]

LEMMA CountingIsSeq ==
  ASSUME NEW n \in Nat
  PROVE  /\ Counting(n) \in Seq(Int) /\ Len(Counting(n)) = n
         /\ \A i \in 1 .. n : Counting(n)[i] = i
BY DEF Counting

\* Of two runs of items in order, the shorter is a prefix of the longer.
LEMMA CountsArePrefixes ==
  ASSUME NEW s \in Seq(Int), NEW t \in Seq(Int), Len(s) <= Len(t),
         \A i \in 1 .. Len(s) : s[i] = i,
         \A i \in 1 .. Len(t) : t[i] = i
  PROVE  IsPrefix(s, t)
<1>1. Len(s) \in Nat /\ Len(t) \in Nat
  OBVIOUS
<1>2. \A i \in 1 .. Len(s) : s[i] = t[i]
  BY <1>1
<1>3. SubSeq(s, 1, Len(s)) = SubSeq(t, 1, Len(s))
  BY <1>1, <1>2
<1> QED BY <1>3 DEF IsPrefix
-----------------------------------------------------------------------------
(* The refinement of Fifo *)

LEMMA InitRefines == Init => Channel!Init
<1>1. [i \in 1 .. 0 |-> i] = << >>
  OBVIOUS
<1> QED BY <1>1 DEF Init, Channel!Init

\* The copy puts the next message, for which there is room.
LEMMA CopyRefines ==
  ASSUME IInv, ~raced, EnqueueCopy
  PROVE  Channel!Put
<1>1. /\ Capacity \in Nat /\ sent \in Nat /\ Len(taken) \in Nat
      /\ Waiting = sent - Len(taken)
  BY RingNumbers DEF IInv
<1>2. sent' = sent + 1 /\ taken' = taken /\ cpc = "copy"
  BY DEF EnqueueCopy
<1>3. Waiting \in 0 .. Capacity - 1
  BY <1>2, CopyFinds
<1>4. Len(Counting(sent + 1)) = sent + 1 /\ IsPrefix(Counting(sent), Counting(sent + 1))
  <2>1. sent + 1 \in Nat /\ sent <= sent + 1
    BY <1>1
  <2> QED BY <1>1, <2>1, CountingIsSeq, CountsArePrefixes
<1>5. Len(Counting(sent')) = sent + 1 /\ IsPrefix(Counting(sent), Counting(sent'))
  BY <1>2, <1>4
<1>6. Len(Counting(sent')) - Len(taken) <= Capacity
  BY <1>1, <1>3, <1>5
<1> QED BY <1>2, <1>5, <1>6 DEF Channel!Put, Channel!IsPrefix, IsPrefix, Counting

\* The take hands out the message that has waited longest.
LEMMA TakeRefines ==
  ASSUME IInv, ~raced, DequeueTake
  PROVE  Channel!Get
<1>1. /\ sent \in Nat /\ Len(taken) \in Nat /\ taken \in Seq(Nat) /\ Capacity \in Nat
      /\ Waiting = sent - Len(taken)
  BY RingNumbers DEF IInv
<1>2. sent' = sent /\ spc = "take" /\ taken' = Append(taken, Len(taken) + 1)
  BY OrderedTake DEF DequeueTake
<1>3. Waiting \in 1 .. Capacity /\ \A i \in 1 .. Len(taken) : taken[i] = i
  BY <1>2, TakeFinds DEF Spans
<1>4. PICK g \in Seq(Int) : g = taken' /\ Len(g) = Len(taken) + 1
  <2>1. taken' \in Seq(Nat) /\ Len(taken') = Len(taken) + 1
    BY <1>1, <1>2
  <2>2. taken' \in Seq(Int)
    BY <2>1
  <2> QED BY <2>1, <2>2
<1>5. \A i \in 1 .. Len(g) : g[i] = i
  BY <1>1, <1>2, <1>3, <1>4
<1>6. IsPrefix(taken, g)
  <2>1. \A i \in 1 .. Len(taken) : taken[i] = i /\ g[i] = i
    BY <1>1, <1>3, <1>4, <1>5
  <2>2. taken \in Seq(Int) /\ Len(taken) <= Len(g)
    BY <1>1, <1>4
  <2> QED BY <1>5, <2>1, <2>2, CountsArePrefixes
<1>7. IsPrefix(g, Counting(sent))
  <2>1. Len(g) <= sent
    BY <1>1, <1>3, <1>4
  <2> QED BY <1>1, <1>5, <2>1, CountingIsSeq, CountsArePrefixes
<1> QED BY <1>2, <1>4, <1>6, <1>7 DEF Channel!Get, Channel!IsPrefix, IsPrefix, Counting

\* Load by load and store by store, the ring is a bounded first-in first-out
\* channel, as long as no drain has overlapped an enqueue.
THEOREM Implements == Spec => LoadsImplementFifo
<1>1. IInv /\ [Next]_vars => [raced' \/ Channel!Put \/ Channel!Get]_<<sent, taken>>
  <2> SUFFICES ASSUME IInv, [Next]_vars, ~raced', ~UNCHANGED <<sent, taken>>
               PROVE  Channel!Put \/ Channel!Get
    OBVIOUS
  <2>1. EnqueueCopy \/ DequeueTake
    BY DEF Next, vars, SendPoll, SendLock, EnqueueCheck, EnqueueSetRear,
       EnqueueSetFront, EnqueueAdvance, EnqueueStray, EnqueueLoad, EnqueueStore,
       ReceiveStart, ReceivePoll, ReceiveLock, Answer, Drain, DequeueTest,
       DequeueCompare, DequeueResetFront, DequeueResetRear, DequeueAdvance,
       DequeueLoad, DequeueStore
  <2>2. ~raced
    BY <2>1 DEF EnqueueCopy, DequeueTake
  <2> QED BY <2>1, <2>2, CopyRefines, TakeRefines
<1> QED BY <1>1, InitRefines, Invariance, PTL DEF Spec, LoadsImplementFifo
=============================================================================
