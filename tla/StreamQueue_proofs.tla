------------------------- MODULE StreamQueue_proofs -------------------------
(***************************************************************************)
(* The byte ring is well formed, in order and inside its memory for every  *)
(* capacity, every sequence of lengths and every neighbour.                *)
(***************************************************************************)
EXTENDS MCStreamQueue, SequencesExt, TLAPS

\* What StaysInBuffer needs to be inductive: until the first run that is
\* longer than the ring, front is where the run's first unread byte is.
RunIsLinear ==
  ~lapped /\ front # -1 => front = run - current_size /\ run <= Capacity

IInv == TypeOK /\ RingShape /\ Contents /\ StaysInBuffer /\ RunIsLinear
-----------------------------------------------------------------------------
\* An index less than two rings along wraps at most once.
LEMMA WrapOnce ==
  ASSUME NEW x \in Nat, x < 2 * Capacity
  PROVE  x % Capacity = IF x < Capacity THEN x ELSE x - Capacity
<1> USE StreamAssumption
<1>1. CASE x < Capacity
  BY <1>1
<1>2. CASE x >= Capacity
  BY <1>2
<1> QED
  BY <1>1, <1>2

\* C's remainder on the indices the ring computes, -1 included.
LEMMA CRemOnce ==
  ASSUME NEW a \in Int, -1 <= a, a < 2 * Capacity
  PROVE  CRem(a) = IF a = -1 THEN IF Capacity = 1 THEN 0 ELSE -1
                   ELSE IF a < Capacity THEN a ELSE a - Capacity
<1> USE StreamAssumption
<1>1. CASE a = -1
  <2>1. 1 % Capacity = IF 1 < Capacity THEN 1 ELSE 1 - Capacity
    BY WrapOnce
  <2> QED
    BY <1>1, <2>1 DEF CRem
<1>2. CASE a # -1
  BY <1>2, WrapOnce DEF CRem
<1> QED
  BY <1>1, <1>2

LEMMA InitEstablishes == Init => IInv
BY StreamAssumption
   DEF Init, IInv, TypeOK, RingShape, Contents, StaysInBuffer, RunIsLinear,
       Cells, OwnCells, Foreign

\* The numbers of the state, as the arithmetic below needs them.
LEMMA Numbers ==
  ASSUME IInv
  PROVE  /\ Capacity \in Nat /\ Capacity > 0
         /\ front \in Int /\ -1 <= front /\ front < Capacity
         /\ rear \in Int /\ -1 <= rear /\ rear < Capacity
         /\ current_size \in Nat /\ current_size <= Capacity
         /\ sent \in Nat /\ run \in Nat
         /\ Len(rcvd) \in Nat /\ sent = Len(rcvd) + current_size
BY StreamAssumption DEF IInv, TypeOK, Contents

\* Where stream_enqueue copies to: the cell current_size cells after front.
LEMMA EnqueueAtShape ==
  ASSUME IInv,
         NEW f \in Nat, f = IF front = -1 THEN 0 ELSE front
  PROVE  /\ f < Capacity
         /\ EnqueueAt \in Nat /\ EnqueueAt < Capacity
         /\ EnqueueAt = IF f + current_size < Capacity
                          THEN f + current_size
                          ELSE f + current_size - Capacity
<1>1. /\ Capacity \in Nat /\ Capacity > 0
      /\ front \in Int /\ -1 <= front /\ front < Capacity
      /\ rear \in Int /\ -1 <= rear /\ rear < Capacity
      /\ current_size \in Nat /\ current_size <= Capacity
  BY Numbers
<1>2. CASE front = -1
  <2>1. EnqueueAt = 0 /\ current_size = 0
    BY <1>2 DEF EnqueueAt, RingShape, IInv
  <2> QED
    BY <1>1, <1>2, <2>1
<1>3. CASE front # -1
  <2>1. EnqueueAt = CRem(rear + 1)
    BY <1>3 DEF EnqueueAt
  <2>2. rear + 1 \in Nat /\ rear + 1 < 2 * Capacity /\ -1 <= rear + 1
    BY <1>1
  <2>3. CRem(rear + 1) = (rear + 1) % Capacity
    BY <1>1, <2>2 DEF CRem
  <2>4. (rear + 1) % Capacity = (front + current_size) % Capacity
    BY <1>3 DEF RingShape, IInv
  <2> DEFINE x == f + current_size
  <2>5. x \in Nat /\ x < 2 * Capacity /\ f = front
    BY <1>1, <1>3
  <2> HIDE DEF x
  <2>6. x % Capacity = IF x < Capacity THEN x ELSE x - Capacity
    BY <2>5, WrapOnce
  <2>7. EnqueueAt = x % Capacity
    BY <2>1, <2>3, <2>4, <2>5 DEF x
  <2>8. EnqueueAt = IF x < Capacity THEN x ELSE x - Capacity
    BY <2>6, <2>7
  <2> QED
    BY <1>1, <2>5, <2>8 DEF x
<1> QED
  BY <1>2, <1>3

LEMMA EnqueuePreserves ==
  ASSUME IInv, NEW len \in 0 .. MaxLen, Enqueue(len)
  PROVE  IInv'
<1> DEFINE n == AddLen(len)
           at == EnqueueAt
           f == IF front = -1 THEN 0 ELSE front
<1>1. /\ Capacity \in Nat /\ Capacity > 0
      /\ front \in Int /\ -1 <= front /\ front < Capacity
      /\ current_size \in Nat /\ current_size <= Capacity
      /\ sent \in Nat /\ run \in Nat
      /\ Len(rcvd) \in Nat /\ sent = Len(rcvd) + current_size
  BY Numbers
<1>2. n \in Nat /\ current_size + n <= Capacity
  <2>1. len \in Nat
    OBVIOUS
  <2> QED
    BY <1>1, <2>1 DEF AddLen, Lesser
<1>3. f \in Nat /\ f < Capacity
  BY <1>1
<1>4. /\ at \in Nat /\ at < Capacity
      /\ at = IF f + current_size < Capacity
                THEN f + current_size ELSE f + current_size - Capacity
  BY <1>3, EnqueueAtShape
<1>5. /\ front' = f
      /\ rear' = CRem(at + n - 1)
      /\ m_arr' = CopyIn(at, n)
      /\ current_size' = current_size + n
      /\ sent' = sent + n
      /\ run' = run + n
      /\ rcvd' = rcvd
  BY DEF Enqueue
<1>a. /\ ~lapped' => ~lapped /\ ~(run + n > Capacity)
      /\ ~strayed' => ~strayed /\ ~(at + n > Capacity)
      /\ strayed' => strayed \/ at + n > Capacity
      /\ lapped' \in BOOLEAN /\ strayed' \in BOOLEAN
  <2>1. /\ lapped' = (lapped \/ run + n > Capacity)
        /\ strayed' = (strayed \/ at + n > Capacity)
    BY DEF Enqueue
  <2> QED
    BY <2>1, Zenon
<1>6. front = -1 => current_size = 0 /\ run = 0
  BY DEF IInv, RingShape
<1>7. f = IF front = -1 THEN 0 ELSE front
  OBVIOUS
<1> HIDE DEF n, at, f
<1>8. /\ rear' \in -1 .. Capacity - 1
      /\ (rear' + 1) % Capacity = (front' + current_size') % Capacity
  <2> DEFINE e == at + n - 1
             r == CRem(e)
             x == r + 1
             y == f + (current_size + n)
  <2>1. r = IF e = -1 THEN IF Capacity = 1 THEN 0 ELSE -1
            ELSE IF e < Capacity THEN e ELSE e - Capacity
    <3>1. e \in Int /\ -1 <= e /\ e < 2 * Capacity
      BY <1>1, <1>2, <1>4
    <3> HIDE DEF e
    <3> QED
      BY <3>1, CRemOnce
  <2> HIDE DEF r
  <2>2. r \in Int /\ -1 <= r /\ r < Capacity
    <3>1. e \in Int /\ -1 <= e /\ e < 2 * Capacity
      BY <1>1, <1>2, <1>4
    <3> HIDE DEF e
    <3>2. CASE e = -1
      BY <1>1, <2>1, <3>2
    <3>3. CASE e # -1
      BY <1>1, <2>1, <3>1, <3>3
    <3> QED
      BY <3>2, <3>3
  <2>3. x % Capacity = IF x < Capacity THEN x ELSE x - Capacity
    <3>1. x \in Nat /\ x < 2 * Capacity
      BY <1>1, <2>2
    <3> HIDE DEF x
    <3> QED
      BY <3>1, WrapOnce
  <2>4. y % Capacity = IF y < Capacity THEN y ELSE y - Capacity
    <3>1. y \in Nat /\ y < 2 * Capacity
      BY <1>1, <1>2, <1>3
    <3> HIDE DEF y
    <3> QED
      BY <3>1, WrapOnce
  <2>5. x % Capacity = y % Capacity
    <3>1. (IF x < Capacity THEN x ELSE x - Capacity)
             = (IF y < Capacity THEN y ELSE y - Capacity)
      BY <1>1, <1>2, <1>3, <1>4, <2>1, <2>2
    <3> HIDE DEF x, y
    <3> QED
      BY <2>3, <2>4, <3>1
  <2>6. rear' = r /\ front' + current_size' = y
    BY <1>5 DEF r
  <2> QED
    BY <1>1, <2>2, <2>5, <2>6
<1>9. TypeOK'
  <2>1. m_arr' \in [Cells -> Int]
    <3>1. m_arr \in [Cells -> Int]
      BY DEF IInv, TypeOK
    <3>2. \A i \in Cells : i \in Int
      BY <1>1 DEF Cells
    <3>3. \A i \in Cells : sent + 1 + (i - at) \in Int
      BY <1>1, <1>4, <3>2
    <3> QED
      BY <1>5, <3>1, <3>3 DEF CopyIn
  <2>2. rcvd' \in Seq(Int) /\ lapped' \in BOOLEAN /\ strayed' \in BOOLEAN
    BY <1>5, <1>a DEF IInv, TypeOK
  <2>3. /\ front' \in -1 .. Capacity - 1
        /\ current_size' \in 0 .. Capacity
        /\ sent' \in Nat /\ run' \in Nat
    BY <1>1, <1>2, <1>3, <1>5
  <2> QED
    BY <1>8, <2>1, <2>2, <2>3 DEF TypeOK
<1>10. RingShape'
  <2>1. front' # -1
    BY <1>3, <1>5
  <2> QED
    BY <1>8, <2>1 DEF RingShape
<1>11. Contents'
  <2>1. sent' = Len(rcvd') + current_size'
    BY <1>1, <1>2, <1>5
  <2>2. ASSUME ~strayed', NEW k \in 0 .. current_size' - 1
        PROVE  m_arr'[(front' + k) % Capacity] = Len(rcvd') + k + 1
    <3>1. ~strayed /\ at + n <= Capacity
      BY <1>1, <1>2, <1>4, <1>a, <2>2
    <3>2. k \in Nat /\ k < current_size + n
      BY <1>1, <1>2, <1>5, <2>2
    <3> DEFINE x == f + k
               c == x % Capacity
    <3>3. c = IF x < Capacity THEN x ELSE x - Capacity
      <4>1. x \in Nat /\ x < 2 * Capacity
        BY <1>1, <1>2, <1>3, <3>2
      <4> HIDE DEF x
      <4> QED
        BY <4>1, WrapOnce
    <3>4. c = (front' + k) % Capacity
      BY <1>5
    <3> HIDE DEF c
    <3>5. c \in Nat /\ c < Capacity /\ c \in Cells
      <4>1. c \in Nat /\ c < Capacity
        BY <1>1, <1>2, <1>3, <3>2, <3>3
      <4> QED
        BY <1>1, <4>1 DEF Cells
    <3>6. m_arr'[c] = IF at <= c /\ c < at + n THEN sent + 1 + (c - at)
                                               ELSE m_arr[c]
      BY <1>5, <3>5 DEF CopyIn
    <3>7. CASE k < current_size
      <4>1. f = front
        BY <1>6, <1>7, <3>2, <3>7
      <4>2. ~(at <= c /\ c < at + n)
        BY <1>1, <1>2, <1>3, <1>4, <3>1, <3>2, <3>3, <3>7
      <4>3. m_arr[(front + k) % Capacity] = Len(rcvd) + k + 1
        <5>1. k \in 0 .. current_size - 1
          BY <1>1, <3>2, <3>7
        <5> QED
          BY <3>1, <5>1 DEF IInv, Contents
      <4>4. c = (front + k) % Capacity
        BY <3>4, <1>5, <4>1
      <4>5. m_arr'[c] = Len(rcvd) + k + 1
        BY <3>6, <4>2, <4>3, <4>4
      <4> QED
        BY <1>5, <3>4, <4>5
    <3>8. CASE k >= current_size
      <4>1. c = at + (k - current_size)
        BY <1>1, <1>2, <1>3, <1>4, <3>1, <3>2, <3>3, <3>8
      <4>2. at <= c /\ c < at + n
        BY <1>1, <1>2, <1>4, <3>2, <3>8, <4>1
      <4>3. sent + 1 + (c - at) = Len(rcvd) + k + 1
        BY <1>1, <1>2, <1>4, <3>2, <3>8, <4>1
      <4>4. m_arr'[c] = Len(rcvd) + k + 1
        BY <3>6, <4>2, <4>3
      <4> QED
        BY <1>5, <3>4, <4>4
    <3> QED
      BY <1>1, <3>2, <3>7, <3>8
  <2>3. ~strayed' => \A i \in 1 .. Len(rcvd') : rcvd'[i] = i
    BY <1>5, <1>a DEF IInv, Contents
  <2> QED
    BY <2>1, <2>2, <2>3 DEF Contents
<1>12. RunIsLinear'
  <2>1. SUFFICES ASSUME ~lapped', front' # -1
                 PROVE  front' = run' - current_size' /\ run' <= Capacity
    BY DEF RunIsLinear
  <2>2. ~lapped
    BY <1>a, <2>1
  <2>3. ~(run + n > Capacity)
    BY <1>a, <2>1
  <2>4. front # -1 => front = run - current_size
    BY <2>2 DEF IInv, RunIsLinear
  <2>5. f = run + n - (current_size + n) /\ run + n <= Capacity
    BY <1>1, <1>2, <1>6, <1>7, <2>3, <2>4
  <2> QED
    BY <1>1, <1>2, <1>3, <1>5, <2>5
<1>13. StaysInBuffer'
  <2>1. SUFFICES ASSUME ~lapped' PROVE ~(at + n > Capacity) /\ ~strayed
    BY <1>a DEF StaysInBuffer
  <2>2. ~lapped /\ ~(run + n > Capacity)
    BY <1>a, <2>1
  <2>3. f + current_size = run
    <3>1. front # -1 => front = run - current_size
      BY <2>2 DEF IInv, RunIsLinear
    <3> QED
      BY <1>1, <1>6, <1>7, <3>1
  <2>4. ~strayed
    BY <2>2 DEF IInv, StaysInBuffer
  <2>5. ~(at + n > Capacity)
    BY <1>1, <1>2, <1>3, <1>4, <2>2, <2>3
  <2> QED
    BY <2>4, <2>5
<1> QED
  BY <1>9, <1>10, <1>11, <1>12, <1>13 DEF IInv

LEMMA DequeuePreserves ==
  ASSUME IInv, NEW len \in 0 .. MaxLen, Dequeue(len)
  PROVE  IInv'
<1> DEFINE n == Lesser(current_size, len)
<1>1. /\ Capacity \in Nat /\ Capacity > 0
      /\ front \in Int /\ 0 <= front /\ front < Capacity
      /\ current_size \in Nat /\ current_size <= Capacity
      /\ sent \in Nat /\ run \in Nat
      /\ Len(rcvd) \in Nat /\ sent = Len(rcvd) + current_size
  <2>1. front # -1
    BY DEF Dequeue
  <2> QED
    BY <2>1, Numbers
<1>2. n \in Nat /\ n <= current_size
  <2>1. len \in Nat
    OBVIOUS
  <2> QED
    BY <1>1, <2>1 DEF Lesser
<1>3. /\ rcvd' = rcvd \o CopyOut(n)
      /\ m_arr' = Clear(n)
      /\ current_size' = current_size - n
      /\ front' = FrontAfter(n)
      /\ rear' = IF current_size = n THEN -1 ELSE rear
      /\ run' = IF current_size = n THEN 0 ELSE run
      /\ sent' = sent
  BY DEF Dequeue
<1>4. /\ strayed' \in BOOLEAN /\ lapped' \in BOOLEAN
      /\ ~strayed' => ~strayed /\ ~(front + n > Capacity)
      /\ strayed' => strayed \/ front + n > Capacity
      /\ lapped' = lapped
  <2>1. strayed' = (strayed \/ front + n > Capacity) /\ lapped' = lapped
    BY DEF Dequeue
  <2>2. lapped \in BOOLEAN
    BY DEF IInv, TypeOK
  <2> QED
    BY <2>1, <2>2, Zenon
<1>5. (rear + 1) % Capacity = (front + current_size) % Capacity
  BY <1>1 DEF IInv, RingShape
<1>6. /\ CopyOut(n) \in Seq(Int) /\ Len(CopyOut(n)) = n
      /\ \A k \in 1 .. n : CopyOut(n)[k] = m_arr[front + k - 1]
  <2>1. \A k \in 1 .. n : m_arr[front + k - 1] \in Int
    <3>1. m_arr \in [Cells -> Int]
      BY DEF IInv, TypeOK
    <3>2. \A k \in 1 .. n : front + k - 1 \in Cells
      BY <1>1, <1>2 DEF Cells
    <3> QED
      BY <3>1, <3>2
  <2> QED
    BY <1>2, <2>1 DEF CopyOut
<1>7. /\ rcvd' \in Seq(Int) /\ Len(rcvd') = Len(rcvd) + n
      /\ \A i \in 1 .. Len(rcvd) : rcvd'[i] = rcvd[i]
      /\ \A i \in Len(rcvd) + 1 .. Len(rcvd) + n :
           rcvd'[i] = CopyOut(n)[i - Len(rcvd)]
  <2>1. rcvd \in Seq(Int)
    BY DEF IInv, TypeOK
  <2> QED
    BY <1>2, <1>3, <1>6, <2>1
<1> HIDE DEF n
<1>8. current_size = n => /\ front' = -1 /\ rear' = -1
                          /\ current_size' = 0 /\ run' = 0
  BY <1>1, <1>3 DEF FrontAfter
<1>9. current_size # n =>
        /\ front' = IF front + n < Capacity THEN front + n
                                            ELSE front + n - Capacity
        /\ rear' = rear /\ run' = run
        /\ current_size' = current_size - n /\ current_size' > 0
  <2>1. SUFFICES ASSUME current_size # n
                 PROVE  /\ front' = IF front + n < Capacity
                                      THEN front + n ELSE front + n - Capacity
                        /\ current_size - n > 0
    BY <1>1, <1>2, <1>3
  <2>2. current_size - n > 0
    BY <1>1, <1>2, <2>1
  <2> DEFINE e == front + n
  <2>3. e \in Nat /\ -1 <= e /\ e < 2 * Capacity
    BY <1>1, <1>2
  <2>4. front' = CRem(e)
    BY <1>3, <2>1 DEF FrontAfter
  <2> HIDE DEF e
  <2>5. CRem(e) = IF e < Capacity THEN e ELSE e - Capacity
    BY <1>1, <2>3, CRemOnce
  <2>6. front' = IF e < Capacity THEN e ELSE e - Capacity
    BY <2>4, <2>5
  <2> QED
    BY <1>1, <1>2, <2>2, <2>6 DEF e
<1>10. TypeOK'
  <2>1. m_arr' \in [Cells -> Int]
    <3>1. m_arr \in [Cells -> Int]
      BY DEF IInv, TypeOK
    <3> QED
      BY <1>3, <3>1 DEF Clear
  <2>2. rear \in -1 .. Capacity - 1
    BY DEF IInv, TypeOK
  <2>3. /\ front' \in -1 .. Capacity - 1
        /\ rear' \in -1 .. Capacity - 1
        /\ current_size' \in 0 .. Capacity
        /\ run' \in Nat /\ sent' \in Nat
    BY <1>1, <1>2, <1>3, <1>8, <1>9, <2>2
  <2> QED
    BY <1>4, <1>7, <2>1, <2>3 DEF TypeOK
<1>11. RingShape'
  <2>1. CASE current_size = n
    BY <1>8, <2>1 DEF RingShape
  <2>2. CASE current_size # n
    <3> DEFINE x == front' + current_size'
               y == front + current_size
    <3>1. x \in Nat /\ x < 2 * Capacity /\ y \in Nat /\ y < 2 * Capacity
      BY <1>1, <1>2, <1>9, <2>2
    <3>2. x % Capacity = IF x < Capacity THEN x ELSE x - Capacity
      <4> HIDE DEF x
      <4> QED
        BY <3>1, WrapOnce
    <3>3. y % Capacity = IF y < Capacity THEN y ELSE y - Capacity
      <4> HIDE DEF y
      <4> QED
        BY <3>1, WrapOnce
    <3>4. (IF x < Capacity THEN x ELSE x - Capacity)
             = (IF y < Capacity THEN y ELSE y - Capacity)
      BY <1>1, <1>2, <1>9, <2>2
    <3>5. x % Capacity = y % Capacity
      <4> HIDE DEF x, y
      <4> QED
        BY <3>2, <3>3, <3>4
    <3>6. front' # -1 /\ rear' = rear
      BY <1>1, <1>2, <1>9, <2>2
    <3> QED
      BY <1>5, <3>5, <3>6 DEF RingShape
  <2> QED
    BY <2>1, <2>2
<1>12. Contents'
  <2>1. sent' = Len(rcvd') + current_size'
    BY <1>1, <1>2, <1>3, <1>7
  <2>2. ASSUME ~strayed', NEW i \in 1 .. Len(rcvd')
        PROVE  rcvd'[i] = i
    <3>1. ~strayed /\ front + n <= Capacity
      BY <1>1, <1>2, <1>4, <2>2
    <3>2. i \in Nat /\ 1 <= i /\ i <= Len(rcvd) + n
      BY <1>1, <1>2, <1>7, <2>2
    <3>3. CASE i <= Len(rcvd)
      <4>1. i \in 1 .. Len(rcvd)
        BY <1>1, <3>2, <3>3
      <4> QED
        BY <1>7, <3>1, <4>1 DEF IInv, Contents
    <3>4. CASE i > Len(rcvd)
      <4> DEFINE k == i - Len(rcvd) - 1
      <4>1. /\ k \in 0 .. current_size - 1
            /\ i - Len(rcvd) \in 1 .. n
            /\ i \in Len(rcvd) + 1 .. Len(rcvd) + n
        BY <1>1, <1>2, <3>2, <3>4
      <4>2. rcvd'[i] = m_arr[front + (i - Len(rcvd)) - 1]
        BY <1>6, <1>7, <4>1
      <4>3. front + (i - Len(rcvd)) - 1 = front + k
        BY <1>1, <3>2
      <4>4. (front + k) % Capacity = front + k
        <5> DEFINE x == front + k
        <5>1. x \in Nat /\ x < Capacity
          BY <1>1, <1>2, <3>1, <3>2, <3>4
        <5> HIDE DEF x
        <5>2. x % Capacity = x
          BY <1>1, <5>1
        <5> QED
          BY <5>2 DEF x
      <4>5. m_arr[(front + k) % Capacity] = Len(rcvd) + k + 1
        BY <3>1, <4>1 DEF IInv, Contents
      <4>6. Len(rcvd) + k + 1 = i
        BY <1>1, <3>2
      <4> QED
        BY <4>2, <4>3, <4>4, <4>5, <4>6
    <3> QED
      BY <1>1, <3>2, <3>3, <3>4
  <2>3. ASSUME ~strayed', NEW k \in 0 .. current_size' - 1
        PROVE  m_arr'[(front' + k) % Capacity] = Len(rcvd') + k + 1
    <3>1. ~strayed /\ front + n <= Capacity
      BY <1>1, <1>2, <1>4, <2>3
    <3>2. /\ current_size # n
          /\ k \in Nat /\ k < current_size - n
      BY <1>1, <1>2, <1>8, <1>9, <2>3
    <3> DEFINE x == front' + k
               y == front + (n + k)
    <3>3. x \in Nat /\ x < 2 * Capacity /\ y \in Nat /\ y < 2 * Capacity
      BY <1>1, <1>2, <1>9, <3>2
    <3>4. x % Capacity = IF x < Capacity THEN x ELSE x - Capacity
      <4> HIDE DEF x
      <4> QED
        BY <3>3, WrapOnce
    <3>5. y % Capacity = IF y < Capacity THEN y ELSE y - Capacity
      <4> HIDE DEF y
      <4> QED
        BY <3>3, WrapOnce
    <3> DEFINE c == IF y < Capacity THEN y ELSE y - Capacity
    <3>6. c = IF x < Capacity THEN x ELSE x - Capacity
      BY <1>1, <1>2, <1>9, <3>2
    <3>7. c \in Cells /\ ~(front <= c /\ c < front + n)
      BY <1>1, <1>2, <3>1, <3>2 DEF Cells
    <3> HIDE DEF x, y, c
    <3>8. x % Capacity = c /\ y % Capacity = c
      BY <3>4, <3>5, <3>6 DEF c
    <3>9. m_arr'[c] = m_arr[c]
      BY <1>3, <3>7 DEF Clear
    <3>10. m_arr[(front + (n + k)) % Capacity] = Len(rcvd) + (n + k) + 1
      <4>1. n + k \in 0 .. current_size - 1
        BY <1>1, <1>2, <3>2
      <4> QED
        BY <3>1, <4>1 DEF IInv, Contents
    <3>11. m_arr'[c] = Len(rcvd') + k + 1
      <4>1. m_arr'[c] = Len(rcvd) + (n + k) + 1
        BY <3>8, <3>9, <3>10 DEF y
      <4> QED
        BY <1>1, <1>2, <1>7, <3>2, <4>1
    <3> QED
      BY <3>8, <3>11 DEF x
  <2> QED
    BY <2>1, <2>2, <2>3 DEF Contents
<1>13. RunIsLinear' /\ StaysInBuffer'
  <2>1. ASSUME ~lapped PROVE front = run - current_size /\ run <= Capacity
    BY <1>1, <2>1 DEF IInv, RunIsLinear
  <2>2. ~lapped => ~strayed
    BY DEF IInv, StaysInBuffer
  <2>3. ASSUME ~lapped' PROVE ~strayed'
    <3>1. front = run - current_size /\ run <= Capacity
      BY <1>4, <2>1, <2>3
    <3>2. ~(front + n > Capacity)
      BY <1>1, <1>2, <3>1
    <3> QED
      BY <1>4, <2>2, <2>3, <3>2
  <2>4. ASSUME ~lapped', front' # -1
        PROVE  front' = run' - current_size' /\ run' <= Capacity
    <3>1. front = run - current_size /\ run <= Capacity
      BY <1>4, <2>1, <2>4
    <3>2. current_size # n
      BY <1>8, <2>4
    <3> QED
      BY <1>1, <1>2, <1>9, <3>1, <3>2
  <2> QED
    BY <2>3, <2>4 DEF RunIsLinear, StaysInBuffer
<1> QED
  BY <1>10, <1>11, <1>12, <1>13 DEF IInv

LEMMA NeighbourPreserves ==
  ASSUME IInv, NeighbourWrite
  PROVE  IInv'
<1>1. /\ m_arr' = [m_arr EXCEPT ![Capacity] = Foreign]
      /\ UNCHANGED <<front, rear, current_size, sent, rcvd, run, lapped, strayed>>
  BY DEF NeighbourWrite
<1>2. TypeOK' /\ RingShape' /\ StaysInBuffer' /\ RunIsLinear'
  <2>1. TypeOK'
    <3>1. m_arr' \in [Cells -> Int]
      <4>1. m_arr \in [Cells -> Int]
        BY DEF IInv, TypeOK
      <4>2. m_arr' = [m_arr EXCEPT ![Capacity] = Foreign]
        BY <1>1
      <4>3. Foreign \in Int
        BY DEF Foreign
      <4> QED
        BY <4>1, <4>2, <4>3
    <3> QED
      BY <1>1, <3>1 DEF IInv, TypeOK
  <2>2. RingShape'
    BY <1>1 DEF IInv, RingShape
  <2>3. StaysInBuffer'
    BY <1>1 DEF IInv, StaysInBuffer
  <2>4. RunIsLinear'
    BY <1>1 DEF IInv, RunIsLinear
  <2> QED
    BY <2>1, <2>2, <2>3, <2>4
<1>3. \A k \in 0 .. current_size - 1 :
        m_arr'[(front + k) % Capacity] = m_arr[(front + k) % Capacity]
  <2>1. TAKE k \in 0 .. current_size - 1
  <2>2. front # -1
    BY <2>1, Numbers DEF IInv, RingShape
  <2> DEFINE x == front + k
  <2>3. x \in Nat /\ Capacity \in Nat /\ Capacity > 0
    BY <2>1, <2>2, Numbers
  <2> HIDE DEF x
  <2>4. x % Capacity # Capacity
    BY <2>3
  <2>5. m_arr'[x % Capacity] = m_arr[x % Capacity]
    BY <1>1, <2>4 DEF IInv, TypeOK
  <2> QED
    BY <2>5 DEF x
<1>4. Contents'
  BY <1>1, <1>3 DEF IInv, Contents
<1> QED
  BY <1>2, <1>4 DEF IInv

LEMMA Inductive == IInv /\ [Next]_vars => IInv'
<1>1. SUFFICES ASSUME IInv, [Next]_vars PROVE IInv'
  OBVIOUS
<1>2. ASSUME NEW len \in 0 .. MaxLen, Enqueue(len) PROVE IInv'
  BY <1>1, <1>2, EnqueuePreserves
<1>3. ASSUME NEW len \in 0 .. MaxLen, Dequeue(len) PROVE IInv'
  BY <1>1, <1>3, DequeuePreserves
<1>4. CASE NeighbourWrite
  BY <1>1, <1>4, NeighbourPreserves
<1>5. CASE UNCHANGED vars
  BY <1>1, <1>5
     DEF vars, IInv, TypeOK, RingShape, Contents, StaysInBuffer, RunIsLinear
<1> QED
  BY <1>1, <1>2, <1>3, <1>4, <1>5 DEF Next
-----------------------------------------------------------------------------
\* The inductive invariant holds in every state of every behaviour.
THEOREM Invariance == Spec => []IInv
BY InitEstablishes, Inductive, PTL DEF Spec

\* Every variable of the ring keeps its type.
THEOREM TypeCorrect == Spec => []TypeOK
<1>1. IInv => TypeOK
  BY DEF IInv
<1> QED
  BY <1>1, Invariance, PTL

\* front, rear and current_size always agree, through every wrap.
THEOREM WellFormed == Spec => []RingShape
<1>1. IInv => RingShape
  BY DEF IInv
<1> QED
  BY <1>1, Invariance, PTL

\* Bytes come out in the order they went in, and the ring holds exactly the
\* ones still to come, as long as no copy has crossed the end of the buffer.
THEOREM InOrder == Spec => []Contents
<1>1. IInv => Contents
  BY DEF IInv
<1> QED
  BY <1>1, Invariance, PTL

\* No copy crosses the end of the buffer for callers that put at most one
\* ring's worth of bytes between two moments at which the queue is empty.
THEOREM InBounds == Spec => []StaysInBuffer
<1>1. IInv => StaysInBuffer
  BY DEF IInv
<1> QED
  BY <1>1, Invariance, PTL
-----------------------------------------------------------------------------
(* The items are numbered as they are put *)

\* The first n items put, in order.
Counting(n) == [i \in 1 .. n |-> i]

LEMMA CountingIsSeq ==
  ASSUME NEW n \in Nat
  PROVE  /\ Counting(n) \in Seq(Int) /\ Len(Counting(n)) = n
         /\ \A i \in 1 .. n : Counting(n)[i] = i
BY DEF Counting

\* Of two runs of items in order, the shorter is a prefix of the longer.
LEMMA CountsArePrefixes ==
  ASSUME NEW s \in Seq(Int), NEW t \in Seq(Int), Len(s) <= Len(t),
         \A i \in 1 .. Len(s) : s[i] = i,
         \A i \in 1 .. Len(t) : t[i] = i
  PROVE  IsPrefix(s, t)
<1>1. Len(s) \in Nat /\ Len(t) \in Nat
  OBVIOUS
<1>2. \A i \in 1 .. Len(s) : s[i] = t[i]
  BY <1>1
<1>3. SubSeq(s, 1, Len(s)) = SubSeq(t, 1, Len(s))
  BY <1>1, <1>2
<1> QED BY <1>3 DEF IsPrefix
-----------------------------------------------------------------------------
(* The refinement of Fifo *)

\* The empty ring is the empty channel.
LEMMA InitRefines == Init => Channel!Init
<1>1. [i \in 1 .. 0 |-> i] = << >>
  OBVIOUS
<1> QED
  BY <1>1 DEF Init, Channel!Init

\* stream_enqueue puts as many bytes as there is room for.
LEMMA EnqueueRefines ==
  ASSUME IInv, NEW len \in 0 .. MaxLen, Enqueue(len)
  PROVE  Channel!Put
<1>1. /\ Capacity \in Nat /\ current_size \in Nat /\ current_size <= Capacity
      /\ sent \in Nat /\ rcvd \in Seq(Int) /\ Len(rcvd) \in Nat
      /\ sent = Len(rcvd) + current_size
  BY Numbers DEF IInv, TypeOK, Contents
<1>2. PICK n \in Nat : n = AddLen(len) /\ n <= Capacity - current_size
  <2>1. len \in Nat /\ Capacity - current_size \in Nat
    BY <1>1, StreamAssumption
  <2>2. AddLen(len) \in Nat /\ AddLen(len) <= Capacity - current_size
    BY <2>1 DEF AddLen, Lesser
  <2> QED
    BY <2>2
<1>3. sent' = sent + n /\ rcvd' = rcvd
  BY <1>2 DEF Enqueue
<1>4. sent \in Nat /\ sent + n \in Nat /\ sent <= sent + n
  BY <1>1, <1>2
<1>5. IsPrefix(Counting(sent), Counting(sent + n))
  BY <1>4, CountingIsSeq, CountsArePrefixes
<1>6. Len(Counting(sent + n)) = sent + n
  BY <1>4, CountingIsSeq
<1>7. Len(Counting(sent')) - Len(rcvd) <= Capacity
  BY <1>1, <1>2, <1>3, <1>6
<1>8. IsPrefix(Counting(sent), Counting(sent'))
  BY <1>3, <1>5
<1> QED
  BY <1>3, <1>7, <1>8 DEF Channel!Put, Channel!IsPrefix, IsPrefix, Counting

\* stream_dequeue gets the bytes that have waited longest.
LEMMA DequeueRefines ==
  ASSUME IInv, IInv', ~lapped', NEW len \in 0 .. MaxLen, Dequeue(len)
  PROVE  Channel!Get
<1>1. /\ current_size \in Nat /\ sent \in Nat
      /\ rcvd \in Seq(Int) /\ Len(rcvd) \in Nat
      /\ sent = Len(rcvd) + current_size
  BY Numbers DEF IInv, TypeOK, Contents
<1>2. PICK n \in Nat : n = Lesser(current_size, len) /\ n <= current_size
  BY <1>1 DEF Lesser
<1>3. /\ sent' = sent /\ current_size' = current_size - n
      /\ lapped' = lapped
  BY <1>2 DEF Dequeue
<1>4. ~strayed /\ ~strayed'
  BY <1>3 DEF IInv, StaysInBuffer
<1>5. PICK r \in Seq(Int) : /\ r = rcvd' /\ Len(r) \in Nat
                            /\ sent = Len(r) + current_size - n
                            /\ \A i \in 1 .. Len(r) : r[i] = i
  <2>1. /\ rcvd' \in Seq(Int)
        /\ sent' = Len(rcvd') + current_size'
        /\ \A i \in 1 .. Len(rcvd') : rcvd'[i] = i
    BY <1>4 DEF IInv, TypeOK, Contents
  <2>2. Len(rcvd') \in Nat
    BY <2>1
  <2>3. sent = Len(rcvd') + current_size - n
    BY <1>1, <1>2, <1>3, <2>1, <2>2
  <2> QED
    BY <2>1, <2>2, <2>3
<1>6. Len(rcvd) <= Len(r) /\ Len(r) <= sent
  BY <1>1, <1>2, <1>5
<1>7. IsPrefix(rcvd, r)
  <2>1. \A i \in 1 .. Len(rcvd) : rcvd[i] = i
    BY <1>4 DEF IInv, Contents
  <2> QED
    BY <1>1, <1>5, <1>6, <2>1, CountsArePrefixes
<1>8. IsPrefix(r, Counting(sent))
  BY <1>1, <1>5, <1>6, CountingIsSeq, CountsArePrefixes
<1> QED
  BY <1>3, <1>5, <1>7, <1>8 DEF Channel!Get, Channel!IsPrefix, IsPrefix, Counting

\* Until a caller has put more than a ring's worth without emptying the ring,
\* every call is a step of the channel.
THEOREM Implements == Spec => ImplementsFifo
<1>1. IInv /\ IInv' /\ [Next]_vars
        => [lapped' \/ Channel!Put \/ Channel!Get]_<<sent, rcvd>>
  <2>1. SUFFICES ASSUME IInv, IInv', [Next]_vars
                 PROVE  [lapped' \/ Channel!Put \/ Channel!Get]_<<sent, rcvd>>
    OBVIOUS
  <2>2. ASSUME NEW len \in 0 .. MaxLen, Enqueue(len) PROVE Channel!Put
    BY <2>1, <2>2, EnqueueRefines
  <2>3. ASSUME NEW len \in 0 .. MaxLen, Dequeue(len)
        PROVE  lapped' \/ Channel!Get
    BY <2>1, <2>3, DequeueRefines
  <2>4. CASE NeighbourWrite
    BY <2>4 DEF NeighbourWrite
  <2>5. CASE UNCHANGED vars
    BY <2>5 DEF vars
  <2> QED
    BY <2>1, <2>2, <2>3, <2>4, <2>5 DEF Next
<1> QED
  BY <1>1, InitRefines, Invariance, PTL DEF Spec, ImplementsFifo
=============================================================================
