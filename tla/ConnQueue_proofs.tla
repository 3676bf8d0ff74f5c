-------------------------- MODULE ConnQueue_proofs --------------------------
(***************************************************************************)
(* The ring of connections keeps its items, in order, for every capacity,  *)
(* and so is a bounded first-in first-out channel.                         *)
(***************************************************************************)
EXTENDS MCConnQueue, SequencesExt, TLAPS

IInv == TypeOK /\ RingHolds
-----------------------------------------------------------------------------
\* An index less than two rings along wraps at most once.
LEMMA WrapOnce ==
  ASSUME NEW x \in Nat, x < 2 * Capacity
  PROVE  x % Capacity = IF x < Capacity THEN x ELSE x - Capacity
<1> USE ConnAssumption
<1>1. CASE x < Capacity
  BY <1>1
<1>2. CASE x >= Capacity
  BY <1>2
<1> QED
  BY <1>1, <1>2

\* What IInv says of the numbers of the state, without %.
LEMMA Numbers ==
  ASSUME IInv
  PROVE  /\ Capacity \in Nat /\ Capacity > 0
         /\ front \in Nat /\ front < Capacity
         /\ rear \in Nat /\ rear < Capacity
         /\ size \in Nat /\ size <= Capacity
         /\ put \in Nat /\ got \in Seq(Nat) /\ Len(got) \in Nat
         /\ put = Len(got) + size
         /\ size > 0 => rear = IF front + size - 1 < Capacity
                                 THEN front + size - 1
                                 ELSE front + size - 1 - Capacity
         /\ size = 0 => front = IF rear + 1 < Capacity THEN rear + 1 ELSE 0
<1>1. /\ Capacity \in Nat /\ Capacity > 0
      /\ front \in Nat /\ front < Capacity
      /\ rear \in Nat /\ rear < Capacity
      /\ size \in Nat /\ size <= Capacity
      /\ put \in Nat /\ got \in Seq(Nat) /\ Len(got) \in Nat
      /\ put = Len(got) + size
      /\ (rear + 1) % Capacity = (front + size) % Capacity
  BY ConnAssumption DEF IInv, TypeOK, RingHolds, Slots
<1>2. (rear + 1) % Capacity = IF rear + 1 < Capacity THEN rear + 1
                              ELSE rear + 1 - Capacity
  BY <1>1, WrapOnce
<1>3. (front + size) % Capacity = IF front + size < Capacity THEN front + size
                                  ELSE front + size - Capacity
  <2>1. CASE front + size < 2 * Capacity
    BY <2>1, <1>1, WrapOnce
  <2> QED
    BY <1>1, <2>1
<1> QED
  BY <1>1, <1>2, <1>3

LEMMA InitEstablishes == Init => IInv
<1>1. (Capacity - 1 + 1) % Capacity = (0 + 0) % Capacity
  BY ConnAssumption
<1> QED
  BY <1>1, ConnAssumption
     DEF Init, FirstRear, IInv, TypeOK, RingHolds, Slots

\* The new item goes into the slot behind the ones the ring holds.
LEMMA EnqueuePreserves ==
  ASSUME IInv, Enqueue
  PROVE  IInv'
<1>1. /\ Capacity \in Nat /\ Capacity > 0
      /\ front \in Nat /\ front < Capacity
      /\ rear \in Nat /\ rear < Capacity
      /\ size \in Nat /\ size < Capacity
      /\ put \in Nat /\ got \in Seq(Nat) /\ Len(got) \in Nat
      /\ put = Len(got) + size
      /\ (rear + 1) % Capacity = (front + size) % Capacity
  BY Numbers DEF IInv, RingHolds, Enqueue, isFull
<1>2. /\ rear' = (rear + 1) % Capacity
      /\ array' = [array EXCEPT ![rear'] = put + 1]
      /\ size' = size + 1 /\ put' = put + 1
      /\ front' = front /\ got' = got
  BY DEF Enqueue
<1>3. rear' = IF rear + 1 < Capacity THEN rear + 1 ELSE rear + 1 - Capacity
  BY <1>1, <1>2, WrapOnce
<1>4. rear' = IF front + size < Capacity THEN front + size
              ELSE front + size - Capacity
  BY <1>1, <1>2, WrapOnce
<1>5. TypeOK'
  <2>1. array \in [Slots -> Nat] /\ rear' \in Slots
    BY <1>1, <1>3 DEF IInv, TypeOK, Slots
  <2> QED
    BY <2>1, <1>1, <1>2 DEF TypeOK, Slots
<1>6. (rear' + 1) % Capacity = (front' + size') % Capacity
  <2>1. (rear' + 1) % Capacity = IF rear' + 1 < Capacity THEN rear' + 1
                                 ELSE rear' + 1 - Capacity
    BY <1>1, <1>3, WrapOnce
  <2>2. (front + size + 1) % Capacity
          = IF front + size + 1 < Capacity THEN front + size + 1
            ELSE front + size + 1 - Capacity
    BY <1>1, WrapOnce
  <2>3. (front + size) + 1 = front + (size + 1)
    BY <1>1
  <2> QED
    BY <1>1, <1>2, <1>4, <2>1, <2>2, <2>3
<1>7. \A k \in 0 .. size' - 1 :
        array'[(front' + k) % Capacity] = Len(got') + k + 1
  <2> SUFFICES ASSUME NEW k \in 0 .. size' - 1
               PROVE  array'[(front' + k) % Capacity] = Len(got') + k + 1
    OBVIOUS
  <2>1. k \in 0 .. size /\ front' = front /\ got' = got
    BY <1>1, <1>2
  <2>2. (front + k) % Capacity = IF front + k < Capacity THEN front + k
                                 ELSE front + k - Capacity
    <3>1. front + k \in Nat /\ front + k < 2 * Capacity
      BY <1>1, <2>1
    <3>2. ASSUME NEW x \in Nat, x < 2 * Capacity
          PROVE  x % Capacity = IF x < Capacity THEN x ELSE x - Capacity
      BY <3>2, WrapOnce
    <3> QED
      BY <1>1, <2>1, <3>1, <3>2
  <2>3. (front + k) % Capacity \in Slots /\ rear' \in Slots
    BY <1>1, <1>3, <2>2 DEF Slots
  <2>4. array \in [Slots -> Nat]
    BY DEF IInv, TypeOK
  <2>5. CASE k = size
    BY <1>1, <1>2, <1>4, <2>1, <2>2, <2>3, <2>4, <2>5
  <2>6. CASE k < size
    <3>1. (front + k) % Capacity # rear'
      BY <1>1, <1>4, <2>1, <2>2, <2>6
    <3>2. k \in 0 .. size - 1
      BY <1>1, <2>1, <2>6
    <3>3. array[(front + k) % Capacity] = Len(got) + k + 1
      BY <3>2 DEF IInv, RingHolds
    <3> QED
      BY <1>2, <2>1, <2>3, <2>4, <3>1, <3>3
  <2> QED
    BY <1>1, <2>1, <2>5, <2>6
<1>8. RingHolds'
  <2>1. \A i \in 1 .. Len(got') : got'[i] = i
    BY <1>2 DEF IInv, RingHolds
  <2>2. put' = Len(got') + size'
    BY <1>1, <1>2
  <2> QED
    BY <1>6, <1>7, <2>1, <2>2 DEF RingHolds
<1> QED
  BY <1>5, <1>8 DEF IInv

\* The item handed out is the oldest one, and the others stay where they are.
LEMMA DequeuePreserves ==
  ASSUME IInv, Dequeue
  PROVE  IInv' /\ got' = Append(got, Len(got) + 1)
<1>1. /\ Capacity \in Nat /\ Capacity > 0
      /\ front \in Nat /\ front < Capacity
      /\ rear \in Nat /\ rear < Capacity
      /\ size \in Nat /\ size <= Capacity /\ size > 0
      /\ put \in Nat /\ got \in Seq(Nat) /\ Len(got) \in Nat
      /\ put = Len(got) + size
      /\ (rear + 1) % Capacity = (front + size) % Capacity
  BY Numbers DEF IInv, RingHolds, Dequeue
<1>2. /\ got' = Append(got, array[front])
      /\ front' = (front + 1) % Capacity
      /\ size' = size - 1
      /\ rear' = rear /\ array' = array /\ put' = put
  BY DEF Dequeue, NextFront
<1>3. front' = IF front + 1 < Capacity THEN front + 1 ELSE front + 1 - Capacity
  BY <1>1, <1>2, WrapOnce
<1>4. array[front] = Len(got) + 1
  <2>1. (front + 0) % Capacity = front
    BY <1>1
  <2>2. array[(front + 0) % Capacity] = Len(got) + 0 + 1
    BY <1>1 DEF IInv, RingHolds
  <2> QED
    BY <1>1, <2>1, <2>2
<1>5. /\ got' \in Seq(Nat) /\ Len(got') = Len(got) + 1
      /\ got'[Len(got) + 1] = Len(got) + 1
      /\ \A i \in 1 .. Len(got) : got'[i] = got[i]
  BY <1>1, <1>2, <1>4
<1>6. TypeOK'
  BY <1>1, <1>2, <1>3, <1>5 DEF IInv, TypeOK, Slots
<1>7. (rear' + 1) % Capacity = (front' + size') % Capacity
  <2>1. (front' + size') % Capacity
          = IF front' + size' < Capacity THEN front' + size'
            ELSE front' + size' - Capacity
    BY <1>1, <1>2, <1>3, WrapOnce
  <2>2. front + size < 2 * Capacity
    BY <1>1
  <2>3. (front + size) % Capacity
          = IF front + size < Capacity THEN front + size
            ELSE front + size - Capacity
    BY <1>1, <2>2, WrapOnce
  <2> QED
    BY <1>1, <1>2, <1>3, <2>1, <2>3
<1>8. PICK f \in Nat : f = front' /\ f < Capacity
  BY <1>1, <1>3
<1>10. \A k \in 0 .. size - 2 : array[(f + k) % Capacity] = Len(got) + 1 + k + 1
  <2> SUFFICES ASSUME NEW k \in 0 .. size - 2
               PROVE  array[(f + k) % Capacity] = Len(got) + 1 + k + 1
    OBVIOUS
  <2>1. k \in Nat /\ k < size - 1
    BY <1>1
  <2>2. (f + k) % Capacity = IF f + k < Capacity THEN f + k ELSE f + k - Capacity
    <3>1. f + k \in Nat /\ f + k < 2 * Capacity
      <4>1. /\ Capacity \in Nat /\ size \in Nat /\ size <= Capacity
            /\ f \in Nat /\ f < Capacity
        BY <1>1, <1>8
      <4> QED
        BY <4>1, <2>1
    <3>2. ASSUME NEW x \in Nat, x < 2 * Capacity
          PROVE  x % Capacity = IF x < Capacity THEN x ELSE x - Capacity
      BY <3>2, WrapOnce
    <3> QED
      BY <1>1, <2>1, <3>1, <3>2
  <2>3. (front + (k + 1)) % Capacity
          = IF front + (k + 1) < Capacity THEN front + (k + 1)
            ELSE front + (k + 1) - Capacity
    <3>1. k + 1 \in Nat /\ front + (k + 1) \in Nat /\ front + (k + 1) < 2 * Capacity
      BY <1>1, <2>1
    <3>2. ASSUME NEW x \in Nat, x < 2 * Capacity
          PROVE  x % Capacity = IF x < Capacity THEN x ELSE x - Capacity
      BY <3>2, WrapOnce
    <3> QED
      BY <1>1, <2>1, <3>1, <3>2
  <2>4. array[(front + (k + 1)) % Capacity] = Len(got) + (k + 1) + 1
    <3>1. k + 1 \in 0 .. size - 1
      BY <1>1, <2>1
    <3> QED
      BY <3>1 DEF IInv, RingHolds
  <2>5. (f + k) % Capacity = (front + (k + 1)) % Capacity
    <3>1. f = IF front + 1 < Capacity THEN front + 1 ELSE front + 1 - Capacity
      BY <1>3, <1>8
    <3> QED
      BY <1>1, <1>8, <2>1, <2>2, <2>3, <3>1
  <2> QED
    BY <1>1, <2>1, <2>4, <2>5
<1>11. \A k \in 0 .. size' - 1 :
         array'[(front' + k) % Capacity] = Len(got') + k + 1
  <2>1. /\ size' - 1 = size - 2 /\ array' = array /\ f = front'
        /\ Len(got') = Len(got) + 1
    BY <1>1, <1>2, <1>5, <1>8
  <2> QED
    BY <1>10, <2>1
<1>9. RingHolds'
  <2>1. \A i \in 1 .. Len(got') : got'[i] = i
    BY <1>1, <1>5 DEF IInv, RingHolds
  <2>2. put' = Len(got') + size'
    BY <1>1, <1>2, <1>5
  <2> QED
    BY <1>7, <1>11, <2>1, <2>2 DEF RingHolds
<1> QED
  BY <1>2, <1>4, <1>6, <1>9 DEF IInv

LEMMA Inductive == IInv /\ [Next]_vars => IInv'
<1>1. SUFFICES ASSUME IInv, [Next]_vars PROVE IInv'
  OBVIOUS
<1>2. CASE Enqueue
  BY <1>1, <1>2, EnqueuePreserves
<1>3. CASE Dequeue
  BY <1>1, <1>3, DequeuePreserves
<1>4. CASE UNCHANGED vars
  BY <1>1, <1>4 DEF IInv, TypeOK, RingHolds, vars
<1> QED
  BY <1>1, <1>2, <1>3, <1>4 DEF Next

THEOREM Invariance == Spec => []IInv
BY InitEstablishes, Inductive, PTL DEF Spec

\* The fields of the ring keep their types.
THEOREM TypeCorrect == Spec => []TypeOK
<1>1. IInv => TypeOK
  BY DEF IInv
<1> QED
  BY <1>1, Invariance, PTL

\* size always tells a full ring from an empty one, and no item is lost,
\* handed out twice, or out of its turn.
THEOREM ItemsInOrder == Spec => []RingHolds
<1>1. IInv => RingHolds
  BY DEF IInv
<1> QED
  BY <1>1, Invariance, PTL
-----------------------------------------------------------------------------
(* The items are numbered as they are put *)

\* The first n items put, in order.
Counting(n) == [i \in 1 .. n |-> i]

LEMMA CountingIsSeq ==
  ASSUME NEW n \in Nat
  PROVE  /\ Counting(n) \in Seq(Int) /\ Len(Counting(n)) = n
         /\ \A i \in 1 .. n : Counting(n)[i] = i
BY DEF Counting

\* Of two runs of items in order, the shorter is a prefix of the longer.
LEMMA CountsArePrefixes ==
  ASSUME NEW s \in Seq(Int), NEW t \in Seq(Int), Len(s) <= Len(t),
         \A i \in 1 .. Len(s) : s[i] = i,
         \A i \in 1 .. Len(t) : t[i] = i
  PROVE  IsPrefix(s, t)
<1>1. Len(s) \in Nat /\ Len(t) \in Nat
  OBVIOUS
<1>2. \A i \in 1 .. Len(s) : s[i] = t[i]
  BY <1>1
<1>3. SubSeq(s, 1, Len(s)) = SubSeq(t, 1, Len(s))
  BY <1>1, <1>2
<1> QED BY <1>3 DEF IsPrefix
-----------------------------------------------------------------------------
(* The refinement of Fifo *)

\* The empty ring is the empty channel.
LEMMA InitRefines == Init => Channel!Init
<1>1. [i \in 1 .. 0 |-> i] = << >>
  OBVIOUS
<1> QED
  BY <1>1 DEF Init, Channel!Init

\* An enqueue puts the next item behind the accepted ones, and there is room.
LEMMA EnqueueRefines ==
  ASSUME IInv, Enqueue
  PROVE  Channel!Put
<1>1. /\ Capacity \in Nat /\ size \in Nat /\ size < Capacity
      /\ put \in Nat /\ got \in Seq(Nat) /\ Len(got) \in Nat
      /\ put = Len(got) + size
  BY Numbers DEF Enqueue, isFull
<1>2. put' = put + 1 /\ got' = got
  BY DEF Enqueue
<1>3. /\ put + 1 \in Nat /\ Len(Counting(put + 1)) = put + 1
      /\ Len(Counting(put)) <= Len(Counting(put + 1))
  BY <1>1, CountingIsSeq
<1>4. IsPrefix(Counting(put), Counting(put + 1))
  BY <1>1, <1>3, CountingIsSeq, CountsArePrefixes
<1>5. IsPrefix(Counting(put), Counting(put'))
  BY <1>2, <1>4
<1>6. Len(Counting(put')) - Len(got) <= Capacity
  BY <1>1, <1>2, <1>3
<1> QED
  BY <1>2, <1>5, <1>6 DEF Channel!Put, Channel!IsPrefix, IsPrefix, Counting

\* A dequeue gets the accepted item that has waited longest.
LEMMA DequeueRefines ==
  ASSUME IInv, Dequeue
  PROVE  Channel!Get
<1>1. /\ size \in Nat /\ size > 0
      /\ put \in Nat /\ got \in Seq(Nat) /\ Len(got) \in Nat
      /\ put = Len(got) + size
  BY Numbers DEF Dequeue
<1>2. /\ put' = put
      /\ got' = Append(got, Len(got) + 1)
      /\ \A i \in 1 .. Len(got') : got'[i] = i
  BY DequeuePreserves DEF Dequeue, IInv, RingHolds
<1>3. PICK g \in Seq(Int) : g = got' /\ Len(g) = Len(got) + 1
  BY <1>1, <1>2
<1>4. IsPrefix(got, g)
  <2>1. \A i \in 1 .. Len(got) : got[i] = i /\ g[i] = i
    BY <1>1, <1>2, <1>3 DEF IInv, RingHolds
  <2>2. got \in Seq(Int) /\ Len(got) <= Len(g)
    BY <1>1, <1>3
  <2> QED
    BY <1>2, <1>3, <2>1, <2>2, CountsArePrefixes
<1>5. IsPrefix(g, Counting(put))
  <2>1. Len(g) <= put /\ \A i \in 1 .. Len(g) : g[i] = i
    BY <1>1, <1>2, <1>3
  <2>2. Len(Counting(put)) = put
    BY <1>1, CountingIsSeq
  <2> QED
    BY <1>1, <2>1, <2>2, CountingIsSeq, CountsArePrefixes
<1> QED
  BY <1>2, <1>3, <1>4, <1>5 DEF Channel!Get, Channel!IsPrefix, IsPrefix, Counting

\* Every call of the ring is a step of the channel.
THEOREM Implements == Spec => ImplementsFifo
<1>1. IInv /\ [Next]_vars => [Channel!Put \/ Channel!Get]_Channel!fifoVars
  <2>1. SUFFICES ASSUME IInv, [Next]_vars
                 PROVE  [Channel!Put \/ Channel!Get]_Channel!fifoVars
    OBVIOUS
  <2>2. CASE Enqueue
    BY <2>1, <2>2, EnqueueRefines
  <2>3. CASE Dequeue
    BY <2>1, <2>3, DequeueRefines
  <2>4. CASE UNCHANGED vars
    BY <2>4 DEF vars, Channel!fifoVars
  <2> QED
    BY <2>1, <2>2, <2>3, <2>4 DEF Next
<1> QED
  BY <1>1, InitRefines, Invariance, PTL DEF Spec, ImplementsFifo, Channel!Spec
=============================================================================
