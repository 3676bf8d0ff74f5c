-------------------------- MODULE SendStream_proofs --------------------------
(***************************************************************************)
(* send and write deliver the program's stream intact, for every capacity, *)
(* chunk, length of a call and of the stream.                              *)
(***************************************************************************)
EXTENDS SendStream, SequenceTheorems, TLAPS

Chunking == {"chunk", "next"}

\* What is still to be put and counted is within the call, and the call within
\* the bounds; the kept bytes have gone before the first chunk.
Counted ==
  /\ spc # "idle" => taken + len <= MaxBytes
  /\ spc \in Chunking => count + Len(rest) <= len /\ msg_more_buf = <<>>

\* One behind the other, s, t and u are the first n bytes of the stream.
Aligned(s, t, u, n) ==
  /\ Len(s) + Len(t) + Len(u) = n
  /\ \A i \in 1 .. Len(s) : s[i] = i
  /\ \A i \in 1 .. Len(t) : t[i] = Len(s) + i
  /\ \A i \in 1 .. Len(u) : u[i] = Len(s) + Len(t) + i

\* Between the chunks the rest of the call follows the queue, and there is room
\* for all of it.
Outside == Aligned(received, response_queue, msg_more_buf, taken)
Within ==
  /\ Aligned(received, response_queue, rest, taken + len)
  /\ count + Len(rest) = len
  /\ Len(response_queue) + Len(rest) <= Capacity
Streamed ==
  ~tight /\ ~overtaken =>
    (spc \notin Chunking => Outside) /\ (spc \in Chunking => Within)

IInv == TypeOK /\ Counted /\ Streamed
-----------------------------------------------------------------------------
(* Sequences, item by item *)

LEMMA Bounds ==
  Capacity \in Nat /\ LO_MSS \in Nat /\ LO_MSS > 0 /\ MaxLen \in Nat /\ MaxBytes \in Nat
BY SendAssumption

\* w is s with the first m items of t behind it; w is s without the first m.
Joined(w, s, t, m) ==
  /\ w \in Seq(Nat) /\ Len(w) = Len(s) + m
  /\ \A i \in 1 .. Len(s) : w[i] = s[i]
  /\ \A i \in 1 .. m : w[Len(s) + i] = t[i]
Remains(w, s, m) ==
  /\ w \in Seq(Nat) /\ Len(w) = Len(s) - m
  /\ \A i \in 1 .. Len(s) - m : w[i] = s[m + i]

LEMMA ConcatItems ==
  ASSUME NEW s \in Seq(Nat), NEW t \in Seq(Nat)
  PROVE  Joined(s \o t, s, t, Len(t))
BY DEF Joined

LEMMA FrontItems ==
  ASSUME NEW s \in Seq(Nat), NEW n \in Nat
  PROVE  /\ Front(s, n) \in Seq(Nat)
         /\ Len(Front(s, n)) = IF n < Len(s) THEN n ELSE Len(s)
         /\ \A i \in 1 .. Len(Front(s, n)) : Front(s, n)[i] = s[i]
<1> DEFINE m == Lesser(n, Len(s))
<1>1. m \in Nat /\ m <= Len(s) /\ m = IF n < Len(s) THEN n ELSE Len(s)
  BY DEF Lesser
<1>2. Front(s, n) = SubSeq(s, 1, m)
  BY DEF Front
<1> HIDE DEF m
<1>3. /\ SubSeq(s, 1, m) \in Seq(Nat) /\ Len(SubSeq(s, 1, m)) = m
      /\ \A i \in 1 .. m : SubSeq(s, 1, m)[i] = s[i]
  BY <1>1
<1> QED BY <1>1, <1>2, <1>3

LEMMA BackItems ==
  ASSUME NEW s \in Seq(Nat), NEW n \in 0 .. Len(s)
  PROVE  Remains(SubSeq(s, n + 1, Len(s)), s, n)
<1>1. CASE n < Len(s)
  BY <1>1 DEF Remains
<1>2. CASE n = Len(s)
  <2>1. SubSeq(s, n + 1, Len(s)) = << >>
    BY <1>2, SubSeqEmpty
  <2> QED BY <1>2, <2>1 DEF Remains
<1> QED BY <1>1, <1>2

LEMMA RunItems ==
  ASSUME NEW m \in Nat, NEW n \in Nat
  PROVE  /\ Run(m, n) \in Seq(Nat) /\ Len(Run(m, n)) = n
         /\ \A i \in 1 .. n : Run(m, n)[i] = m + i
BY DEF Run

\* stream_enqueue puts the first bytes, all of them where there is room.
LEMMA EnqueueItems ==
  ASSUME TypeOK, NEW s \in Seq(Nat), Enqueue(s)
  PROVE  /\ Fits(s) \in 0 .. Len(s)
         /\ Len(response_queue) + Len(s) <= Capacity => Fits(s) = Len(s)
         /\ response_queue' \in Seq(Nat) /\ Len(response_queue') <= Capacity
         /\ Joined(response_queue', response_queue, s, Fits(s))
<1> DEFINE m == Fits(s)
           f == Front(s, m)
<1>1. /\ response_queue \in Seq(Nat) /\ Len(response_queue) \in Nat /\ Len(s) \in Nat
      /\ Len(response_queue) <= Capacity /\ Capacity \in Nat
  BY Bounds DEF TypeOK
<1>2. /\ m \in Nat /\ m <= Len(s) /\ m <= Capacity - Len(response_queue)
      /\ Len(response_queue) + Len(s) <= Capacity => m = Len(s)
  BY <1>1 DEF Fits, Lesser
<1>3. response_queue' = response_queue \o f
  BY DEF Enqueue
<1> HIDE DEF m
<1>4. f \in Seq(Nat) /\ Len(f) = m /\ \A i \in 1 .. m : f[i] = s[i]
  BY <1>1, <1>2, FrontItems
<1> HIDE DEF f
<1>5. /\ response_queue' \in Seq(Nat) /\ Len(response_queue') = Len(response_queue) + m
      /\ Joined(response_queue', response_queue, s, m)
  <2>1. Joined(response_queue', response_queue, f, m)
    BY <1>1, <1>3, <1>4, ConcatItems
  <2> QED BY <1>4, <2>1 DEF Joined
<1>6. Len(response_queue') <= Capacity
  BY <1>1, <1>2, <1>5
<1>7. m \in 0 .. Len(s)
  BY <1>1, <1>2
<1> QED BY <1>2, <1>5, <1>6, <1>7 DEF m
-----------------------------------------------------------------------------
(* Bytes move along the stream *)

\* m bytes of the third part go behind the second.
LEMMA Moved ==
  ASSUME NEW s \in Seq(Nat), NEW t \in Seq(Nat), NEW u \in Seq(Nat), NEW n \in Nat,
         Aligned(s, t, u, n), NEW m \in 0 .. Len(u),
         NEW t2, Joined(t2, t, u, m), NEW u2, Remains(u2, u, m)
  PROVE  Aligned(s, t2, u2, n)
<1>1. /\ Len(s) \in Nat /\ Len(t) \in Nat /\ Len(u) \in Nat /\ m \in Nat /\ m <= Len(u)
  OBVIOUS
<1>2. Len(s) + Len(t) + Len(u) = n
  BY DEF Aligned
<1>3. Len(t2) = Len(t) + m /\ Len(u2) = Len(u) - m
  BY DEF Joined, Remains
<1>4. ASSUME NEW i \in 1 .. Len(t2) PROVE t2[i] = Len(s) + i
  <2>1. CASE i <= Len(t)
    <3>1. i \in 1 .. Len(t)
      BY <1>1, <2>1
    <3>2. t2[i] = t[i] /\ t[i] = Len(s) + i
      BY <3>1 DEF Joined, Aligned
    <3> QED BY <3>2
  <2>2. CASE i > Len(t)
    <3> DEFINE j == i - Len(t)
    <3>1. j \in 1 .. m /\ j \in 1 .. Len(u) /\ Len(t) + j = i /\ j \in Nat
      BY <1>1, <1>3, <2>2
    <3> HIDE DEF j
    <3>2. t2[Len(t) + j] = u[j]
      BY <3>1 DEF Joined
    <3>3. u[j] = Len(s) + Len(t) + j
      BY <3>1 DEF Aligned
    <3>4. Len(s) + Len(t) + j = Len(s) + (Len(t) + j)
      BY <1>1, <3>1
    <3> QED BY <3>1, <3>2, <3>3, <3>4
  <2> QED BY <1>1, <1>3, <2>1, <2>2
<1>5. ASSUME NEW i \in 1 .. Len(u2) PROVE u2[i] = Len(s) + Len(t2) + i
  <2>1. i \in 1 .. Len(u) - m /\ m + i \in 1 .. Len(u) /\ i \in Nat
    BY <1>1, <1>3
  <2>2. u2[i] = u[m + i] /\ u[m + i] = Len(s) + Len(t) + (m + i)
    BY <2>1 DEF Remains, Aligned
  <2> QED BY <1>1, <1>3, <2>1, <2>2
<1>6. Len(s) + Len(t2) + Len(u2) = n
  <2>1. Len(s) + Len(t2) + Len(u2) = Len(s) + Len(t) + Len(u)
    BY <1>1, <1>3
  <2> QED BY <1>2, <2>1
<1> QED BY <1>4, <1>5, <1>6 DEF Aligned

\* m bytes of the second part go behind the first.
LEMMA Delivered ==
  ASSUME NEW s \in Seq(Nat), NEW t \in Seq(Nat), NEW u \in Seq(Nat), NEW n \in Nat,
         Aligned(s, t, u, n), NEW m \in 0 .. Len(t),
         NEW s2, Joined(s2, s, t, m), NEW t2, Remains(t2, t, m)
  PROVE  Aligned(s2, t2, u, n)
<1>1. /\ Len(s) \in Nat /\ Len(t) \in Nat /\ Len(u) \in Nat /\ m \in Nat /\ m <= Len(t)
  OBVIOUS
<1>2. Len(s) + Len(t) + Len(u) = n
  BY DEF Aligned
<1>3. Len(s2) = Len(s) + m /\ Len(t2) = Len(t) - m
  BY DEF Joined, Remains
<1>4. ASSUME NEW i \in 1 .. Len(s2) PROVE s2[i] = i
  <2>1. CASE i <= Len(s)
    <3>1. i \in 1 .. Len(s)
      BY <1>1, <2>1
    <3>2. s2[i] = s[i] /\ s[i] = i
      BY <3>1 DEF Joined, Aligned
    <3> QED BY <3>2
  <2>2. CASE i > Len(s)
    <3> DEFINE j == i - Len(s)
    <3>1. j \in 1 .. m /\ j \in 1 .. Len(t) /\ Len(s) + j = i /\ j \in Nat
      BY <1>1, <1>3, <2>2
    <3> HIDE DEF j
    <3>2. s2[Len(s) + j] = t[j] /\ t[j] = Len(s) + j
      BY <3>1 DEF Joined, Aligned
    <3> QED BY <3>1, <3>2
  <2> QED BY <1>1, <1>3, <2>1, <2>2
<1>5. ASSUME NEW i \in 1 .. Len(t2) PROVE t2[i] = Len(s2) + i
  <2>1. i \in 1 .. Len(t) - m /\ m + i \in 1 .. Len(t) /\ i \in Nat
    BY <1>1, <1>3
  <2>2. t2[i] = t[m + i] /\ t[m + i] = Len(s) + (m + i)
    BY <2>1 DEF Remains, Aligned
  <2> QED BY <1>1, <1>3, <2>1, <2>2
<1>6. Len(s2) + Len(t2) + Len(u) = n /\ Len(s2) + Len(t2) = Len(s) + Len(t)
  <2>1. /\ Len(s2) + Len(t2) + Len(u) = Len(s) + Len(t) + Len(u)
        /\ Len(s2) + Len(t2) = Len(s) + Len(t)
    BY <1>1, <1>3
  <2> QED BY <1>2, <2>1
<1>7. \A i \in 1 .. Len(u) : u[i] = Len(s2) + Len(t2) + i
  BY <1>6 DEF Aligned
<1> QED BY <1>4, <1>5, <1>6, <1>7 DEF Aligned

\* The call's own bytes go behind the kept ones.
LEMMA Extended ==
  ASSUME NEW s \in Seq(Nat), NEW t \in Seq(Nat), NEW u \in Seq(Nat), NEW n \in Nat,
         Aligned(s, t, u, n), NEW k \in Nat
  PROVE  Aligned(s, t, u \o Run(n, k), n + k)
<1> DEFINE r == Run(n, k)
           v == u \o r
<1>1. Len(s) \in Nat /\ Len(t) \in Nat /\ Len(u) \in Nat
  OBVIOUS
<1>2. Len(s) + Len(t) + Len(u) = n
  BY DEF Aligned
<1>3. r \in Seq(Nat) /\ Len(r) = k /\ \A i \in 1 .. k : r[i] = n + i
  BY RunItems
<1> HIDE DEF r
<1>4. Joined(v, u, r, k)
  BY <1>3, ConcatItems
<1> HIDE DEF v
<1>5. Len(v) = Len(u) + k
  BY <1>4 DEF Joined
<1>6. ASSUME NEW i \in 1 .. Len(v) PROVE v[i] = Len(s) + Len(t) + i
  <2>1. CASE i <= Len(u)
    <3>1. i \in 1 .. Len(u)
      BY <1>1, <2>1
    <3>2. v[i] = u[i] /\ u[i] = Len(s) + Len(t) + i
      BY <1>4, <3>1 DEF Joined, Aligned
    <3> QED BY <3>2
  <2>2. CASE i > Len(u)
    <3> DEFINE j == i - Len(u)
    <3>1. j \in 1 .. k /\ Len(u) + j = i /\ j \in Nat
      BY <1>1, <1>5, <2>2
    <3> HIDE DEF j
    <3>2. v[Len(u) + j] = r[j] /\ r[j] = n + j
      BY <1>3, <1>4, <3>1 DEF Joined
    <3>3. n + j = Len(s) + Len(t) + i
      BY <1>1, <1>2, <3>1
    <3> QED BY <3>1, <3>2, <3>3
  <2> QED BY <1>1, <1>5, <2>1, <2>2
<1>7. Len(s) + Len(t) + Len(v) = n + k
  <2>1. Len(s) + Len(t) + Len(v) = (Len(s) + Len(t) + Len(u)) + k
    BY <1>1, <1>5
  <2> QED BY <1>2, <2>1
<1>8. Aligned(s, t, v, n + k)
  BY <1>6, <1>7 DEF Aligned
<1> QED BY <1>8 DEF v, r

\* What is cut off the end leaves the stream aligned, and shorter.
LEMMA Cut ==
  ASSUME NEW s \in Seq(Nat), NEW t \in Seq(Nat), NEW u \in Seq(Nat), NEW n \in Nat,
         Aligned(s, t, u, n)
  PROVE  Aligned(s, t, << >>, n - Len(u))
<1>1. Len(s) \in Nat /\ Len(t) \in Nat /\ Len(u) \in Nat /\ Len(s) + Len(t) + Len(u) = n
  BY DEF Aligned
<1>2. Len(s) + Len(t) + 0 = n - Len(u)
  BY <1>1
<1> QED BY <1>2, EmptySeq DEF Aligned
-----------------------------------------------------------------------------
(* The steps *)

LEMMA Initially == Init => IInv
<1> SUFFICES ASSUME Init PROVE IInv
  OBVIOUS
<1>1. /\ response_queue = << >> /\ received = << >> /\ msg_more_buf = << >> /\ rest = << >>
      /\ spc = "idle" /\ len = 0 /\ count = 0 /\ taken = 0
  BY DEF Init
<1>2. TypeOK
  <2>1. client_read \in BOOLEAN /\ more \in BOOLEAN /\ tight \in BOOLEAN /\ overtaken \in BOOLEAN
    BY DEF Init
  <2>2. /\ response_queue \in Seq(Nat) /\ Len(response_queue) <= Capacity
        /\ received \in Seq(Nat) /\ rest \in Seq(Nat)
        /\ msg_more_buf \in Seq(Nat) /\ Len(msg_more_buf) < LO_MSS
    BY <1>1, EmptySeq, Bounds
  <2>3. /\ spc \in {"idle", "send", "first", "chunk", "next", "write", "only"}
        /\ len \in 0 .. MaxLen /\ count \in 0 .. MaxLen /\ taken \in 0 .. MaxBytes
    BY <1>1, Bounds
  <2> QED BY <2>1, <2>2, <2>3 DEF TypeOK
<1>3. spc = "idle" /\ spc \notin Chunking
  BY <1>1 DEF Chunking
<1>4. Outside
  <2>1. Len(<< >>) = 0 /\ 1 .. 0 = {} /\ 0 + 0 + 0 = 0
    BY EmptySeq
  <2> QED BY <1>1, <2>1 DEF Outside, Aligned
<1> QED BY <1>2, <1>3, <1>4 DEF IInv, Counted, Streamed

\* A step that moves no byte keeps the stream.
LEMMA Unmoved ==
  ASSUME Streamed,
         UNCHANGED <<received, response_queue, msg_more_buf, taken, tight, overtaken>>,
         spc' \in Chunking <=> spc \in Chunking,
         spc \in Chunking => UNCHANGED <<rest, count, len>>
  PROVE  Streamed'
<1>1. spc \notin Chunking /\ Outside => Outside'
  BY DEF Outside, Aligned
<1>2. spc \in Chunking /\ Within => Within'
  BY DEF Within, Aligned
<1> QED BY <1>1, <1>2 DEF Streamed, Chunking

LEMMA ReceiveKeeps ==
  ASSUME IInv, Receive
  PROVE  IInv'
<1>1. PICK n \in 1 .. Len(response_queue) :
        /\ received' = received \o Front(response_queue, n)
        /\ response_queue' = SubSeq(response_queue, n + 1, Len(response_queue))
  BY DEF Receive
<1>2. UNCHANGED <<client_read, msg_more_buf, spc, callVars, rest, count, taken, tight, overtaken>>
  BY DEF Receive
<1>3. /\ received \in Seq(Nat) /\ response_queue \in Seq(Nat)
      /\ Len(response_queue) <= Capacity /\ Len(response_queue) \in Nat
      /\ n \in Nat /\ n <= Len(response_queue) /\ n \in 0 .. Len(response_queue)
      /\ msg_more_buf \in Seq(Nat) /\ rest \in Seq(Nat) /\ taken \in Nat /\ len \in Nat
  BY Bounds DEF IInv, TypeOK
<1>4. Joined(received', received, response_queue, n)
  <2> DEFINE f == Front(response_queue, n)
  <2>1. f \in Seq(Nat) /\ Len(f) = n /\ \A i \in 1 .. n : f[i] = response_queue[i]
    BY <1>3, FrontItems
  <2> HIDE DEF f
  <2>2. Joined(received', received, f, n)
    BY <1>1, <1>3, <2>1, ConcatItems DEF f
  <2> QED BY <2>1, <2>2 DEF Joined
<1>5. Remains(response_queue', response_queue, n)
  BY <1>1, <1>3, BackItems
<1>6. /\ received' \in Seq(Nat) /\ response_queue' \in Seq(Nat)
      /\ Len(response_queue') = Len(response_queue) - n
  BY <1>4, <1>5 DEF Joined, Remains
<1>7. TypeOK'
  <2>1. Len(response_queue') <= Capacity
    BY <1>3, <1>6, Bounds
  <2> QED BY <1>2, <1>6, <2>1 DEF IInv, TypeOK, callVars
<1>8. Counted'
  BY <1>2 DEF IInv, Counted, callVars
<1>9. Streamed'
  <2>1. Outside => Outside'
    <3>1. Outside => Aligned(received', response_queue', msg_more_buf, taken)
      BY <1>3, <1>4, <1>5, Delivered DEF Outside
    <3> QED BY <1>2, <3>1 DEF Outside
  <2>2. Within => Within'
    <3> SUFFICES ASSUME Within PROVE Within'
      OBVIOUS
    <3>1. taken + len \in Nat
      BY <1>3
    <3>2. Aligned(received', response_queue', rest, taken + len)
      BY <1>3, <1>4, <1>5, <3>1, Delivered DEF Within
    <3>3. Len(response_queue') + Len(rest) <= Capacity
      BY <1>3, <1>6, Bounds DEF Within
    <3> QED BY <1>2, <3>2, <3>3 DEF Within, callVars
  <2> QED BY <1>2, <2>1, <2>2 DEF IInv, Streamed
<1> QED BY <1>7, <1>8, <1>9 DEF IInv

\* Closing, beginning a call and waiting.
LEMMA WaitingKeeps ==
  ASSUME IInv,
         \/ ClientClose
         \/ \E n \in 0 .. MaxLen, m \in BOOLEAN : Start("send", n, m)
         \/ \E n \in 0 .. MaxLen : Start("write", n, FALSE)
         \/ WaitSend \/ WaitWrite \/ WaitChunk
  PROVE  IInv'
<1> USE DEF IInv
<1>1. CASE ClientClose
  <2>1. TypeOK'
    BY <1>1 DEF TypeOK, ClientClose, callVars
  <2>2. Counted'
    BY <1>1 DEF Counted, ClientClose, callVars
  <2>3. Streamed'
    BY <1>1, Unmoved DEF ClientClose, callVars
  <2> QED BY <2>1, <2>2, <2>3
<1>2. ASSUME NEW call \in {"send", "write"}, NEW n \in 0 .. MaxLen, NEW m \in BOOLEAN,
             Start(call, n, m)
      PROVE  IInv'
  <2>1. TypeOK'
    BY <1>2 DEF TypeOK, Start, queueVars
  <2>2. spc' \notin Chunking /\ spc \notin Chunking
    BY <1>2 DEF Start, Chunking
  <2>3. Counted'
    BY <1>2, <2>2 DEF Counted, Start
  <2>4. Streamed'
    BY <1>2, <2>2, Unmoved DEF Start, queueVars
  <2> QED BY <2>1, <2>3, <2>4
<1>3. ASSUME NEW call \in {"send", "write"}, NEW next \in {"first", "only"}, Wait(call, next)
      PROVE  IInv'
  <2>1. TypeOK'
    BY <1>3 DEF TypeOK, Wait, queueVars, callVars
  <2>2. spc' \notin Chunking /\ spc \notin Chunking /\ spc # "idle"
    BY <1>3 DEF Wait, Chunking
  <2>3. Counted'
    BY <1>3, <2>2 DEF Counted, Wait, callVars
  <2>4. Streamed'
    BY <1>3, <2>2, Unmoved DEF Wait, queueVars
  <2> QED BY <2>1, <2>3, <2>4
<1>4. CASE WaitChunk
  <2>1. TypeOK'
    BY <1>4 DEF TypeOK, WaitChunk, queueVars, callVars
  <2>2. spc' \in Chunking /\ spc \in Chunking /\ spc # "idle"
    BY <1>4 DEF WaitChunk, Chunking
  <2>3. Counted'
    BY <1>4, <2>2 DEF Counted, WaitChunk, callVars
  <2>4. Streamed'
    BY <1>4, <2>2, Unmoved DEF WaitChunk, queueVars, callVars
  <2> QED BY <2>1, <2>3, <2>4
<1>5. (\E n \in 0 .. MaxLen : Start("write", n, FALSE)) => IInv'
  BY <1>2
<1>6. (\E n \in 0 .. MaxLen, m \in BOOLEAN : Start("send", n, m)) => IInv'
  BY <1>2
<1> QED BY <1>1, <1>3, <1>4, <1>5, <1>6 DEF WaitSend, WaitWrite

\* The numbers and buffers every step finds.
LEMMA Sizes ==
  ASSUME IInv
  PROVE  /\ received \in Seq(Nat) /\ response_queue \in Seq(Nat)
         /\ msg_more_buf \in Seq(Nat) /\ rest \in Seq(Nat)
         /\ Len(response_queue) \in Nat /\ Len(response_queue) <= Capacity
         /\ Len(msg_more_buf) \in Nat /\ Len(msg_more_buf) < LO_MSS /\ Len(rest) \in Nat
         /\ len \in Nat /\ len <= MaxLen /\ count \in Nat /\ count <= MaxLen
         /\ taken \in Nat /\ taken <= MaxBytes /\ taken + len \in Nat
         /\ Capacity \in Nat /\ LO_MSS \in Nat /\ LO_MSS > 0
         /\ MaxLen \in Nat /\ MaxBytes \in Nat
<1>1. Len(response_queue) \in Nat /\ Len(msg_more_buf) \in Nat /\ Len(rest) \in Nat
  BY DEF IInv, TypeOK
<1> QED BY <1>1, Bounds DEF IInv, TypeOK

\* The bytes of a send: the kept ones and its own.
LEMMA TotalItems ==
  ASSUME IInv
  PROVE  /\ Bytes \in Seq(Nat) /\ Len(Bytes) = len
         /\ Total \in Seq(Nat) /\ Len(Total) = Len(msg_more_buf) + len
         /\ Outside => Aligned(received, response_queue, Total, taken + len)
<1>1. Bytes \in Seq(Nat) /\ Len(Bytes) = len
  BY Sizes, RunItems DEF Bytes
<1>2. Joined(Total, msg_more_buf, Bytes, len)
  BY <1>1, Sizes, ConcatItems DEF Total
<1>3. Outside => Aligned(received, response_queue, Total, taken + len)
  BY Sizes, Extended DEF Outside, Total, Bytes
<1> QED BY <1>1, <1>2, <1>3 DEF Joined

LEMMA KeepKeeps ==
  ASSUME IInv, Keep
  PROVE  IInv'
<1>1. /\ msg_more_buf' = Total /\ Len(msg_more_buf) + len < LO_MSS /\ spc = "first"
      /\ spc' = "idle" /\ taken' = taken + len /\ count' = len
      /\ UNCHANGED <<queueVars, callVars, rest, tight, overtaken>>
  BY DEF Keep, Keeps, Finish
<1>2. spc \notin Chunking /\ spc' \notin Chunking /\ taken + len <= MaxBytes
  BY <1>1 DEF IInv, Counted, Chunking
<1>3. TypeOK'
  <2>1. msg_more_buf' \in Seq(Nat) /\ Len(msg_more_buf') < LO_MSS
    BY <1>1, TotalItems
  <2>2. taken' \in 0 .. MaxBytes /\ count' \in 0 .. MaxLen
    BY <1>1, <1>2, Sizes
  <2> QED BY <1>1, <2>1, <2>2 DEF IInv, TypeOK, queueVars, callVars
<1>4. Counted'
  BY <1>1, <1>2 DEF Counted
<1>5. Streamed'
  <2>1. Outside => Outside'
    BY <1>1, TotalItems DEF Outside, queueVars
  <2> QED BY <1>1, <1>2, <2>1 DEF IInv, Streamed
<1> QED BY <1>3, <1>4, <1>5 DEF IInv

\* A chunk of s is put: its first items, all of them where there is room.
LEMMA ChunkItems ==
  ASSUME IInv, NEW s \in Seq(Nat), Enqueue(Front(s, LO_MSS))
  PROVE  LET k == Fits(Front(s, LO_MSS))
         IN  /\ k \in 0 .. Len(s) /\ k <= LO_MSS
             /\ response_queue' \in Seq(Nat) /\ Len(response_queue') <= Capacity
             /\ Joined(response_queue', response_queue, s, k)
             /\ Len(response_queue) + Len(s) <= Capacity =>
                  k = IF LO_MSS < Len(s) THEN LO_MSS ELSE Len(s)
<1> DEFINE f == Front(s, LO_MSS)
           k == Fits(f)
<1>1. Len(s) \in Nat /\ LO_MSS \in Nat
  BY Bounds
<1>2. /\ f \in Seq(Nat) /\ Len(f) = IF LO_MSS < Len(s) THEN LO_MSS ELSE Len(s)
      /\ \A i \in 1 .. Len(f) : f[i] = s[i]
  BY <1>1, FrontItems
<1> HIDE DEF f
<1>L. Len(f) \in Nat /\ Len(f) <= Len(s) /\ Len(f) <= LO_MSS
  BY <1>1, <1>2
<1>3. /\ k \in 0 .. Len(f)
      /\ Len(response_queue) + Len(f) <= Capacity => k = Len(f)
      /\ response_queue' \in Seq(Nat) /\ Len(response_queue') <= Capacity
      /\ Joined(response_queue', response_queue, f, k)
  BY <1>2, EnqueueItems DEF f, IInv
<1> HIDE DEF k
<1>4. k \in Nat /\ k <= Len(f)
  BY <1>L, <1>3
<1>5. k \in 0 .. Len(s) /\ k <= LO_MSS
  BY <1>1, <1>L, <1>4
<1>6. \A i \in 1 .. k : f[i] = s[i]
  BY <1>2, <1>4
<1>7. Joined(response_queue', response_queue, s, k)
  BY <1>3, <1>6 DEF Joined
<1>8. Len(response_queue) + Len(s) <= Capacity => k = Len(f)
  <2>1. Len(response_queue) + Len(s) <= Capacity => Len(response_queue) + Len(f) <= Capacity
    BY <1>1, <1>L, Sizes
  <2> QED BY <1>3, <2>1
<1>9. Len(response_queue) + Len(s) <= Capacity =>
        k = IF LO_MSS < Len(s) THEN LO_MSS ELSE Len(s)
  BY <1>2, <1>8
<1> QED BY <1>3, <1>5, <1>7, <1>9 DEF f, k

\* What follows a chunk of s, where all of it was put.
LEMMA BehindItems ==
  ASSUME IInv, NEW s \in Seq(Nat), Len(s) >= LO_MSS
  PROVE  /\ Behind(s) \in Seq(Nat) /\ Len(Behind(s)) = Len(s) - LO_MSS
         /\ Remains(Behind(s), s, LO_MSS)
<1>1. LO_MSS \in 0 .. Len(s)
  BY Sizes
<1>2. Remains(Behind(s), s, LO_MSS)
  BY <1>1, BackItems DEF Behind
<1> QED BY <1>2 DEF Remains

LEMMA FirstChunkKeeps ==
  ASSUME IInv, FirstChunk
  PROVE  IInv'
<1> DEFINE k == Fits(Front(Total, LO_MSS))
           t == Total
           Lm == Len(msg_more_buf)
<1>1. /\ spc = "first" /\ Enqueue(Front(t, LO_MSS)) /\ msg_more_buf' = << >>
      /\ UNCHANGED <<received, client_read, callVars, overtaken>>
  BY DEF FirstChunk
<1>2. /\ Len(t) < LO_MSS => Finish(OwnOf(k)) /\ rest' = rest
      /\ ~(Len(t) < LO_MSS) =>
           spc' = "chunk" /\ count' = OwnOf(k) /\ rest' = Behind(t) /\ taken' = taken
  BY DEF FirstChunk
<1>3. /\ tight' \in BOOLEAN
      /\ ~tight' => /\ ~tight
                    /\ \/ Len(response_queue) + Len(t) <= Capacity
                       \/ Len(t) < LO_MSS /\ msg_more_buf = << >>
  <2>1. Len(response_queue) + Len(t) \in Nat /\ Len(t) \in Nat /\ Capacity \in Nat /\ LO_MSS \in Nat
    BY Sizes, TotalItems
  <2>2. /\ ~(Len(response_queue) + Len(t) > Capacity) => Len(response_queue) + Len(t) <= Capacity
        /\ ~(Len(t) >= LO_MSS) => Len(t) < LO_MSS
    BY <2>1
  <2>3. tight' = (tight \/ (Len(response_queue) + Len(t) > Capacity
                            /\ (Len(t) >= LO_MSS \/ msg_more_buf # << >>)))
    BY DEF FirstChunk
  <2>4. tight \in BOOLEAN
    BY DEF IInv, TypeOK
  <2> QED BY <2>2, <2>3, <2>4, Zenon
<1>4. /\ k \in 0 .. Len(t) /\ k <= LO_MSS
      /\ response_queue' \in Seq(Nat) /\ Len(response_queue') <= Capacity
      /\ Joined(response_queue', response_queue, t, k)
      /\ Len(response_queue) + Len(t) <= Capacity =>
           k = IF LO_MSS < Len(t) THEN LO_MSS ELSE Len(t)
  BY <1>1, ChunkItems, TotalItems
<1>5. /\ t \in Seq(Nat) /\ Len(t) = Lm + len
      /\ Outside => Aligned(received, response_queue, t, taken + len)
  BY TotalItems
<1>6. /\ taken + len <= MaxBytes /\ spc \notin Chunking
      /\ ~tight /\ ~overtaken => Outside
  BY <1>1 DEF IInv, Counted, Streamed, Chunking
<1>7. OwnOf(k) = IF k - Lm > 0 THEN k - Lm ELSE 0
  BY DEF OwnOf, Greater
<1> HIDE DEF k, t
<1>8. /\ Lm \in Nat /\ Lm < LO_MSS /\ LO_MSS \in Nat /\ len \in Nat /\ len <= MaxLen
      /\ taken \in Nat /\ taken + len <= MaxBytes /\ MaxLen \in Nat /\ MaxBytes \in Nat
      /\ msg_more_buf \in Seq(Nat)
  BY <1>6, Sizes
<1> HIDE DEF Lm
<1>9. /\ k \in Nat /\ k <= Lm + len /\ k <= LO_MSS
  BY <1>4, <1>5, <1>8
<1>10. OwnOf(k) \in Nat /\ OwnOf(k) <= len /\ OwnOf(k) <= MaxLen /\ taken + OwnOf(k) <= MaxBytes
  BY <1>7, <1>8, <1>9
<1>11. /\ ~(Len(t) < LO_MSS) => Len(t) >= LO_MSS
       /\ Len(t) \in Nat
  BY <1>5, <1>8
<1>12. TypeOK'
  <2>1. /\ received' \in Seq(Nat) /\ client_read' \in BOOLEAN /\ len' \in 0 .. MaxLen
        /\ more' \in BOOLEAN /\ overtaken' \in BOOLEAN
    BY <1>1 DEF IInv, TypeOK, callVars
  <2>2. msg_more_buf' \in Seq(Nat) /\ Len(msg_more_buf') < LO_MSS
    BY <1>1, EmptySeq, Bounds
  <2>3. spc' \in {"idle", "send", "first", "chunk", "next", "write", "only"}
    BY <1>2 DEF Finish
  <2>4. rest' \in Seq(Nat)
    BY <1>2, <1>5, <1>11, Sizes, BehindItems
  <2>5. count' \in 0 .. MaxLen
    <3>1. count' = OwnOf(k)
      BY <1>2 DEF Finish
    <3> QED BY <1>8, <1>10, <3>1
  <2>6. taken' \in 0 .. MaxBytes
    <3>1. taken' = taken + OwnOf(k) \/ taken' = taken
      BY <1>2 DEF Finish
    <3> QED BY <1>8, <1>10, <3>1
  <2> QED BY <1>3, <1>4, <2>1, <2>2, <2>3, <2>4, <2>5, <2>6 DEF TypeOK
<1>13. CASE Len(t) < LO_MSS
  <2>1. spc' = "idle" /\ taken' = taken + OwnOf(k) /\ spc' \notin Chunking
    BY <1>2, <1>13 DEF Finish, Chunking
  <2>2. Counted'
    BY <2>1 DEF Counted
  <2>3. ASSUME ~tight', ~overtaken' PROVE Outside'
    <3> DEFINE u == SubSeq(t, k + 1, Len(t))
    <3>1. /\ Aligned(received, response_queue, t, taken + len)
          /\ Len(response_queue) + Len(t) <= Capacity \/ msg_more_buf = << >>
      BY <1>1, <1>3, <1>5, <1>6, <2>3
    <3>2. Remains(u, t, k) /\ u \in Seq(Nat) /\ Len(u) = Len(t) - k
      BY <1>4, <1>5, BackItems DEF Remains
    <3> HIDE DEF u
    <3>3. Aligned(received, response_queue', u, taken + len)
      BY <1>4, <1>5, <3>1, <3>2, Sizes, Moved
    <3>4. Aligned(received, response_queue', << >>, (taken + len) - Len(u))
      BY <1>4, <3>2, <3>3, Sizes, Cut
    <3>5. k >= Lm
      <4>1. CASE msg_more_buf = << >>
        BY <1>9, <4>1, EmptySeq DEF Lm
      <4>2. CASE Len(response_queue) + Len(t) <= Capacity
        <5>1. k = Len(t)
          BY <1>4, <1>8, <1>11, <1>13, <4>2
        <5> QED BY <1>5, <1>8, <5>1
      <4> QED BY <3>1, <4>1, <4>2
    <3>6. (taken + len) - Len(u) = taken + OwnOf(k)
      BY <1>5, <1>7, <1>8, <1>9, <3>2, <3>5
    <3> QED BY <1>1, <2>1, <3>4, <3>6 DEF Outside
  <2>4. Streamed'
    BY <2>1, <2>3 DEF Streamed
  <2> QED BY <1>12, <2>2, <2>4 DEF IInv
<1>14. CASE ~(Len(t) < LO_MSS)
  <2>1. /\ spc' = "chunk" /\ count' = OwnOf(k) /\ rest' = Behind(t) /\ taken' = taken
        /\ spc' \in Chunking /\ spc' # "idle" /\ len' = len
    BY <1>1, <1>2, <1>14 DEF Chunking, callVars
  <2>2. /\ rest' \in Seq(Nat) /\ Len(rest') = Len(t) - LO_MSS
        /\ Remains(rest', t, LO_MSS)
    BY <1>5, <1>11, <1>14, <2>1, BehindItems
  <2>3. OwnOf(k) + Len(rest') <= len
    BY <1>5, <1>7, <1>8, <1>9, <2>2
  <2>4. Counted'
    BY <1>1, <1>8, <2>1, <2>3 DEF Counted
  <2>5. ASSUME ~tight', ~overtaken' PROVE Within'
    <3>1. /\ Aligned(received, response_queue, t, taken + len)
          /\ Len(response_queue) + Len(t) <= Capacity
      BY <1>1, <1>3, <1>5, <1>6, <1>14, <2>5
    <3>2. k = LO_MSS
      BY <1>4, <1>8, <1>11, <1>14, <3>1
    <3>3. Aligned(received, response_queue', rest', taken + len)
      BY <1>4, <1>5, <2>2, <3>1, <3>2, Sizes, Moved
    <3>4. OwnOf(k) + Len(rest') = len
      BY <1>5, <1>7, <1>8, <2>2, <3>2
    <3>5. Len(response_queue') = Len(response_queue) + k
      BY <1>4 DEF Joined
    <3>6. Len(response_queue') + Len(rest') <= Capacity
      BY <1>5, <1>8, <1>9, <1>11, <2>2, <3>1, <3>2, <3>5, Sizes
    <3> QED BY <1>1, <2>1, <3>3, <3>4, <3>6 DEF Within
  <2>6. Streamed'
    BY <2>1, <2>5 DEF Streamed
  <2> QED BY <1>12, <2>4, <2>6 DEF IInv
<1> QED BY <1>13, <1>14

LEMMA NextChunkKeeps ==
  ASSUME IInv, NextChunk
  PROVE  IInv'
<1> DEFINE k == Fits(Front(rest, LO_MSS))
<1>1. /\ spc = "next" /\ Enqueue(Front(rest, LO_MSS))
      /\ Len(rest) < LO_MSS => Finish(count + k) /\ rest' = rest
      /\ ~(Len(rest) < LO_MSS) =>
           spc' = "chunk" /\ count' = count + k /\ rest' = Behind(rest) /\ taken' = taken
      /\ UNCHANGED <<received, client_read, msg_more_buf, callVars, tight, overtaken>>
  BY DEF NextChunk
<1>2. /\ spc \in Chunking /\ taken + len <= MaxBytes
      /\ count + Len(rest) <= len /\ msg_more_buf = << >>
      /\ ~tight /\ ~overtaken => Within
  BY <1>1 DEF IInv, Counted, Streamed, Chunking
<1>3. /\ k \in 0 .. Len(rest) /\ k <= LO_MSS
      /\ response_queue' \in Seq(Nat) /\ Len(response_queue') <= Capacity
      /\ Joined(response_queue', response_queue, rest, k)
      /\ Len(response_queue) + Len(rest) <= Capacity =>
           k = IF LO_MSS < Len(rest) THEN LO_MSS ELSE Len(rest)
  BY <1>1, Sizes, ChunkItems
<1> HIDE DEF k
<1>4. /\ Len(rest) \in Nat /\ k \in Nat /\ k <= Len(rest) /\ k <= LO_MSS /\ LO_MSS \in Nat
      /\ count \in Nat /\ len \in Nat /\ len <= MaxLen /\ MaxLen \in Nat
      /\ taken \in Nat /\ MaxBytes \in Nat /\ Len(response_queue) \in Nat /\ Capacity \in Nat
  BY <1>3, Sizes
<1>5. /\ count + k \in Nat /\ count + k <= len /\ count + k <= MaxLen
      /\ taken + (count + k) <= MaxBytes
  BY <1>2, <1>4
<1>6. ~(Len(rest) < LO_MSS) => Len(rest) >= LO_MSS
  BY <1>4
<1>7. TypeOK'
  <2>1. /\ received' \in Seq(Nat) /\ client_read' \in BOOLEAN /\ len' \in 0 .. MaxLen
        /\ more' \in BOOLEAN /\ tight' \in BOOLEAN /\ overtaken' \in BOOLEAN
        /\ msg_more_buf' \in Seq(Nat) /\ Len(msg_more_buf') < LO_MSS
    BY <1>1 DEF IInv, TypeOK, callVars
  <2>2. spc' \in {"idle", "send", "first", "chunk", "next", "write", "only"}
    BY <1>1 DEF Finish
  <2>3. rest' \in Seq(Nat)
    BY <1>1, <1>6, Sizes, BehindItems
  <2>4. count' \in 0 .. MaxLen
    <3>1. count' = count + k
      BY <1>1 DEF Finish
    <3> QED BY <1>4, <1>5, <3>1
  <2>5. taken' \in 0 .. MaxBytes
    <3>1. taken' = taken + (count + k) \/ taken' = taken
      BY <1>1 DEF Finish
    <3>2. taken \in 0 .. MaxBytes
      BY DEF IInv, TypeOK
    <3> QED BY <1>4, <1>5, <3>1, <3>2
  <2> QED BY <1>3, <2>1, <2>2, <2>3, <2>4, <2>5 DEF TypeOK
<1>8. CASE Len(rest) < LO_MSS
  <2>1. spc' = "idle" /\ taken' = taken + (count + k) /\ spc' \notin Chunking
    BY <1>1, <1>8 DEF Finish, Chunking
  <2>2. Counted'
    BY <2>1 DEF Counted
  <2>3. ASSUME ~tight', ~overtaken' PROVE Outside'
    <3>1. /\ Aligned(received, response_queue, rest, taken + len)
          /\ count + Len(rest) = len /\ Len(response_queue) + Len(rest) <= Capacity
      BY <1>1, <1>2, <2>3 DEF Within
    <3>2. k = Len(rest)
      BY <1>3, <1>4, <1>8, <3>1
    <3>3. Remains(<< >>, rest, k)
      <4>1. Len(<< >>) = Len(rest) - k /\ 1 .. Len(rest) - k = {}
        BY <1>4, <3>2, EmptySeq
      <4> QED BY <4>1, EmptySeq DEF Remains
    <3>4. Aligned(received, response_queue', << >>, taken + len)
      BY <1>3, <3>1, <3>3, Sizes, Moved
    <3>5. taken + len = taken + (count + k)
      BY <3>1, <3>2
    <3> QED BY <1>1, <1>2, <2>1, <3>4, <3>5 DEF Outside
  <2>4. Streamed'
    BY <2>1, <2>3 DEF Streamed
  <2> QED BY <1>7, <2>2, <2>4 DEF IInv
<1>9. CASE ~(Len(rest) < LO_MSS)
  <2>1. /\ spc' = "chunk" /\ count' = count + k /\ rest' = Behind(rest) /\ taken' = taken
        /\ spc' \in Chunking /\ spc' # "idle" /\ len' = len
    BY <1>1, <1>9 DEF Chunking, callVars
  <2>2. /\ rest' \in Seq(Nat) /\ Len(rest') = Len(rest) - LO_MSS
        /\ Remains(rest', rest, LO_MSS)
    BY <1>6, <1>9, <2>1, Sizes, BehindItems
  <2>3. count' + Len(rest') <= len
    BY <1>2, <1>4, <2>1, <2>2
  <2>4. Counted'
    BY <1>1, <1>2, <2>1, <2>3 DEF Counted
  <2>5. ASSUME ~tight', ~overtaken' PROVE Within'
    <3>1. /\ Aligned(received, response_queue, rest, taken + len)
          /\ count + Len(rest) = len /\ Len(response_queue) + Len(rest) <= Capacity
      BY <1>1, <1>2, <2>5 DEF Within
    <3>2. k = LO_MSS
      BY <1>3, <1>4, <1>6, <1>9, <3>1
    <3>3. Aligned(received, response_queue', rest', taken + len)
      BY <1>3, <2>2, <3>1, <3>2, Sizes, Moved
    <3>4. count' + Len(rest') = len
      BY <1>4, <2>1, <2>2, <3>1, <3>2
    <3>5. Len(response_queue') = Len(response_queue) + k
      BY <1>3 DEF Joined
    <3>6. Len(response_queue') + Len(rest') <= Capacity
      BY <1>4, <2>2, <3>1, <3>2, <3>5
    <3> QED BY <1>1, <2>1, <3>3, <3>4, <3>6 DEF Within
  <2>6. Streamed'
    BY <2>1, <2>5 DEF Streamed
  <2> QED BY <1>7, <2>4, <2>6 DEF IInv
<1> QED BY <1>8, <1>9

LEMMA WriteOnceKeeps ==
  ASSUME IInv, WriteOnce
  PROVE  IInv'
<1> DEFINE k == Fits(Bytes)
           b == Bytes
<1>1. /\ spc = "only" /\ Enqueue(b)
      /\ spc' = "idle" /\ taken' = taken + k /\ count' = k
      /\ UNCHANGED <<received, client_read, msg_more_buf, callVars, rest, tight>>
  BY DEF WriteOnce, Finish
<1>2. /\ spc \notin Chunking /\ spc' \notin Chunking /\ taken + len <= MaxBytes
      /\ ~tight /\ ~overtaken => Outside
  BY <1>1 DEF IInv, Counted, Streamed, Chunking
<1>3. /\ b \in Seq(Nat) /\ Len(b) = len
      /\ k \in 0 .. Len(b)
      /\ response_queue' \in Seq(Nat) /\ Len(response_queue') <= Capacity
      /\ Joined(response_queue', response_queue, b, k)
  BY <1>1, TotalItems, EnqueueItems DEF IInv
<1>4. /\ overtaken' \in BOOLEAN
      /\ ~overtaken' => ~overtaken /\ (msg_more_buf = << >> \/ k = 0)
  <2>1. k \in Nat
    BY <1>3
  <2>2. ~(k > 0) => k = 0
    BY <2>1
  <2>3. overtaken' = (overtaken \/ (msg_more_buf # << >> /\ k > 0))
    BY DEF WriteOnce
  <2>4. overtaken \in BOOLEAN
    BY DEF IInv, TypeOK
  <2> QED BY <2>2, <2>3, <2>4, Zenon
<1>5. /\ taken \in Nat /\ len \in Nat /\ len <= MaxLen /\ MaxLen \in Nat /\ MaxBytes \in Nat
  BY Sizes
<1>6. b = Run(taken, len)
  BY DEF Bytes
<1> HIDE DEF k, b
<1>7. k \in Nat /\ k <= len
  BY <1>3, <1>5
<1>8. TypeOK'
  <2>1. taken' \in 0 .. MaxBytes
    BY <1>1, <1>2, <1>5, <1>7
  <2>2. count' \in 0 .. MaxLen
    BY <1>1, <1>5, <1>7
  <2>3. spc' \in {"idle", "send", "first", "chunk", "next", "write", "only"}
    BY <1>1
  <2> QED BY <1>1, <1>3, <1>4, <2>1, <2>2, <2>3 DEF IInv, TypeOK, callVars
<1>9. Counted'
  BY <1>1, <1>2 DEF Counted
<1>10. ASSUME ~tight', ~overtaken' PROVE Outside'
  <2>1. Aligned(received, response_queue, msg_more_buf, taken)
    BY <1>1, <1>2, <1>4, <1>10 DEF Outside
  <2>2. CASE msg_more_buf = << >>
    <3> DEFINE u == SubSeq(b, k + 1, Len(b))
    <3>1. << >> \o b = b
      BY <1>3
    <3>2. Aligned(received, response_queue, b, taken + len)
      BY <1>6, <2>1, <2>2, <3>1, Sizes, Extended
    <3>3. Remains(u, b, k) /\ u \in Seq(Nat) /\ Len(u) = len - k
      BY <1>3, BackItems DEF Remains
    <3> HIDE DEF u
    <3>4. Aligned(received, response_queue', u, taken + len)
      BY <1>3, <3>2, <3>3, Sizes, Moved
    <3>5. Aligned(received, response_queue', << >>, (taken + len) - Len(u))
      BY <1>3, <3>3, <3>4, Sizes, Cut
    <3>6. (taken + len) - Len(u) = taken + k
      BY <1>5, <1>7, <3>3
    <3> QED BY <1>1, <2>2, <3>5, <3>6 DEF Outside
  <2>3. CASE k = 0
    <3>1. Remains(msg_more_buf, msg_more_buf, 0)
      BY Sizes DEF Remains
    <3>2. Joined(response_queue', response_queue, msg_more_buf, 0)
      BY <1>3, <2>3 DEF Joined
    <3>3. 0 \in 0 .. Len(msg_more_buf)
      BY Sizes
    <3>4. Aligned(received, response_queue', msg_more_buf, taken)
      BY <2>1, <3>1, <3>2, <3>3, Sizes, Moved
    <3>5. taken' = taken
      BY <1>1, <1>5, <2>3
    <3> QED BY <1>1, <3>4, <3>5 DEF Outside
  <2> QED BY <1>4, <1>10, <2>2, <2>3
<1>11. Streamed'
  BY <1>2, <1>10 DEF Streamed
<1> QED BY <1>8, <1>9, <1>11 DEF IInv
-----------------------------------------------------------------------------
(* The theorems *)

LEMMA StutterKeeps ==
  ASSUME IInv, UNCHANGED vars
  PROVE  IInv'
<1>1. UNCHANGED <<response_queue, received, client_read, msg_more_buf, spc, len, more,
                  rest, count, taken, tight, overtaken>>
  BY DEF vars, queueVars, callVars
<1>2. TypeOK'
  BY <1>1 DEF IInv, TypeOK
<1>3. Counted'
  BY <1>1 DEF IInv, Counted
<1>4. Streamed'
  BY <1>1, Unmoved DEF IInv
<1> QED BY <1>2, <1>3, <1>4 DEF IInv

LEMMA Inductive == Spec => []IInv
<1>1. IInv /\ [Next]_vars => IInv'
  <2> SUFFICES ASSUME IInv, [Next]_vars PROVE IInv'
    OBVIOUS
  <2>1. CASE Receive
    BY <2>1, ReceiveKeeps
  <2>2. CASE Keep
    BY <2>2, KeepKeeps
  <2>3. CASE FirstChunk
    BY <2>3, FirstChunkKeeps
  <2>4. CASE NextChunk
    BY <2>4, NextChunkKeeps
  <2>5. CASE WriteOnce
    BY <2>5, WriteOnceKeeps
  <2>6. CASE \/ ClientClose
             \/ \E n \in 0 .. MaxLen, m \in BOOLEAN : Start("send", n, m)
             \/ \E n \in 0 .. MaxLen : Start("write", n, FALSE)
             \/ WaitSend \/ WaitWrite \/ WaitChunk
    BY <2>6, WaitingKeeps
  <2>7. CASE UNCHANGED vars
    BY <2>7, StutterKeeps
  <2> QED BY <2>1, <2>2, <2>3, <2>4, <2>5, <2>6, <2>7 DEF Next, ServerStep
<1> QED BY <1>1, Initially, PTL DEF Spec

\* Every variable keeps its type: the queue stays within its capacity, and what
\* send keeps for later stays less than a chunk.
THEOREM TypesKept == Spec => []TypeOK
<1>1. IInv => TypeOK
  BY DEF IInv
<1> QED BY <1>1, Inductive, PTL

\* Between two calls the client has read, the queue holds and the buffer keeps
\* exactly the bytes that send and write have said they took.
THEOREM StreamDelivered == Spec => []StreamIntact
<1>1. IInv => StreamIntact
  <2> SUFFICES ASSUME IInv, spc = "idle", ~tight, ~overtaken
               PROVE  received \o response_queue \o msg_more_buf = Run(0, taken)
    BY DEF StreamIntact
  <2> DEFINE v == received \o response_queue
             w == v \o msg_more_buf
             r == Run(0, taken)
  <2>1. Aligned(received, response_queue, msg_more_buf, taken)
    BY DEF IInv, Streamed, Outside, Chunking
  <2>2. r \in Seq(Nat) /\ Len(r) = taken /\ \A i \in 1 .. taken : r[i] = 0 + i
    BY Sizes, RunItems
  <2> HIDE DEF r
  <2>3. v \in Seq(Nat) /\ Len(v) = Len(received) + Len(response_queue)
        /\ Aligned(v, << >>, msg_more_buf, taken)
    <3>1. Joined(v, received, response_queue, Len(response_queue))
      BY Sizes, ConcatItems
    <3>2. Remains(<< >>, response_queue, Len(response_queue))
      <4>1. Len(<< >>) = Len(response_queue) - Len(response_queue)
            /\ 1 .. Len(response_queue) - Len(response_queue) = {}
        BY Sizes, EmptySeq
      <4> QED BY <4>1, EmptySeq DEF Remains
    <3>3. Len(response_queue) \in 0 .. Len(response_queue)
      BY Sizes
    <3>4. Aligned(v, << >>, msg_more_buf, taken)
      BY <2>1, <3>1, <3>2, <3>3, Sizes, Delivered
    <3> QED BY <3>1, <3>4 DEF Joined
  <2> HIDE DEF v
  <2>4. w \in Seq(Nat) /\ Len(w) = Len(v) + Len(msg_more_buf)
        /\ Aligned(w, << >>, << >>, taken)
    <3>1. Joined(w, v, msg_more_buf, Len(msg_more_buf))
      BY <2>3, Sizes, ConcatItems
    <3>2. Remains(<< >>, msg_more_buf, Len(msg_more_buf))
      <4>1. Len(<< >>) = Len(msg_more_buf) - Len(msg_more_buf)
            /\ 1 .. Len(msg_more_buf) - Len(msg_more_buf) = {}
        BY Sizes, EmptySeq
      <4> QED BY <4>1, EmptySeq DEF Remains
    <3>3. Aligned(v, msg_more_buf, << >>, taken)
      BY <2>3, EmptySeq DEF Aligned
    <3>4. Len(msg_more_buf) \in 0 .. Len(msg_more_buf)
      BY Sizes
    <3>5. Aligned(w, << >>, << >>, taken)
      BY <2>3, <3>1, <3>2, <3>3, <3>4, Sizes, EmptySeq, Delivered
    <3> QED BY <3>1, <3>5 DEF Joined
  <2> HIDE DEF w
  <2>5. Len(w) = taken /\ \A i \in 1 .. Len(w) : w[i] = i
    <3>1. Len(w) + 0 + 0 = taken
      BY <2>4, EmptySeq DEF Aligned
    <3> QED BY <2>4, <3>1 DEF Aligned
  <2>6. \A i \in 1 .. Len(w) : w[i] = r[i]
    BY <2>2, <2>5, Sizes
  <2>7. w = r
    BY <2>2, <2>4, <2>5, <2>6, SeqEqual
  <2> QED BY <2>7 DEF w, v, r
<1> QED BY <1>1, Inductive, PTL
=============================================================================
