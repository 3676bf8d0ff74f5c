-------------------------- MODULE Handshake_proofs --------------------------
(***************************************************************************)
(* What the handshake promises, for any number of clients, units and       *)
(* starts of the server, with processes killed between any two steps.      *)
(***************************************************************************)
EXTENDS Handshake, FiniteSetTheorems, TLAPS

Distinct(s) == \A i, j \in DOMAIN s : s[i] = s[j] => i = j
-----------------------------------------------------------------------------
(* Sequences as queues and stacks, and what is seen in them *)

LEMMA SeenEmpty == Seen(<<>>) = {}
BY DEF Seen

LEMMA SeenType ==
  ASSUME NEW S, NEW s \in Seq(S)
  PROVE  Seen(s) \subseteq S
BY DEF Seen

LEMMA SeenAppend ==
  ASSUME NEW S, NEW s \in Seq(S), NEW x \in S
  PROVE  Seen(Append(s, x)) = Seen(s) \cup {x}
<1>1. /\ Len(s) \in Nat /\ DOMAIN s = 1 .. Len(s)
      /\ DOMAIN Append(s, x) = 1 .. Len(s) + 1
      /\ \A i \in 1 .. Len(s) : Append(s, x)[i] = s[i]
      /\ Append(s, x)[Len(s) + 1] = x
  OBVIOUS
<1>2. ASSUME NEW y \in Seen(Append(s, x)) PROVE y \in Seen(s) \cup {x}
  <2>1. PICK i \in 1 .. Len(s) + 1 : y = Append(s, x)[i]
    BY <1>1 DEF Seen
  <2>2. i \in 1 .. Len(s) \/ i = Len(s) + 1
    BY <1>1
  <2> QED BY <1>1, <2>1, <2>2 DEF Seen
<1>3. ASSUME NEW y \in Seen(s) PROVE y \in Seen(Append(s, x))
  <2>1. PICK i \in 1 .. Len(s) : y = s[i]
    BY <1>1 DEF Seen
  <2>2. i \in 1 .. Len(s) + 1 /\ y = Append(s, x)[i]
    BY <1>1, <2>1
  <2> QED BY <1>1, <2>2 DEF Seen
<1>4. x \in Seen(Append(s, x))
  <2>1. Len(s) + 1 \in 1 .. Len(s) + 1
    BY <1>1
  <2> QED BY <1>1, <2>1 DEF Seen
<1> QED BY <1>2, <1>3, <1>4

\* The facts about the tail of a sequence, without sequences.
LEMMA TailFacts ==
  ASSUME NEW S, NEW s \in Seq(S), s # <<>>
  PROVE  /\ Len(s) \in Nat /\ Len(s) >= 1 /\ DOMAIN s = 1 .. Len(s)
         /\ Head(s) = s[1] /\ Head(s) \in S
         /\ Tail(s) \in Seq(S) /\ Len(Tail(s)) = Len(s) - 1
         /\ DOMAIN Tail(s) = 1 .. Len(s) - 1
         /\ \A i \in 1 .. Len(s) - 1 : Tail(s)[i] = s[i + 1]
OBVIOUS

LEMMA SeenTail ==
  ASSUME NEW S, NEW s \in Seq(S), s # <<>>
  PROVE  /\ Head(s) \in Seen(s)
         /\ Seen(Tail(s)) \subseteq Seen(s)
         /\ Seen(s) = Seen(Tail(s)) \cup {Head(s)}
<1> DEFINE t == Tail(s)
<1>1. /\ Len(s) \in Nat /\ Len(s) >= 1 /\ DOMAIN s = 1 .. Len(s)
      /\ Head(s) = s[1] /\ DOMAIN t = 1 .. Len(s) - 1
      /\ \A i \in 1 .. Len(s) - 1 : t[i] = s[i + 1]
  BY TailFacts
<1> HIDE DEF t
<1>2. Head(s) \in Seen(s)
  BY <1>1 DEF Seen
<1>3. ASSUME NEW y \in Seen(t) PROVE y \in Seen(s)
  <2>1. PICK i \in 1 .. Len(s) - 1 : y = t[i]
    BY <1>1 DEF Seen
  <2>2. i + 1 \in 1 .. Len(s) /\ y = s[i + 1]
    BY <1>1, <2>1
  <2> QED BY <1>1, <2>2 DEF Seen
<1>4. ASSUME NEW y \in Seen(s) PROVE y \in Seen(t) \cup {Head(s)}
  <2>1. PICK i \in 1 .. Len(s) : y = s[i]
    BY <1>1 DEF Seen
  <2>2. CASE i = 1
    BY <1>1, <2>1, <2>2
  <2>3. CASE i # 1
    <3>1. i - 1 \in 1 .. Len(s) - 1 /\ y = t[i - 1]
      BY <1>1, <2>1, <2>3
    <3> QED BY <1>1, <3>1 DEF Seen
  <2> QED BY <2>2, <2>3
<1> QED BY <1>2, <1>3, <1>4 DEF t

\* Taking the top of a stack without repeats.
LEMMA DistinctTail ==
  ASSUME NEW S, NEW s \in Seq(S), s # <<>>, Distinct(s)
  PROVE  Distinct(Tail(s)) /\ Seen(Tail(s)) = Seen(s) \ {Head(s)}
<1> DEFINE t == Tail(s)
<1>1. /\ Len(s) \in Nat /\ Len(s) >= 1 /\ DOMAIN s = 1 .. Len(s)
      /\ Head(s) = s[1] /\ DOMAIN t = 1 .. Len(s) - 1
      /\ \A i \in 1 .. Len(s) - 1 : t[i] = s[i + 1]
  BY TailFacts
<1>2. Seen(s) = Seen(t) \cup {Head(s)}
  BY SeenTail
<1> HIDE DEF t
<1>3. ASSUME NEW i \in 1 .. Len(s) - 1, NEW j \in 1 .. Len(s) - 1, t[i] = t[j]
      PROVE  i = j
  <2>1. i + 1 \in 1 .. Len(s) /\ j + 1 \in 1 .. Len(s) /\ s[i + 1] = s[j + 1]
    BY <1>1, <1>3
  <2>2. i + 1 = j + 1
    BY <1>1, <2>1 DEF Distinct
  <2> QED BY <2>2
<1>4. Head(s) \notin Seen(t)
  <2> SUFFICES ASSUME NEW i \in 1 .. Len(s) - 1, s[1] = t[i] PROVE FALSE
    BY <1>1 DEF Seen
  <2>1. i + 1 \in 1 .. Len(s) /\ 1 \in 1 .. Len(s) /\ s[1] = s[i + 1]
    BY <1>1
  <2>2. 1 = i + 1
    BY <1>1, <2>1 DEF Distinct
  <2> QED BY <2>2
<1>5. Distinct(t)
  BY <1>1, <1>3 DEF Distinct
<1> QED BY <1>2, <1>4, <1>5 DEF t

\* Putting something new on top of one.
LEMMA DistinctPush ==
  ASSUME NEW S, NEW s \in Seq(S), NEW x \in S, Distinct(s), x \notin Seen(s)
  PROVE  /\ <<x>> \o s \in Seq(S) /\ Distinct(<<x>> \o s)
         /\ Seen(<<x>> \o s) = Seen(s) \cup {x}
<1> DEFINE r == <<x>> \o s
<1>1. /\ Len(s) \in Nat /\ DOMAIN s = 1 .. Len(s)
      /\ r \in Seq(S) /\ DOMAIN r = 1 .. Len(s) + 1 /\ r[1] = x
      /\ \A i \in 2 .. Len(s) + 1 : r[i] = s[i - 1]
  OBVIOUS
<1> HIDE DEF r
<1>2. \A i \in 2 .. Len(s) + 1 : i - 1 \in DOMAIN s /\ r[i] = s[i - 1] /\ r[i] # x
  <2> SUFFICES ASSUME NEW i \in 2 .. Len(s) + 1
               PROVE  i - 1 \in DOMAIN s /\ r[i] = s[i - 1] /\ r[i] # x
    OBVIOUS
  <2>1. i - 1 \in DOMAIN s /\ r[i] = s[i - 1]
    BY <1>1
  <2> QED BY <2>1 DEF Seen
<1>3. Distinct(r)
  <2> SUFFICES ASSUME NEW i \in DOMAIN r, NEW j \in DOMAIN r, r[i] = r[j] PROVE i = j
    BY DEF Distinct
  <2>1. /\ i = 1 \/ i \in 2 .. Len(s) + 1
        /\ j = 1 \/ j \in 2 .. Len(s) + 1
    BY <1>1
  <2>2. CASE i = 1 \/ j = 1
    BY <1>1, <1>2, <2>1, <2>2
  <2>3. CASE i \in 2 .. Len(s) + 1 /\ j \in 2 .. Len(s) + 1
    <3>1. i - 1 = j - 1
      BY <1>2, <2>3 DEF Distinct
    <3> QED BY <2>3, <3>1
  <2> QED BY <2>1, <2>2, <2>3
<1>4. Seen(r) \subseteq Seen(s) \cup {x}
  <2> SUFFICES ASSUME NEW i \in 1 .. Len(s) + 1 PROVE r[i] \in Seen(s) \cup {x}
    BY <1>1 DEF Seen
  <2>1. i = 1 \/ i \in 2 .. Len(s) + 1
    BY <1>1
  <2> QED BY <1>1, <1>2, <2>1 DEF Seen
<1>5. Seen(s) \cup {x} \subseteq Seen(r)
  <2>1. x \in Seen(r)
    BY <1>1 DEF Seen
  <2>2. ASSUME NEW i \in 1 .. Len(s) PROVE s[i] \in Seen(r)
    <3>1. i + 1 \in 1 .. Len(s) + 1 /\ r[i + 1] = s[i]
      BY <1>1
    <3> QED BY <1>1, <3>1 DEF Seen
  <2> QED BY <1>1, <2>1, <2>2 DEF Seen
<1> QED BY <1>1, <1>3, <1>4, <1>5 DEF r

\* A sequence without repeats is as long as what is seen in it is large.
LEMMA DistinctLen ==
  ASSUME NEW S, NEW s \in Seq(S), Distinct(s)
  PROVE  Len(s) = Cardinality(Seen(s))
<1>1. Len(s) \in Nat /\ DOMAIN s = 1 .. Len(s) /\ s \in [1 .. Len(s) -> Seen(s)]
  BY DEF Seen
<1>2. IsFiniteSet(1 .. Len(s)) /\ Cardinality(1 .. Len(s)) = Len(s)
  BY <1>1, FS_Interval
<1>3. s \in Injection(1 .. Len(s), Seen(s)) /\ s \in Surjection(1 .. Len(s), Seen(s))
  BY <1>1 DEF Distinct, Injection, Surjection, IsInjective, Seen
<1> QED BY <1>2, <1>3, FS_Surjection

LEMMA SeenSubSeq ==
  ASSUME NEW S, NEW s \in Seq(S), NEW n \in 1 .. Len(s)
  PROVE  /\ Seen(SubSeq(s, 1, n)) \subseteq Seen(s)
         /\ SubSeq(s, n + 1, Len(s)) \in Seq(S)
         /\ Seen(SubSeq(s, n + 1, Len(s))) \subseteq Seen(s)
<1> DEFINE p == SubSeq(s, 1, n)
           r == SubSeq(s, n + 1, Len(s))
<1>1. /\ Len(s) \in Nat /\ DOMAIN s = 1 .. Len(s) /\ n \in Nat /\ n <= Len(s)
      /\ DOMAIN p = 1 .. n
      /\ \A i \in 1 .. n : p[i] = s[i]
      /\ r \in Seq(S) /\ DOMAIN r = 1 .. Len(s) - n
      /\ \A i \in 1 .. Len(s) - n : r[i] = s[i + n]
  OBVIOUS
<1> HIDE DEF p, r
<1>2. \A i \in 1 .. n : i \in DOMAIN s
  BY <1>1
<1>3. \A i \in 1 .. Len(s) - n : i + n \in DOMAIN s
  BY <1>1
<1>4. Seen(p) \subseteq Seen(s)
  BY <1>1, <1>2 DEF Seen
<1>5. Seen(r) \subseteq Seen(s)
  BY <1>1, <1>3 DEF Seen
<1> QED BY <1>1, <1>4, <1>5 DEF p, r
-----------------------------------------------------------------------------
(* Mutexes *)

Processes == Clients \cup {Server}

LEMMA MutexTypes ==
  ASSUME NEW m \in MutexType(Processes), NEW p \in Processes
  PROVE  /\ Locked(m, p) \in MutexType(Processes)
         /\ Unlocked(m, p) \in MutexType(Processes)
         /\ AfterDeath(m, p) \in MutexType(Processes)
         /\ ZeroedMutex \in MutexType(Processes)
         /\ FreshMutex \in MutexType(Processes)
BY DEF MutexType, Locked, Unlocked, AfterDeath, ZeroedMutex, FreshMutex
-----------------------------------------------------------------------------
(* The rings, store by store *)

LEMMA RingSteps ==
  ASSUME NEW cap \in Nat \ {0}, NEW Item, NEW q \in RingType(cap, Item)
  PROVE  /\ Emptied(q, cap) \in RingType(cap, Item)
         /\ RearMoved(q, cap) \in RingType(cap, Item)
         /\ \A x \in Item : ItemStored(q, x) \in RingType(cap, Item)
         /\ Counted(q) \in RingType(cap, Item)
         /\ FrontMoved(q, cap) \in RingType(cap, Item)
         /\ Discounted(q) \in RingType(cap, Item)
         /\ FirstItem(q) \in Item
<1> USE DEF RingType
<1>1. /\ (q.rear + 1) % cap \in 0 .. cap - 1 /\ (q.front + 1) % cap \in 0 .. cap - 1
      /\ 0 \in 0 .. cap - 1 /\ cap - 1 \in 0 .. cap - 1
      /\ q.size + 1 \in Int /\ q.size - 1 \in Int
  OBVIOUS
<1>2. Emptied(q, cap) \in RingType(cap, Item)
  BY <1>1 DEF Emptied
<1>3. RearMoved(q, cap) \in RingType(cap, Item)
  BY <1>1 DEF RearMoved
<1>4. \A x \in Item : ItemStored(q, x) \in RingType(cap, Item)
  BY DEF ItemStored
<1>5. Counted(q) \in RingType(cap, Item)
  BY <1>1 DEF Counted
<1>6. FrontMoved(q, cap) \in RingType(cap, Item)
  BY <1>1 DEF FrontMoved
<1>7. Discounted(q) \in RingType(cap, Item)
  BY <1>1 DEF Discounted
<1>8. FirstItem(q) \in Item
  BY DEF FirstItem
<1> QED BY <1>2, <1>3, <1>4, <1>5, <1>6, <1>7, <1>8

\* What each store changes.
LEMMA RingFields ==
  ASSUME NEW cap \in Nat \ {0}, NEW Item, NEW q \in RingType(cap, Item)
  PROVE  /\ /\ Emptied(q, cap).front = 0 /\ Emptied(q, cap).rear = cap - 1
            /\ Emptied(q, cap).size = 0
         /\ /\ RearMoved(q, cap).rear = (q.rear + 1) % cap
            /\ RearMoved(q, cap).front = q.front /\ RearMoved(q, cap).size = q.size
            /\ RearMoved(q, cap).slot = q.slot
         /\ \A x :
            /\ ItemStored(q, x).slot = [q.slot EXCEPT ![q.rear] = x]
            /\ ItemStored(q, x).front = q.front /\ ItemStored(q, x).rear = q.rear
            /\ ItemStored(q, x).size = q.size
         /\ /\ Counted(q).size = q.size + 1
            /\ Counted(q).front = q.front /\ Counted(q).rear = q.rear
            /\ Counted(q).slot = q.slot
         /\ /\ FrontMoved(q, cap).front = (q.front + 1) % cap
            /\ FrontMoved(q, cap).rear = q.rear /\ FrontMoved(q, cap).size = q.size
            /\ FrontMoved(q, cap).slot = q.slot
         /\ /\ Discounted(q).size = q.size - 1
            /\ Discounted(q).front = q.front /\ Discounted(q).rear = q.rear
            /\ Discounted(q).slot = q.slot
BY DEF RingType, Emptied, RearMoved, ItemStored, Counted, FrontMoved, Discounted
-----------------------------------------------------------------------------
(* Types, and what each place in a program takes for granted *)

AcceptPcs == {"waitConnect", "lockConnect", "unlockConnect"} \cup DequeuePcs \cup AnswerPcs

OneAt(S) == \A p, q \in S : p = q

\* A call of the server works on a unit in the state that fits the call; while
\* no server runs, or none is ready, no socket exists; a client talks on a unit.
Placed ==
  /\ spc \in AcceptPcs => cur \in Units /\ sock[cur] = "accepting"
  /\ spc = "read" => cur \in Units /\ sock[cur] = "open"
  /\ spc \in BootPcs => \A u \in Units : sock[u] = "free"
  /\ spc \in {"front", "shrink"} => conn # None
  /\ \A c \in Clients : pc[c] \in AttachedPcs => unit[c] \in Units

\* What the server has polled is still so when it comes to act on it, because no
\* other process works at its end of the two queues.
Polled ==
  ~torn =>
    /\ spc \in {"lockConnect"} \cup DequeuePcs => connectQ.size > 0
    /\ spc \in {"lockAccept"} \cup EnqueuePcs => acceptQ.size < AcceptCap

\* Each queue has one process inside, and what that has found is still so.
Inside ==
  ~torn =>
    /\ OneAt(ConnectSection) /\ OneAt(AcceptSection)
    /\ connectCapacity = 0 => connectQ.size = 0
    /\ \A c \in Clients :
         /\ pc[c] \in {"item", "count"} =>
              connectCapacity # 0 /\ connectQ.size < ConnectCap
         /\ pc[c] \in {"front", "shrink"} => acceptQ.size > 0

Typed == TypeOK /\ Placed /\ Polled /\ Inside

ClientStep(c) ==
  \/ ConnectStart(c) \/ Connect(c) \/ Send(c) \/ CloseRead(c) \/ CloseWrite(c)
  \/ ClientDeath(c)

ServerStep ==
  \/ Boot \/ AcceptStart \/ Accept
  \/ \E u \in Units : ReadStart(u) \/ Close(u)
  \/ ReadFinish \/ ReadEof \/ ServerDeath

LEMMA NextIsStep ==
  Next => ServerStep \/ \E c \in Clients : ClientStep(c)
BY DEF Next, ServerStep, ClientStep

LEMMA Constants ==
  /\ SocketNum \in Nat \ {0} /\ ConnectCap \in Nat \ {0} /\ AcceptCap \in Nat \ {0}
  /\ MaxSessions \in Nat /\ MaxSends \in Nat /\ MaxBoots \in Nat
  /\ None \notin Addresses \cup {Zero}
BY HandshakeAssumption DEF None, Zero

\* What the steps of a client leave alone, and which of them touch the rings.
LEMMA ClientFrame ==
  ASSUME TypeOK, NEW c \in Clients, ClientStep(c)
  PROVE  /\ UNCHANGED server /\ UNCHANGED <<connectCapacity, hasty>>
         /\ torn => torn'
         /\ \E label \in ClientPcs : pc' = [pc EXCEPT ![c] = label]
         /\ connectQ' = connectQ \/ ConnectRear(c) \/ ConnectItem(c) \/ ConnectCount(c)
         /\ acceptQ' = acceptQ \/ ConnectFront(c) \/ ConnectShrink(c)
         /\ UNCHANGED data \/ Send(c) \/ CloseRead(c) \/ CloseWrite(c)
<1> USE DEF ClientStep, Connect
<1>0. torn => torn'
  <2>1. \/ torn' = torn
        \/ torn' = (torn \/ ConnectSection # {})
        \/ torn' = (torn \/ AcceptSection # {})
        \/ torn' = (torn \/ pc[c] \in HalfwayPcs)
    BY DEF history, ConnectStart, ConnectRoom, ConnectLock, ConnectRear,
       ConnectItem, ConnectCount, ConnectUnlock, ConnectAwait, ConnectLockAccept,
       ConnectCopy, ConnectFront, ConnectShrink, ConnectReturn, Send, CloseRead,
       CloseWrite, ClientDeath
  <2> QED BY <2>1, Zenon
<1>1. UNCHANGED server /\ UNCHANGED <<connectCapacity, hasty>>
  BY DEF shared, history, ConnectStart, ConnectRoom, ConnectLock, ConnectRear,
     ConnectItem, ConnectCount, ConnectUnlock, ConnectAwait, ConnectLockAccept,
     ConnectCopy, ConnectFront, ConnectShrink, ConnectReturn, Send, CloseRead,
     CloseWrite, ClientDeath
<1>2. \E label \in ClientPcs : pc' = [pc EXCEPT ![c] = label]
  <2>1. UNCHANGED pc \/ \E label \in ClientPcs : Goto(c, label)
    BY DEF ConnectStart, ConnectRoom, ConnectLock, ConnectRear, ConnectItem,
       ConnectCount, ConnectUnlock, ConnectAwait, ConnectLockAccept, ConnectCopy,
       ConnectFront, ConnectShrink, ConnectReturn, Send, CloseRead, CloseWrite,
       ClientDeath, ClientPcs, ConnectPcs, AttachedPcs, EnqueuePcs, AwaitPcs, TakenPcs
  <2>2. pc \in [Clients -> ClientPcs]
    BY DEF TypeOK
  <2>3. pc[c] \in ClientPcs /\ [pc EXCEPT ![c] = pc[c]] = pc
    BY <2>2
  <2> QED BY <2>1, <2>3 DEF Goto
<1>3. connectQ' = connectQ \/ ConnectRear(c) \/ ConnectItem(c) \/ ConnectCount(c)
  BY DEF shared, ConnectStart, ConnectRoom, ConnectLock, ConnectUnlock, ConnectAwait,
     ConnectLockAccept, ConnectCopy, ConnectFront, ConnectShrink, ConnectReturn, Send,
     CloseRead, CloseWrite, ClientDeath
<1>4. acceptQ' = acceptQ \/ ConnectFront(c) \/ ConnectShrink(c)
  BY DEF shared, ConnectStart, ConnectRoom, ConnectLock, ConnectRear, ConnectItem,
     ConnectCount, ConnectUnlock, ConnectAwait, ConnectLockAccept, ConnectCopy,
     ConnectReturn, Send, CloseRead, CloseWrite, ClientDeath
<1>5. UNCHANGED data \/ Send(c) \/ CloseRead(c) \/ CloseWrite(c)
  BY DEF ConnectStart, ConnectRoom, ConnectLock, ConnectRear, ConnectItem,
     ConnectCount, ConnectUnlock, ConnectAwait, ConnectLockAccept, ConnectCopy,
     ConnectFront, ConnectShrink, ConnectReturn, ClientDeath
<1> QED BY <1>0, <1>1, <1>2, <1>3, <1>4, <1>5

\* The same of the server.
LEMMA ServerFrame ==
  ASSUME ServerStep
  PROVE  /\ UNCHANGED clients /\ UNCHANGED <<contended, refused>>
         /\ torn => torn'
         /\ connectQ' = connectQ \/ BootConnectQueue \/ AcceptFront \/ AcceptShrink
         /\ connectCapacity' = connectCapacity \/ BootConnectQueue
         /\ acceptQ' = acceptQ \/ BootAcceptQueue \/ AcceptRear \/ AcceptItem \/ AcceptCount
         /\ UNCHANGED data \/ BootRest \/ AcceptStart \/ AcceptInitClose \/ ReadFinish
<1> USE DEF ServerStep, Boot, Accept
<1>0. torn => torn'
  <2>1. \/ torn' = torn
        \/ torn' = (torn \/ ConnectSection # {})
        \/ torn' = (torn \/ AcceptSection # {})
        \/ torn' = (torn \/ spc \in HalfwayPcs)
    BY DEF history, BootConnectQueue, BootAcceptQueue, BootLocks, BootRest, AcceptStart,
       AcceptWaitConnect, AcceptLockConnect, AcceptCopy, AcceptFront, AcceptShrink,
       AcceptUnlockConnect, AcceptInitClose, AcceptWaitRoom, AcceptLockAccept, AcceptRear,
       AcceptItem, AcceptCount, AcceptReturn, ReadStart, Close, ReadFinish, ReadEof,
       ServerDeath
  <2> QED BY <2>1, Zenon
<1>1. UNCHANGED clients /\ UNCHANGED <<contended, refused>>
  BY DEF history, BootConnectQueue, BootAcceptQueue, BootLocks, BootRest, AcceptStart,
     AcceptWaitConnect, AcceptLockConnect, AcceptCopy, AcceptFront, AcceptShrink,
     AcceptUnlockConnect, AcceptInitClose, AcceptWaitRoom, AcceptLockAccept, AcceptRear,
     AcceptItem, AcceptCount, AcceptReturn, ReadStart, Close, ReadFinish, ReadEof,
     ServerDeath
<1>2. /\ connectQ' = connectQ \/ BootConnectQueue \/ AcceptFront \/ AcceptShrink
      /\ connectCapacity' = connectCapacity \/ BootConnectQueue
  BY DEF shared, BootAcceptQueue, BootLocks, BootRest, AcceptStart,
     AcceptWaitConnect, AcceptLockConnect, AcceptCopy, AcceptFront, AcceptShrink,
     AcceptUnlockConnect, AcceptInitClose, AcceptWaitRoom, AcceptLockAccept, AcceptRear,
     AcceptItem, AcceptCount, AcceptReturn, ReadStart, Close, ReadFinish, ReadEof,
     ServerDeath
<1>3. acceptQ' = acceptQ \/ BootAcceptQueue \/ AcceptRear \/ AcceptItem \/ AcceptCount
  BY DEF shared, BootConnectQueue, BootLocks, BootRest, AcceptStart,
     AcceptWaitConnect, AcceptLockConnect, AcceptCopy, AcceptFront, AcceptShrink,
     AcceptUnlockConnect, AcceptInitClose, AcceptWaitRoom, AcceptLockAccept,
     AcceptReturn, ReadStart, Close, ReadFinish, ReadEof, ServerDeath
<1>4. UNCHANGED data \/ BootRest \/ AcceptStart \/ AcceptInitClose \/ ReadFinish
  BY DEF BootConnectQueue, BootAcceptQueue, BootLocks, AcceptWaitConnect,
     AcceptLockConnect, AcceptCopy, AcceptFront, AcceptShrink, AcceptUnlockConnect,
     AcceptWaitRoom, AcceptLockAccept, AcceptRear, AcceptItem, AcceptCount,
     AcceptReturn, ReadStart, Close, ReadEof, ServerDeath
<1> QED BY <1>0, <1>1, <1>2, <1>3, <1>4

LEMMA ZeroedType ==
  ASSUME NEW cap \in Nat \ {0}, NEW Item, NEW zero \in Item
  PROVE  ZeroedRing(cap, zero) \in RingType(cap, Item)
<1>1. 0 \in 0 .. cap - 1 /\ 0 \in Int
  OBVIOUS
<1>2. [i \in 0 .. cap - 1 |-> zero] \in [0 .. cap - 1 -> Item]
  OBVIOUS
<1> QED BY <1>1, <1>2 DEF ZeroedRing, RingType

LEMMA TypedInit == Init => Typed
<1> SUFFICES ASSUME Init PROVE Typed
  OBVIOUS
<1> USE Constants
<1>1. /\ connectQ \in RingType(ConnectCap, Addresses \cup {Zero})
      /\ acceptQ \in RingType(AcceptCap, Units \cup {NoUnit})
  BY ZeroedType DEF Init
<1>2. connectQ.size = 0 /\ acceptQ.size = 0
  BY DEF Init, ZeroedRing
<1>3. connectQ.size \in 0 .. ConnectCap /\ acceptQ.size \in 0 .. AcceptCap
  BY <1>2
<1>4. {connectLock, acceptLock} \subseteq MutexType(Processes)
  BY DEF Init, ZeroedMutex, MutexType
<1>5. /\ requestQ \in [Units -> Seq(Clients)]
      /\ available_share_unit \in Seq(Units)
  BY DEF Init
<1>6. /\ boots \in 0 .. MaxBoots /\ sessions \in 0 .. MaxSessions
      /\ sends \in [Clients -> 0 .. MaxSends]
  BY DEF Init
<1>7. TypeOK
  BY <1>1, <1>3, <1>4, <1>5, <1>6
  DEF Init, TypeOK, Processes, ClientPcs, BootPcs, ServerPcs, Uses
<1>8. Placed
  BY DEF Init, Placed, BootPcs, AcceptPcs, DequeuePcs, AnswerPcs, EnqueuePcs, AttachedPcs
<1>9. Polled
  BY DEF Init, Polled, DequeuePcs, EnqueuePcs
<1>10. ConnectSection = {} /\ AcceptSection = {}
  BY DEF Init, ConnectSection, AcceptSection, EnqueuePcs, DequeuePcs
<1>11. Inside
  BY <1>2, <1>10 DEF Init, Inside, OneAt
<1> QED BY <1>7, <1>8, <1>9, <1>11 DEF Typed

\* A step of a client keeps the queues' types, ...
LEMMA RingsClient ==
  ASSUME Typed, NEW c \in Clients, ClientStep(c)
  PROVE  /\ connectQ' \in RingType(ConnectCap, Addresses \cup {Zero})
         /\ acceptQ' \in RingType(AcceptCap, Units \cup {NoUnit})
         /\ ~torn' =>
              /\ connectQ'.size \in 0 .. ConnectCap /\ acceptQ'.size \in 0 .. AcceptCap
              /\ connectQ'.size >= connectQ.size /\ acceptQ'.size <= acceptQ.size
<1> USE Constants
<1>1. /\ connectQ \in RingType(ConnectCap, Addresses \cup {Zero})
      /\ acceptQ \in RingType(AcceptCap, Units \cup {NoUnit})
      /\ connectQ.size \in Int /\ acceptQ.size \in Int
      /\ ~torn => connectQ.size \in 0 .. ConnectCap /\ acceptQ.size \in 0 .. AcceptCap
  BY DEF Typed, TypeOK, RingType
<1>2. TypeOK /\ (~torn' => ~torn)
  BY ClientFrame DEF Typed
<1>3. connectQ' = connectQ \/ ConnectRear(c) \/ ConnectItem(c) \/ ConnectCount(c)
  BY <1>2, ClientFrame
<1>4. acceptQ' = acceptQ \/ ConnectFront(c) \/ ConnectShrink(c)
  BY <1>2, ClientFrame
<1>5. /\ connectQ' \in RingType(ConnectCap, Addresses \cup {Zero})
      /\ ~torn' => connectQ'.size \in 0 .. ConnectCap /\ connectQ'.size >= connectQ.size
  <2>1. CASE connectQ' = connectQ
    BY <1>1, <1>2, <2>1
  <2>2. CASE ConnectRear(c) /\ connectQ' # connectQ
    <3>1. connectQ' = RearMoved(connectQ, ConnectCap)
      BY <2>2 DEF ConnectRear
    <3>2. connectQ'.size = connectQ.size
      BY <1>1, <3>1, RingFields
    <3> QED BY <1>1, <1>2, <3>1, <3>2, RingSteps
  <2>3. CASE ConnectItem(c)
    <3>1. PICK a \in Addresses \cup {Zero} : connectQ' = ItemStored(connectQ, a)
      BY <2>3 DEF ConnectItem
    <3>2. connectQ'.size = connectQ.size
      BY <3>1, <1>1 DEF ItemStored, RingType
    <3>3. connectQ' \in RingType(ConnectCap, Addresses \cup {Zero})
      BY <1>1, <3>1, RingSteps
    <3> QED BY <1>1, <1>2, <3>2, <3>3
  <2>4. CASE ConnectCount(c)
    <3>1. connectQ' = Counted(connectQ) /\ pc[c] = "count"
      BY <2>4 DEF ConnectCount
    <3>2. connectQ'.size = connectQ.size + 1
      BY <1>1, <3>1, RingFields
    <3>3. ~torn => connectQ.size < ConnectCap
      BY <3>1 DEF Typed, Inside
    <3>4. connectQ' \in RingType(ConnectCap, Addresses \cup {Zero})
      BY <1>1, <3>1, RingSteps
    <3> QED BY <1>1, <1>2, <3>2, <3>3, <3>4
  <2> QED BY <1>3, <2>1, <2>2, <2>3, <2>4
<1>6. /\ acceptQ' \in RingType(AcceptCap, Units \cup {NoUnit})
      /\ ~torn' => acceptQ'.size \in 0 .. AcceptCap /\ acceptQ'.size <= acceptQ.size
  <2>1. CASE acceptQ' = acceptQ
    BY <1>1, <1>2, <2>1
  <2>2. CASE ConnectFront(c)
    <3>1. acceptQ' = FrontMoved(acceptQ, AcceptCap)
      BY <2>2 DEF ConnectFront
    <3>2. acceptQ'.size = acceptQ.size
      BY <1>1, <3>1, RingFields
    <3> QED BY <1>1, <1>2, <3>1, <3>2, RingSteps
  <2>3. CASE ConnectShrink(c)
    <3>1. acceptQ' = Discounted(acceptQ) /\ pc[c] = "shrink"
      BY <2>3 DEF ConnectShrink
    <3>2. acceptQ'.size = acceptQ.size - 1
      BY <1>1, <3>1, RingFields
    <3>3. ~torn => acceptQ.size > 0
      BY <3>1 DEF Typed, Inside
    <3>4. acceptQ' \in RingType(AcceptCap, Units \cup {NoUnit})
      BY <1>1, <3>1, RingSteps
    <3> QED BY <1>1, <1>2, <3>2, <3>3, <3>4
  <2> QED BY <1>4, <2>1, <2>2, <2>3
<1> QED BY <1>5, <1>6

\* ... and the others.
LEMMA TypesClient ==
  ASSUME Typed, NEW c \in Clients, ClientStep(c)
  PROVE  TypeOK'
<1> USE HandshakeAssumption
<1>0. TypeOK /\ Placed
  BY DEF Typed
<1>1. /\ UNCHANGED server /\ UNCHANGED <<connectCapacity, hasty>>
      /\ \E label \in ClientPcs : pc' = [pc EXCEPT ![c] = label]
      /\ UNCHANGED data \/ Send(c) \/ CloseRead(c) \/ CloseWrite(c)
  BY <1>0, ClientFrame
<1>2. {connectLock', acceptLock'} \subseteq MutexType(Processes)
  <2>1. connectLock \in MutexType(Processes) /\ acceptLock \in MutexType(Processes)
    BY <1>0 DEF TypeOK, Processes
  <2>2. c \in Processes
    BY DEF Processes
  <2>3. /\ connectLock' \in {connectLock, Locked(connectLock, c), Unlocked(connectLock, c),
                             AfterDeath(connectLock, c)}
        /\ acceptLock' \in {acceptLock, Locked(acceptLock, c), Unlocked(acceptLock, c),
                            AfterDeath(acceptLock, c)}
    BY DEF ClientStep, Connect, shared, ConnectStart, ConnectRoom, ConnectLock,
       ConnectRear, ConnectItem, ConnectCount, ConnectUnlock, ConnectAwait,
       ConnectLockAccept, ConnectCopy, ConnectFront, ConnectShrink, ConnectReturn, Send,
       CloseRead, CloseWrite, ClientDeath
  <2> QED BY <2>1, <2>2, <2>3, MutexTypes
<1>3. requestQ' \in [Units -> Seq(Clients)]
  <2>1. requestQ \in [Units -> Seq(Clients)]
    BY <1>0 DEF TypeOK
  <2>2. CASE Send(c)
    <3>1. unit[c] \in Units
      BY <1>0, <2>2 DEF Send, Placed, AttachedPcs
    <3>2. Append(requestQ[unit[c]], c) \in Seq(Clients)
      BY <2>1, <3>1
    <3> QED BY <2>1, <2>2, <3>2 DEF Send
  <2> QED BY <1>1, <2>1, <2>2 DEF data, CloseRead, CloseWrite
<1>4. clientRead' \in [Units -> BOOLEAN] /\ clientWrite' \in [Units -> BOOLEAN]
  BY <1>0, <1>1 DEF TypeOK, data, Send, CloseRead, CloseWrite, RaiseFirst
<1>5. pc' \in [Clients -> ClientPcs] /\ unit' \in [Clients -> Units \cup {NoUnit}]
  <2>1. FirstItem(acceptQ) \in Units \cup {NoUnit}
    BY <1>0, Constants, RingSteps DEF TypeOK
  <2>2. pc \in [Clients -> ClientPcs] /\ unit \in [Clients -> Units \cup {NoUnit}]
    BY <1>0 DEF TypeOK
  <2>3. UNCHANGED unit \/ \E u \in Units \cup {NoUnit} : unit' = [unit EXCEPT ![c] = u]
    BY <2>1 DEF ClientStep, Connect, ConnectStart, ConnectRoom, ConnectLock,
       ConnectRear, ConnectItem, ConnectCount, ConnectUnlock, ConnectAwait,
       ConnectLockAccept, ConnectCopy, ConnectFront, ConnectShrink, ConnectReturn, Send,
       CloseRead, CloseWrite, ClientDeath
  <2> QED BY <1>1, <2>2, <2>3
<1>6. sessions' \in 0 .. MaxSessions /\ sends' \in [Clients -> 0 .. MaxSends]
  <2>1. /\ MaxSessions \in Nat /\ MaxSends \in Nat
        /\ sessions \in 0 .. MaxSessions /\ sends \in [Clients -> 0 .. MaxSends]
    BY <1>0 DEF TypeOK
  <2>2. \/ UNCHANGED sessions
        \/ sessions < MaxSessions /\ sessions' = sessions + 1
    BY DEF ClientStep, Connect, ConnectStart, ConnectRoom, ConnectLock,
       ConnectRear, ConnectItem, ConnectCount, ConnectUnlock, ConnectAwait,
       ConnectLockAccept, ConnectCopy, ConnectFront, ConnectShrink, ConnectReturn, Send,
       CloseRead, CloseWrite, ClientDeath
  <2>3. \/ UNCHANGED sends
        \/ sends' = [sends EXCEPT ![c] = 0]
        \/ sends[c] < MaxSends /\ sends' = [sends EXCEPT ![c] = sends[c] + 1]
    BY DEF ClientStep, Connect, ConnectStart, ConnectRoom, ConnectLock,
       ConnectRear, ConnectItem, ConnectCount, ConnectUnlock, ConnectAwait,
       ConnectLockAccept, ConnectCopy, ConnectFront, ConnectShrink, ConnectReturn, Send,
       CloseRead, CloseWrite, ClientDeath
  <2>4. sessions' \in 0 .. MaxSessions
    BY <2>1, <2>2
  <2>5. sends' \in [Clients -> 0 .. MaxSends]
    <3>1. sends[c] \in 0 .. MaxSends
      BY <2>1
    <3>2. CASE sends[c] < MaxSends /\ sends' = [sends EXCEPT ![c] = sends[c] + 1]
      <4>1. sends[c] + 1 \in 0 .. MaxSends
        BY <2>1, <3>1, <3>2
      <4> QED BY <2>1, <3>2, <4>1
    <3>3. CASE sends' = [sends EXCEPT ![c] = 0]
      <4>1. 0 \in 0 .. MaxSends
        BY <2>1
      <4> QED BY <2>1, <3>3, <4>1
    <3> QED BY <2>1, <2>3, <3>2, <3>3
  <2> QED BY <2>4, <2>5
<1>7. {contended', refused', lost', torn'} \subseteq BOOLEAN
  BY <1>0 DEF TypeOK, history, ClientStep, Connect, ConnectStart, ConnectRoom,
     ConnectLock, ConnectRear, ConnectItem, ConnectCount, ConnectUnlock, ConnectAwait,
     ConnectLockAccept, ConnectCopy, ConnectFront, ConnectShrink, ConnectReturn, Send,
     CloseRead, CloseWrite, ClientDeath
<1>8. /\ connectQ' \in RingType(ConnectCap, Addresses \cup {Zero})
      /\ acceptQ' \in RingType(AcceptCap, Units \cup {NoUnit})
      /\ ~torn' => connectQ'.size \in 0 .. ConnectCap /\ acceptQ'.size \in 0 .. AcceptCap
  BY RingsClient
<1> QED
  BY <1>0, <1>1, <1>2, <1>3, <1>4, <1>5, <1>6, <1>7, <1>8 DEF TypeOK, server, Processes

LEMMA RingsServer ==
  ASSUME Typed, ServerStep
  PROVE  /\ connectQ' \in RingType(ConnectCap, Addresses \cup {Zero})
         /\ acceptQ' \in RingType(AcceptCap, Units \cup {NoUnit})
         /\ ~torn' => connectQ'.size \in 0 .. ConnectCap /\ acceptQ'.size \in 0 .. AcceptCap
<1> USE Constants
<1>1. /\ connectQ \in RingType(ConnectCap, Addresses \cup {Zero})
      /\ acceptQ \in RingType(AcceptCap, Units \cup {NoUnit})
      /\ connectQ.size \in Int /\ acceptQ.size \in Int
      /\ ~torn => connectQ.size \in 0 .. ConnectCap /\ acceptQ.size \in 0 .. AcceptCap
  BY DEF Typed, TypeOK, RingType
<1>2. ~torn' => ~torn
  BY ServerFrame
<1>3. connectQ' = connectQ \/ BootConnectQueue \/ AcceptFront \/ AcceptShrink
  BY ServerFrame
<1>4. acceptQ' = acceptQ \/ BootAcceptQueue \/ AcceptRear \/ AcceptItem \/ AcceptCount
  BY ServerFrame
<1>5. /\ connectQ' \in RingType(ConnectCap, Addresses \cup {Zero})
      /\ ~torn' => connectQ'.size \in 0 .. ConnectCap
  <2>1. CASE connectQ' = connectQ
    BY <1>1, <1>2, <2>1
  <2>2. CASE BootConnectQueue
    <3>1. connectQ' = Emptied(connectQ, ConnectCap)
      BY <2>2 DEF BootConnectQueue
    <3>2. connectQ'.size = 0 /\ 0 \in 0 .. ConnectCap
      BY <1>1, <3>1, RingFields
    <3> QED BY <1>1, <3>1, <3>2, RingSteps
  <2>3. CASE AcceptFront
    <3>1. connectQ' = FrontMoved(connectQ, ConnectCap)
      BY <2>3 DEF AcceptFront
    <3>2. connectQ'.size = connectQ.size
      BY <1>1, <3>1, RingFields
    <3> QED BY <1>1, <1>2, <3>1, <3>2, RingSteps
  <2>4. CASE AcceptShrink
    <3>1. connectQ' = Discounted(connectQ) /\ spc = "shrink"
      BY <2>4 DEF AcceptShrink
    <3>2. connectQ'.size = connectQ.size - 1
      BY <1>1, <3>1, RingFields
    <3>3. ~torn => connectQ.size > 0
      BY <3>1 DEF Typed, Polled, DequeuePcs
    <3>4. connectQ' \in RingType(ConnectCap, Addresses \cup {Zero})
      BY <1>1, <3>1, RingSteps
    <3> QED BY <1>1, <1>2, <3>2, <3>3, <3>4
  <2> QED BY <1>3, <2>1, <2>2, <2>3, <2>4
<1>6. /\ acceptQ' \in RingType(AcceptCap, Units \cup {NoUnit})
      /\ ~torn' => acceptQ'.size \in 0 .. AcceptCap
  <2>1. CASE acceptQ' = acceptQ
    BY <1>1, <1>2, <2>1
  <2>2. CASE BootAcceptQueue
    <3>1. acceptQ' = Emptied(acceptQ, AcceptCap)
      BY <2>2 DEF BootAcceptQueue
    <3>2. acceptQ'.size = 0 /\ 0 \in 0 .. AcceptCap
      BY <1>1, <3>1, RingFields
    <3> QED BY <1>1, <3>1, <3>2, RingSteps
  <2>3. CASE AcceptRear /\ acceptQ' # acceptQ
    <3>1. acceptQ' = RearMoved(acceptQ, AcceptCap)
      BY <2>3 DEF AcceptRear
    <3>2. acceptQ'.size = acceptQ.size
      BY <1>1, <3>1, RingFields
    <3> QED BY <1>1, <1>2, <3>1, <3>2, RingSteps
  <2>4. CASE AcceptItem
    <3>1. acceptQ' = ItemStored(acceptQ, cur) /\ cur \in Units \cup {NoUnit}
      BY <2>4 DEF AcceptItem, Typed, TypeOK
    <3>2. acceptQ'.size = acceptQ.size
      BY <3>1, <1>1 DEF ItemStored, RingType
    <3>3. acceptQ' \in RingType(AcceptCap, Units \cup {NoUnit})
      BY <1>1, <3>1, RingSteps
    <3> QED BY <1>1, <1>2, <3>2, <3>3
  <2>5. CASE AcceptCount
    <3>1. acceptQ' = Counted(acceptQ) /\ spc = "count"
      BY <2>5 DEF AcceptCount, AcceptionCounted
    <3>2. acceptQ'.size = acceptQ.size + 1
      BY <1>1, <3>1, RingFields
    <3>3. ~torn => acceptQ.size < AcceptCap
      BY <3>1 DEF Typed, Polled, EnqueuePcs
    <3>4. acceptQ' \in RingType(AcceptCap, Units \cup {NoUnit})
      BY <1>1, <3>1, RingSteps
    <3> QED BY <1>1, <1>2, <3>2, <3>3, <3>4
  <2> QED BY <1>4, <2>1, <2>2, <2>3, <2>4, <2>5
<1> QED BY <1>5, <1>6

LEMMA TypesServer ==
  ASSUME Typed, ServerStep
  PROVE  TypeOK'
<1>0. /\ SocketNum \in Nat \ {0} /\ ConnectCap \in Nat \ {0} /\ AcceptCap \in Nat \ {0}
      /\ MaxBoots \in Nat
  BY Constants
<1>1. /\ UNCHANGED clients /\ UNCHANGED <<contended, refused>>
      /\ connectCapacity' = connectCapacity \/ BootConnectQueue
      /\ UNCHANGED data \/ BootRest \/ AcceptStart \/ AcceptInitClose \/ ReadFinish
  BY ServerFrame
<1>2. TypeOK /\ Placed
  BY DEF Typed
<1>3. connectCapacity' \in {0, ConnectCap}
  BY <1>1, <1>2 DEF TypeOK, BootConnectQueue
<1>4. {connectLock', acceptLock'} \subseteq MutexType(Processes)
  <2>1. connectLock \in MutexType(Processes) /\ acceptLock \in MutexType(Processes)
    BY <1>2 DEF TypeOK, Processes
  <2>2. Server \in Processes
    BY DEF Processes
  <2>3. /\ connectLock' \in {connectLock, FreshMutex, Locked(connectLock, Server),
              Unlocked(connectLock, Server), AfterDeath(connectLock, Server)}
        /\ acceptLock' \in {acceptLock, FreshMutex, Locked(acceptLock, Server),
              Unlocked(acceptLock, Server), AfterDeath(acceptLock, Server)}
    BY DEF ServerStep, Boot, Accept, shared, BootConnectQueue, BootAcceptQueue, BootLocks,
       BootRest, AcceptStart, AcceptWaitConnect, AcceptLockConnect, AcceptCopy,
       AcceptFront, AcceptShrink, AcceptUnlockConnect, AcceptInitClose, AcceptWaitRoom,
       AcceptLockAccept, AcceptRear, AcceptItem, AcceptCount, AcceptReturn, ReadStart,
       Close, ReadFinish, ReadEof, ServerDeath
  <2> QED BY <2>1, <2>2, <2>3, MutexTypes
<1>6. requestQ' \in [Units -> Seq(Clients)]
  <2>1. requestQ \in [Units -> Seq(Clients)]
    BY <1>2 DEF TypeOK
  <2>2. CASE ReadFinish
    <3>1. PICK n \in 1 .. Len(requestQ[cur]) :
            requestQ' = [requestQ EXCEPT ![cur] =
                           SubSeq(requestQ[cur], n + 1, Len(requestQ[cur]))]
      BY <2>2 DEF ReadFinish
    <3>2. cur \in Units
      BY <1>2, <2>2 DEF ReadFinish, Placed
    <3>3. SubSeq(requestQ[cur], n + 1, Len(requestQ[cur])) \in Seq(Clients)
      BY <2>1, <3>2, SeenSubSeq
    <3> QED BY <2>1, <3>1, <3>3
  <2>3. CASE AcceptStart
    <3>1. Head(available_share_unit) \in Units
      BY <1>2, <2>3 DEF AcceptStart, TypeOK
    <3>2. requestQ' = NewQueue(Head(available_share_unit))
      BY <2>3 DEF AcceptStart
    <3> QED BY <2>1, <3>1, <3>2 DEF NewQueue
  <2>4. \/ UNCHANGED requestQ \/ requestQ' = [u \in Units |-> <<>>]
        \/ ReadFinish \/ AcceptStart
    BY <1>1 DEF data, BootRest, AcceptInitClose
  <2>5. <<>> \in Seq(Clients)
    OBVIOUS
  <2> QED BY <2>1, <2>2, <2>3, <2>4, <2>5
<1>7. clientRead' \in [Units -> BOOLEAN] /\ clientWrite' \in [Units -> BOOLEAN]
  BY <1>1, <1>2 DEF TypeOK, data, BootRest, AcceptStart, AcceptInitClose, ReadFinish, Cleared
<1>8. /\ spc' \in ServerPcs /\ cur' \in Units \cup {NoUnit}
      /\ conn' \in Addresses \cup {Zero, None}
  <2>1. available_share_unit # <<>> => Head(available_share_unit) \in Units
    BY <1>2 DEF TypeOK
  <2>2. spc' \in ServerPcs
    BY <1>2 DEF TypeOK, ServerStep, Boot, Accept, BootConnectQueue, BootAcceptQueue,
       BootLocks, BootRest, AcceptStart, AcceptWaitConnect, AcceptLockConnect, AcceptCopy,
       AcceptFront, AcceptShrink, AcceptUnlockConnect, AcceptInitClose, AcceptWaitRoom,
       AcceptLockAccept, AcceptRear, AcceptItem, AcceptCount, AcceptReturn, ReadStart,
       Close, ReadFinish, ReadEof, ServerDeath, Return, ServerPcs, BootPcs, DequeuePcs,
       AnswerPcs, EnqueuePcs
  <2>3. cur' \in Units \cup {NoUnit}
    BY <1>2, <2>1 DEF TypeOK, ServerStep, Boot, Accept, BootConnectQueue, BootAcceptQueue,
       BootLocks, BootRest, AcceptStart, AcceptWaitConnect, AcceptLockConnect, AcceptCopy,
       AcceptFront, AcceptShrink, AcceptUnlockConnect, AcceptInitClose, AcceptWaitRoom,
       AcceptLockAccept, AcceptRear, AcceptItem, AcceptCount, AcceptReturn, ReadStart,
       Close, ReadFinish, ReadEof, ServerDeath, Return
  <2>4. FirstItem(connectQ) \in Addresses \cup {Zero}
    BY <1>0, <1>2, RingSteps DEF TypeOK
  <2>5. conn' \in Addresses \cup {Zero, None}
    BY <1>2, <2>4 DEF TypeOK, ServerStep, Boot, Accept, BootConnectQueue, BootAcceptQueue,
       BootLocks, BootRest, AcceptStart, AcceptWaitConnect, AcceptLockConnect, AcceptCopy,
       AcceptFront, AcceptShrink, AcceptUnlockConnect, AcceptInitClose, AcceptWaitRoom,
       AcceptLockAccept, AcceptRear, AcceptItem, AcceptCount, AcceptReturn, ReadStart,
       Close, ReadFinish, ReadEof, ServerDeath
  <2> QED BY <2>2, <2>3, <2>5
<1>9. available_share_unit' \in Seq(Units)
  <2>1. available_share_unit \in Seq(Units)
    BY <1>2 DEF TypeOK
  <2>2. [i \in 1 .. SocketNum - 1 |-> i] \in Seq(Units)
    BY <1>0 DEF Units
  <2>3. \/ UNCHANGED available_share_unit
        \/ available_share_unit # <<>> /\ available_share_unit' = Tail(available_share_unit)
        \/ \E u \in Units : available_share_unit' = <<u>> \o available_share_unit
        \/ available_share_unit' = <<>>
        \/ available_share_unit' = [i \in 1 .. SocketNum - 1 |-> i]
    BY DEF ServerStep, Boot, Accept, BootConnectQueue, BootAcceptQueue,
       BootLocks, BootRest, AcceptStart, AcceptWaitConnect, AcceptLockConnect, AcceptCopy,
       AcceptFront, AcceptShrink, AcceptUnlockConnect, AcceptInitClose, AcceptWaitRoom,
       AcceptLockAccept, AcceptRear, AcceptItem, AcceptCount, AcceptReturn, ReadStart,
       Close, ReadFinish, ReadEof, ServerDeath
  <2>4. ASSUME NEW u \in Units PROVE <<u>> \o available_share_unit \in Seq(Units)
    BY <2>1
  <2>5. available_share_unit # <<>> => Tail(available_share_unit) \in Seq(Units)
    BY <2>1
  <2>6. <<>> \in Seq(Units)
    OBVIOUS
  <2> QED BY <2>1, <2>2, <2>3, <2>4, <2>5, <2>6
<1>10. sock' \in [Units -> Uses]
  BY <1>2, ZenonT(40) DEF TypeOK, ServerStep, Boot, Accept, BootConnectQueue,
     BootAcceptQueue, BootLocks, BootRest, AcceptStart, AcceptWaitConnect, AcceptLockConnect, AcceptCopy,
     AcceptFront, AcceptShrink, AcceptUnlockConnect, AcceptInitClose, AcceptWaitRoom,
     AcceptLockAccept, AcceptRear, AcceptItem, AcceptCount, AcceptReturn, ReadStart,
     Close, ReadFinish, ReadEof, ServerDeath, Released, Uses
<1>11. heard' \in [Units -> SUBSET Clients]
  <2>1. heard \in [Units -> SUBSET Clients] /\ requestQ \in [Units -> Seq(Clients)]
    BY <1>2 DEF TypeOK
  <2>2. CASE ReadFinish
    <3>1. PICK n \in 1 .. Len(requestQ[cur]) :
            heard' = [heard EXCEPT ![cur] =
                        heard[cur] \cup Seen(SubSeq(requestQ[cur], 1, n))]
      BY <2>2 DEF ReadFinish
    <3>2. cur \in Units
      BY <1>2, <2>2 DEF ReadFinish, Placed
    <3>3. Seen(SubSeq(requestQ[cur], 1, n)) \subseteq Clients
      <4>1. requestQ[cur] \in Seq(Clients)
        BY <2>1, <3>2
      <4> QED BY <4>1, SeenSubSeq, SeenType
    <3> QED BY <2>1, <3>1, <3>2, <3>3
  <2>3. CASE AcceptStart
    BY <2>1, <2>3 DEF AcceptStart
  <2>4. \/ UNCHANGED heard \/ heard' = [u \in Units |-> {}]
        \/ ReadFinish \/ AcceptStart
    BY DEF ServerStep, Boot, Accept, BootConnectQueue, BootAcceptQueue,
       BootLocks, BootRest, AcceptWaitConnect, AcceptLockConnect, AcceptCopy,
       AcceptFront, AcceptShrink, AcceptUnlockConnect, AcceptInitClose, AcceptWaitRoom,
       AcceptLockAccept, AcceptRear, AcceptItem, AcceptCount, AcceptReturn, ReadStart,
       Close, ReadEof, ServerDeath
  <2> QED BY <2>1, <2>2, <2>3, <2>4
<1>12. boots' \in 0 .. MaxBoots
  <2>1. boots \in 0 .. MaxBoots
    BY <1>2 DEF TypeOK
  <2>2. CASE BootConnectQueue
    BY <1>0, <2>1, <2>2 DEF BootConnectQueue
  <2>3. boots' = boots \/ BootConnectQueue
    BY DEF ServerStep, Boot, Accept, BootAcceptQueue,
       BootLocks, BootRest, AcceptStart, AcceptWaitConnect, AcceptLockConnect, AcceptCopy,
       AcceptFront, AcceptShrink, AcceptUnlockConnect, AcceptInitClose, AcceptWaitRoom,
       AcceptLockAccept, AcceptRear, AcceptItem, AcceptCount, AcceptReturn, ReadStart,
       Close, ReadFinish, ReadEof, ServerDeath
  <2> QED BY <2>1, <2>2, <2>3
<1>13. hasty' \subseteq Units /\ {lost', torn'} \subseteq BOOLEAN
  BY <1>2 DEF TypeOK, history, ServerStep, Boot, Accept, BootConnectQueue,
     BootAcceptQueue, BootLocks, BootRest, AcceptStart, AcceptWaitConnect,
     AcceptLockConnect, AcceptCopy, AcceptFront, AcceptShrink, AcceptUnlockConnect,
     AcceptInitClose, AcceptWaitRoom, AcceptLockAccept, AcceptRear, AcceptItem,
     AcceptCount, AcceptReturn, ReadStart, Close, ReadFinish, ReadEof, ServerDeath,
     Answering
<1>14. /\ connectQ' \in RingType(ConnectCap, Addresses \cup {Zero})
       /\ acceptQ' \in RingType(AcceptCap, Units \cup {NoUnit})
       /\ ~torn' => connectQ'.size \in 0 .. ConnectCap /\ acceptQ'.size \in 0 .. AcceptCap
  BY RingsServer
<1> QED
  BY <1>1, <1>2, <1>3, <1>4, <1>6, <1>7, <1>8, <1>9, <1>10, <1>11, <1>12, <1>13, <1>14
  DEF TypeOK, clients, Processes

LEMMA PlacedServer ==
  ASSUME Typed, ServerStep
  PROVE  Placed'
<1> USE DEF AcceptPcs, BootPcs, DequeuePcs, AnswerPcs, EnqueuePcs
<1>0. /\ TypeOK /\ Placed /\ sock \in [Units -> Uses]
      /\ available_share_unit \in Seq(Units)
  BY DEF Typed, TypeOK
<1>1. UNCHANGED <<pc, unit>>
  BY ServerFrame DEF clients
<1>2. \A c \in Clients : pc'[c] \in AttachedPcs => unit'[c] \in Units
  BY <1>0, <1>1 DEF Placed
<1>3. /\ spc' \in AcceptPcs => cur' \in Units /\ sock'[cur'] = "accepting"
      /\ spc' = "read" => cur' \in Units /\ sock'[cur'] = "open"
      /\ spc' \in BootPcs => \A u \in Units : sock'[u] = "free"
  <2>1. CASE Boot
    BY <1>0, <2>1 DEF Placed, Boot, BootConnectQueue, BootAcceptQueue, BootLocks, BootRest
  <2>2. CASE AcceptStart
    <3>1. Head(available_share_unit) \in Units
      BY <1>0, <2>2 DEF AcceptStart
    <3> QED BY <1>0, <2>2, <3>1 DEF AcceptStart
  <2>3. CASE Accept
    BY <1>0, <2>3 DEF Placed, Accept, AcceptWaitConnect, AcceptLockConnect, AcceptCopy,
       AcceptFront, AcceptShrink, AcceptUnlockConnect, AcceptInitClose, AcceptWaitRoom,
       AcceptLockAccept, AcceptRear, AcceptItem, AcceptCount, AcceptReturn, Return
  <2>4. ASSUME NEW u \in Units, ReadStart(u) \/ Close(u)
        PROVE  /\ spc' \in AcceptPcs => cur' \in Units /\ sock'[cur'] = "accepting"
               /\ spc' = "read" => cur' \in Units /\ sock'[cur'] = "open"
               /\ spc' \in BootPcs => \A v \in Units : sock'[v] = "free"
    BY <1>0, <2>4 DEF Placed, ReadStart, Close
  <2>5. CASE ReadFinish \/ ReadEof
    BY <1>0, <2>5 DEF Placed, ReadFinish, ReadEof, Return
  <2>6. CASE ServerDeath
    BY <1>0, <2>6 DEF Placed, ServerDeath
  <2> QED BY <2>1, <2>2, <2>3, <2>4, <2>5, <2>6 DEF ServerStep
<1>4. spc' \in {"front", "shrink"} => conn' # None
  <2>1. FirstItem(connectQ) \in Addresses \cup {Zero}
    BY <1>0, Constants, RingSteps DEF TypeOK
  <2>2. CASE AcceptCopy
    BY <2>1, <2>2, Constants DEF AcceptCopy
  <2>3. CASE AcceptFront
    BY <1>0, <2>3 DEF AcceptFront, Placed
  <2>4. AcceptCopy \/ AcceptFront \/ spc' \notin {"front", "shrink"}
    BY DEF ServerStep, Boot, Accept, BootConnectQueue, BootAcceptQueue,
       BootLocks, BootRest, AcceptStart, AcceptWaitConnect, AcceptLockConnect,
       AcceptShrink, AcceptUnlockConnect, AcceptInitClose, AcceptWaitRoom,
       AcceptLockAccept, AcceptRear, AcceptItem, AcceptCount, AcceptReturn, ReadStart,
       Close, ReadFinish, ReadEof, ServerDeath, Return
  <2> QED BY <2>2, <2>3, <2>4
<1> QED BY <1>2, <1>3, <1>4 DEF Placed

LEMMA PlacedClient ==
  ASSUME Typed, NEW c \in Clients, ClientStep(c)
  PROVE  Placed'
<1>0. /\ TypeOK /\ Placed
      /\ pc \in [Clients -> ClientPcs] /\ unit \in [Clients -> Units \cup {NoUnit}]
  BY DEF Typed, TypeOK
<1>1. UNCHANGED server
  BY <1>0, ClientFrame
<1>2. \E label \in ClientPcs : pc' = [pc EXCEPT ![c] = label]
  BY <1>0, ClientFrame
<1>3. \A d \in Clients \ {c} : pc'[d] = pc[d] /\ unit'[d] = unit[d]
  <2>1. UNCHANGED unit \/ \E u : unit' = [unit EXCEPT ![c] = u]
    BY DEF ClientStep, Connect, ConnectStart, ConnectRoom, ConnectLock,
       ConnectRear, ConnectItem, ConnectCount, ConnectUnlock, ConnectAwait,
       ConnectLockAccept, ConnectCopy, ConnectFront, ConnectShrink, ConnectReturn, Send,
       CloseRead, CloseWrite, ClientDeath
  <2> QED BY <1>0, <1>2, <2>1
<1>4. pc'[c] \in AttachedPcs => unit'[c] \in Units
  <2>1. CASE ConnectReturn(c)
    BY <1>0, <2>1 DEF ConnectReturn, Goto, AttachedPcs
  <2>2. CASE Send(c) \/ CloseRead(c)
    BY <1>0, <2>2 DEF Placed, Send, CloseRead, AttachedPcs
  <2>3. ConnectReturn(c) \/ Send(c) \/ CloseRead(c) \/ pc'[c] \notin AttachedPcs
    BY <1>0 DEF ClientStep, Connect, ConnectStart, ConnectRoom, ConnectLock,
       ConnectRear, ConnectItem, ConnectCount, ConnectUnlock, ConnectAwait,
       ConnectLockAccept, ConnectCopy, ConnectFront, ConnectShrink, CloseWrite,
       ClientDeath, Goto, AttachedPcs
  <2> QED BY <2>1, <2>2, <2>3
<1> QED BY <1>0, <1>1, <1>3, <1>4 DEF Placed, server

LEMMA PolledClient ==
  ASSUME Typed, NEW c \in Clients, ClientStep(c)
  PROVE  Polled'
<1> SUFFICES ASSUME ~torn'
             PROVE  /\ spc' \in {"lockConnect"} \cup DequeuePcs => connectQ'.size > 0
                    /\ spc' \in {"lockAccept"} \cup EnqueuePcs => acceptQ'.size < AcceptCap
  BY DEF Polled
<1>1. UNCHANGED server /\ ~torn
  BY ClientFrame DEF Typed
<1>2. /\ connectQ'.size \in Int /\ connectQ'.size >= connectQ.size
      /\ acceptQ'.size \in Int /\ acceptQ'.size <= acceptQ.size
  BY RingsClient
<1>3. connectQ.size \in Int /\ acceptQ.size \in Int /\ AcceptCap \in Int
  BY Constants DEF Typed, TypeOK, RingType
<1> QED BY <1>1, <1>2, <1>3 DEF Typed, Polled, server

LEMMA PolledServer ==
  ASSUME Typed, ServerStep
  PROVE  Polled'
<1> SUFFICES ASSUME ~torn'
             PROVE  /\ spc' \in {"lockConnect"} \cup DequeuePcs => connectQ'.size > 0
                    /\ spc' \in {"lockAccept"} \cup EnqueuePcs => acceptQ'.size < AcceptCap
  BY DEF Polled
<1>1. ~torn
  BY ServerFrame
<1>2. /\ connectQ \in RingType(ConnectCap, Addresses \cup {Zero})
      /\ acceptQ \in RingType(AcceptCap, Units \cup {NoUnit})
      /\ connectQ.size \in 0 .. ConnectCap /\ acceptQ.size \in 0 .. AcceptCap
      /\ ConnectCap \in Nat \ {0} /\ AcceptCap \in Nat \ {0}
      /\ spc \in {"lockConnect"} \cup DequeuePcs => connectQ.size > 0
      /\ spc \in {"lockAccept"} \cup EnqueuePcs => acceptQ.size < AcceptCap
  BY <1>1, Constants DEF Typed, TypeOK, Polled
<1>3. spc' \in {"lockConnect"} \cup DequeuePcs => connectQ'.size > 0
  <2>1. CASE AcceptWaitConnect
    BY <1>2, <2>1 DEF AcceptWaitConnect, shared
  <2>2. CASE AcceptLockConnect \/ AcceptCopy
    BY <1>2, <2>2 DEF AcceptLockConnect, AcceptCopy, shared, DequeuePcs
  <2>3. CASE AcceptFront
    <3>1. FrontMoved(connectQ, ConnectCap).size = connectQ.size
      BY <1>2, RingFields
    <3> QED BY <1>2, <2>3, <3>1 DEF AcceptFront, DequeuePcs
  <2>4. \/ AcceptWaitConnect \/ AcceptLockConnect \/ AcceptCopy \/ AcceptFront
        \/ spc' \notin {"lockConnect"} \cup DequeuePcs
    BY DEF ServerStep, Boot, Accept, BootConnectQueue, BootAcceptQueue,
       BootLocks, BootRest, AcceptStart, AcceptShrink, AcceptUnlockConnect,
       AcceptInitClose, AcceptWaitRoom, AcceptLockAccept, AcceptRear, AcceptItem,
       AcceptCount, AcceptReturn, ReadStart, Close, ReadFinish, ReadEof, ServerDeath,
       Return, DequeuePcs
  <2> QED BY <2>1, <2>2, <2>3, <2>4
<1>4. spc' \in {"lockAccept"} \cup EnqueuePcs => acceptQ'.size < AcceptCap
  <2>1. CASE AcceptWaitRoom
    BY <1>2, <2>1 DEF AcceptWaitRoom, AcceptRoom, shared
  <2>2. CASE AcceptLockAccept
    BY <1>2, <2>2 DEF AcceptLockAccept
  <2>3. CASE AcceptRear
    <3>1. RearMoved(acceptQ, AcceptCap).size = acceptQ.size
      BY <1>2, RingFields
    <3> QED BY <1>2, <2>3, <3>1 DEF AcceptRear, EnqueuePcs
  <2>4. CASE AcceptItem
    <3>1. ItemStored(acceptQ, cur).size = acceptQ.size
      BY <1>2 DEF ItemStored, RingType
    <3> QED BY <1>2, <2>4, <3>1 DEF AcceptItem, EnqueuePcs
  <2>5. \/ AcceptWaitRoom \/ AcceptLockAccept \/ AcceptRear \/ AcceptItem
        \/ spc' \notin {"lockAccept"} \cup EnqueuePcs
    BY DEF ServerStep, Boot, Accept, BootConnectQueue, BootAcceptQueue,
       BootLocks, BootRest, AcceptStart, AcceptWaitConnect, AcceptLockConnect, AcceptCopy,
       AcceptFront, AcceptShrink, AcceptUnlockConnect, AcceptInitClose, AcceptCount,
       AcceptReturn, ReadStart, Close, ReadFinish, ReadEof, ServerDeath, Return, EnqueuePcs
  <2> QED BY <2>1, <2>2, <2>3, <2>4, <2>5
<1> QED BY <1>3, <1>4

\* Who enters a queue finds nobody inside, or the queue is torn.
LEMMA SectionsClient ==
  ASSUME Typed, NEW c \in Clients, ClientStep(c), ~torn'
  PROVE  /\ ConnectSection' \subseteq ConnectSection \/ ConnectSection' = {c}
         /\ AcceptSection' \subseteq AcceptSection \/ AcceptSection' = {c}
<1>1. /\ pc \in [Clients -> ClientPcs] /\ spc' = spc
      /\ \E label \in ClientPcs : pc' = [pc EXCEPT ![c] = label]
  BY ClientFrame DEF Typed, TypeOK, server
<1>2. CASE ConnectLock(c)
  <2>1. ConnectSection = {}
    BY <1>2 DEF ConnectLock
  <2> QED BY <1>1, <1>2, <2>1 DEF ConnectLock, Goto, ConnectSection, AcceptSection,
    EnqueuePcs, DequeuePcs
<1>3. CASE ConnectLockAccept(c)
  <2>1. AcceptSection = {}
    BY <1>3 DEF ConnectLockAccept
  <2> QED BY <1>1, <1>3, <2>1 DEF ConnectLockAccept, Goto, ConnectSection, AcceptSection,
    EnqueuePcs, DequeuePcs
<1>4. CASE ~ConnectLock(c) /\ ~ConnectLockAccept(c)
  <2>1. /\ pc'[c] \in EnqueuePcs \cup {"unlockConnect"} => pc[c] \in EnqueuePcs \cup {"unlockConnect"}
        /\ pc'[c] \in DequeuePcs \cup {"unlockAccept"} => pc[c] \in DequeuePcs \cup {"unlockAccept"}
    BY <1>1, <1>4 DEF ClientStep, Connect, ConnectStart, ConnectRoom,
       ConnectRear, ConnectItem, ConnectCount, ConnectUnlock, ConnectAwait,
       ConnectCopy, ConnectFront, ConnectShrink, ConnectReturn, Send,
       CloseRead, CloseWrite, ClientDeath, Goto, EnqueuePcs, DequeuePcs
  <2>2. \A d \in Clients \ {c} : pc'[d] = pc[d]
    BY <1>1
  <2> QED BY <1>1, <2>1, <2>2 DEF ConnectSection, AcceptSection
<1> QED BY <1>2, <1>3, <1>4

LEMMA SectionsServer ==
  ASSUME ServerStep, ~torn'
  PROVE  /\ ConnectSection' \subseteq ConnectSection \/ ConnectSection' = {Server}
         /\ AcceptSection' \subseteq AcceptSection \/ AcceptSection' = {Server}
         /\ BootConnectQueue => ConnectSection = {}
         /\ BootAcceptQueue => AcceptSection = {}
<1>1. UNCHANGED pc
  BY ServerFrame DEF clients
<1>2. CASE AcceptLockConnect
  <2>1. spc' = "copy" => ConnectSection = {}
    BY <1>2 DEF AcceptLockConnect, Return
  <2>2. spc = "lockConnect" /\ spc' \in {"copy", "app"}
    BY <1>2 DEF AcceptLockConnect, Return
  <2> QED BY <1>1, <1>2, <2>1, <2>2 DEF ConnectSection, AcceptSection, EnqueuePcs,
    DequeuePcs, BootConnectQueue, BootAcceptQueue
<1>3. CASE AcceptLockAccept
  <2>1. AcceptSection = {}
    BY <1>3 DEF AcceptLockAccept
  <2> QED BY <1>1, <1>3, <2>1 DEF AcceptLockAccept, ConnectSection, AcceptSection,
    EnqueuePcs, DequeuePcs, BootConnectQueue, BootAcceptQueue
<1>4. CASE ~AcceptLockConnect /\ ~AcceptLockAccept
  <2>1. /\ spc' \in DequeuePcs \cup {"unlockConnect"} => spc \in DequeuePcs \cup {"unlockConnect"}
        /\ spc' \in EnqueuePcs \cup {"unlockAccept"} => spc \in EnqueuePcs \cup {"unlockAccept"}
    BY <1>4 DEF ServerStep, Boot, Accept, BootConnectQueue, BootAcceptQueue,
       BootLocks, BootRest, AcceptStart, AcceptWaitConnect, AcceptCopy,
       AcceptFront, AcceptShrink, AcceptUnlockConnect, AcceptInitClose, AcceptWaitRoom,
       AcceptRear, AcceptItem, AcceptCount, AcceptReturn, ReadStart,
       Close, ReadFinish, ReadEof, ServerDeath, Return, EnqueuePcs, DequeuePcs
  <2> QED BY <1>1, <2>1 DEF ConnectSection, AcceptSection, BootConnectQueue, BootAcceptQueue
<1> QED BY <1>2, <1>3, <1>4

LEMMA InsideClient ==
  ASSUME Typed, NEW c \in Clients, ClientStep(c)
  PROVE  Inside'
<1> SUFFICES ASSUME ~torn' PROVE Inside'
  BY DEF Inside
<1>0. /\ ~torn /\ UNCHANGED connectCapacity
      /\ \E label \in ClientPcs : pc' = [pc EXCEPT ![c] = label]
  BY ClientFrame DEF Typed
<1>1. /\ connectQ \in RingType(ConnectCap, Addresses \cup {Zero})
      /\ acceptQ \in RingType(AcceptCap, Units \cup {NoUnit})
      /\ connectQ.size \in 0 .. ConnectCap /\ acceptQ.size \in 0 .. AcceptCap
      /\ ConnectCap \in Nat \ {0} /\ AcceptCap \in Nat \ {0}
      /\ connectCapacity \in {0, ConnectCap} /\ pc \in [Clients -> ClientPcs]
  BY <1>0, Constants DEF Typed, TypeOK
<1>2. OneAt(ConnectSection) /\ OneAt(AcceptSection)
  BY <1>0 DEF Typed, Inside
<1>3. OneAt(ConnectSection') /\ OneAt(AcceptSection')
  BY <1>2, SectionsClient DEF OneAt
<1>4. /\ connectCapacity = 0 => connectQ.size = 0
      /\ \A d \in Clients : pc[d] \in {"item", "count"} =>
                              connectCapacity # 0 /\ connectQ.size < ConnectCap
      /\ \A d \in Clients : pc[d] \in {"front", "shrink"} => acceptQ.size > 0
  BY <1>0 DEF Typed, Inside
<1>5. connectQ'.size = connectQ.size \/ ConnectCount(c)
  <2>1. CASE ConnectRear(c)
    <3>1. RearMoved(connectQ, ConnectCap).size = connectQ.size
      BY <1>1 DEF RearMoved, RingType
    <3> QED BY <2>1, <3>1 DEF ConnectRear
  <2>2. CASE ConnectItem(c)
    BY <1>1, <2>2 DEF ConnectItem, ItemStored, RingType
  <2> QED BY <2>1, <2>2, ClientFrame DEF Typed
<1>6. acceptQ'.size = acceptQ.size \/ ConnectShrink(c)
  <2>1. CASE ConnectFront(c)
    BY <1>1, <2>1, RingFields DEF ConnectFront
  <2> QED BY <2>1, ClientFrame DEF Typed
<1>7. connectCapacity' = 0 => connectQ'.size = 0
  <2>1. ConnectCount(c) => connectCapacity # 0
    BY <1>4 DEF ConnectCount
  <2> QED BY <1>0, <1>4, <1>5, <2>1
<1>8. ASSUME NEW d \in Clients, pc'[d] \in {"item", "count"}
      PROVE  connectCapacity' # 0 /\ connectQ'.size < ConnectCap
  <2>1. CASE d = c
    <3>1. \/ ConnectRear(c) /\ ~ConnectFull
          \/ ConnectItem(c)
      BY <1>0, <1>1, <1>8, <2>1 DEF ClientStep, Connect, ConnectStart, ConnectRoom,
         ConnectLock, ConnectRear, ConnectCount, ConnectUnlock, ConnectAwait,
         ConnectLockAccept, ConnectCopy, ConnectFront, ConnectShrink, ConnectReturn, Send,
         CloseRead, CloseWrite, ClientDeath, Goto
    <3>2. connectQ'.size = connectQ.size
      BY <3>1, <1>5 DEF ConnectRear, ConnectItem, ConnectCount
    <3>3. CASE ConnectRear(c) /\ ~ConnectFull
      BY <1>0, <1>1, <1>4, <3>2, <3>3 DEF ConnectFull
    <3>4. CASE ConnectItem(c)
      BY <1>0, <1>4, <3>2, <3>4 DEF ConnectItem
    <3> QED BY <3>1, <3>3, <3>4
  <2>2. CASE d # c
    <3>1. pc[d] = pc'[d]
      BY <1>0, <1>1, <2>2
    <3>2. ~ConnectCount(c)
      <4> SUFFICES ASSUME ConnectCount(c) PROVE FALSE
        OBVIOUS
      <4>1. c \in ConnectSection /\ d \in ConnectSection
        BY <1>8, <3>1 DEF ConnectCount, ConnectSection, EnqueuePcs
      <4> QED BY <1>2, <2>2, <4>1 DEF OneAt
    <3> QED BY <1>0, <1>4, <1>5, <1>8, <3>1, <3>2
  <2> QED BY <2>1, <2>2
<1>9. ASSUME NEW d \in Clients, pc'[d] \in {"front", "shrink"}
      PROVE  acceptQ'.size > 0
  <2>1. CASE d = c
    <3>1. (ConnectCopy(c) /\ AcceptionReady) \/ ConnectFront(c)
      BY <1>0, <1>1, <1>9, <2>1 DEF ClientStep, Connect, ConnectStart, ConnectRoom,
         ConnectLock, ConnectRear, ConnectItem, ConnectCount, ConnectUnlock, ConnectAwait,
         ConnectLockAccept, ConnectCopy, ConnectShrink, ConnectReturn, Send,
         CloseRead, CloseWrite, ClientDeath, Goto
    <3>2. acceptQ'.size = acceptQ.size
      BY <3>1, <1>6 DEF ConnectCopy, ConnectFront, ConnectShrink
    <3>3. acceptQ.size > 0
      BY <1>1, <1>4, <3>1 DEF AcceptionReady, ConnectFront
    <3> QED BY <3>2, <3>3
  <2>2. CASE d # c
    <3>1. pc[d] = pc'[d]
      BY <1>0, <1>1, <2>2
    <3>2. ~ConnectShrink(c)
      <4> SUFFICES ASSUME ConnectShrink(c) PROVE FALSE
        OBVIOUS
      <4>1. c \in AcceptSection /\ d \in AcceptSection
        BY <1>9, <3>1 DEF ConnectShrink, AcceptSection, DequeuePcs
      <4> QED BY <1>2, <2>2, <4>1 DEF OneAt
    <3> QED BY <1>4, <1>6, <1>9, <3>1, <3>2
  <2> QED BY <2>1, <2>2
<1> QED BY <1>3, <1>7, <1>8, <1>9 DEF Inside

LEMMA InsideServer ==
  ASSUME Typed, ServerStep
  PROVE  Inside'
<1> SUFFICES ASSUME ~torn' PROVE Inside'
  BY DEF Inside
<1>0. /\ ~torn /\ UNCHANGED pc
      /\ connectCapacity' = connectCapacity \/ BootConnectQueue
  BY ServerFrame DEF clients
<1>1. /\ connectQ \in RingType(ConnectCap, Addresses \cup {Zero})
      /\ acceptQ \in RingType(AcceptCap, Units \cup {NoUnit})
      /\ connectQ.size \in 0 .. ConnectCap /\ acceptQ.size \in 0 .. AcceptCap
      /\ ConnectCap \in Nat \ {0} /\ AcceptCap \in Nat \ {0}
      /\ spc = "shrink" => connectQ.size > 0
  BY <1>0, Constants DEF Typed, TypeOK, Polled, DequeuePcs
<1>2. OneAt(ConnectSection') /\ OneAt(AcceptSection')
  <2>1. OneAt(ConnectSection) /\ OneAt(AcceptSection)
    BY <1>0 DEF Typed, Inside
  <2> QED BY <2>1, SectionsServer DEF OneAt
<1>3. /\ connectCapacity = 0 => connectQ.size = 0
      /\ \A d \in Clients : pc[d] \in {"item", "count"} =>
                              connectCapacity # 0 /\ connectQ.size < ConnectCap
      /\ \A d \in Clients : pc[d] \in {"front", "shrink"} => acceptQ.size > 0
  BY <1>0 DEF Typed, Inside
<1>4. CASE BootConnectQueue
  <2>1. \A d \in Clients : pc[d] \notin {"item", "count"}
    BY <1>4, SectionsServer DEF ConnectSection, EnqueuePcs
  <2>2. connectCapacity' = ConnectCap /\ acceptQ' = acceptQ
    BY <1>4 DEF BootConnectQueue
  <2> QED BY <1>0, <1>1, <1>2, <1>3, <2>1, <2>2 DEF Inside
<1>5. CASE BootAcceptQueue
  <2>1. \A d \in Clients : pc[d] \notin {"front", "shrink"}
    BY <1>5, SectionsServer DEF AcceptSection, DequeuePcs
  <2>2. connectCapacity' = connectCapacity /\ connectQ' = connectQ
    BY <1>5 DEF BootAcceptQueue
  <2> QED BY <1>0, <1>1, <1>2, <1>3, <2>1, <2>2 DEF Inside
<1>6. CASE ~BootConnectQueue /\ ~BootAcceptQueue
  <2>1. connectQ'.size \in Int /\ connectQ'.size <= connectQ.size /\ connectQ'.size >= 0
    <3>1. CASE AcceptFront
      BY <1>1, <3>1, RingFields DEF AcceptFront
    <3>2. CASE AcceptShrink
      <4>1. connectQ'.size = connectQ.size - 1
        BY <1>1, <3>2, RingFields DEF AcceptShrink
      <4> QED BY <1>1, <3>2, <4>1 DEF AcceptShrink
    <3> QED BY <1>1, <1>6, <3>1, <3>2, ServerFrame
  <2>2. acceptQ'.size \in Int /\ acceptQ'.size >= acceptQ.size
    <3>1. CASE AcceptRear
      <4>1. acceptQ'.size = acceptQ.size
        BY <1>1, <3>1, RingFields DEF AcceptRear
      <4> QED BY <1>1, <4>1
    <3>2. CASE AcceptItem
      BY <1>1, <3>2 DEF AcceptItem, ItemStored, RingType
    <3>3. CASE AcceptCount
      <4>1. acceptQ'.size = acceptQ.size + 1
        BY <1>1, <3>3, RingFields DEF AcceptCount, AcceptionCounted
      <4> QED BY <1>1, <4>1
    <3> QED BY <1>1, <1>6, <3>1, <3>2, <3>3, ServerFrame
  <2>3. connectCapacity' = connectCapacity
    BY <1>0, <1>6
  <2>4. connectCapacity' = 0 => connectQ'.size = 0
    BY <1>1, <1>3, <2>1, <2>3
  <2>5. \A d \in Clients : pc'[d] \in {"item", "count"} =>
                             connectCapacity' # 0 /\ connectQ'.size < ConnectCap
    BY <1>0, <1>1, <1>3, <2>1, <2>3
  <2>6. \A d \in Clients : pc'[d] \in {"front", "shrink"} => acceptQ'.size > 0
    BY <1>0, <1>1, <1>3, <2>2
  <2> QED BY <1>2, <2>4, <2>5, <2>6 DEF Inside
<1> QED BY <1>4, <1>5, <1>6

LEMMA TypedNext == Typed /\ [Next]_vars => Typed'
<1> SUFFICES ASSUME Typed, [Next]_vars PROVE Typed'
  OBVIOUS
<1>1. ASSUME NEW c \in Clients, ClientStep(c) PROVE Typed'
  BY <1>1, TypesClient, PolledClient, PlacedClient, InsideClient DEF Typed
<1>2. CASE ServerStep
  BY <1>2, TypesServer, PolledServer, PlacedServer, InsideServer DEF Typed
<1>3. CASE UNCHANGED vars
  BY <1>3 DEF Typed, TypeOK, Polled, Placed, Inside, ConnectSection, AcceptSection, vars,
     shared, data, server, clients, history
<1> QED BY <1>1, <1>2, <1>3, NextIsStep

\* The variables keep their types; the queues keep their capacities unless a
\* process was killed between two stores of an operation, or two were inside.
THEOREM TypesKept == Spec => []TypeOK
<1>1. Spec => []Typed
  BY TypedInit, TypedNext, PTL DEF Spec
<1> QED BY <1>1, PTL DEF Typed

\* What accept has polled without a lock is still so when it comes to act on it
\* under the lock: the connect queue has a connection, the accept queue room.
THEOREM PollsStayTrue == Spec => []Polled
<1>1. Spec => []Typed
  BY TypedInit, TypedNext, PTL DEF Spec
<1> QED BY <1>1, PTL DEF Typed
-----------------------------------------------------------------------------
(* Units *)

\* The stack of the server's program and the sockets share out the units.
Stacked ==
  spc \notin BootPcs =>
    /\ Distinct(available_share_unit)
    /\ Seen(available_share_unit) = {u \in Units : sock[u] = "free"}

\* A stack that is as it was, while no socket comes or goes.
LEMMA StackedStays ==
  ASSUME Stacked, UNCHANGED available_share_unit, spc' \in BootPcs \/ spc \notin BootPcs,
         spc' \notin BootPcs => \A u \in Units : sock'[u] = "free" <=> sock[u] = "free"
  PROVE  Stacked'
BY DEF Stacked

LEMMA StackedAccept ==
  ASSUME Typed, Stacked, AcceptStart
  PROVE  Stacked'
<1> DEFINE s == available_share_unit
<1>1. s \in Seq(Units) /\ s # <<>> /\ s' = Tail(s) /\ spc = "app" /\ Head(s) \in Units
  BY DEF AcceptStart, Typed, TypeOK
<1>2. Distinct(s) /\ Seen(s) = {u \in Units : sock[u] = "free"}
  BY <1>1 DEF Stacked, BootPcs
<1>3. Distinct(s') /\ Seen(s') = Seen(s) \ {Head(s)}
  BY <1>1, <1>2, DistinctTail
<1>4. sock' = [sock EXCEPT ![Head(s)] = "accepting"] /\ sock \in [Units -> Uses]
  BY DEF AcceptStart, Typed, TypeOK
<1>5. {u \in Units : sock'[u] = "free"} = {u \in Units : sock[u] = "free"} \ {Head(s)}
  BY <1>1, <1>4
<1> QED BY <1>2, <1>3, <1>5 DEF Stacked

LEMMA StackedClose ==
  ASSUME Typed, Stacked, NEW u \in Units, Close(u)
  PROVE  Stacked'
<1> DEFINE s == available_share_unit
<1>1. s \in Seq(Units) /\ s' = <<u>> \o s /\ spc = "app" /\ sock[u] # "free"
  BY DEF Close, Typed, TypeOK
<1>2. Distinct(s) /\ Seen(s) = {v \in Units : sock[v] = "free"}
  BY <1>1 DEF Stacked, BootPcs
<1>3. Distinct(s') /\ Seen(s') = Seen(s) \cup {u}
  BY <1>1, <1>2, DistinctPush
<1>4. sock' = [sock EXCEPT ![u] = "free"] /\ sock \in [Units -> Uses]
  BY DEF Close, Released, Typed, TypeOK
<1>5. {v \in Units : sock'[v] = "free"} = {v \in Units : sock[v] = "free"} \cup {u}
  BY <1>4
<1> QED BY <1>2, <1>3, <1>5 DEF Stacked

\* The stack that init_share_queue makes, without the unit of the listener.
LEMMA StackedBoot ==
  ASSUME BootRest
  PROVE  Stacked'
<1> DEFINE s == [i \in 1 .. SocketNum - 1 |-> i]
<1>1. SocketNum \in Nat \ {0}
  BY HandshakeAssumption
<1>2. available_share_unit' = s /\ sock' = [u \in Units |-> IF u = 0 THEN "listener" ELSE "free"]
  BY DEF BootRest
<1>3. Distinct(s) /\ Seen(s) = 1 .. SocketNum - 1
  BY DEF Distinct, Seen
<1>4. {u \in Units : sock'[u] = "free"} = 1 .. SocketNum - 1
  BY <1>1, <1>2 DEF Units
<1> QED BY <1>2, <1>3, <1>4 DEF Stacked

LEMMA StackedNext == Typed /\ Stacked /\ [Next]_vars => Stacked'
<1> SUFFICES ASSUME Typed, Stacked, [Next]_vars PROVE Stacked'
  OBVIOUS
<1>1. ASSUME NEW c \in Clients, ClientStep(c) PROVE Stacked'
  <2>1. UNCHANGED server
    BY <1>1, ClientFrame DEF Typed
  <2> QED BY <2>1 DEF server, Stacked
<1>2. CASE BootConnectQueue \/ BootAcceptQueue \/ BootLocks \/ ServerDeath
  <2>1. spc' \in BootPcs
    BY <1>2 DEF BootConnectQueue, BootAcceptQueue, BootLocks, ServerDeath, BootPcs
  <2> QED BY <2>1 DEF Stacked
<1>3. CASE Accept
  <2>1. \/ cur \in Units /\ sock[cur] = "accepting" /\ sock \in [Units -> Uses]
        \/ spc = "unlockAccept" /\ UNCHANGED sock
    BY <1>3 DEF Accept, AcceptWaitConnect, AcceptLockConnect, AcceptCopy, AcceptFront,
       AcceptShrink, AcceptUnlockConnect, AcceptInitClose, AcceptWaitRoom,
       AcceptLockAccept, AcceptRear, AcceptItem, AcceptCount, AcceptReturn, Typed,
       TypeOK, Placed, AcceptPcs, DequeuePcs, AnswerPcs, EnqueuePcs
  <2>2. sock' = sock \/ \E use \in {"open", "leaked"} : sock' = [sock EXCEPT ![cur] = use]
    BY <1>3 DEF Accept, AcceptWaitConnect, AcceptLockConnect, AcceptCopy, AcceptFront,
       AcceptShrink, AcceptUnlockConnect, AcceptInitClose, AcceptWaitRoom,
       AcceptLockAccept, AcceptRear, AcceptItem, AcceptCount, AcceptReturn
  <2>3. UNCHANGED available_share_unit /\ spc \notin BootPcs
    BY <1>3 DEF Accept, AcceptWaitConnect, AcceptLockConnect, AcceptCopy, AcceptFront,
       AcceptShrink, AcceptUnlockConnect, AcceptInitClose, AcceptWaitRoom,
       AcceptLockAccept, AcceptRear, AcceptItem, AcceptCount, AcceptReturn, BootPcs
  <2>4. \A u \in Units : sock'[u] = "free" <=> sock[u] = "free"
    BY <2>1, <2>2
  <2> QED BY <2>3, <2>4, StackedStays
<1>4. ASSUME NEW u \in Units, ReadStart(u) PROVE Stacked'
  <2>1. /\ UNCHANGED available_share_unit /\ spc \notin BootPcs
        /\ \A v \in Units : sock'[v] = "free" <=> sock[v] = "free"
    BY <1>4 DEF ReadStart, BootPcs, Typed, TypeOK
  <2> QED BY <2>1, StackedStays
<1>5. CASE ReadFinish \/ ReadEof
  <2>1. /\ UNCHANGED available_share_unit /\ spc \notin BootPcs
        /\ \A v \in Units : sock'[v] = "free" <=> sock[v] = "free"
    BY <1>5 DEF ReadFinish, ReadEof, BootPcs, Typed, TypeOK, Placed
  <2> QED BY <2>1, StackedStays
<1>6. CASE UNCHANGED vars
  BY <1>6 DEF vars, server, Stacked
<1> QED
  BY <1>1, <1>2, <1>3, <1>4, <1>5, <1>6, StackedAccept, StackedClose, StackedBoot,
     NextIsStep DEF ServerStep, Boot

\* No unit is handed out twice and none disappears: those the stack holds are
\* those no socket uses, each of them once.
THEOREM UnitsKept == Spec => []UnitsAccounted
<1>1. Init => Typed /\ Stacked
  BY TypedInit DEF Init, Stacked, BootPcs
<1>2. Typed /\ Stacked /\ [Next]_vars => (Typed /\ Stacked)'
  BY TypedNext, StackedNext
<1>3. Typed /\ Stacked => UnitsAccounted
  BY DistinctLen DEF Typed, TypeOK, Stacked, UnitsAccounted
<1> QED BY <1>1, <1>2, <1>3, PTL DEF Spec
-----------------------------------------------------------------------------
(* What is offered in the accept queue *)

\* An index less than two rings along wraps at most once.
LEMMA Wrap ==
  ASSUME NEW cap \in Nat \ {0}, NEW x \in Nat, x < 2 * cap
  PROVE  x % cap = IF x < cap THEN x ELSE x - cap
<1>1. CASE x < cap
  BY <1>1
<1>2. CASE x >= cap
  BY <1>2
<1> QED BY <1>1, <1>2

LEMMA WrapSum ==
  ASSUME NEW cap \in Nat \ {0}, NEW a \in Nat, NEW b \in Nat, a + b < 2 * cap
  PROVE  (a + b) % cap = IF a + b < cap THEN a + b ELSE a + b - cap
<1> DEFINE x == a + b
<1>1. x \in Nat /\ x < 2 * cap
  OBVIOUS
<1> HIDE DEF x
<1>2. x % cap = IF x < cap THEN x ELSE x - cap
  BY <1>1, Wrap
<1> QED BY <1>2 DEF x

LEMMA ItemsType ==
  ASSUME NEW cap \in Nat \ {0}, NEW Item, NEW q \in RingType(cap, Item), NEW n \in Nat
  PROVE  /\ Items(q, n, cap) \in Seq(Item) /\ Len(Items(q, n, cap)) = n
         /\ DOMAIN Items(q, n, cap) = 1 .. n
         /\ \A k \in 1 .. n : /\ (q.front + (k - 1)) % cap \in 0 .. cap - 1
                              /\ Items(q, n, cap)[k] = q.slot[(q.front + (k - 1)) % cap]
<1>1. \A k \in 1 .. n : (q.front + (k - 1)) % cap \in 0 .. cap - 1
  BY DEF RingType
<1>2. \A k \in 1 .. n : q.slot[(q.front + (k - 1)) % cap] \in Item
  BY <1>1 DEF RingType
<1>3. Items(q, n, cap) \in [1 .. n -> Item]
  BY <1>2 DEF Items
<1>4. Items(q, n, cap) \in Seq(Item)
  BY <1>3
<1>5. Len(Items(q, n, cap)) = n
  BY <1>3, <1>4
<1> QED BY <1>1, <1>3, <1>4, <1>5 DEF Items

\* Sequences are equal that agree in their length and their elements.
LEMMA SameSeq ==
  ASSUME NEW S, NEW s \in Seq(S), NEW t \in Seq(S), NEW n \in Nat,
         Len(s) = n, Len(t) = n, \A k \in 1 .. n : s[k] = t[k]
  PROVE  s = t
OBVIOUS

\* When front moves on, the first item is out.
LEMMA ItemsFront ==
  ASSUME NEW cap \in Nat \ {0}, NEW Item, NEW q \in RingType(cap, Item), NEW n \in 1 .. cap
  PROVE  /\ Items(q, n, cap) # <<>>
         /\ Head(Items(q, n, cap)) = FirstItem(q)
         /\ Items(FrontMoved(q, cap), n - 1, cap) = Tail(Items(q, n, cap))
         /\ (FrontMoved(q, cap).front + (n - 1)) % cap = (q.front + n) % cap
<1> DEFINE r == FrontMoved(q, cap)
           s == Items(q, n, cap)
           t == Items(r, n - 1, cap)
           f == q.front
<1>1. /\ r \in RingType(cap, Item) /\ r.front = (f + 1) % cap /\ r.slot = q.slot
  BY RingSteps, RingFields
<1>2. /\ f \in Nat /\ f < cap /\ n \in Nat /\ n - 1 \in Nat /\ n >= 1 /\ n <= cap
      /\ cap \in Nat
  BY DEF RingType
<1>3. r.front = IF f + 1 < cap THEN f + 1 ELSE 0
  BY <1>1, <1>2, Wrap
<1>4. ASSUME NEW k \in 0 .. n - 1
      PROVE  (r.front + k) % cap = (f + (k + 1)) % cap
  <2>1. /\ k \in Nat /\ f + (k + 1) \in Nat /\ f + (k + 1) < 2 * cap /\ k < cap
    BY <1>2
  <2>2. CASE f + 1 < cap
    BY <1>2, <1>3, <2>1, <2>2
  <2>3. CASE ~(f + 1 < cap)
    <3>1. f + (k + 1) = cap + k /\ r.front + k = k
      BY <1>2, <1>3, <2>1, <2>3
    <3>2. (f + (k + 1)) % cap = k
      BY <1>2, <2>1, <3>1, Wrap
    <3>3. k % cap = k
      BY <1>2, <2>1
    <3> QED BY <3>1, <3>2, <3>3
  <2> QED BY <2>2, <2>3
<1>5. (r.front + (n - 1)) % cap = (f + n) % cap
  <2>1. n - 1 \in 0 .. n - 1 /\ (n - 1) + 1 = n
    BY <1>2
  <2> QED BY <1>4, <2>1
<1>6. /\ s \in Seq(Item) /\ Len(s) = n
      /\ \A k \in 1 .. n : s[k] = q.slot[(f + (k - 1)) % cap]
  BY <1>2, ItemsType, ZenonT(40)
<1> HIDE DEF r
<1>7. /\ t \in Seq(Item) /\ Len(t) = n - 1
      /\ \A k \in 1 .. n - 1 : t[k] = r.slot[(r.front + (k - 1)) % cap]
  <2> DEFINE m == n - 1
  <2>1. m \in Nat
    BY <1>2
  <2> HIDE DEF m
  <2>2. r \in RingType(cap, Item) /\ m \in Nat
    BY <1>1, <2>1
  <2>3. /\ Items(r, m, cap) \in Seq(Item) /\ Len(Items(r, m, cap)) = m
        /\ \A k \in 1 .. m : Items(r, m, cap)[k] = r.slot[(r.front + (k - 1)) % cap]
    BY <2>2, ItemsType, ZenonT(40)
  <2> QED BY <2>3 DEF m
<1> HIDE DEF s, t, f
<1>8. s # <<>>
  BY <1>2, <1>6
<1>9. Head(s) = q.slot[f]
  <2>1. (f + (1 - 1)) % cap = f /\ 1 \in 1 .. n
    BY <1>2
  <2> QED BY <1>6, <1>8, <2>1, TailFacts
<1>10. t = Tail(s)
  <2>1. /\ Tail(s) \in Seq(Item) /\ Len(Tail(s)) = n - 1
        /\ \A k \in 1 .. n - 1 : Tail(s)[k] = s[k + 1]
    BY <1>6, <1>8, TailFacts
  <2>2. ASSUME NEW k \in 1 .. n - 1 PROVE t[k] = Tail(s)[k]
    <3>1. k + 1 \in 1 .. n /\ k - 1 \in 0 .. n - 1 /\ (k - 1) + 1 = k /\ (k + 1) - 1 = k
      BY <1>2
    <3>2. s[k + 1] = q.slot[(f + k) % cap]
      BY <1>6, <3>1
    <3>3. t[k] = q.slot[(r.front + (k - 1)) % cap]
      BY <1>1, <1>7
    <3>4. (r.front + (k - 1)) % cap = (f + k) % cap
      BY <1>4, <3>1
    <3> QED BY <2>1, <3>2, <3>3, <3>4
  <2> QED BY <1>2, <1>7, <2>1, <2>2, SameSeq
<1> QED BY <1>5, <1>8, <1>9, <1>10 DEF s, t, r, f, FirstItem

\* An item stored past those that count, ...
LEMMA ItemsStore ==
  ASSUME NEW cap \in Nat \ {0}, NEW Item, NEW q \in RingType(cap, Item),
         NEW n \in 0 .. cap - 1, NEW x \in Item, q.rear = (q.front + n) % cap
  PROVE  /\ Items(ItemStored(q, x), n, cap) = Items(q, n, cap)
         /\ ItemStored(q, x).slot[ItemStored(q, x).rear] = x
<1> DEFINE r == ItemStored(q, x)
           s == Items(q, n, cap)
           t == Items(r, n, cap)
           f == q.front
<1>1. /\ r \in RingType(cap, Item) /\ r.slot = [q.slot EXCEPT ![q.rear] = x]
      /\ r.front = f /\ r.rear = q.rear /\ q.rear \in 0 .. cap - 1
      /\ q.slot \in [0 .. cap - 1 -> Item]
  BY RingSteps DEF ItemStored, RingType
<1>2. f \in Nat /\ f < cap /\ n \in Nat /\ n < cap /\ cap \in Nat
  BY DEF RingType
<1>3. /\ s \in Seq(Item) /\ Len(s) = n
      /\ \A k \in 1 .. n : /\ (f + (k - 1)) % cap \in 0 .. cap - 1
                           /\ s[k] = q.slot[(f + (k - 1)) % cap]
  BY <1>2, ItemsType, ZenonT(40)
<1> HIDE DEF r
<1>4. /\ t \in Seq(Item) /\ Len(t) = n
      /\ \A k \in 1 .. n : t[k] = r.slot[(r.front + (k - 1)) % cap]
  <2>1. r \in RingType(cap, Item) /\ n \in Nat
    BY <1>1, <1>2
  <2> QED BY <2>1, ItemsType, ZenonT(40)
<1> HIDE DEF s, t, f
<1>5. ASSUME NEW k \in 1 .. n PROVE (f + (k - 1)) % cap # q.rear
  <2>1. /\ k \in Nat /\ k >= 1 /\ k <= n
        /\ f + n \in Nat /\ f + n < 2 * cap
        /\ f + (k - 1) \in Nat /\ f + (k - 1) < 2 * cap
    BY <1>2
  <2>2. (f + n) % cap = IF f + n < cap THEN f + n ELSE f + n - cap
    BY <1>2, <2>1, WrapSum
  <2>3. (f + (k - 1)) % cap = IF f + (k - 1) < cap THEN f + (k - 1) ELSE f + (k - 1) - cap
    <3> DEFINE j == k - 1
    <3>1. j \in Nat /\ f + j < 2 * cap
      BY <1>2, <2>1
    <3> HIDE DEF j
    <3>2. (f + j) % cap = IF f + j < cap THEN f + j ELSE f + j - cap
      BY <1>2, <3>1, WrapSum
    <3> QED BY <3>2 DEF j
  <2>4. q.rear = (f + n) % cap
    BY DEF f
  <2> QED BY <1>2, <2>1, <2>2, <2>3, <2>4
<1>6. ASSUME NEW k \in 1 .. n PROVE t[k] = s[k]
  BY <1>1, <1>3, <1>4, <1>5, ZenonT(40)
<1>7. t = s
  BY <1>2, <1>3, <1>4, <1>6, SameSeq
<1>8. r.slot[r.rear] = x
  BY <1>1
<1> QED BY <1>7, <1>8 DEF s, t, r

\* ... and then counted.
LEMMA ItemsGrow ==
  ASSUME NEW cap \in Nat \ {0}, NEW Item, NEW q \in RingType(cap, Item),
         NEW n \in 0 .. cap - 1, q.rear = (q.front + n) % cap
  PROVE  /\ Items(Counted(q), n + 1, cap) = Append(Items(q, n, cap), q.slot[q.rear])
         /\ (q.rear + 1) % cap = (q.front + (n + 1)) % cap
<1> DEFINE r == Counted(q)
           s == Items(q, n, cap)
           t == Items(r, n + 1, cap)
           f == q.front
           x == q.slot[q.rear]
<1>1. /\ r \in RingType(cap, Item) /\ r.slot = q.slot /\ r.front = f
  <2>1. r \in RingType(cap, Item)
    BY RingSteps
  <2>2. r.slot = q.slot /\ r.front = f
    BY DEF Counted, RingType
  <2> QED BY <2>1, <2>2
<1> HIDE DEF r
<1>9. q.rear \in 0 .. cap - 1 /\ x \in Item
  BY DEF RingType
<1>2. f \in Nat /\ f < cap /\ n \in Nat /\ n + 1 \in Nat /\ n < cap /\ cap \in Nat
  BY DEF RingType
<1>3. /\ s \in Seq(Item) /\ Len(s) = n
      /\ \A k \in 1 .. n : s[k] = q.slot[(f + (k - 1)) % cap]
  BY <1>2, ItemsType, ZenonT(40)
<1>4. /\ t \in Seq(Item) /\ Len(t) = n + 1
      /\ \A k \in 1 .. n + 1 : t[k] = r.slot[(r.front + (k - 1)) % cap]
  <2> DEFINE m == n + 1
  <2>1. m \in Nat
    BY <1>2
  <2> HIDE DEF m
  <2>2. r \in RingType(cap, Item) /\ m \in Nat
    BY <1>1, <2>1
  <2>3. /\ Items(r, m, cap) \in Seq(Item) /\ Len(Items(r, m, cap)) = m
        /\ \A k \in 1 .. m : Items(r, m, cap)[k] = r.slot[(r.front + (k - 1)) % cap]
    BY <2>2, ItemsType, ZenonT(40)
  <2> QED BY <2>3 DEF m
<1>5. q.rear = (f + n) % cap
  OBVIOUS
<1> HIDE DEF s, t, f, x
<1>6. t = Append(s, x)
  <2>1. /\ Append(s, x) \in Seq(Item) /\ Len(Append(s, x)) = n + 1
        /\ \A k \in 1 .. n : Append(s, x)[k] = s[k]
        /\ Append(s, x)[n + 1] = x
    BY <1>2, <1>3, <1>9
  <2>2. ASSUME NEW k \in 1 .. n + 1 PROVE t[k] = Append(s, x)[k]
    <3>1. CASE k = n + 1
      <4>1. k - 1 = n
        BY <1>2, <3>1
      <4> QED BY <1>1, <1>4, <1>5, <2>1, <3>1, <4>1 DEF x
    <3>2. CASE k # n + 1
      <4>1. k \in 1 .. n
        BY <1>2, <3>2
      <4> QED BY <1>1, <1>3, <1>4, <2>1, <4>1, ZenonT(40)
    <3> QED BY <3>1, <3>2
  <2> QED BY <1>2, <1>4, <2>1, <2>2, SameSeq
<1>7. (q.rear + 1) % cap = (f + (n + 1)) % cap
  <2>1. f + n \in Nat /\ f + n < 2 * cap /\ f + (n + 1) \in Nat /\ f + (n + 1) < 2 * cap
    BY <1>2
  <2>2. (f + n) % cap = IF f + n < cap THEN f + n ELSE f + n - cap
    BY <1>2, <2>1, WrapSum
  <2>3. CASE f + n < cap
    BY <1>2, <1>5, <2>2, <2>3
  <2>4. CASE ~(f + n < cap)
    <3>1. q.rear + 1 \in Nat /\ q.rear + 1 = f + (n + 1) - cap /\ q.rear + 1 < cap
      BY <1>2, <1>5, <2>1, <2>2, <2>4
    <3>2. (f + (n + 1)) % cap = f + (n + 1) - cap
      <4>1. (f + (n + 1)) % cap = IF f + (n + 1) < cap THEN f + (n + 1) ELSE f + (n + 1) - cap
        <5> DEFINE j == n + 1
        <5>1. j \in Nat /\ f + j < 2 * cap
          BY <1>2, <2>1
        <5> HIDE DEF j
        <5>2. (f + j) % cap = IF f + j < cap THEN f + j ELSE f + j - cap
          BY <1>2, <5>1, WrapSum
        <5> QED BY <5>2 DEF j
      <4> QED BY <1>2, <2>1, <2>4, <4>1
    <3>3. (q.rear + 1) % cap = q.rear + 1
      BY <1>2, <3>1
    <3> QED BY <3>1, <3>2, <3>3
  <2> QED BY <2>3, <2>4
<1> QED BY <1>6, <1>7 DEF s, t, r, f, x


\* What items there are depends on front and the slots alone.
LEMMA ItemsSame ==
  ASSUME NEW q, NEW r, NEW n, NEW cap, r.front = q.front, r.slot = q.slot
  PROVE  Items(r, n, cap) = Items(q, n, cap)
BY DEF Items

\* The offers name units; rear is on the last of them, and one further while
\* the server puts the next; a client has copied the first before it moves front.
Ringed ==
  /\ Offers \in Seq(Units)
  /\ spc \in {"item", "count"} =>
       acceptQ.rear = (acceptQ.front + Acceptions) % AcceptCap
  /\ spc \notin {"down", "bootAccept", "item", "count"} =>
       (acceptQ.rear + 1) % AcceptCap = (acceptQ.front + Acceptions) % AcceptCap
  /\ spc = "count" => acceptQ.slot[acceptQ.rear] = cur
  /\ \A c \in Clients :
       /\ pc[c] = "front" => unit[c] = FirstItem(acceptQ)
       /\ pc[c] = "shrink" => unit[c] \in Units

LEMMA AcceptionsType ==
  ASSUME Typed, ~torn
  PROVE  /\ AcceptCap \in Nat \ {0} /\ acceptQ \in RingType(AcceptCap, Units \cup {NoUnit})
         /\ Acceptions \in 0 .. AcceptCap
         /\ Offers \in Seq(Units \cup {NoUnit}) /\ Len(Offers) = Acceptions
         /\ ~Shrinking => Acceptions = acceptQ.size
         /\ Shrinking => Acceptions = acceptQ.size - 1
         /\ \A c \in Clients : pc[c] = "front" => ~Shrinking /\ acceptQ.size > 0
         /\ spc \in EnqueuePcs => ~Shrinking /\ acceptQ.size < AcceptCap
<1>1. /\ AcceptCap \in Nat \ {0} /\ acceptQ \in RingType(AcceptCap, Units \cup {NoUnit})
      /\ acceptQ.size \in 0 .. AcceptCap
  BY Constants DEF Typed, TypeOK
<1>2. Shrinking => acceptQ.size > 0
  BY DEF Shrinking, Typed, Inside
<1>3. /\ ~Shrinking => Acceptions = acceptQ.size
      /\ Shrinking => Acceptions = acceptQ.size - 1
  BY <1>1 DEF Acceptions
<1>4. Acceptions \in 0 .. AcceptCap
  BY <1>1, <1>2, <1>3
<1>5. Acceptions \in Nat
  BY <1>1, <1>4
<1>6. Offers \in Seq(Units \cup {NoUnit}) /\ Len(Offers) = Acceptions
  BY <1>1, <1>5, ItemsType DEF Offers
<1>7. OneAt(AcceptSection)
  BY DEF Typed, Inside
<1>8. \A c \in Clients : pc[c] = "front" => ~Shrinking /\ acceptQ.size > 0
  <2>1. \A c \in Clients : pc[c] = "front" => acceptQ.size > 0
    BY DEF Typed, Inside
  <2> QED BY <1>7, <2>1 DEF OneAt, AcceptSection, Shrinking, DequeuePcs
<1>9. spc \in EnqueuePcs => ~Shrinking /\ acceptQ.size < AcceptCap
  <2>1. spc \in EnqueuePcs => acceptQ.size < AcceptCap
    BY DEF Typed, Polled
  <2>2. Server \notin Clients
    BY HandshakeAssumption
  <2> QED BY <1>7, <2>1, <2>2 DEF OneAt, AcceptSection, Shrinking, DequeuePcs
<1> QED BY <1>1, <1>3, <1>4, <1>6, <1>8, <1>9

\* Only a client that takes an acception changes the offers: they lose the first.
LEMMA OffersClient ==
  ASSUME Typed, NEW c \in Clients, ClientStep(c), ~torn'
  PROVE  /\ \/ /\ ConnectFront(c) /\ Offers # <<>>
               /\ Head(Offers) = FirstItem(acceptQ) /\ Offers' = Tail(Offers)
               /\ Acceptions' = Acceptions - 1
            \/ ~ConnectFront(c) /\ Offers' = Offers /\ Acceptions' = Acceptions
         /\ (acceptQ'.front + Acceptions') % AcceptCap
              = (acceptQ.front + Acceptions) % AcceptCap
         /\ acceptQ'.rear = acceptQ.rear /\ acceptQ'.slot = acceptQ.slot
<1>1. /\ ~torn /\ pc \in [Clients -> ClientPcs]
      /\ \E label \in ClientPcs : pc' = [pc EXCEPT ![c] = label]
      /\ acceptQ' = acceptQ \/ ConnectFront(c) \/ ConnectShrink(c)
  BY ClientFrame DEF Typed, TypeOK
<1>2. /\ AcceptCap \in Nat \ {0} /\ acceptQ \in RingType(AcceptCap, Units \cup {NoUnit})
      /\ Acceptions \in 0 .. AcceptCap /\ acceptQ.size \in Int
      /\ ~Shrinking => Acceptions = acceptQ.size
      /\ Shrinking => Acceptions = acceptQ.size - 1
      /\ \A d \in Clients : pc[d] = "front" => ~Shrinking /\ acceptQ.size > 0
      /\ \A d \in Clients : pc[d] = "shrink" =>
           \A e \in Clients : pc[e] = "shrink" => d = e
  <2>1. \A d \in Clients : pc[d] = "shrink" =>
           \A e \in Clients : pc[e] = "shrink" => d = e
    BY <1>1 DEF Typed, Inside, OneAt, AcceptSection, DequeuePcs
  <2>2. acceptQ.size \in Int
    BY DEF Typed, TypeOK, RingType
  <2> QED BY <1>1, <2>1, <2>2, AcceptionsType
<1>3. CASE ConnectFront(c)
  <2>1. /\ ~Shrinking /\ Acceptions = acceptQ.size /\ Acceptions \in 1 .. AcceptCap
    BY <1>2, <1>3 DEF ConnectFront
  <2>2. acceptQ' = FrontMoved(acceptQ, AcceptCap) /\ Shrinking'
    BY <1>1, <1>3 DEF ConnectFront, Goto, Shrinking
  <2>3. FrontMoved(acceptQ, AcceptCap).size = acceptQ.size
    BY <1>2, RingFields
  <2>4. Acceptions' = Acceptions - 1
    BY <1>2, <2>1, <2>2, <2>3 DEF Acceptions
  <2>5. /\ Offers # <<>> /\ Head(Offers) = FirstItem(acceptQ)
        /\ Items(FrontMoved(acceptQ, AcceptCap), Acceptions - 1, AcceptCap) = Tail(Offers)
        /\ (FrontMoved(acceptQ, AcceptCap).front + (Acceptions - 1)) % AcceptCap
             = (acceptQ.front + Acceptions) % AcceptCap
    BY <1>2, <2>1, ItemsFront DEF Offers
  <2>6. Offers' = Tail(Offers)
    BY <2>2, <2>4, <2>5 DEF Offers
  <2>7. acceptQ'.rear = acceptQ.rear /\ acceptQ'.slot = acceptQ.slot
    BY <1>2, <2>2, RingFields
  <2> QED BY <1>3, <2>2, <2>4, <2>5, <2>6, <2>7
<1>4. CASE ~ConnectFront(c)
  <2>1. Acceptions' = Acceptions
    <3>1. CASE ConnectShrink(c)
      <4>1. Shrinking /\ Acceptions = acceptQ.size - 1
        BY <1>2, <3>1 DEF ConnectShrink, Shrinking
      <4>2. ~Shrinking'
        BY <1>1, <1>2, <3>1 DEF ConnectShrink, Shrinking, Goto
      <4>3. acceptQ'.size = acceptQ.size - 1
        <5>1. Discounted(acceptQ).size = acceptQ.size - 1
          BY <1>2 DEF Discounted, RingType
        <5> QED BY <3>1, <5>1 DEF ConnectShrink
      <4> QED BY <1>2, <4>1, <4>2, <4>3 DEF Acceptions
    <3>2. CASE ~ConnectShrink(c)
      <4>1. pc[c] # "shrink" /\ pc'[c] # "shrink"
        <5>1. CASE ClientDeath(c)
          <6>1. pc[c] \notin HalfwayPcs
            BY <5>1 DEF ClientDeath
          <6> QED BY <1>1, <5>1, <6>1 DEF ClientDeath, Goto, HalfwayPcs
        <5> QED BY <1>1, <1>4, <3>2, <5>1 DEF ClientStep, Connect, ConnectStart, ConnectRoom,
          ConnectLock, ConnectRear, ConnectItem, ConnectCount, ConnectUnlock, ConnectAwait,
          ConnectLockAccept, ConnectCopy, ConnectReturn, Send, CloseRead, CloseWrite, Goto
      <4>2. Shrinking' = Shrinking
        <5>1. \A d \in Clients : pc'[d] = "shrink" <=> pc[d] = "shrink"
          BY <1>1, <4>1
        <5> QED BY <5>1 DEF Shrinking
      <4>3. acceptQ' = acceptQ
        BY <1>1, <1>4, <3>2
      <4> QED BY <4>2, <4>3 DEF Acceptions
    <3> QED BY <3>1, <3>2
  <2>2. /\ acceptQ'.front = acceptQ.front /\ acceptQ'.rear = acceptQ.rear
        /\ acceptQ'.slot = acceptQ.slot
    <3>1. CASE ConnectShrink(c)
      BY <1>2, <3>1, RingFields DEF ConnectShrink
    <3> QED BY <1>1, <1>4, <3>1
  <2>3. Items(acceptQ', Acceptions', AcceptCap) = Items(acceptQ, Acceptions, AcceptCap)
    BY <2>1, <2>2, ItemsSame
  <2> QED BY <1>4, <2>1, <2>2, <2>3 DEF Offers
<1> QED BY <1>3, <1>4

LEMMA RingedClient ==
  ASSUME Typed, Ringed, NEW c \in Clients, ClientStep(c), ~torn'
  PROVE  Ringed'
<1>1. /\ ~torn /\ UNCHANGED <<spc, cur>>
      /\ pc \in [Clients -> ClientPcs] /\ unit \in [Clients -> Units \cup {NoUnit}]
      /\ \E label \in ClientPcs : pc' = [pc EXCEPT ![c] = label]
      /\ acceptQ' = acceptQ \/ ConnectFront(c) \/ ConnectShrink(c)
  BY ClientFrame DEF Typed, TypeOK, server
<1>2. Offers' \in Seq(Units)
  <2>1. Offers \in Seq(Units)
    BY DEF Ringed
  <2> QED BY <2>1, OffersClient, TailFacts
<1>3. /\ spc' \in {"item", "count"} =>
           acceptQ'.rear = (acceptQ'.front + Acceptions') % AcceptCap
      /\ spc' \notin {"down", "bootAccept", "item", "count"} =>
           (acceptQ'.rear + 1) % AcceptCap = (acceptQ'.front + Acceptions') % AcceptCap
      /\ spc' = "count" => acceptQ'.slot[acceptQ'.rear] = cur'
  <2>1. /\ (acceptQ'.front + Acceptions') % AcceptCap
             = (acceptQ.front + Acceptions) % AcceptCap
        /\ acceptQ'.rear = acceptQ.rear /\ acceptQ'.slot = acceptQ.slot
    BY OffersClient
  <2> QED BY <1>1, <2>1 DEF Ringed
<1>4. \A d \in Clients \ {c} : pc'[d] = pc[d] /\ unit'[d] = unit[d]
  <2>1. UNCHANGED unit \/ \E u : unit' = [unit EXCEPT ![c] = u]
    BY DEF ClientStep, Connect, ConnectStart, ConnectRoom, ConnectLock,
       ConnectRear, ConnectItem, ConnectCount, ConnectUnlock, ConnectAwait,
       ConnectLockAccept, ConnectCopy, ConnectFront, ConnectShrink, ConnectReturn, Send,
       CloseRead, CloseWrite, ClientDeath
  <2> QED BY <1>1, <2>1
<1>5. ASSUME NEW d \in Clients, pc'[d] = "front"
      PROVE  unit'[d] = FirstItem(acceptQ')
  <2>1. CASE d = c
    <3>1. ConnectCopy(c)
      BY <1>1, <1>5, <2>1 DEF ClientStep, Connect, ConnectStart, ConnectRoom, ConnectLock,
         ConnectRear, ConnectItem, ConnectCount, ConnectUnlock, ConnectAwait,
         ConnectLockAccept, ConnectFront, ConnectShrink, ConnectReturn, Send,
         CloseRead, CloseWrite, ClientDeath, Goto
    <3> QED BY <1>1, <1>5, <2>1, <3>1 DEF ConnectCopy, Goto, shared
  <2>2. CASE d # c
    <3>1. pc[d] = "front" /\ unit'[d] = unit[d]
      BY <1>4, <1>5, <2>2
    <3>2. ~ConnectFront(c) /\ ~ConnectShrink(c)
      BY <1>1, <2>2, <3>1 DEF ConnectFront, ConnectShrink, Typed, Inside, OneAt,
         AcceptSection, DequeuePcs
    <3> QED BY <1>1, <3>1, <3>2 DEF Ringed
  <2> QED BY <2>1, <2>2
<1>6. ASSUME NEW d \in Clients, pc'[d] = "shrink"
      PROVE  unit'[d] \in Units
  <2>1. CASE d = c
    <3>1. ConnectFront(c)
      BY <1>1, <1>6, <2>1 DEF ClientStep, Connect, ConnectStart, ConnectRoom, ConnectLock,
         ConnectRear, ConnectItem, ConnectCount, ConnectUnlock, ConnectAwait,
         ConnectLockAccept, ConnectCopy, ConnectShrink, ConnectReturn, Send,
         CloseRead, CloseWrite, ClientDeath, Goto
    <3>2. /\ Offers \in Seq(Units) /\ Offers # <<>> /\ Head(Offers) = FirstItem(acceptQ)
          /\ unit[c] = FirstItem(acceptQ)
      BY <3>1, OffersClient DEF Ringed, ConnectFront
    <3>3. Head(Offers) \in Units
      BY <3>2, TailFacts
    <3> QED BY <2>1, <3>1, <3>2, <3>3 DEF ConnectFront
  <2>2. CASE d # c
    BY <1>4, <1>6, <2>2 DEF Ringed
  <2> QED BY <2>1, <2>2
<1> QED BY <1>2, <1>3, <1>5, <1>6 DEF Ringed

\* The server adds an offer when it counts its acception, and drops them all when
\* it starts.
LEMMA OffersServer ==
  ASSUME Typed, Ringed, ServerStep, ~torn'
  PROVE  /\ \/ AcceptCount /\ Offers' = Append(Offers, cur)
            \/ BootAcceptQueue /\ Offers' = <<>>
            \/ ~AcceptCount /\ ~BootAcceptQueue /\ Offers' = Offers
         /\ spc' \in {"item", "count"} =>
              acceptQ'.rear = (acceptQ'.front + Acceptions') % AcceptCap
         /\ spc' \notin {"down", "bootAccept", "item", "count"} =>
              (acceptQ'.rear + 1) % AcceptCap = (acceptQ'.front + Acceptions') % AcceptCap
         /\ spc' = "count" => acceptQ'.slot[acceptQ'.rear] = cur'
<1>1. /\ ~torn /\ UNCHANGED pc
      /\ acceptQ' = acceptQ \/ BootAcceptQueue \/ AcceptRear \/ AcceptItem \/ AcceptCount
  BY ServerFrame DEF clients
<1>2. /\ AcceptCap \in Nat \ {0} /\ acceptQ \in RingType(AcceptCap, Units \cup {NoUnit})
      /\ Acceptions \in 0 .. AcceptCap /\ acceptQ.size \in Int
      /\ ~Shrinking => Acceptions = acceptQ.size
      /\ spc \in EnqueuePcs => ~Shrinking /\ acceptQ.size < AcceptCap
  <2>1. acceptQ.size \in Int
    BY DEF Typed, TypeOK, RingType
  <2> QED BY <1>1, <2>1, AcceptionsType
<1>3. Shrinking' <=> Shrinking
  BY <1>1 DEF Shrinking
<1>4. CASE BootAcceptQueue
  <2>1. ~Shrinking
    BY <1>1, <1>4, SectionsServer DEF AcceptSection, Shrinking, DequeuePcs
  <2>2. /\ acceptQ' = Emptied(acceptQ, AcceptCap)
        /\ spc = "bootAccept" /\ spc' = "bootLocks"
    BY <1>4 DEF BootAcceptQueue
  <2>3. acceptQ'.front = 0 /\ acceptQ'.rear = AcceptCap - 1 /\ acceptQ'.size = 0
    BY <2>2 DEF Emptied
  <2>4. Acceptions' = 0
    <3>1. ~Shrinking'
      BY <1>3, <2>1, Zenon
    <3>2. Acceptions' = acceptQ'.size - 0
      BY <3>1 DEF Acceptions
    <3>3. 0 - 0 = 0
      OBVIOUS
    <3> QED BY <2>3, <3>2, <3>3, Zenon
  <2>5. acceptQ' \in RingType(AcceptCap, Units \cup {NoUnit})
    BY <1>2, <2>2, RingSteps
  <2>6. Offers' = <<>>
    <3>1. Items(acceptQ', 0, AcceptCap) = <<>>
      BY DEF Items
    <3> QED BY <2>4, <3>1 DEF Offers
  <2>7. ~AcceptCount
    BY <2>2 DEF AcceptCount
  <2>8. (AcceptCap - 1 + 1) % AcceptCap = (0 + 0) % AcceptCap
    BY <1>2
  <2> QED BY <1>4, <2>2, <2>3, <2>4, <2>6, <2>7, <2>8
<1>5. CASE AcceptRear
  <2>1. /\ ~Shrinking /\ Acceptions = acceptQ.size /\ acceptQ.size < AcceptCap
        /\ spc = "rear"
    BY <1>2, <1>5 DEF AcceptRear, EnqueuePcs
  <2>2. acceptQ' = RearMoved(acceptQ, AcceptCap) /\ spc' = "item"
    BY <1>2, <1>5, <2>1 DEF AcceptRear, AcceptRoom
  <2>3. /\ acceptQ'.front = acceptQ.front /\ acceptQ'.size = acceptQ.size
        /\ acceptQ'.slot = acceptQ.slot
        /\ acceptQ'.rear = (acceptQ.rear + 1) % AcceptCap
    BY <1>2, <2>2 DEF RearMoved, RingType
  <2>4. Acceptions' = Acceptions
    BY <1>3, <2>3 DEF Acceptions
  <2>5. Offers' = Offers
    BY <2>3, <2>4, ItemsSame DEF Offers
  <2>6. (acceptQ.rear + 1) % AcceptCap = (acceptQ.front + Acceptions) % AcceptCap
    BY <2>1 DEF Ringed
  <2>7. ~AcceptCount /\ ~BootAcceptQueue
    BY <2>1 DEF AcceptCount, BootAcceptQueue
  <2> QED BY <2>2, <2>3, <2>4, <2>5, <2>6, <2>7
<1>6. CASE AcceptItem
  <2>1. /\ ~Shrinking /\ Acceptions = acceptQ.size /\ acceptQ.size < AcceptCap
        /\ spc = "item" /\ spc' = "count" /\ UNCHANGED cur
        /\ acceptQ' = ItemStored(acceptQ, cur)
    BY <1>2, <1>6 DEF AcceptItem, EnqueuePcs
  <2>2. Acceptions \in 0 .. AcceptCap - 1 /\ cur \in Units \cup {NoUnit}
    BY <1>2, <2>1 DEF Typed, TypeOK
  <2>3. acceptQ.rear = (acceptQ.front + Acceptions) % AcceptCap
    BY <2>1 DEF Ringed
  <2>4. /\ Items(acceptQ', Acceptions, AcceptCap) = Items(acceptQ, Acceptions, AcceptCap)
        /\ acceptQ'.slot[acceptQ'.rear] = cur
    BY <1>2, <2>1, <2>2, <2>3, ItemsStore
  <2>5. /\ acceptQ'.front = acceptQ.front /\ acceptQ'.rear = acceptQ.rear
        /\ acceptQ'.size = acceptQ.size
    BY <1>2, <2>1 DEF ItemStored, RingType
  <2>6. Acceptions' = Acceptions
    BY <1>3, <2>5 DEF Acceptions
  <2>7. Offers' = Offers
    BY <2>4, <2>6 DEF Offers
  <2>8. ~AcceptCount /\ ~BootAcceptQueue
    BY <2>1 DEF AcceptCount, BootAcceptQueue
  <2> QED BY <2>1, <2>3, <2>4, <2>5, <2>6, <2>7, <2>8
<1>7. CASE AcceptCount
  <2>1. /\ ~Shrinking /\ Acceptions = acceptQ.size /\ acceptQ.size < AcceptCap
        /\ spc = "count" /\ spc' = "unlockAccept" /\ UNCHANGED cur
        /\ acceptQ' = Counted(acceptQ)
    BY <1>2, <1>7 DEF AcceptCount, EnqueuePcs, AcceptionCounted
  <2>2. Acceptions \in 0 .. AcceptCap - 1
    BY <1>2, <2>1
  <2>3. /\ acceptQ.rear = (acceptQ.front + Acceptions) % AcceptCap
        /\ acceptQ.slot[acceptQ.rear] = cur
    BY <2>1 DEF Ringed
  <2>4. /\ Items(acceptQ', Acceptions + 1, AcceptCap) = Append(Items(acceptQ, Acceptions, AcceptCap), cur)
        /\ (acceptQ.rear + 1) % AcceptCap = (acceptQ.front + (Acceptions + 1)) % AcceptCap
    BY <1>2, <2>1, <2>2, <2>3, ItemsGrow
  <2>5. /\ acceptQ'.front = acceptQ.front /\ acceptQ'.rear = acceptQ.rear
        /\ acceptQ'.size = acceptQ.size + 1
    BY <1>2, <2>1, RingFields
  <2>6. Acceptions' = Acceptions + 1
    <3>1. ~Shrinking'
      BY <1>3, <2>1, Zenon
    <3> QED BY <1>2, <2>1, <2>5, <3>1 DEF Acceptions
  <2>7. Offers' = Append(Offers, cur)
    BY <2>4, <2>6 DEF Offers
  <2> QED BY <1>7, <2>1, <2>4, <2>5, <2>6, <2>7
<1>8. CASE ~BootAcceptQueue /\ ~AcceptRear /\ ~AcceptItem /\ ~AcceptCount
  <2>1. acceptQ' = acceptQ
    BY <1>1, <1>8
  <2>2. Acceptions' = Acceptions
    BY <1>3, <2>1 DEF Acceptions
  <2>3. Offers' = Offers
    BY <2>1, <2>2 DEF Offers
  <2>4. /\ (spc' \notin {"item", "count"} /\ spc \notin {"item", "count"}) \/ spc' = "down"
        /\ spc' \notin {"down", "bootAccept"} => spc \notin {"down", "bootAccept"}
    BY <1>8 DEF ServerStep, Boot, Accept, BootConnectQueue,
       BootLocks, BootRest, AcceptStart, AcceptWaitConnect, AcceptLockConnect, AcceptCopy,
       AcceptFront, AcceptShrink, AcceptUnlockConnect, AcceptInitClose, AcceptWaitRoom,
       AcceptLockAccept, AcceptReturn, ReadStart, Close, ReadFinish, ReadEof, ServerDeath,
       Return
  <2> QED BY <1>8, <2>1, <2>2, <2>3, <2>4 DEF Ringed
<1> QED BY <1>1, <1>4, <1>5, <1>6, <1>7, <1>8

LEMMA RingedServer ==
  ASSUME Typed, Ringed, ServerStep, ~torn'
  PROVE  Ringed'
<1>1. ~torn /\ UNCHANGED <<pc, unit>>
  BY ServerFrame DEF clients
<1>2. Offers' \in Seq(Units)
  <2>1. AcceptCount => cur \in Units
    BY DEF AcceptCount, Typed, Placed, AcceptPcs, AnswerPcs, EnqueuePcs
  <2>2. Offers \in Seq(Units)
    BY DEF Ringed
  <2>3. <<>> \in Seq(Units) /\ (cur \in Units => Append(Offers, cur) \in Seq(Units))
    BY <2>2
  <2> QED BY <2>1, <2>2, <2>3, OffersServer
<1>3. ASSUME NEW d \in Clients, pc[d] = "front"
      PROVE  unit[d] = FirstItem(acceptQ')
  <2>1. d \in AcceptSection /\ OneAt(AcceptSection) /\ d # Server
    BY <1>1, <1>3, HandshakeAssumption DEF AcceptSection, DequeuePcs, Typed, Inside
  <2>2. ~BootAcceptQueue /\ ~AcceptRear /\ ~AcceptItem /\ ~AcceptCount
    BY <2>1, SectionsServer DEF OneAt, AcceptSection, EnqueuePcs, AcceptRear, AcceptItem,
       AcceptCount
  <2>3. acceptQ' = acceptQ
    BY <2>2, ServerFrame
  <2> QED BY <1>3, <2>3 DEF Ringed
<1> QED BY <1>1, <1>2, <1>3, OffersServer DEF Ringed
-----------------------------------------------------------------------------
(* Sessions *)

Offered == Seen(Offers)

HeldPcs == TakenPcs \cup AttachedPcs
\* The clients that have taken an acception, and not yet closed.
Talkers == {c \in Clients : pc[c] \in HeldPcs /\ unit[c] \in Units}

\* A unit is offered once, or somebody talks there, or neither, and then its
\* socket is open.  A unit whose session the server has left early is spoiled
\* and nothing is said of it.
Sole ==
  /\ \A i, j \in DOMAIN Offers :
       Offers[i] = Offers[j] /\ Offers[i] \notin hasty => i = j
  /\ \A c, d \in Talkers : unit[c] = unit[d] /\ unit[c] \notin hasty => c = d
  /\ \A c \in Talkers :
       unit[c] \notin hasty => unit[c] \notin Offered /\ sock[unit[c]] = "open"
  /\ \A u \in Offered \ hasty : sock[u] = "open"

Late == {"waitRoom", "lockAccept"} \cup EnqueuePcs

\* While accept prepares a session, nothing of an old one comes back.
Prepared ==
  spc \in AcceptPcs /\ cur \notin hasty =>
    /\ requestQ[cur] = <<>> /\ heard[cur] = {}
    /\ spc \in Late => ~clientRead[cur] /\ ~clientWrite[cur]

\* An offered unit is as good as new; the client that talks has its flags down,
\* and is the only one to be heard.
Clean ==
  /\ \A u \in Offered \ hasty :
       requestQ[u] = <<>> /\ heard[u] = {} /\ ~clientRead[u] /\ ~clientWrite[u]
  /\ \A c \in Talkers :
       unit[c] \notin hasty =>
         /\ ~clientWrite[unit[c]]
         /\ pc[c] # "closing" => ~clientRead[unit[c]]
         /\ heard[unit[c]] \cup Seen(requestQ[unit[c]]) \subseteq {c}
  /\ \A u \in Units \ hasty :
       \A x, y \in heard[u] \cup Seen(requestQ[u]) : x = y

\* Most steps only take away from what Sole and Clean speak of.
Narrower ==
  /\ Offers' = Offers \/ Offers' = <<>>
  /\ hasty \subseteq hasty'
  /\ \A u \in Units \ hasty' : sock[u] = "open" => sock'[u] = "open"
  /\ \A u \in Units :
       /\ heard'[u] \subseteq heard[u]
       /\ requestQ'[u] = requestQ[u] \/ requestQ'[u] = <<>>
       /\ clientRead'[u] => clientRead[u]
       /\ clientWrite'[u] => clientWrite[u]
  /\ \A c \in Talkers' :
       /\ c \in Talkers /\ unit'[c] = unit[c]
       /\ pc'[c] # "closing" => pc[c] # "closing"

LEMMA UnitsMeant ==
  ASSUME Ringed
  PROVE  /\ Offers \in Seq(Units) /\ Offered \subseteq Units
         /\ \A c \in Talkers : c \in Clients /\ unit[c] \in Units
BY SeenType DEF Ringed, Offered, Talkers

LEMMA SoleNarrower ==
  ASSUME Ringed, Sole, Narrower
  PROVE  Sole'
<1>1. /\ \A c \in Talkers : unit[c] \in Units
      /\ Offered \subseteq Units
  BY UnitsMeant
<1>2. Offered' \subseteq Offered
  BY SeenEmpty DEF Narrower, Offered
<1>3. \A i, j \in DOMAIN Offers' :
        Offers'[i] = Offers'[j] /\ Offers'[i] \notin hasty' => i = j
  BY DEF Sole, Narrower
<1>4. \A c, d \in Talkers' : unit'[c] = unit'[d] /\ unit'[c] \notin hasty' => c = d
  BY DEF Sole, Narrower
<1>5. \A c \in Talkers' :
        unit'[c] \notin hasty' => unit'[c] \notin Offered' /\ sock'[unit'[c]] = "open"
  BY <1>1, <1>2 DEF Sole, Narrower
<1>6. \A u \in Offered' \ hasty' : sock'[u] = "open"
  BY <1>1, <1>2 DEF Sole, Narrower
<1> QED BY <1>3, <1>4, <1>5, <1>6 DEF Sole

LEMMA CleanNarrower ==
  ASSUME Ringed, Clean, Narrower
  PROVE  Clean'
<1>1. /\ \A c \in Talkers : unit[c] \in Units
      /\ Offered \subseteq Units
  BY UnitsMeant
<1>2. Offered' \subseteq Offered
  BY SeenEmpty DEF Narrower, Offered
<1>3. \A u \in Units : /\ heard'[u] \subseteq heard[u]
                       /\ Seen(requestQ'[u]) \subseteq Seen(requestQ[u])
                       /\ requestQ[u] = <<>> => requestQ'[u] = <<>>
                       /\ clientRead'[u] => clientRead[u]
                       /\ clientWrite'[u] => clientWrite[u]
  BY SeenEmpty DEF Narrower
<1>4. \A u \in Offered' \ hasty' :
        /\ requestQ'[u] = <<>> /\ heard'[u] = {}
        /\ ~clientRead'[u] /\ ~clientWrite'[u]
  BY <1>1, <1>2, <1>3 DEF Clean, Narrower
<1>5. ASSUME NEW c \in Talkers', unit'[c] \notin hasty'
      PROVE  /\ ~clientWrite'[unit'[c]]
             /\ pc'[c] # "closing" => ~clientRead'[unit'[c]]
             /\ heard'[unit'[c]] \cup Seen(requestQ'[unit'[c]]) \subseteq {c}
  BY <1>1, <1>3, <1>5 DEF Clean, Narrower
<1>6. \A u \in Units \ hasty' :
        \A x, y \in heard'[u] \cup Seen(requestQ'[u]) : x = y
  <2> SUFFICES ASSUME NEW u \in Units \ hasty',
                      NEW x \in heard'[u] \cup Seen(requestQ'[u]),
                      NEW y \in heard'[u] \cup Seen(requestQ'[u])
               PROVE  x = y
    OBVIOUS
  <2>1. u \notin hasty
    BY DEF Narrower
  <2>2. x \in heard[u] \cup Seen(requestQ[u]) /\ y \in heard[u] \cup Seen(requestQ[u])
    BY <1>3
  <2> QED BY <2>1, <2>2 DEF Clean
<1> QED BY <1>4, <1>5, <1>6 DEF Clean

LEMMA NarrowClient ==
  ASSUME Typed, NEW c \in Clients, ClientStep(c), ~torn',
         ~ConnectFront(c), ~Send(c), ~CloseRead(c), ~CloseWrite(c)
  PROVE  Narrower
<1>1. pc \in [Clients -> ClientPcs] /\ unit \in [Clients -> Units \cup {NoUnit}]
  BY DEF Typed, TypeOK
<1>2. /\ UNCHANGED <<data, server, hasty>>
      /\ \E label \in ClientPcs : pc' = [pc EXCEPT ![c] = label]
      /\ Offers' = Offers
  BY ClientFrame, OffersClient DEF Typed
<1>3. NoUnit \notin Units
  BY DEF NoUnit, Units
<1>4. ASSUME c \in Talkers'
      PROVE  c \in Talkers /\ unit' = unit /\ pc'[c] # "closing" /\ pc[c] # "closing"
  <2>1. unit'[c] \in Units /\ pc'[c] \in HeldPcs
    BY <1>4 DEF Talkers
  <2>2. ConnectShrink(c) \/ ConnectReturn(c)
    BY <1>1, <1>3, <2>1 DEF ClientStep, Connect, ConnectStart, ConnectRoom, ConnectLock,
       ConnectRear, ConnectItem, ConnectCount, ConnectUnlock, ConnectAwait,
       ConnectLockAccept, ConnectCopy, ClientDeath, Goto, HeldPcs, TakenPcs, AttachedPcs
  <2> QED BY <1>1, <2>1, <2>2 DEF ConnectShrink, ConnectReturn, Goto, Talkers, HeldPcs,
    TakenPcs, AttachedPcs
<1>5. \A d \in Clients \ {c} : pc'[d] = pc[d] /\ unit'[d] = unit[d]
  <2>1. UNCHANGED unit \/ \E u : unit' = [unit EXCEPT ![c] = u]
    BY DEF ClientStep, Connect, ConnectStart, ConnectRoom, ConnectLock,
       ConnectRear, ConnectItem, ConnectCount, ConnectUnlock, ConnectAwait,
       ConnectLockAccept, ConnectCopy, ConnectShrink, ConnectReturn, ClientDeath
  <2> QED BY <1>1, <1>2, <2>1
<1>6. ASSUME NEW d \in Talkers'
      PROVE  /\ d \in Talkers /\ unit'[d] = unit[d]
             /\ pc'[d] # "closing" => pc[d] # "closing"
  BY <1>4, <1>5 DEF Talkers
<1> QED BY <1>2, <1>6 DEF Narrower, data, server

LEMMA NarrowServer ==
  ASSUME Typed, Stacked, Ringed, ServerStep, ~torn',
         ~AcceptCount, ~ReadFinish, ~ReadEof,
         \A u \in Units : AtEof(u) => ~ReadStart(u)
  PROVE  Narrower
<1>1. UNCHANGED clients /\ Talkers' = Talkers
  BY ServerFrame DEF clients, Talkers
<1>2. Offers' = Offers \/ Offers' = <<>>
  BY OffersServer
<1>3. \A u \in Units : /\ heard'[u] \subseteq heard[u]
                       /\ requestQ'[u] = requestQ[u] \/ requestQ'[u] = <<>>
                       /\ clientRead'[u] => clientRead[u]
                       /\ clientWrite'[u] => clientWrite[u]
  <2>1. CASE AcceptStart \/ AcceptInitClose \/ BootRest \/ ServerDeath
    BY <2>1 DEF AcceptStart, AcceptInitClose, BootRest, ServerDeath, NewQueue, Cleared,
       Typed, TypeOK, data
  <2>2. CASE ~AcceptStart /\ ~AcceptInitClose /\ ~BootRest /\ ~ServerDeath
    <3>1. UNCHANGED <<data, heard>>
      BY <2>2 DEF ServerStep, Boot, Accept, BootConnectQueue, BootAcceptQueue, BootLocks,
         AcceptWaitConnect, AcceptLockConnect, AcceptCopy, AcceptFront, AcceptShrink,
         AcceptUnlockConnect, AcceptWaitRoom, AcceptLockAccept, AcceptRear, AcceptItem,
         AcceptReturn, ReadStart, Close
    <3> QED BY <3>1 DEF data
  <2> QED BY <2>1, <2>2
<1>4. hasty \subseteq hasty'
  BY DEF ServerStep, Boot, Accept, BootConnectQueue, BootAcceptQueue, BootLocks, BootRest,
     AcceptStart, AcceptWaitConnect, AcceptLockConnect, AcceptCopy, AcceptFront,
     AcceptShrink, AcceptUnlockConnect, AcceptInitClose, AcceptWaitRoom, AcceptLockAccept,
     AcceptRear, AcceptItem, AcceptReturn, ReadStart, Close, ServerDeath, history
<1>5. ASSUME NEW u \in Units \ hasty', sock[u] = "open"
      PROVE  sock'[u] = "open"
  <2>1. sock \in [Units -> Uses]
    BY DEF Typed, TypeOK
  <2>2. CASE Boot
    BY <1>5, <2>2 DEF Boot, BootConnectQueue, BootAcceptQueue, BootLocks, BootRest,
       Typed, Placed, BootPcs
  <2>3. CASE \E v \in Units : Close(v)
    BY <1>5, <2>1, <2>3 DEF Close, Released
  <2>4. CASE ServerDeath
    BY <1>5, <2>4 DEF ServerDeath
  <2>5. CASE Accept
    <3>1. \/ UNCHANGED sock
          \/ spc \in AcceptPcs /\ \E x : sock' = [sock EXCEPT ![cur] = x]
      BY <2>5 DEF Accept, AcceptWaitConnect, AcceptLockConnect, AcceptCopy,
         AcceptFront, AcceptShrink, AcceptUnlockConnect, AcceptInitClose, AcceptWaitRoom,
         AcceptLockAccept, AcceptRear, AcceptItem, AcceptReturn, AcceptPcs, AnswerPcs,
         EnqueuePcs
    <3>2. spc \in AcceptPcs => sock[cur] = "accepting"
      BY DEF Typed, Placed
    <3> QED BY <1>5, <2>1, <3>1, <3>2
  <2>6. CASE AcceptStart
    <3>1. Head(available_share_unit) \in Units
      BY <2>6 DEF AcceptStart, Typed, TypeOK
    <3>2. sock[Head(available_share_unit)] = "free"
      <4>1. available_share_unit # <<>> /\ spc \notin BootPcs
        BY <2>6 DEF AcceptStart, BootPcs
      <4>2. Head(available_share_unit) \in Seen(available_share_unit)
        BY <4>1, SeenTail DEF Typed, TypeOK
      <4> QED BY <4>1, <4>2 DEF Stacked
    <3> QED BY <1>5, <2>1, <2>6, <3>2 DEF AcceptStart
  <2>7. CASE \E v \in Units : ReadStart(v)
    BY <1>5, <2>7 DEF ReadStart
  <2> QED BY <2>2, <2>3, <2>4, <2>5, <2>6, <2>7 DEF ServerStep
<1> QED BY <1>1, <1>2, <1>3, <1>4, <1>5 DEF Narrower, clients

\* An offer that is made, and one that is taken, in a queue that names each unit
\* but the spoiled ones (H) once.
LEMMA OnceTail ==
  ASSUME NEW S, NEW s \in Seq(S), s # <<>>, NEW H,
         \A i, j \in DOMAIN s : s[i] = s[j] /\ s[i] \notin H => i = j
  PROVE  /\ \A i, j \in DOMAIN Tail(s) : Tail(s)[i] = Tail(s)[j] /\ Tail(s)[i] \notin H => i = j
         /\ Head(s) \notin H => Head(s) \notin Seen(Tail(s))
<1> DEFINE t == Tail(s)
<1>1. /\ Len(s) \in Nat /\ Len(s) >= 1 /\ DOMAIN s = 1 .. Len(s)
      /\ Head(s) = s[1] /\ DOMAIN t = 1 .. Len(s) - 1
      /\ \A i \in 1 .. Len(s) - 1 : t[i] = s[i + 1]
  BY TailFacts
<1> HIDE DEF t
<1>2. ASSUME NEW i \in 1 .. Len(s) - 1, NEW j \in 1 .. Len(s) - 1,
             t[i] = t[j], t[i] \notin H
      PROVE  i = j
  <2>1. /\ i + 1 \in 1 .. Len(s) /\ j + 1 \in 1 .. Len(s)
        /\ s[i + 1] = s[j + 1] /\ s[i + 1] \notin H
    BY <1>1, <1>2
  <2>2. i + 1 = j + 1
    BY <1>1, <2>1
  <2> QED BY <2>2
<1>3. ASSUME Head(s) \notin H, NEW i \in 1 .. Len(s) - 1, t[i] = Head(s)
      PROVE  FALSE
  <2>1. i + 1 \in 1 .. Len(s) /\ 1 \in 1 .. Len(s) /\ s[1] = s[i + 1] /\ s[1] \notin H
    BY <1>1, <1>3
  <2>2. 1 = i + 1
    BY <1>1, <2>1
  <2> QED BY <2>2
<1>4. Head(s) \notin H => Head(s) \notin Seen(t)
  BY <1>1, <1>3 DEF Seen
<1> QED BY <1>1, <1>2, <1>4 DEF t

LEMMA OnceAppend ==
  ASSUME NEW S, NEW s \in Seq(S), NEW x \in S, NEW H,
         \A i, j \in DOMAIN s : s[i] = s[j] /\ s[i] \notin H => i = j,
         x \notin H => x \notin Seen(s)
  PROVE  \A i, j \in DOMAIN Append(s, x) :
           Append(s, x)[i] = Append(s, x)[j] /\ Append(s, x)[i] \notin H => i = j
<1> DEFINE r == Append(s, x)
<1>1. /\ Len(s) \in Nat /\ DOMAIN s = 1 .. Len(s) /\ DOMAIN r = 1 .. Len(s) + 1
      /\ \A i \in 1 .. Len(s) : r[i] = s[i]
      /\ r[Len(s) + 1] = x
  OBVIOUS
<1> HIDE DEF r
<1> SUFFICES ASSUME NEW i \in 1 .. Len(s) + 1, NEW j \in 1 .. Len(s) + 1,
                    r[i] = r[j], r[i] \notin H
             PROVE  i = j
  BY <1>1 DEF r
<1>2. /\ i \in 1 .. Len(s) \/ i = Len(s) + 1
      /\ j \in 1 .. Len(s) \/ j = Len(s) + 1
  BY <1>1
<1>3. \A k \in 1 .. Len(s) : s[k] \in Seen(s)
  BY <1>1 DEF Seen
<1>4. CASE i \in 1 .. Len(s) /\ j \in 1 .. Len(s)
  BY <1>1, <1>4
<1>5. CASE i = Len(s) + 1 /\ j \in 1 .. Len(s)
  BY <1>1, <1>3, <1>5
<1>6. CASE j = Len(s) + 1 /\ i \in 1 .. Len(s)
  BY <1>1, <1>3, <1>6
<1> QED BY <1>2, <1>4, <1>5, <1>6

Sessions == Sole /\ Clean

LEMMA SessionsFront ==
  ASSUME Typed, Ringed, Sessions, NEW c \in Clients, ConnectFront(c), ~torn'
  PROVE  Sessions'
<1> DEFINE u == Head(Offers)
<1>1. /\ Offers \in Seq(Units) /\ Offers # <<>> /\ Offers' = Tail(Offers)
      /\ unit[c] = u /\ pc[c] = "front" /\ pc' = [pc EXCEPT ![c] = "shrink"]
      /\ UNCHANGED <<data, server, hasty, unit>>
      /\ pc \in [Clients -> ClientPcs]
  <2>1. Offers \in Seq(Units) /\ pc \in [Clients -> ClientPcs]
    BY DEF Ringed, Typed, TypeOK
  <2>2. /\ pc[c] = "front" /\ pc' = [pc EXCEPT ![c] = "shrink"]
        /\ UNCHANGED <<data, server, hasty, unit>>
    BY DEF ConnectFront, Goto, history
  <2>3. Offers # <<>> /\ Offers' = Tail(Offers) /\ Head(Offers) = FirstItem(acceptQ)
    BY OffersClient DEF ClientStep, Connect
  <2> QED BY <2>1, <2>2, <2>3 DEF Ringed
<1>2. u \in Offered /\ Offered' \subseteq Offered /\ u \in Units
  BY <1>1, SeenTail, TailFacts DEF Offered
<1>3. /\ \A i, j \in DOMAIN Offers' :
           Offers'[i] = Offers'[j] /\ Offers'[i] \notin hasty' => i = j
      /\ u \notin hasty => u \notin Offered'
  BY <1>1, OnceTail DEF Sessions, Sole, Offered
<1>4. \A d \in Talkers' :
        \/ d = c /\ unit'[d] = u
        \/ d # c /\ unit'[d] = unit[d] /\ pc'[d] = pc[d] /\ d \in Talkers
  BY <1>1 DEF Talkers
<1> HIDE DEF u
<1>5. \A d \in Talkers : unit[d] \notin hasty => unit[d] # u
  BY <1>2 DEF Sessions, Sole
<1>6. Sole'
  <2>1. \A d, e \in Talkers' : unit'[d] = unit'[e] /\ unit'[d] \notin hasty' => d = e
    BY <1>1, <1>4, <1>5 DEF Sessions, Sole
  <2>2. \A d \in Talkers' :
          unit'[d] \notin hasty' => unit'[d] \notin Offered' /\ sock'[unit'[d]] = "open"
    BY <1>1, <1>2, <1>3, <1>4 DEF Sessions, Sole, server
  <2>3. \A v \in Offered' \ hasty' : sock'[v] = "open"
    BY <1>1, <1>2 DEF Sessions, Sole, server
  <2> QED BY <1>3, <2>1, <2>2, <2>3 DEF Sole
<1>7. Clean'
  <2>1. \A d \in Talkers' :
          unit'[d] \notin hasty' =>
            /\ ~clientWrite'[unit'[d]]
            /\ pc'[d] # "closing" => ~clientRead'[unit'[d]]
            /\ heard'[unit'[d]] \cup Seen(requestQ'[unit'[d]]) \subseteq {d}
    BY <1>1, <1>2, <1>4, SeenEmpty DEF Sessions, Clean, server, data
  <2>2. \A v \in Offered' \ hasty' :
          requestQ'[v] = <<>> /\ heard'[v] = {} /\ ~clientRead'[v] /\ ~clientWrite'[v]
    BY <1>1, <1>2 DEF Sessions, Clean, server, data
  <2>3. \A v \in Units \ hasty' :
          \A x, y \in heard'[v] \cup Seen(requestQ'[v]) : x = y
    BY <1>1 DEF Sessions, Clean, server, data
  <2> QED BY <2>1, <2>2, <2>3 DEF Clean
<1> QED BY <1>6, <1>7 DEF Sessions

\* While a client talks, nobody else is concerned with its unit: what the client
\* does there changes Clean for itself alone.
LEMMA TalksAlone ==
  ASSUME Typed, Sole, NEW c \in Clients, pc[c] \in AttachedPcs, unit[c] \notin hasty
  PROVE  /\ unit[c] \in Units /\ unit[c] \notin Offered
         /\ spc \in AcceptPcs => cur # unit[c]
         /\ \A d \in Talkers \ {c} : unit[d] # unit[c]
<1>1. c \in Talkers /\ unit[c] \in Units
  BY DEF Typed, Placed, Talkers, HeldPcs
<1> QED BY <1>1 DEF Typed, Placed, Sole

LEMMA SessionsSend ==
  ASSUME Typed, Ringed, Sessions, NEW c \in Clients, Send(c), ~torn'
  PROVE  Sessions'
<1> DEFINE u == unit[c]
<1>1. /\ pc[c] = "connected" /\ u \in Units /\ c \in Talkers
      /\ UNCHANGED <<clientRead, clientWrite, server, pc, unit, hasty>>
      /\ requestQ' = [requestQ EXCEPT ![u] = Append(requestQ[u], c)]
      /\ requestQ \in [Units -> Seq(Clients)]
  BY DEF Send, shared, history, Typed, TypeOK, Placed, AttachedPcs, Talkers, HeldPcs
<1>2. Offers' = Offers /\ Offered' = Offered /\ Talkers' = Talkers
  <2>1. ClientStep(c) /\ ~ConnectFront(c)
    BY <1>1 DEF ClientStep, ConnectFront
  <2>2. Offers' = Offers
    BY <2>1, OffersClient
  <2> QED BY <1>1, <2>2 DEF Offered, Talkers
<1>3. Seen(requestQ'[u]) = Seen(requestQ[u]) \cup {c}
  BY <1>1, SeenAppend
<1>4. \A v \in Units \ {u} : requestQ'[v] = requestQ[v]
  BY <1>1
<1> HIDE DEF u
<1>5. Sole'
  BY <1>1, <1>2 DEF Sessions, Sole, server
<1>6. Offered \subseteq Units /\ \A d \in Talkers : unit[d] \in Units
  BY UnitsMeant
<1>7. CASE u \in hasty
  <2>1. \A v \in Units \ hasty : requestQ'[v] = requestQ[v]
    BY <1>4, <1>7
  <2> QED BY <1>1, <1>2, <1>5, <1>6, <2>1, ZenonT(40) DEF Sessions, Clean, server
<1>8. CASE u \notin hasty
  <2>1. u \notin Offered /\ \A d \in Talkers \ {c} : unit[d] # u
    BY <1>1, <1>8, TalksAlone DEF AttachedPcs, Sessions, u
  <2>2. heard[u] \cup Seen(requestQ[u]) \subseteq {c}
    BY <1>1, <1>8 DEF Sessions, Clean, u
  <2>3. \A v \in Offered' \ hasty' :
          requestQ'[v] = <<>> /\ heard'[v] = {} /\ ~clientRead'[v] /\ ~clientWrite'[v]
    BY <1>1, <1>2, <1>4, <1>6, <2>1 DEF Sessions, Clean, server
  <2>4. ASSUME NEW d \in Talkers', unit'[d] \notin hasty'
        PROVE  /\ ~clientWrite'[unit'[d]]
               /\ pc'[d] # "closing" => ~clientRead'[unit'[d]]
               /\ heard'[unit'[d]] \cup Seen(requestQ'[unit'[d]]) \subseteq {d}
    <3>1. CASE d = c
      BY <1>1, <1>2, <1>3, <2>2, <2>4, <3>1 DEF Sessions, Clean, server, u
    <3>2. CASE d # c
      BY <1>1, <1>2, <1>4, <1>6, <2>1, <2>4, <3>2 DEF Sessions, Clean, server
    <3> QED BY <3>1, <3>2
  <2>5. ASSUME NEW v \in Units \ hasty'
        PROVE  \A x, y \in heard'[v] \cup Seen(requestQ'[v]) : x = y
    <3>1. CASE v = u
      <4>1. heard'[v] \cup Seen(requestQ'[v]) \subseteq {c}
        BY <1>1, <1>3, <2>2, <3>1 DEF server
      <4> QED BY <4>1
    <3>2. CASE v # u
      BY <1>1, <1>4, <3>2 DEF Sessions, Clean, server
    <3> QED BY <3>1, <3>2
  <2>6. Clean'
    BY <2>3, <2>4, <2>5 DEF Clean
  <2> QED BY <1>5, <2>6 DEF Sessions
<1> QED BY <1>7, <1>8

LEMMA SessionsCloses ==
  ASSUME Typed, Ringed, Sessions, NEW c \in Clients, CloseRead(c) \/ CloseWrite(c), ~torn'
  PROVE  Sessions'
<1> DEFINE u == unit[c]
<1>1. /\ pc[c] \in AttachedPcs /\ u \in Units /\ c \in Talkers
      /\ UNCHANGED <<requestQ, server, hasty>>
      /\ pc \in [Clients -> ClientPcs] /\ unit \in [Clients -> Units \cup {NoUnit}]
      /\ clientRead \in [Units -> BOOLEAN] /\ clientWrite \in [Units -> BOOLEAN]
  BY DEF CloseRead, CloseWrite, shared, history, Typed, TypeOK, Placed, AttachedPcs,
     Talkers, HeldPcs
<1>2. \A v \in Units \ {u} : clientRead'[v] = clientRead[v] /\ clientWrite'[v] = clientWrite[v]
  BY <1>1 DEF CloseRead, CloseWrite, RaiseFirst
<1>3. \A d \in Clients \ {c} : pc'[d] = pc[d] /\ unit'[d] = unit[d]
  BY <1>1 DEF CloseRead, CloseWrite, Goto
<1>4. c \in Talkers' =>
        pc'[c] = "closing" /\ pc[c] = "connected" /\ unit'[c] = unit[c] /\ clientWrite' = clientWrite
  BY <1>1 DEF CloseRead, CloseWrite, Goto, AttachedPcs, TakenPcs, HeldPcs, Talkers, RaiseFirst
<1>5. Offers' = Offers /\ Offered' = Offered /\ Offered \subseteq Units
  <2>1. ClientStep(c) /\ ~ConnectFront(c)
    BY DEF ClientStep, ConnectFront, CloseRead, CloseWrite
  <2> QED BY <2>1, OffersClient, UnitsMeant DEF Offered
<1>6. \A d \in Talkers' \ {c} : d \in Talkers /\ pc'[d] = pc[d] /\ unit'[d] = unit[d]
  BY <1>3 DEF Talkers
<1> HIDE DEF u
<1>7. Sole'
  BY <1>1, <1>4, <1>5, <1>6 DEF Sessions, Sole, server
<1>8. u \notin hasty => u \notin Offered /\ \A d \in Talkers \ {c} : unit[d] # u
  BY <1>1, TalksAlone DEF Sessions, u
<1>9. \A v \in Offered' \ hasty' :
        requestQ'[v] = <<>> /\ heard'[v] = {} /\ ~clientRead'[v] /\ ~clientWrite'[v]
  BY <1>1, <1>2, <1>5, <1>8 DEF Sessions, Clean, server
<1>10. ASSUME NEW d \in Talkers', unit'[d] \notin hasty'
       PROVE  /\ ~clientWrite'[unit'[d]]
              /\ pc'[d] # "closing" => ~clientRead'[unit'[d]]
              /\ heard'[unit'[d]] \cup Seen(requestQ'[unit'[d]]) \subseteq {d}
  <2>1. CASE d = c
    BY <1>1, <1>4, <1>10, <2>1 DEF Sessions, Clean, server
  <2>2. CASE d # c
    <3>1. /\ d \in Talkers /\ pc'[d] = pc[d] /\ unit'[d] = unit[d] /\ unit[d] \notin hasty
      BY <1>1, <1>6, <1>10, <2>2
    <3>2. unit[d] \in Units \ {u}
      BY <1>8, <2>2, <3>1, UnitsMeant
    <3> QED BY <1>1, <1>2, <3>1, <3>2 DEF Sessions, Clean, server
  <2> QED BY <2>1, <2>2
<1>11. \A v \in Units \ hasty' :
         \A x, y \in heard'[v] \cup Seen(requestQ'[v]) : x = y
  BY <1>1 DEF Sessions, Clean, server
<1> QED BY <1>7, <1>9, <1>10, <1>11 DEF Sessions, Clean

LEMMA SessionsOffer ==
  ASSUME Typed, Ringed, Sessions, Prepared, AcceptCount, ~torn'
  PROVE  Sessions'
<1>1. /\ cur \in Units /\ spc = "count"
      /\ UNCHANGED <<data, clients, heard, hasty>>
      /\ sock' = [sock EXCEPT ![cur] = "open"] /\ sock[cur] = "accepting"
      /\ sock \in [Units -> Uses]
  BY DEF AcceptCount, Typed, TypeOK, Placed, AcceptPcs, AnswerPcs, EnqueuePcs, history
<1>2. /\ Offers \in Seq(Units) /\ Offered \subseteq Units
      /\ \A c \in Talkers : unit[c] \in Units
  BY UnitsMeant
<1>3. Offers' = Append(Offers, cur)
  <2>1. ServerStep /\ ~BootAcceptQueue
    BY <1>1 DEF ServerStep, Accept, BootAcceptQueue
  <2> QED BY <2>1, OffersServer
<1>4. Offered' = Offered \cup {cur} /\ Talkers' = Talkers
  BY <1>1, <1>2, <1>3, SeenAppend DEF Offered, Talkers, clients
<1>5. /\ \A c \in Talkers : unit[c] \notin hasty => unit[c] # cur
      /\ cur \notin hasty => cur \notin Offered
  BY <1>1 DEF Sessions, Sole
<1>6. \A i, j \in DOMAIN Offers' :
        Offers'[i] = Offers'[j] /\ Offers'[i] \notin hasty' => i = j
  BY <1>1, <1>2, <1>3, <1>5, OnceAppend DEF Sessions, Sole, Offered
<1>7. /\ \A u \in Units : sock[u] = "open" => sock'[u] = "open"
      /\ sock'[cur] = "open"
  BY <1>1
<1>8. \A c, d \in Talkers' : unit'[c] = unit'[d] /\ unit'[c] \notin hasty' => c = d
  BY <1>1, <1>4 DEF Sessions, Sole, clients
<1>9. \A c \in Talkers' :
        unit'[c] \notin hasty' => unit'[c] \notin Offered' /\ sock'[unit'[c]] = "open"
  BY <1>1, <1>2, <1>4, <1>5, <1>7 DEF Sessions, Sole, clients
<1>10. \A u \in Offered' \ hasty' : sock'[u] = "open"
  BY <1>1, <1>2, <1>4, <1>7 DEF Sessions, Sole
<1>11. Sole'
  BY <1>6, <1>8, <1>9, <1>10 DEF Sole
<1>12. \A u \in Offered' \ hasty' :
         requestQ'[u] = <<>> /\ heard'[u] = {} /\ ~clientRead'[u] /\ ~clientWrite'[u]
  <2>1. cur \notin hasty =>
          requestQ[cur] = <<>> /\ heard[cur] = {} /\ ~clientRead[cur] /\ ~clientWrite[cur]
    BY <1>1 DEF Prepared, AcceptPcs, AnswerPcs, EnqueuePcs, Late
  <2> QED BY <1>1, <1>4, <2>1 DEF Sessions, Clean, data
<1>13. Clean'
  BY <1>1, <1>4, <1>12 DEF Sessions, Clean, data, clients
<1> QED BY <1>11, <1>13 DEF Sessions

\* A read that finds the close flag raised: the unit is promised to nobody.
LEMMA SessionsEof ==
  ASSUME Typed, Ringed, Sessions, NEW u \in Units, AtEof(u), sock[u] = "open",
         sock' = [sock EXCEPT ![u] = "eof"],
         UNCHANGED <<acceptQ, data, heard, pc, unit, hasty>>
  PROVE  Sessions'
<1>1. u \notin hasty => u \notin Offered /\ \A c \in Talkers : unit[c] # u
  BY DEF Sessions, Clean, AtEof
<1>2. \A v \in Units \ {u} : sock'[v] = sock[v]
  BY DEF Typed, TypeOK
<1>3. Offers' = Offers /\ Offered' = Offered /\ Talkers' = Talkers
  <2>1. Shrinking' <=> Shrinking
    BY DEF Shrinking
  <2>2. Acceptions' = Acceptions
    BY <2>1 DEF Acceptions
  <2>3. Offers' = Offers
    BY <2>2 DEF Offers
  <2> QED BY <2>3 DEF Offered, Talkers
<1>4. Offered \subseteq Units /\ \A c \in Talkers : unit[c] \in Units
  BY UnitsMeant
<1>5. Sole'
  BY <1>1, <1>2, <1>3, <1>4 DEF Sessions, Sole
<1>6. Clean'
  BY <1>3 DEF Sessions, Clean, data
<1> QED BY <1>5, <1>6 DEF Sessions

LEMMA SessionsRead ==
  ASSUME Typed, Ringed, Sessions, ReadFinish, ~torn'
  PROVE  Sessions'
<1>1. /\ cur \in Units /\ requestQ[cur] # <<>>
      /\ UNCHANGED <<clientRead, clientWrite, clients, sock, hasty>>
      /\ requestQ \in [Units -> Seq(Clients)] /\ heard \in [Units -> SUBSET Clients]
  BY DEF ReadFinish, history, Typed, TypeOK, Placed
<1>2. PICK n \in 1 .. Len(requestQ[cur]) :
        /\ heard' = [heard EXCEPT ![cur] = heard[cur] \cup Seen(SubSeq(requestQ[cur], 1, n))]
        /\ requestQ' = [requestQ EXCEPT ![cur] =
                          SubSeq(requestQ[cur], n + 1, Len(requestQ[cur]))]
  BY DEF ReadFinish
<1>3. /\ Seen(SubSeq(requestQ[cur], 1, n)) \subseteq Seen(requestQ[cur])
      /\ Seen(SubSeq(requestQ[cur], n + 1, Len(requestQ[cur]))) \subseteq Seen(requestQ[cur])
  BY <1>1, SeenSubSeq
<1>4. \A v \in Units : heard'[v] \cup Seen(requestQ'[v]) \subseteq heard[v] \cup Seen(requestQ[v])
  BY <1>1, <1>2, <1>3
<1>5. \A v \in Units \ {cur} : requestQ'[v] = requestQ[v] /\ heard'[v] = heard[v]
  BY <1>1, <1>2
<1>6. Offers' = Offers /\ Offered' = Offered /\ Talkers' = Talkers
  <2>1. ServerStep /\ ~AcceptCount /\ ~BootAcceptQueue
    BY DEF ServerStep, ReadFinish, AcceptCount, BootAcceptQueue
  <2> QED BY <1>1, <2>1, OffersServer DEF Offered, Talkers, clients
<1>7. Offered \subseteq Units /\ \A c \in Talkers : unit[c] \in Units
  BY UnitsMeant
<1>8. Sole'
  BY <1>1, <1>6 DEF Sessions, Sole, clients
<1>9. cur \notin Offered \ hasty
  BY <1>1 DEF Sessions, Clean
<1>10. \A u \in Offered' \ hasty' :
         requestQ'[u] = <<>> /\ heard'[u] = {} /\ ~clientRead'[u] /\ ~clientWrite'[u]
  BY <1>1, <1>5, <1>6, <1>7, <1>9 DEF Sessions, Clean
<1>11. \A c \in Talkers' :
         unit'[c] \notin hasty' =>
           /\ ~clientWrite'[unit'[c]]
           /\ pc'[c] # "closing" => ~clientRead'[unit'[c]]
           /\ heard'[unit'[c]] \cup Seen(requestQ'[unit'[c]]) \subseteq {c}
  BY <1>1, <1>4, <1>6, <1>7, ZenonT(40) DEF Sessions, Clean, clients
<1>12. ASSUME NEW v \in Units \ hasty',
              NEW x \in heard'[v] \cup Seen(requestQ'[v]),
              NEW y \in heard'[v] \cup Seen(requestQ'[v])
       PROVE  x = y
  <2>1. x \in heard[v] \cup Seen(requestQ[v]) /\ y \in heard[v] \cup Seen(requestQ[v])
    BY <1>4
  <2> QED BY <1>1, <2>1 DEF Sessions, Clean
<1> QED BY <1>8, <1>10, <1>11, <1>12 DEF Sessions, Clean

LEMMA PreparedClient ==
  ASSUME Typed, Sessions, Prepared, NEW c \in Clients, ClientStep(c)
  PROVE  Prepared'
<1>1. UNCHANGED server /\ UNCHANGED hasty
  BY ClientFrame DEF Typed
<1>2. \/ UNCHANGED data
      \/ /\ pc[c] \in AttachedPcs
         /\ \A u \in Units \ {unit[c]} :
              /\ requestQ'[u] = requestQ[u]
              /\ clientRead'[u] = clientRead[u] /\ clientWrite'[u] = clientWrite[u]
  <2>1. CASE Send(c)
    BY <2>1 DEF Send, AttachedPcs, Typed, TypeOK
  <2>2. CASE CloseRead(c) \/ CloseWrite(c)
    BY <2>2 DEF CloseRead, CloseWrite, RaiseFirst, AttachedPcs, Typed, TypeOK
  <2> QED BY <2>1, <2>2, ClientFrame DEF Typed
<1>3. CASE UNCHANGED data
  BY <1>1, <1>3 DEF Prepared, server, data
<1>4. CASE /\ pc[c] \in AttachedPcs
           /\ \A u \in Units \ {unit[c]} :
                /\ requestQ'[u] = requestQ[u]
                /\ clientRead'[u] = clientRead[u] /\ clientWrite'[u] = clientWrite[u]
  <2>1. spc \in AcceptPcs /\ cur \notin hasty => cur \in Units \ {unit[c]}
    BY <1>4, TalksAlone DEF Sessions, Typed, Placed
  <2> QED BY <1>1, <1>4, <2>1 DEF Prepared, server
<1> QED BY <1>2, <1>3, <1>4

LEMMA PreparedServer ==
  ASSUME Typed, Prepared, ServerStep
  PROVE  Prepared'
<1> USE DEF AnswerPcs, EnqueuePcs, DequeuePcs
<1>1. CASE AcceptStart
  <2>1. Head(available_share_unit) \in Units
    BY <1>1 DEF AcceptStart, Typed, TypeOK
  <2> QED BY <1>1, <2>1 DEF AcceptStart, NewQueue, Prepared, AcceptPcs, Late, Typed, TypeOK
<1>2. CASE AcceptInitClose
  BY <1>2 DEF AcceptInitClose, Cleared, Prepared, AcceptPcs, Late, Typed, TypeOK, Placed, history
<1>3. CASE Accept /\ ~AcceptInitClose /\ spc' \in AcceptPcs
  <2>1. /\ UNCHANGED <<data, heard, hasty, cur>> /\ spc \in AcceptPcs
        /\ spc' \in Late => spc \in Late
    BY <1>3 DEF Accept, AcceptWaitConnect, AcceptLockConnect, AcceptCopy, AcceptFront,
       AcceptShrink, AcceptUnlockConnect, AcceptWaitRoom, AcceptLockAccept, AcceptRear,
       AcceptItem, AcceptCount, AcceptReturn, AcceptPcs, Late, Return, history
  <2> QED BY <1>3, <2>1 DEF Prepared, data
<1>4. CASE spc' \notin AcceptPcs
  BY <1>4 DEF Prepared
<1>5. Boot \/ ReadFinish \/ ReadEof \/ ServerDeath => spc' \notin AcceptPcs
  BY DEF Boot, BootConnectQueue, BootAcceptQueue, BootLocks, BootRest, ReadFinish,
     ReadEof, ServerDeath, AcceptPcs, Return
<1>6. ASSUME NEW u \in Units, ReadStart(u) \/ Close(u) PROVE spc' \notin AcceptPcs
  BY <1>6 DEF ReadStart, Close, AcceptPcs
<1> QED BY <1>1, <1>2, <1>3, <1>4, <1>5, <1>6 DEF ServerStep

\* As long as no operation on a queue has been torn, sessions are kept apart.
IInv == Typed /\ Stacked /\ (~torn => Ringed /\ Sessions /\ Prepared)

LEMMA IInvInit == Init => IInv
<1> SUFFICES ASSUME Init PROVE Stacked /\ Ringed /\ Sessions /\ Prepared
  BY TypedInit DEF IInv
<1>1. Acceptions = 0
  <2>1. ~Shrinking
    BY DEF Init, Shrinking
  <2>2. acceptQ.size = 0
    BY DEF Init, ZeroedRing
  <2>3. Acceptions = acceptQ.size - 0
    BY <2>1 DEF Acceptions
  <2>4. 0 - 0 = 0
    OBVIOUS
  <2> QED BY <2>2, <2>3, <2>4, Zenon
<1>2. Offers = <<>>
  <2>1. Items(acceptQ, 0, AcceptCap) = <<>>
    BY DEF Items
  <2> QED BY <1>1, <2>1 DEF Offers
<1>3. Offered = {} /\ DOMAIN Offers = {} /\ <<>> \in Seq(Units)
  BY <1>2, SeenEmpty DEF Offered
<1>4. \A u \in Units : heard[u] \cup Seen(requestQ[u]) = {}
  BY SeenEmpty DEF Init
<1>5. Talkers = {} /\ (\A c \in Clients : pc[c] = "idle") /\ spc = "down"
  BY DEF Init, Talkers, HeldPcs, TakenPcs, AttachedPcs
<1>6. Ringed
  BY <1>2, <1>3, <1>5 DEF Ringed
<1>7. Stacked /\ Prepared
  BY <1>5 DEF Init, Stacked, BootPcs, Prepared, AcceptPcs, AnswerPcs, EnqueuePcs, DequeuePcs
<1>8. Sessions
  BY <1>3, <1>4, <1>5 DEF Sessions, Sole, Clean
<1> QED BY <1>6, <1>7, <1>8

LEMMA IInvNext == IInv /\ [Next]_vars => IInv'
<1> SUFFICES ASSUME IInv, [Next]_vars, ~torn' PROVE Ringed' /\ Sessions' /\ Prepared'
  BY TypedNext, StackedNext DEF IInv
<1>0. Typed /\ Stacked /\ (~torn => Ringed /\ Sessions /\ Prepared)
  BY DEF IInv
<1>1. ASSUME Narrower, Ringed, Sessions PROVE Sessions'
  BY <1>1, SoleNarrower, CleanNarrower DEF Sessions
<1>2. ASSUME NEW c \in Clients, ClientStep(c) PROVE Ringed' /\ Sessions' /\ Prepared'
  <2>1. Ringed /\ Sessions /\ Prepared
    BY <1>0, <1>2, ClientFrame DEF Typed
  <2>2. Ringed' /\ Prepared'
    BY <1>0, <1>2, <2>1, RingedClient, PreparedClient
  <2>3. ConnectFront(c) => Sessions'
    BY <1>0, <2>1, SessionsFront
  <2>4. Send(c) => Sessions'
    BY <1>0, <2>1, SessionsSend
  <2>5. CloseRead(c) \/ CloseWrite(c) => Sessions'
    BY <1>0, <2>1, SessionsCloses
  <2>6. ~ConnectFront(c) /\ ~Send(c) /\ ~CloseRead(c) /\ ~CloseWrite(c) => Sessions'
    BY <1>0, <1>1, <1>2, <2>1, NarrowClient
  <2> QED BY <2>2, <2>3, <2>4, <2>5, <2>6
<1>3. CASE ServerStep
  <2>1. Ringed /\ Sessions /\ Prepared
    BY <1>0, <1>3, ServerFrame
  <2>2. Ringed' /\ Prepared'
    BY <1>0, <1>3, <2>1, RingedServer, PreparedServer
  <2>3. ASSUME ReadEof PROVE Sessions'
    <3>1. cur \in Units /\ sock[cur] = "open"
      BY <1>0, <2>3 DEF ReadEof, Typed, Placed
    <3>2. PICK u \in Units : u = cur
      BY <3>1
    <3>3. /\ AtEof(u) /\ sock[u] = "open" /\ sock' = [sock EXCEPT ![u] = "eof"]
          /\ UNCHANGED <<acceptQ, data, heard, pc, unit, hasty>>
      BY <2>3, <3>1, <3>2 DEF ReadEof, shared, clients, history
    <3> QED BY <1>0, <2>1, <3>3, SessionsEof
  <2>4. ASSUME NEW u \in Units, ReadStart(u), AtEof(u) PROVE Sessions'
    BY <1>0, <2>1, <2>4, SessionsEof DEF ReadStart, shared, clients, history
  <2>5. AcceptCount => Sessions'
    BY <1>0, <2>1, SessionsOffer
  <2>6. ReadFinish => Sessions'
    BY <1>0, <2>1, SessionsRead
  <2>7. ASSUME ~AcceptCount, ~ReadFinish, ~ReadEof,
               \A u \in Units : AtEof(u) => ~ReadStart(u)
        PROVE  Sessions'
    BY <1>0, <1>1, <1>3, <2>1, <2>7, NarrowServer
  <2> QED BY <2>2, <2>3, <2>4, <2>5, <2>6, <2>7
<1>4. CASE UNCHANGED vars
  <2>1. /\ UNCHANGED <<acceptQ, spc, cur, sock, heard, pc, unit, hasty, torn>>
        /\ UNCHANGED <<requestQ, clientRead, clientWrite>>
    BY <1>4 DEF vars, shared, data, server, clients, history
  <2>2. Shrinking' <=> Shrinking
    BY <2>1 DEF Shrinking
  <2>3. Acceptions' = Acceptions
    BY <2>1, <2>2 DEF Acceptions
  <2>4. Offers' = Offers
    BY <2>1, <2>3 DEF Offers
  <2>5. Offered' = Offered /\ Talkers' = Talkers
    BY <2>1, <2>4 DEF Offered, Talkers
  <2>6. Ringed /\ Sessions /\ Prepared
    BY <1>0, <2>1
  <2> QED BY <2>1, <2>3, <2>4, <2>5, <2>6 DEF Ringed, Sessions, Sole, Clean, Prepared
<1> QED BY <1>2, <1>3, <1>4, NextIsStep

LEMMA Invariance == Spec => []IInv
BY IInvInit, IInvNext, PTL DEF Spec

LEMMA AtMostOne ==
  ASSUME NEW S, \A x, y \in S : x = y
  PROVE  /\ IsFiniteSet(S) /\ Cardinality(S) \in Nat /\ Cardinality(S) <= 1
         /\ S = {} => Cardinality(S) = 0
<1>1. CASE S = {}
  BY <1>1, FS_EmptySet
<1>2. CASE \E x \in S : S = {x}
  <2>1. PICK x : S = {x}
    BY <1>2
  <2>2. IsFiniteSet({x}) /\ Cardinality({x}) = 1
    BY FS_Singleton
  <2> QED BY <2>1, <2>2
<1> QED BY <1>1, <1>2

\* A unit is promised to at most one client at a time, and while it is, its
\* socket is open, unless the server has left an earlier session too soon or an
\* operation on a queue was torn.
THEOREM OneSession == Spec => []OneSessionPerUnit
<1>1. IInv => OneSessionPerUnit
  <2> SUFFICES ASSUME IInv, ~torn, NEW u \in Units \ hasty
               PROVE  LET holders == {i \in DOMAIN Offers : Offers[i] = u}
                          talkers == {c \in Clients : Attached(c, u)}
                      IN  /\ Cardinality(holders) + Cardinality(talkers) <= 1
                          /\ holders \cup talkers # {} => sock[u] = "open"
    BY DEF OneSessionPerUnit
  <2> DEFINE holders == {i \in DOMAIN Offers : Offers[i] = u}
             talkers == {c \in Clients : Attached(c, u)}
  <2>0. Sole /\ \A c \in talkers : c \in Talkers /\ unit[c] = u
    BY DEF IInv, Sessions, Attached, Talkers, HeldPcs
  <2>1. \A i, j \in holders : i = j
    BY <2>0 DEF Sole
  <2>2. \A c, d \in talkers : c = d
    BY <2>0 DEF Sole
  <2>3. holders # {} => u \in Offered
    BY DEF Offered, Seen
  <2>4. holders = {} \/ talkers = {}
    BY <2>0, <2>3 DEF Sole
  <2>5. holders \cup talkers # {} => sock[u] = "open"
    BY <2>0, <2>3 DEF Sole
  <2>6. Cardinality(holders) + Cardinality(talkers) <= 1
    <3> HIDE DEF holders, talkers
    <3>1. /\ Cardinality(holders) \in Nat /\ Cardinality(holders) <= 1
          /\ holders = {} => Cardinality(holders) = 0
      BY <2>1, AtMostOne
    <3>2. /\ Cardinality(talkers) \in Nat /\ Cardinality(talkers) <= 1
          /\ talkers = {} => Cardinality(talkers) = 0
      BY <2>2, AtMostOne
    <3> QED BY <2>4, <3>1, <3>2
  <2> QED BY <2>5, <2>6
<1> QED BY <1>1, Invariance, PTL

\* What is offered to a client is as good as new, unless the server has left an
\* earlier session too soon or an operation on a queue was torn.
THEOREM OfferedFresh == Spec => []FreshWhenOffered
<1>1. IInv => FreshWhenOffered
  BY UnitsMeant DEF IInv, Sessions, Clean, FreshWhenOffered, Offered
<1> QED BY <1>1, Invariance, PTL

\* The close flags of a unit are raised by the client that talks there alone,
\* with the same exceptions.
THEOREM OwnFlags == Spec => []FlagsAreOurs
<1>1. IInv => FlagsAreOurs
  <2> SUFFICES ASSUME IInv, ~torn, NEW c \in Clients, NEW u \in Units \ hasty,
                      Attached(c, u)
               PROVE  ~clientWrite[u] /\ (pc[c] # "closing" => ~clientRead[u])
    BY DEF FlagsAreOurs
  <2>1. c \in Talkers /\ unit[c] = u
    BY DEF Attached, Talkers, HeldPcs
  <2> QED BY <2>1 DEF IInv, Sessions, Clean
<1> QED BY <1>1, Invariance, PTL

\* Within a session the server reads, and finds queued, one client's messages,
\* with the same exceptions.
THEOREM OneVoice == Spec => []NoCrossTalk
<1>1. IInv => NoCrossTalk
  <2> SUFFICES ASSUME IInv, ~torn, NEW u \in Units \ hasty
               PROVE  Cardinality(heard[u] \cup Seen(requestQ[u])) <= 1
    BY DEF NoCrossTalk
  <2>1. \A x, y \in heard[u] \cup Seen(requestQ[u]) : x = y
    BY DEF IInv, Sessions, Clean
  <2> QED BY <2>1, AtMostOne
<1> QED BY <1>1, Invariance, PTL
-----------------------------------------------------------------------------
(* Answers *)

\* In the first life of the server, with clients that take turns, an acception
\* that a client has seen is still there when it takes it; before that life there
\* is none.
Early == boots = 0 \/ (boots = 1 /\ spc = "bootAccept")
Alone ==
  /\ boots = 0 => spc = "down"
  /\ Early => /\ acceptQ.size = 0
              /\ \A c \in Clients : pc[c] \notin {"lockAccept"} \cup DequeuePcs
  /\ ~contended => \A c, d \in Clients :
                     pc[c] \in ConnectPcs /\ pc[d] \in ConnectPcs => c = d
  /\ ~contended /\ boots <= 1 /\ ~torn =>
       /\ ~refused
       /\ \A c \in Clients : pc[c] \in {"lockAccept", "copy"} => acceptQ.size # 0
       /\ \A c \in Clients : pc[c] = "unlockAccept" => unit[c] # NoUnit

LEMMA AloneInit == Init => Alone
BY DEF Init, Alone, ConnectPcs, EnqueuePcs, DequeuePcs, AwaitPcs, TakenPcs, ZeroedRing

LEMMA AloneClient ==
  ASSUME Typed, Alone, ~torn => Ringed, NEW c \in Clients, ClientStep(c)
  PROVE  Alone'
<1> USE DEF EnqueuePcs, AwaitPcs, TakenPcs
<1>1. /\ UNCHANGED server /\ (torn => torn')
      /\ pc \in [Clients -> ClientPcs] /\ unit \in [Clients -> Units \cup {NoUnit}]
      /\ \E label \in ClientPcs : pc' = [pc EXCEPT ![c] = label]
      /\ acceptQ \in RingType(AcceptCap, Units \cup {NoUnit})
      /\ AcceptCap \in Nat \ {0} /\ acceptQ.size \in Int
  BY ClientFrame, Constants DEF Typed, TypeOK, RingType
<1>2. \A d \in Clients \ {c} : pc'[d] = pc[d] /\ unit'[d] = unit[d]
  <2>1. UNCHANGED unit \/ \E u : unit' = [unit EXCEPT ![c] = u]
    BY DEF ClientStep, Connect, ConnectStart, ConnectRoom, ConnectLock,
       ConnectRear, ConnectItem, ConnectCount, ConnectUnlock, ConnectAwait,
       ConnectLockAccept, ConnectCopy, ConnectFront, ConnectShrink, ConnectReturn, Send,
       CloseRead, CloseWrite, ClientDeath
  <2> QED BY <1>1, <2>1
<1>3. /\ contended => contended'
      /\ ~contended' /\ pc'[c] \in ConnectPcs =>
           \A d \in Clients \ {c} : pc[d] \notin ConnectPcs
  <2>1. CASE ConnectStart(c)
    <3>1. contended' = (contended \/ \E d \in Clients \ {c} : pc[d] \in ConnectPcs)
      BY <2>1 DEF ConnectStart
    <3> QED BY <3>1, Zenon
  <2>2. CASE ~ConnectStart(c)
    <3>1. contended' = contended /\ (pc'[c] \in ConnectPcs => pc[c] \in ConnectPcs)
      BY <1>1, <2>2 DEF ClientStep, Connect, ConnectRoom, ConnectLock,
         ConnectRear, ConnectItem, ConnectCount, ConnectUnlock, ConnectAwait,
         ConnectLockAccept, ConnectCopy, ConnectFront, ConnectShrink, ConnectReturn, Send,
         CloseRead, CloseWrite, ClientDeath, Goto, ConnectPcs, history
    <3> QED BY <3>1 DEF Alone
  <2> QED BY <2>1, <2>2
<1>4. ~contended' => \A d, e \in Clients :
                       pc'[d] \in ConnectPcs /\ pc'[e] \in ConnectPcs => d = e
  BY <1>2, <1>3 DEF Alone
<1>5. Early' => /\ acceptQ'.size = 0
                /\ \A d \in Clients : pc'[d] \notin {"lockAccept"} \cup DequeuePcs
  <2> SUFFICES ASSUME Early'
               PROVE  /\ acceptQ'.size = 0
                      /\ \A d \in Clients : pc'[d] \notin {"lockAccept"} \cup DequeuePcs
    OBVIOUS
  <2>1. /\ acceptQ.size = 0
        /\ \A d \in Clients : pc[d] \notin {"lockAccept"} \cup DequeuePcs
    BY <1>1 DEF Alone, Early, server
  <2>2. /\ ~ConnectFront(c) /\ ~ConnectShrink(c)
        /\ pc'[c] \notin {"lockAccept"} \cup DequeuePcs
    BY <1>1, <2>1 DEF ClientStep, Connect, ConnectStart, ConnectRoom, ConnectLock,
       ConnectRear, ConnectItem, ConnectCount, ConnectUnlock, ConnectAwait,
       ConnectLockAccept, ConnectCopy, ConnectFront, ConnectShrink, ConnectReturn, Send,
       CloseRead, CloseWrite, ClientDeath, Goto, DequeuePcs, AcceptionReady
  <2> QED BY <1>2, <2>1, <2>2, ClientFrame DEF Typed
<1>6. ASSUME ~contended', boots' <= 1, ~torn'
      PROVE  /\ ~refused'
             /\ \A d \in Clients : pc'[d] \in {"lockAccept", "copy"} => acceptQ'.size # 0
             /\ \A d \in Clients : pc'[d] = "unlockAccept" => unit'[d] # NoUnit
  <2>1. /\ ~contended /\ boots <= 1 /\ ~torn /\ Ringed
        /\ ~refused
        /\ \A d \in Clients : pc[d] \in {"lockAccept", "copy"} => acceptQ.size # 0
        /\ \A d \in Clients : pc[d] = "unlockAccept" => unit[d] # NoUnit
    BY <1>1, <1>3, <1>6 DEF Alone, server
  <2>2. refused' = refused
    <3>1. CASE ConnectReturn(c)
      BY <2>1, <3>1 DEF ConnectReturn
    <3> QED BY <3>1 DEF ClientStep, Connect, ConnectStart, ConnectRoom, ConnectLock,
       ConnectRear, ConnectItem, ConnectCount, ConnectUnlock, ConnectAwait,
       ConnectLockAccept, ConnectCopy, ConnectFront, ConnectShrink, Send,
       CloseRead, CloseWrite, ClientDeath, history
  <2>3. ASSUME NEW d \in Clients, pc'[d] \in {"lockAccept", "copy"}
        PROVE  acceptQ'.size # 0
    <3>1. ~ConnectFront(c) /\ ~ConnectShrink(c)
      <4> SUFFICES ASSUME ConnectFront(c) \/ ConnectShrink(c) PROVE FALSE
        OBVIOUS
      <4>1. pc[c] \in ConnectPcs /\ pc'[c] \notin {"lockAccept", "copy"}
        BY <1>1 DEF ConnectFront, ConnectShrink, Goto, ConnectPcs
      <4>2. d # c /\ pc[d] \in ConnectPcs
        BY <1>2, <2>3, <4>1 DEF ConnectPcs
      <4> QED BY <2>1, <4>1, <4>2 DEF Alone
    <3>2. acceptQ' = acceptQ
      BY <3>1, ClientFrame DEF Typed
    <3>3. CASE d # c
      BY <1>2, <2>1, <2>3, <3>2, <3>3
    <3>4. CASE d = c
      <4>1. ConnectAwait(c) \/ ConnectLockAccept(c)
        BY <1>1, <2>3, <3>4 DEF ClientStep, Connect, ConnectStart, ConnectRoom, ConnectLock,
           ConnectRear, ConnectItem, ConnectCount, ConnectUnlock,
           ConnectCopy, ConnectFront, ConnectShrink, ConnectReturn, Send,
           CloseRead, CloseWrite, ClientDeath, Goto
      <4> QED BY <2>1, <3>2, <4>1 DEF ConnectAwait, ConnectLockAccept, AcceptionReady
    <3> QED BY <3>3, <3>4
  <2>4. ASSUME NEW d \in Clients, pc'[d] = "unlockAccept"
        PROVE  unit'[d] # NoUnit
    <3>1. CASE d # c
      BY <1>2, <2>1, <2>4, <3>1
    <3>2. CASE d = c
      <4>1. ConnectCopy(c) \/ ConnectShrink(c)
        BY <1>1, <2>4, <3>2 DEF ClientStep, Connect, ConnectStart, ConnectRoom, ConnectLock,
           ConnectRear, ConnectItem, ConnectCount, ConnectUnlock, ConnectAwait,
           ConnectLockAccept, ConnectFront, ConnectReturn, Send,
           CloseRead, CloseWrite, ClientDeath, Goto
      <4>2. ~ConnectCopy(c)
        <5> SUFFICES ASSUME ConnectCopy(c) PROVE FALSE
          OBVIOUS
        <5>1. AcceptionReady
          BY <2>1 DEF ConnectCopy, AcceptionReady
        <5>2. pc' = [pc EXCEPT ![c] = "front"]
          BY <5>1 DEF ConnectCopy, Goto
        <5> QED BY <1>1, <2>4, <3>2, <5>2
      <4>3. unit'[c] = unit[c] /\ pc[c] = "shrink"
        BY <4>1, <4>2 DEF ConnectShrink
      <4>4. unit[c] \in Units
        BY <2>1, <4>3 DEF Ringed
      <4> QED BY <3>2, <4>3, <4>4 DEF Units, NoUnit
    <3> QED BY <3>1, <3>2
  <2> QED BY <2>1, <2>2, <2>3, <2>4
<1>7. boots' = 0 => spc' = "down"
  BY <1>1 DEF Alone, server
<1> QED BY <1>4, <1>5, <1>6, <1>7 DEF Alone

LEMMA AloneServer ==
  ASSUME Typed, Alone, ServerStep
  PROVE  Alone'
<1>1. UNCHANGED <<pc, unit, contended, refused>> /\ (torn => torn')
  BY ServerFrame DEF clients
<1>2. boots \in Nat /\ acceptQ.size \in Int
  BY DEF Typed, TypeOK, RingType
<1>3. CASE BootConnectQueue
  <2>1. /\ acceptQ' = acceptQ /\ boots' = boots + 1 /\ spc = "down" /\ spc' = "bootAccept"
    BY <1>3 DEF BootConnectQueue
  <2>2. boots' # 0 /\ (Early' => Early) /\ (boots' <= 1 => boots <= 1)
    <3>1. boots + 1 # 0 /\ (boots + 1 = 1 => boots = 0) /\ (boots + 1 <= 1 => boots <= 1)
      BY <1>2
    <3>2. boots' # 0 /\ (boots' = 1 => boots = 0) /\ (boots' <= 1 => boots <= 1)
      BY <2>1, <3>1
    <3>3. Early' => Early
      BY <3>2 DEF Early
    <3> QED BY <3>2, <3>3
  <2> QED BY <1>1, <2>1, <2>2 DEF Alone
<1>4. CASE BootAcceptQueue
  <2>1. boots # 0 /\ UNCHANGED boots /\ spc' = "bootLocks"
    BY <1>4 DEF BootAcceptQueue, Alone
  <2>2. ~Early'
    BY <2>1 DEF Early
  <2>3. boots <= 1 => Early
    BY <1>2, <1>4, <2>1 DEF BootAcceptQueue, Early
  <2>4. boots <= 1 => \A c \in Clients : pc[c] \notin {"lockAccept", "copy"}
    BY <2>3 DEF Alone, DequeuePcs
  <2> QED BY <1>1, <2>1, <2>2, <2>4 DEF Alone
<1>5. CASE ServerDeath
  <2>1. boots # 0
    BY <1>5 DEF ServerDeath, Alone
  <2> QED BY <1>1, <1>5, <2>1 DEF ServerDeath, Alone, Early
<1>6. CASE AcceptCount
  <2>1. boots # 0 /\ UNCHANGED boots /\ spc' = "unlockAccept"
    BY <1>6 DEF AcceptCount, Alone
  <2>2. acceptQ'.size = acceptQ.size + 1
    BY <1>6 DEF AcceptCount, AcceptionCounted, Counted, Typed, TypeOK, RingType
  <2>3. ~torn' => acceptQ'.size # 0
    <3>1. ~torn => acceptQ.size >= 0
      BY DEF Typed, TypeOK
    <3> QED BY <1>1, <1>2, <2>2, <3>1
  <2> QED BY <1>1, <2>1, <2>3 DEF Alone, Early
<1>7. CASE ~BootConnectQueue /\ ~BootAcceptQueue /\ ~ServerDeath /\ ~AcceptCount
  <2>1. UNCHANGED boots /\ spc # "down" /\ spc' # "bootAccept"
    BY <1>7 DEF ServerStep, Boot, Accept, BootLocks, BootRest, AcceptStart,
       AcceptWaitConnect, AcceptLockConnect, AcceptCopy, AcceptFront, AcceptShrink,
       AcceptUnlockConnect, AcceptInitClose, AcceptWaitRoom, AcceptLockAccept, AcceptRear,
       AcceptItem, AcceptReturn, ReadStart, Close, ReadFinish, ReadEof, Return
  <2>2. acceptQ'.size = acceptQ.size
    <3>1. CASE AcceptRear
      BY <3>1 DEF AcceptRear, RearMoved, Typed, TypeOK, RingType
    <3>2. CASE AcceptItem
      BY <3>2 DEF AcceptItem, ItemStored, Typed, TypeOK, RingType
    <3> QED BY <1>7, <3>1, <3>2, ServerFrame
  <2>3. boots # 0
    BY <2>1 DEF Alone
  <2> QED BY <1>1, <2>1, <2>2, <2>3 DEF Alone, Early
<1> QED BY <1>3, <1>4, <1>5, <1>6, <1>7

\* A harness that runs one client at a time, against one start of the server,
\* never sees my_connect fail, unless an operation on a queue was torn.
THEOREM LoneServed == Spec => []LoneClientServed
<1>1. IInv /\ Alone /\ [Next]_vars => Alone'
  <2> SUFFICES ASSUME IInv, Alone, [Next]_vars PROVE Alone'
    OBVIOUS
  <2>1. CASE UNCHANGED vars
    BY <2>1 DEF vars, shared, server, clients, history, Alone, Early
  <2> QED BY <2>1, NextIsStep, AloneClient, AloneServer DEF IInv
<1>2. IInv /\ Alone => LoneClientServed
  BY DEF IInv, Typed, TypeOK, Alone, LoneClientServed
<1> QED BY <1>1, <1>2, AloneInit, Invariance, PTL DEF Spec

Waiting == {c \in Clients : pc[c] \in AwaitPcs}
OnTheirWay == Requests + (IF Answering THEN 1 ELSE 0) + Acceptions

\* NoOneForgotten, of finitely many.
Answered ==
  /\ IsFiniteSet(Waiting)
  /\ ~lost /\ ~torn => Cardinality(Waiting) <= OnTheirWay

\* A step that leaves the sum alone; a client may stop waiting, ...
LEMMA SumKept ==
  ASSUME Answered, lost => lost', torn => torn', Waiting' \subseteq Waiting,
         ~lost' /\ ~torn' => OnTheirWay' = OnTheirWay /\ OnTheirWay \in Int
  PROVE  Answered'
<1>1. /\ IsFiniteSet(Waiting) /\ IsFiniteSet(Waiting')
      /\ Cardinality(Waiting') <= Cardinality(Waiting)
      /\ Cardinality(Waiting) \in Nat /\ Cardinality(Waiting') \in Nat
  BY FS_Subset, FS_CardinalityType DEF Answered
<1>2. ASSUME ~lost', ~torn' PROVE Cardinality(Waiting') <= OnTheirWay'
  <2>1. Cardinality(Waiting) <= OnTheirWay
    BY <1>2 DEF Answered
  <2>2. OnTheirWay' = OnTheirWay /\ OnTheirWay \in Int
    BY <1>2
  <2> QED BY <1>1, <2>1, <2>2
<1> QED BY <1>1, <1>2 DEF Answered

\* The parts of the sum.
LEMMA SumParts ==
  ASSUME Typed, ~torn
  PROVE  /\ Requests \in Int /\ Acceptions \in Int /\ OnTheirWay \in Int
         /\ spc = "shrink" => Requests = connectQ.size - 1
         /\ spc # "shrink" => Requests = connectQ.size
         /\ connectQ.size \in Int /\ acceptQ.size \in Int
<1>1. connectQ.size \in Int /\ acceptQ.size \in Int
  BY DEF Typed, TypeOK, RingType
<1>2. Acceptions \in Int /\ Requests \in Int
  BY <1>1 DEF Acceptions, Requests
<1>3. /\ spc = "shrink" => Requests = connectQ.size - 1
      /\ spc # "shrink" => Requests = connectQ.size
  BY <1>1 DEF Requests
<1> QED BY <1>1, <1>2, <1>3 DEF OnTheirWay

LEMMA AnsweredInit == Init => Answered
<1> SUFFICES ASSUME Init PROVE Answered
  OBVIOUS
<1>1. Waiting = {}
  BY DEF Init, Waiting, AwaitPcs
<1>2. Requests = 0
  <2>1. Requests = connectQ.size - 0 /\ connectQ.size = 0
    BY DEF Init, Requests, ZeroedRing
  <2> QED BY <2>1
<1>3. Acceptions = 0
  <2>1. ~Shrinking
    BY DEF Init, Shrinking
  <2>2. Acceptions = acceptQ.size - 0 /\ acceptQ.size = 0
    BY <2>1 DEF Init, Acceptions, ZeroedRing
  <2> QED BY <2>2
<1>4. ~Answering
  BY DEF Init, Answering, AnswerPcs, EnqueuePcs
<1>5. OnTheirWay = 0
  <2>1. OnTheirWay = 0 + 0 + 0
    BY <1>2, <1>3, <1>4 DEF OnTheirWay
  <2> QED BY <2>1
<1> QED BY <1>1, <1>5, FS_EmptySet DEF Answered

LEMMA AnsweredClient ==
  ASSUME Typed, Answered, NEW c \in Clients, ClientStep(c)
  PROVE  Answered'
<1>1. /\ pc \in [Clients -> ClientPcs] /\ UNCHANGED server /\ (torn => torn')
      /\ \E label \in ClientPcs : pc' = [pc EXCEPT ![c] = label]
      /\ connectQ' = connectQ \/ ConnectRear(c) \/ ConnectItem(c) \/ ConnectCount(c)
      /\ connectQ \in RingType(ConnectCap, Addresses \cup {Zero})
  BY ClientFrame DEF Typed, TypeOK
<1>2. Answering' <=> Answering
  BY <1>1 DEF Answering, server
<1>3. lost => lost'
  BY DEF ClientStep, Connect, ConnectStart, ConnectRoom, ConnectLock,
     ConnectRear, ConnectItem, ConnectCount, ConnectUnlock, ConnectAwait,
     ConnectLockAccept, ConnectCopy, ConnectFront, ConnectShrink, ConnectReturn, Send,
     CloseRead, CloseWrite, ClientDeath, history
<1>4. connectQ'.size = connectQ.size \/ ConnectCount(c)
  <2>1. CASE ConnectRear(c)
    BY <1>1, <2>1 DEF ConnectRear, RearMoved, RingType
  <2>2. CASE ConnectItem(c)
    BY <1>1, <2>2 DEF ConnectItem, ItemStored, RingType
  <2> QED BY <1>1, <2>1, <2>2
<1>5. CASE ConnectCount(c)
  <2>1. Waiting' = Waiting \cup {c} /\ c \notin Waiting /\ ~ConnectFront(c)
    BY <1>1, <1>5 DEF ConnectCount, ConnectFront, Goto, Waiting, AwaitPcs
  <2>2. /\ IsFiniteSet(Waiting') /\ Cardinality(Waiting') = Cardinality(Waiting) + 1
        /\ Cardinality(Waiting) \in Nat
    BY <2>1, FS_AddElement, FS_CardinalityType DEF Answered
  <2>3. ASSUME ~lost', ~torn' PROVE Cardinality(Waiting') <= OnTheirWay'
    <3>1. ~lost /\ ~torn
      BY <1>1, <1>3, <2>3
    <3>2. connectQ'.size = connectQ.size + 1 /\ connectQ.size \in Int
      BY <1>1, <1>5 DEF ConnectCount, Counted, RingType
    <3>3. Requests' = Requests + 1
      <4>1. spc' = spc
        BY <1>1 DEF server
      <4> QED BY <3>2, <4>1 DEF Requests
    <3>4. Acceptions' = Acceptions
      BY <2>1, <2>3, OffersClient
    <3>5. OnTheirWay' = OnTheirWay + 1 /\ OnTheirWay \in Int
      BY <1>2, <3>1, <3>3, <3>4, SumParts DEF OnTheirWay
    <3>6. Cardinality(Waiting) <= OnTheirWay
      BY <3>1 DEF Answered
    <3> QED BY <2>2, <3>5, <3>6
  <2> QED BY <2>2, <2>3 DEF Answered
<1>6. CASE ConnectFront(c)
  <2>1. Waiting' = Waiting \ {c} /\ c \in Waiting
    BY <1>1, <1>6 DEF ConnectFront, Goto, Waiting, AwaitPcs
  <2>2. /\ IsFiniteSet(Waiting') /\ Cardinality(Waiting') = Cardinality(Waiting) - 1
        /\ Cardinality(Waiting) \in Nat
    BY <2>1, FS_RemoveElement, FS_CardinalityType DEF Answered
  <2>3. ASSUME ~lost', ~torn' PROVE Cardinality(Waiting') <= OnTheirWay'
    <3>1. ~lost /\ ~torn
      BY <1>1, <1>3, <2>3
    <3>2. Requests' = Requests
      BY <1>1, <1>6 DEF ConnectFront, Requests, server
    <3>3. Acceptions' = Acceptions - 1
      BY <1>6, <2>3, OffersClient
    <3>4. OnTheirWay' = OnTheirWay - 1 /\ OnTheirWay \in Int
      BY <1>2, <3>1, <3>2, <3>3, SumParts DEF OnTheirWay
    <3>5. Cardinality(Waiting) <= OnTheirWay
      BY <3>1 DEF Answered
    <3> QED BY <2>2, <3>4, <3>5
  <2> QED BY <2>2, <2>3 DEF Answered
<1>7. CASE ~ConnectCount(c) /\ ~ConnectFront(c)
  <2>1. ASSUME ~lost', ~torn'
        PROVE  Waiting' \subseteq Waiting /\ OnTheirWay' = OnTheirWay /\ OnTheirWay \in Int
    <3>1. pc'[c] \in AwaitPcs => pc[c] \in AwaitPcs
      BY <1>1, <1>7, <2>1 DEF ClientStep, Connect, ConnectStart, ConnectRoom, ConnectLock,
         ConnectRear, ConnectItem, ConnectUnlock, ConnectAwait,
         ConnectLockAccept, ConnectCopy, ConnectShrink, ConnectReturn, Send,
         CloseRead, CloseWrite, ClientDeath, Goto, AwaitPcs
    <3>2. Waiting' \subseteq Waiting
      BY <1>1, <3>1 DEF Waiting
    <3>3. Requests' = Requests
      BY <1>1, <1>4, <1>7 DEF Requests, server
    <3>4. Acceptions' = Acceptions
      BY <1>7, <2>1, OffersClient
    <3>5. OnTheirWay' = OnTheirWay
      BY <1>2, <3>3, <3>4 DEF OnTheirWay
    <3>6. ~torn
      BY <1>1, <2>1
    <3> QED BY <3>2, <3>5, <3>6, SumParts
  <2>2. IsFiniteSet(Waiting')
    <3>1. Waiting' \subseteq Waiting \cup {c}
      BY <1>1 DEF Waiting
    <3>2. IsFiniteSet(Waiting \cup {c})
      BY FS_AddElement DEF Answered
    <3> QED BY <3>1, <3>2, FS_Subset
  <2>3. CASE ~lost' /\ ~torn'
    BY <1>1, <1>3, <2>1, <2>3, SumKept
  <2>4. CASE lost' \/ torn'
    BY <2>2, <2>4 DEF Answered
  <2> QED BY <2>3, <2>4
<1> QED BY <1>5, <1>6, <1>7

LEMMA AcceptionsServer ==
  ASSUME Typed, ServerStep, ~torn', BootAcceptQueue => acceptQ.size = 0
  PROVE  /\ AcceptCount => Acceptions' = Acceptions + 1
         /\ ~AcceptCount => Acceptions' = Acceptions
<1>1. /\ acceptQ \in RingType(AcceptCap, Units \cup {NoUnit}) /\ acceptQ.size \in Int
      /\ UNCHANGED pc
  BY ServerFrame DEF Typed, TypeOK, RingType, clients
<1>2. Shrinking' <=> Shrinking
  BY <1>1 DEF Shrinking
<1>3. /\ AcceptCount => acceptQ'.size = acceptQ.size + 1
      /\ ~AcceptCount => acceptQ'.size = acceptQ.size
  <2>1. CASE AcceptRear
    BY <1>1, <2>1 DEF AcceptRear, AcceptCount, RearMoved, RingType
  <2>2. CASE AcceptItem
    BY <1>1, <2>2 DEF AcceptItem, AcceptCount, ItemStored, RingType
  <2>3. CASE AcceptCount
    BY <1>1, <2>3 DEF AcceptCount, AcceptionCounted, Counted, RingType
  <2>4. CASE BootAcceptQueue
    BY <2>4 DEF BootAcceptQueue, AcceptCount, Emptied
  <2>5. CASE acceptQ' = acceptQ /\ ~AcceptCount
    BY <2>5
  <2> QED BY <2>1, <2>2, <2>3, <2>4, <2>5, ServerFrame
<1>4. CASE Shrinking
  BY <1>1, <1>2, <1>3, <1>4 DEF Acceptions
<1>5. CASE ~Shrinking
  BY <1>1, <1>2, <1>3, <1>5 DEF Acceptions
<1> QED BY <1>4, <1>5

\* How the server takes a connection and puts an acception: nothing is dropped
\* on the way.
LEMMA RequestsServer ==
  ASSUME Typed, ServerStep, ~torn', ~lost'
  PROVE  LET answering == IF Answering THEN 1 ELSE 0
             answering1 == IF Answering' THEN 1 ELSE 0
         IN  Requests' + answering1 = Requests + answering - (IF AcceptCount THEN 1 ELSE 0)
<1>0. /\ connectQ.size \in Int /\ connectQ \in RingType(ConnectCap, Addresses \cup {Zero})
      /\ Placed
  BY DEF Typed, TypeOK, RingType
<1> USE DEF AnswerPcs, EnqueuePcs
<1>1. CASE BootConnectQueue
  <2>1. /\ connectQ'.size = 0 /\ connectQ.size = 0 /\ spc = "down" /\ spc' = "bootAccept"
    BY <1>1 DEF BootConnectQueue, Emptied
  <2>2. /\ Requests' = connectQ'.size - 0 /\ Requests = connectQ.size - 0
        /\ ~Answering /\ ~Answering' /\ ~AcceptCount
    BY <2>1 DEF Requests, Answering, AcceptCount
  <2> QED BY <2>1, <2>2
<1>2. CASE AcceptFront
  <2>1. /\ connectQ'.size = connectQ.size /\ spc = "front" /\ spc' = "shrink"
    BY <1>0, <1>2 DEF AcceptFront, FrontMoved, RingType
  <2>2. /\ Requests' = connectQ.size - 1 /\ Requests = connectQ.size - 0
        /\ ~Answering /\ Answering' /\ ~AcceptCount
    BY <2>1 DEF Requests, Answering, AcceptCount
  <2> QED BY <1>0, <2>2
<1>3. CASE AcceptShrink
  <2>1. /\ connectQ'.size = connectQ.size - 1 /\ spc = "shrink" /\ spc' = "unlockConnect"
        /\ conn' = conn /\ conn # None
    BY <1>0, <1>3 DEF AcceptShrink, Discounted, RingType, Placed
  <2>2. /\ Requests' = (connectQ.size - 1) - 0 /\ Requests = connectQ.size - 1
        /\ Answering /\ Answering' /\ ~AcceptCount
    BY <2>1 DEF Requests, Answering, AcceptCount
  <2> QED BY <1>0, <2>2
<1>4. CASE ~BootConnectQueue /\ ~AcceptFront /\ ~AcceptShrink
  <2>1. connectQ' = connectQ
    BY <1>4, ServerFrame
  <2>2. spc # "shrink" /\ spc' # "shrink"
    <3>1. CASE ServerDeath
      BY <3>1 DEF ServerDeath, HalfwayPcs
    <3> QED BY <1>4, <3>1 DEF ServerStep, Boot, Accept, BootAcceptQueue,
       BootLocks, BootRest, AcceptStart, AcceptWaitConnect, AcceptLockConnect, AcceptCopy,
       AcceptUnlockConnect, AcceptInitClose, AcceptWaitRoom,
       AcceptLockAccept, AcceptRear, AcceptItem, AcceptCount, AcceptReturn, ReadStart,
       Close, ReadFinish, ReadEof, Return
  <2>3. Requests' = connectQ.size - 0 /\ Requests = connectQ.size - 0
    BY <2>1, <2>2 DEF Requests
  <2>4. CASE AcceptCount
    <3>1. Answering /\ ~Answering'
      BY <2>4 DEF AcceptCount, Answering
    <3> QED BY <1>0, <2>3, <2>4, <3>1
  <2>5. CASE ~AcceptCount
    <3>1. Answering' <=> Answering
      <4>1. CASE ServerDeath
        BY <4>1 DEF ServerDeath, Answering
      <4>2. CASE AcceptUnlockConnect
        <5>1. None # "bound"
          BY DEF None
        <5> QED BY <4>2, <5>1 DEF AcceptUnlockConnect, Answering, Return
      <4>3. CASE AcceptRear
        BY <4>3 DEF AcceptRear, Answering
      <4> QED BY <1>4, <2>2, <2>5, <4>1, <4>2, <4>3 DEF ServerStep, Boot, Accept,
         BootAcceptQueue, BootLocks, BootRest, AcceptStart, AcceptWaitConnect,
         AcceptLockConnect, AcceptCopy, AcceptInitClose, AcceptWaitRoom,
         AcceptLockAccept, AcceptItem, AcceptReturn, ReadStart,
         Close, ReadFinish, ReadEof, Answering, Return
    <3> QED BY <1>0, <2>3, <2>5, <3>1
  <2> QED BY <2>4, <2>5
<1> QED BY <1>1, <1>2, <1>3, <1>4

LEMMA Passed ==
  ASSUME NEW r \in Int, NEW r1 \in Int, NEW a \in Int, NEW b \in Int, NEW q \in Int,
         NEW q1, NEW d \in {0, 1}, r1 + b = r + a - d, q1 = q + d
  PROVE  r1 + b + q1 = r + a + q
OBVIOUS

LEMMA AnsweredServer ==
  ASSUME Typed, Answered, ServerStep
  PROVE  Answered'
<1>1. /\ Waiting' = Waiting /\ (torn => torn')
  BY ServerFrame DEF clients, Waiting
<1>2. lost => lost'
  <2>1. \/ lost' = lost \/ lost' = TRUE
        \/ lost' = (lost \/ connectQ.size # 0)
        \/ lost' = (lost \/ acceptQ.size # 0)
        \/ lost' = (lost \/ Answering)
    BY DEF ServerStep, Boot, Accept, BootConnectQueue, BootAcceptQueue,
       BootLocks, BootRest, AcceptStart, AcceptWaitConnect, AcceptLockConnect, AcceptCopy,
       AcceptFront, AcceptShrink, AcceptUnlockConnect, AcceptInitClose, AcceptWaitRoom,
       AcceptLockAccept, AcceptRear, AcceptItem, AcceptCount, AcceptReturn, ReadStart,
       Close, ReadFinish, ReadEof, ServerDeath, history
  <2> QED BY <2>1, Zenon
<1>3. ASSUME ~lost', ~torn' PROVE OnTheirWay' = OnTheirWay /\ OnTheirWay \in Int
  <2>1. BootAcceptQueue => acceptQ.size = 0
    BY <1>3 DEF BootAcceptQueue
  <2>2. ~torn
    BY <1>1, <1>3
  <2>3. /\ Requests \in Int /\ Acceptions \in Int /\ OnTheirWay \in Int
        /\ connectQ'.size \in Int
    BY <2>2, SumParts, RingsServer DEF RingType
  <2>4. Requests' \in Int
    BY <2>3 DEF Requests
  <2>5. /\ AcceptCount => Acceptions' = Acceptions + 1
        /\ ~AcceptCount => Acceptions' = Acceptions
    BY <1>3, <2>1, AcceptionsServer
  <2> DEFINE a == IF Answering THEN 1 ELSE 0
             b == IF Answering' THEN 1 ELSE 0
  <2>6. Requests' + b = Requests + a - (IF AcceptCount THEN 1 ELSE 0)
    BY <1>3, RequestsServer
  <2>7. a \in Int /\ b \in Int
    OBVIOUS
  <2>8. OnTheirWay = Requests + a + Acceptions /\ OnTheirWay' = Requests' + b + Acceptions'
    BY DEF OnTheirWay
  <2> HIDE DEF a, b
  <2> DEFINE d == IF AcceptCount THEN 1 ELSE 0
             r == Requests
             r1 == Requests'
             q == Acceptions
             q1 == Acceptions'
  <2>9. /\ r1 + b = r + a - d /\ q1 = q + d /\ d \in {0, 1}
        /\ r \in Int /\ r1 \in Int /\ q \in Int
    <3>1. q1 = q + d
      BY <2>3, <2>5
    <3> QED BY <2>3, <2>4, <2>6, <3>1
  <2>10. OnTheirWay = r + a + q /\ OnTheirWay' = r1 + b + q1
    BY <2>8
  <2> HIDE DEF d, r, r1, q, q1
  <2>11. r1 + b + q1 = r + a + q
    BY <2>7, <2>9, Passed
  <2> QED BY <2>3, <2>10, <2>11
<1> QED BY <1>1, <1>2, <1>3, SumKept

\* Those who wait for an acception are never more than the acceptions and the
\* connections still on their way, unless one was lost or an operation torn.
THEOREM NobodyForgotten == Spec => []NoOneForgotten
<1>1. Typed /\ Answered /\ [Next]_vars => Answered'
  <2> SUFFICES ASSUME Typed, Answered, [Next]_vars PROVE Answered'
    OBVIOUS
  <2>1. CASE UNCHANGED vars
    <3>1. UNCHANGED <<pc, connectQ, acceptQ, spc, conn, lost, torn>>
      BY <2>1 DEF vars, shared, server, clients, history
    <3>2. (Shrinking' <=> Shrinking) /\ (Answering' <=> Answering)
      BY <3>1 DEF Shrinking, Answering
    <3>3. Requests' = Requests /\ Acceptions' = Acceptions
      BY <3>1, <3>2 DEF Requests, Acceptions
    <3> QED BY <3>1, <3>2, <3>3 DEF Answered, Waiting, OnTheirWay
  <2> QED BY <2>1, NextIsStep, AnsweredClient, AnsweredServer
<1>2. Answered => NoOneForgotten
  BY DEF Answered, Waiting, OnTheirWay, NoOneForgotten
<1> QED BY <1>1, <1>2, AnsweredInit, TypedInit, TypedNext, PTL DEF Spec
-----------------------------------------------------------------------------
(* The locks *)

\* Who is inside owns the lock, and so is there alone, unless the lock can be had
\* no more, when lock and unlock do nothing.
Guards(m, S) ==
  IF m.state = "lost" THEN m.owner = NoOne ELSE S \subseteq {m.owner}
Guarded == Guards(connectLock, ConnectSection) /\ Guards(acceptLock, AcceptSection)

\* A server that starts makes the locks new under a process that is inside.
Usurped == BootLocks /\ ConnectSection \cup AcceptSection # {}

Mutex == MutexType(Processes)

LEMMA LockGuards ==
  ASSUME NEW m \in Mutex, NEW S \in SUBSET Processes, NEW p \in Processes,
         LockReturns(m), Guards(m, S)
  PROVE  Guards(Locked(m, p), S \cup {p}) /\ Guards(Locked(m, p), S)
<1>1. NoOne \notin Processes
  BY HandshakeAssumption DEF Processes
<1>2. CASE m.state = "lost"
  BY <1>2 DEF Locked, Guards
<1>3. CASE m.state # "lost"
  <2>1. S = {}
    BY <1>1, <1>3 DEF LockReturns, Guards
  <2>2. Locked(m, p).owner = p /\ Locked(m, p).state = m.state
    BY <1>3 DEF Locked, Mutex, MutexType
  <2> QED BY <1>3, <2>1, <2>2 DEF Guards
<1> QED BY <1>2, <1>3

LEMMA UnlockGuards ==
  ASSUME NEW m \in Mutex, NEW S, NEW p \in S \cap Processes, Guards(m, S)
  PROVE  Guards(Unlocked(m, p), S \ {p})
<1>1. CASE m.state = "lost"
  <2>1. m.owner # p
    BY <1>1, HandshakeAssumption DEF Guards, Processes
  <2> QED BY <1>1, <2>1 DEF Unlocked, Guards
<1>2. CASE m.state # "lost"
  <2>1. S \ {p} = {} /\ m.owner = p
    BY <1>2 DEF Guards
  <2>2. Unlocked(m, p).owner = NoOne
    BY <1>2, <2>1 DEF Unlocked, ZeroedMutex, FreshMutex, Mutex, MutexType
  <2> QED BY <2>1, <2>2 DEF Guards
<1> QED BY <1>1, <1>2

LEMMA DeathGuards ==
  ASSUME NEW m \in Mutex, NEW S, NEW p \in Processes, Guards(m, S)
  PROVE  Guards(AfterDeath(m, p), S \ {p})
<1>1. CASE m.owner # p \/ m.state = "plain"
  BY <1>1 DEF AfterDeath, Guards
<1>2. CASE m.owner = p /\ m.state # "plain"
  <2>1. AfterDeath(m, p).state = "dead" /\ m.state # "lost"
    BY <1>2, HandshakeAssumption DEF AfterDeath, Guards, Processes
  <2> QED BY <1>2, <2>1 DEF Guards
<1> QED BY <1>1, <1>2

\* Fewer inside are guarded, too.
LEMMA GuardsFewer ==
  ASSUME NEW m, NEW S, NEW T \in SUBSET S, Guards(m, S)
  PROVE  Guards(m, T)
BY DEF Guards

\* A lock that can be had while somebody is inside is lost.
LEMMA LockedOut ==
  ASSUME NEW m, NEW S \in SUBSET Processes, Guards(m, S), LockReturns(m), S # {}
  PROVE  m.state = "lost"
BY HandshakeAssumption DEF Guards, LockReturns, Processes

LEMMA GuardedInit == Init => Guarded
BY HandshakeAssumption DEF Init, Guarded, Guards, ConnectSection, AcceptSection,
   ZeroedMutex, EnqueuePcs, DequeuePcs

LEMMA Sections ==
  ASSUME Typed
  PROVE  /\ connectLock \in Mutex /\ acceptLock \in Mutex
         /\ pc \in [Clients -> ClientPcs] /\ Server \notin Clients
         /\ ConnectSection \in SUBSET Processes /\ AcceptSection \in SUBSET Processes
BY HandshakeAssumption
   DEF Typed, TypeOK, Mutex, Processes, ConnectSection, AcceptSection

LEMMA GuardedClient ==
  ASSUME Typed, Guarded, NEW c \in Clients, ClientStep(c)
  PROVE  Guarded'
<1>1. /\ connectLock \in Mutex /\ acceptLock \in Mutex /\ c \in Processes
      /\ pc \in [Clients -> ClientPcs] /\ Server \notin Clients
      /\ ConnectSection \in SUBSET Processes /\ AcceptSection \in SUBSET Processes
      /\ spc' = spc
  BY Sections, ClientFrame DEF Processes, server, Typed
<1> USE DEF EnqueuePcs, DequeuePcs
<1>2. CASE ConnectLock(c)
  <2>1. /\ LockReturns(connectLock) /\ connectLock' = Locked(connectLock, c)
        /\ acceptLock' = acceptLock
        /\ ConnectSection' = ConnectSection \cup {c} /\ AcceptSection' = AcceptSection
    BY <1>1, <1>2 DEF ConnectLock, ConnectSection, AcceptSection, Goto
  <2> QED BY <1>1, <2>1, LockGuards DEF Guarded
<1>3. CASE ConnectUnlock(c)
  <2>1. /\ connectLock' = Unlocked(connectLock, c) /\ acceptLock' = acceptLock
        /\ c \in ConnectSection /\ ConnectSection' = ConnectSection \ {c}
        /\ AcceptSection' = AcceptSection
    BY <1>1, <1>3 DEF ConnectUnlock, ConnectSection, AcceptSection, Goto
  <2> QED BY <1>1, <2>1, UnlockGuards DEF Guarded
<1>4. CASE ConnectLockAccept(c)
  <2>1. /\ LockReturns(acceptLock) /\ acceptLock' = Locked(acceptLock, c)
        /\ connectLock' = connectLock
        /\ AcceptSection' = AcceptSection \cup {c} /\ ConnectSection' = ConnectSection
    BY <1>1, <1>4 DEF ConnectLockAccept, ConnectSection, AcceptSection, Goto
  <2> QED BY <1>1, <2>1, LockGuards DEF Guarded
<1>5. CASE ConnectReturn(c)
  <2>1. pc' \in {[pc EXCEPT ![c] = "idle"], [pc EXCEPT ![c] = "connected"]}
    BY <1>5 DEF ConnectReturn, Goto
  <2>2. /\ acceptLock' = Unlocked(acceptLock, c) /\ connectLock' = connectLock
        /\ c \in AcceptSection /\ AcceptSection' = AcceptSection \ {c}
        /\ ConnectSection' = ConnectSection
    BY <1>1, <1>5, <2>1 DEF ConnectReturn, ConnectSection, AcceptSection
  <2> QED BY <1>1, <2>2, UnlockGuards DEF Guarded
<1>6. CASE ClientDeath(c)
  <2>1. /\ connectLock' = AfterDeath(connectLock, c) /\ acceptLock' = AfterDeath(acceptLock, c)
        /\ ConnectSection' = ConnectSection \ {c} /\ AcceptSection' = AcceptSection \ {c}
    BY <1>1, <1>6 DEF ClientDeath, ConnectSection, AcceptSection, Goto
  <2> QED BY <1>1, <2>1, DeathGuards DEF Guarded
<1>7. CASE \/ ConnectStart(c) \/ ConnectRoom(c) \/ ConnectAwait(c) \/ Send(c)
           \/ CloseRead(c) \/ CloseWrite(c)
  <2>1. /\ UNCHANGED <<connectLock, acceptLock>>
        /\ \/ pc' = pc
           \/ \E l \in {"room", "lockConnect", "lockAccept", "closing", "idle"} :
                pc' = [pc EXCEPT ![c] = l]
    BY <1>7 DEF ConnectStart, ConnectRoom, ConnectAwait, Send, CloseRead, CloseWrite,
       RaiseFirst, Goto, shared
  <2>2. ConnectSection' \subseteq ConnectSection /\ AcceptSection' \subseteq AcceptSection
    BY <1>1, <2>1 DEF ConnectSection, AcceptSection
  <2> QED BY <2>1, <2>2, GuardsFewer DEF Guarded
<1>8. CASE ConnectRear(c) \/ ConnectItem(c) \/ ConnectCount(c)
  <2>1. /\ UNCHANGED <<connectLock, acceptLock>>
        /\ pc[c] \in EnqueuePcs
        /\ \E l \in {"item", "count", "unlockConnect"} : pc' = [pc EXCEPT ![c] = l]
    BY <1>8 DEF ConnectRear, ConnectItem, ConnectCount, Goto
  <2>2. ConnectSection' = ConnectSection /\ AcceptSection' = AcceptSection
    BY <1>1, <2>1 DEF ConnectSection, AcceptSection
  <2> QED BY <2>1, <2>2 DEF Guarded
<1>9. CASE ConnectCopy(c) \/ ConnectFront(c) \/ ConnectShrink(c)
  <2>1. /\ UNCHANGED <<connectLock, acceptLock>>
        /\ pc[c] \in DequeuePcs
        /\ \E l \in {"front", "shrink", "unlockAccept"} : pc' = [pc EXCEPT ![c] = l]
    BY <1>9 DEF ConnectCopy, ConnectFront, ConnectShrink, Goto, shared
  <2>2. ConnectSection' = ConnectSection /\ AcceptSection' = AcceptSection
    BY <1>1, <2>1 DEF ConnectSection, AcceptSection
  <2> QED BY <2>1, <2>2 DEF Guarded
<1> QED BY <1>2, <1>3, <1>4, <1>5, <1>6, <1>7, <1>8, <1>9 DEF ClientStep, Connect

LEMMA GuardedServer ==
  ASSUME Typed, Guarded, ServerStep, ~Usurped
  PROVE  Guarded'
<1>1. /\ connectLock \in Mutex /\ acceptLock \in Mutex /\ Server \in Processes
      /\ Server \notin Clients /\ pc' = pc
      /\ ConnectSection \in SUBSET Processes /\ AcceptSection \in SUBSET Processes
  BY Sections, ServerFrame DEF Processes, clients
<1> USE DEF EnqueuePcs, DequeuePcs
<1>2. CASE BootLocks
  <2>1. ConnectSection' = {} /\ AcceptSection' = {}
    BY <1>1, <1>2 DEF Usurped, BootLocks, ConnectSection, AcceptSection
  <2>2. connectLock'.state = "ok" /\ acceptLock'.state = "ok"
    BY <1>2 DEF BootLocks, FreshMutex
  <2> QED BY <2>1, <2>2 DEF Guarded, Guards
<1>3. CASE AcceptLockConnect
  <2>1. /\ LockReturns(connectLock) /\ connectLock' = Locked(connectLock, Server)
        /\ acceptLock' = acceptLock
        /\ ConnectSection' \subseteq ConnectSection \cup {Server}
        /\ AcceptSection' = AcceptSection
    BY <1>1, <1>3 DEF AcceptLockConnect, ConnectSection, AcceptSection, Return
  <2>2. Guards(connectLock', ConnectSection \cup {Server})
    BY <1>1, <2>1, LockGuards DEF Guarded
  <2> QED BY <2>1, <2>2, GuardsFewer DEF Guarded
<1>4. CASE AcceptUnlockConnect
  <2>1. spc' \in {"initClose", "app"}
    BY <1>4 DEF AcceptUnlockConnect, Return
  <2>2. /\ connectLock' = Unlocked(connectLock, Server) /\ acceptLock' = acceptLock
        /\ Server \in ConnectSection /\ ConnectSection' = ConnectSection \ {Server}
        /\ AcceptSection' = AcceptSection
    BY <1>1, <1>4, <2>1 DEF AcceptUnlockConnect, ConnectSection, AcceptSection
  <2> QED BY <1>1, <2>2, UnlockGuards DEF Guarded
<1>5. CASE AcceptLockAccept
  <2>1. /\ LockReturns(acceptLock) /\ acceptLock' = Locked(acceptLock, Server)
        /\ connectLock' = connectLock
        /\ AcceptSection' = AcceptSection \cup {Server} /\ ConnectSection' = ConnectSection
    BY <1>1, <1>5 DEF AcceptLockAccept, ConnectSection, AcceptSection
  <2> QED BY <1>1, <2>1, LockGuards DEF Guarded
<1>6. CASE AcceptReturn
  <2>1. /\ acceptLock' = Unlocked(acceptLock, Server) /\ connectLock' = connectLock
        /\ Server \in AcceptSection /\ AcceptSection' = AcceptSection \ {Server}
        /\ ConnectSection' = ConnectSection
    BY <1>1, <1>6 DEF AcceptReturn, ConnectSection, AcceptSection, Return
  <2> QED BY <1>1, <2>1, UnlockGuards DEF Guarded
<1>7. CASE ServerDeath
  <2>1. /\ connectLock' = AfterDeath(connectLock, Server)
        /\ acceptLock' = AfterDeath(acceptLock, Server)
        /\ ConnectSection' = ConnectSection \ {Server}
        /\ AcceptSection' = AcceptSection \ {Server}
    BY <1>1, <1>7 DEF ServerDeath, ConnectSection, AcceptSection
  <2> QED BY <1>1, <2>1, DeathGuards DEF Guarded
<1>8. CASE \/ BootConnectQueue \/ BootAcceptQueue \/ BootRest \/ AcceptStart
           \/ AcceptWaitConnect \/ AcceptInitClose \/ AcceptWaitRoom
           \/ (\E u \in Units : ReadStart(u) \/ Close(u)) \/ ReadFinish \/ ReadEof
  <2>1. /\ UNCHANGED <<connectLock, acceptLock>>
        /\ \/ spc' = spc
           \/ spc' \in {"bootAccept", "bootLocks", "app", "waitConnect", "lockConnect",
                        "waitRoom", "lockAccept", "read"}
    BY <1>8 DEF BootConnectQueue, BootAcceptQueue, BootRest, AcceptStart,
       AcceptWaitConnect, AcceptInitClose, AcceptWaitRoom, ReadStart, Close,
       ReadFinish, ReadEof, shared, Return
  <2>2. ConnectSection' \subseteq ConnectSection /\ AcceptSection' \subseteq AcceptSection
    BY <1>1, <2>1 DEF ConnectSection, AcceptSection
  <2> QED BY <2>1, <2>2, GuardsFewer DEF Guarded
<1>9. CASE AcceptCopy \/ AcceptFront \/ AcceptShrink
  <2>1. /\ UNCHANGED <<connectLock, acceptLock>>
        /\ spc \in DequeuePcs /\ spc' \in {"front", "shrink", "unlockConnect"}
    BY <1>9 DEF AcceptCopy, AcceptFront, AcceptShrink, shared
  <2>2. ConnectSection' = ConnectSection /\ AcceptSection' = AcceptSection
    BY <1>1, <2>1 DEF ConnectSection, AcceptSection
  <2> QED BY <2>1, <2>2 DEF Guarded
<1>10. CASE AcceptRear \/ AcceptItem \/ AcceptCount
  <2>1. /\ UNCHANGED <<connectLock, acceptLock>>
        /\ spc \in EnqueuePcs /\ spc' \in {"item", "count", "unlockAccept"}
    BY <1>10 DEF AcceptRear, AcceptItem, AcceptCount
  <2>2. ConnectSection' = ConnectSection /\ AcceptSection' = AcceptSection
    BY <1>1, <2>1 DEF ConnectSection, AcceptSection
  <2> QED BY <2>1, <2>2 DEF Guarded
<1> QED BY <1>2, <1>3, <1>4, <1>5, <1>6, <1>7, <1>8, <1>9, <1>10 DEF ServerStep, Boot, Accept

LEMMA GuardedNext == Typed /\ Guarded /\ [Next]_vars /\ [~Usurped]_vars => Guarded'
<1> SUFFICES ASSUME Typed, Guarded, [Next]_vars, [~Usurped]_vars PROVE Guarded'
  OBVIOUS
<1>1. CASE UNCHANGED vars
  BY <1>1 DEF vars, shared, server, clients, Guarded, Guards, ConnectSection,
     AcceptSection
<1>2. CASE Next /\ ~Usurped
  BY <1>2, NextIsStep, GuardedClient, GuardedServer
<1> QED BY <1>1, <1>2

\* The locks keep two processes from being inside one queue, whoever is killed,
\* until one of them is lost, or a server that starts makes them new under a
\* process that is inside.
THEOREM LocksExclude == Spec /\ [][~Usurped]_vars => []Guarded
BY GuardedNext, GuardedInit, TypedInit, TypedNext, PTL DEF Spec

\* A step that leaves a queue torn: a death between the first store of an
\* operation and the last, a server that starts while somebody is inside, or a
\* lock that is lost.
Tears ==
  \/ ServerDeath /\ spc \in HalfwayPcs
  \/ \E c \in Clients : ClientDeath(c) /\ pc[c] \in HalfwayPcs
  \/ BootConnectQueue /\ ConnectSection # {}
  \/ BootAcceptQueue /\ AcceptSection # {}
  \/ "lost" \in {connectLock.state, acceptLock.state}

\* Nothing else tears a queue, unless locks were made new under a process that
\* was inside: every promise that excepts torn holds in all other behaviours.
THEOREM TornOnlySo == Spec /\ [][~Usurped]_vars => [][torn' # torn => Tears]_vars
<1>1. ASSUME Typed, Guarded, Next, torn' # torn PROVE Tears
  <2>0. /\ ConnectSection \in SUBSET Processes /\ AcceptSection \in SUBSET Processes
        /\ torn \in BOOLEAN
    BY <1>1, Sections DEF Typed, TypeOK
  <2>1. ASSUME LockReturns(connectLock), torn' = (torn \/ ConnectSection # {})
        PROVE  Tears
    BY <1>1, <2>0, <2>1, LockedOut DEF Guarded, Tears
  <2>2. ASSUME LockReturns(acceptLock), torn' = (torn \/ AcceptSection # {})
        PROVE  Tears
    BY <1>1, <2>0, <2>2, LockedOut DEF Guarded, Tears
  <2>3. ASSUME NEW c \in Clients, ClientStep(c) PROVE Tears
    <3>1. CASE ConnectLock(c)
      BY <2>1, <3>1 DEF ConnectLock
    <3>2. CASE ConnectLockAccept(c)
      BY <2>2, <3>2 DEF ConnectLockAccept
    <3>3. CASE ClientDeath(c)
      <4>1. pc[c] \in HalfwayPcs
        <5>1. torn' = (torn \/ pc[c] \in HalfwayPcs)
          BY <3>3 DEF ClientDeath
        <5> QED BY <1>1, <2>0, <5>1
      <4> QED BY <3>3, <4>1 DEF Tears
    <3>4. CASE torn' = torn
      BY <1>1, <3>4
    <3> QED BY <2>3, <3>1, <3>2, <3>3, <3>4 DEF ClientStep, Connect, ConnectStart,
       ConnectRoom, ConnectRear, ConnectItem, ConnectCount, ConnectUnlock, ConnectAwait,
       ConnectCopy, ConnectFront, ConnectShrink, ConnectReturn, Send, CloseRead,
       CloseWrite, history
  <2>4. ASSUME ServerStep PROVE Tears
    <3>1. CASE AcceptLockConnect
      <4>1. \/ torn' = (torn \/ ConnectSection # {})
            \/ torn' = torn
        BY <3>1 DEF AcceptLockConnect
      <4>2. LockReturns(connectLock)
        BY <3>1 DEF AcceptLockConnect
      <4> QED BY <1>1, <2>1, <4>1, <4>2
    <3>2. CASE AcceptLockAccept
      BY <2>2, <3>2 DEF AcceptLockAccept
    <3>3. CASE ServerDeath
      <4>1. spc \in HalfwayPcs
        <5>1. torn' = (torn \/ spc \in HalfwayPcs)
          BY <3>3 DEF ServerDeath
        <5> QED BY <1>1, <2>0, <5>1
      <4> QED BY <3>3, <4>1 DEF Tears
    <3>4. CASE BootConnectQueue
      <4>1. ConnectSection # {}
        <5>1. torn' = (torn \/ ConnectSection # {})
          BY <3>4 DEF BootConnectQueue
        <5> QED BY <1>1, <2>0, <5>1
      <4> QED BY <3>4, <4>1 DEF Tears
    <3>5. CASE BootAcceptQueue
      <4>1. AcceptSection # {}
        <5>1. torn' = (torn \/ AcceptSection # {})
          BY <3>5 DEF BootAcceptQueue
        <5> QED BY <1>1, <2>0, <5>1
      <4> QED BY <3>5, <4>1 DEF Tears
    <3>6. CASE torn' = torn
      BY <1>1, <3>6
    <3> QED BY <2>4, <3>1, <3>2, <3>3, <3>4, <3>5, <3>6 DEF ServerStep, Boot, Accept,
       BootLocks, BootRest, AcceptStart, AcceptWaitConnect, AcceptCopy, AcceptFront,
       AcceptShrink, AcceptUnlockConnect, AcceptInitClose, AcceptWaitRoom, AcceptRear,
       AcceptItem, AcceptCount, AcceptReturn, ReadStart, Close, ReadFinish, ReadEof,
       history
  <2> QED BY <1>1, <2>3, <2>4, NextIsStep
<1>2. Typed /\ Guarded /\ [Next]_vars => [torn' # torn => Tears]_vars
  BY <1>1
<1> QED BY <1>2, GuardedNext, GuardedInit, TypedInit, TypedNext, PTL DEF Spec
=============================================================================
