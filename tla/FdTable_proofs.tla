--------------------------- MODULE FdTable_proofs ---------------------------
(***************************************************************************)
(* The descriptors of the hooked server, for any number of processes, fds  *)
(* and units: each fd and each unit is accounted for, and close tells the  *)
(* client of its own connection.                                           *)
(***************************************************************************)
EXTENDS FdTable, FiniteSetTheorems, TLAPS

(* Stacks.  0 .. n - 1 is Fds, and is Units. *)

\* A stack that lacks one of n numbers, and holds none twice, is not full, so
\* push is never a push that is lost.
LEMMA RoomToPush ==
  ASSUME NEW n \in Nat \ {0}, NEW s \in Seq(0 .. n - 1), IsInjective(s),
         NEW x \in 0 .. n - 1, x \notin ToSet(s)
  PROVE  Len(s) < n
<1> DEFINE N == 0 .. n - 1
           T == N \ {x}
           S == 1 .. Len(s)
<1>1. IsFiniteSet(N) /\ Cardinality(N) = n
  BY FS_Interval
<1>2. s \in Seq(N) /\ x \in N
  OBVIOUS
<1>3. Len(s) \in Nat /\ DOMAIN s = S
  BY <1>2
<1>4. IsFiniteSet(S) /\ Cardinality(S) = Len(s)
  <2>1. 1 \in Int /\ Len(s) \in Int
    BY <1>3
  <2>2. IsFiniteSet(S) /\ Cardinality(S) = IF 1 > Len(s) THEN 0 ELSE Len(s) - 1 + 1
    BY <2>1, FS_Interval
  <2> QED BY <1>3, <2>2
<1>5. ~(\E a, b \in S : a # b /\ s[a] = s[b])
  BY <1>3 DEF IsInjective
<1> HIDE DEF N
<1>6. IsFiniteSet(T) /\ Cardinality(T) = n - 1
  BY <1>1, <1>2, FS_RemoveElement
<1>7. s \in [S -> T]
  BY <1>2, <1>3 DEF ToSet
<1> HIDE DEF S, T
<1>8. ~(Cardinality(T) < Cardinality(S))
  BY <1>4, <1>5, <1>6, <1>7, FS_PigeonHole
<1> QED BY <1>3, <1>4, <1>6, <1>8

\* What a pop takes off and leaves.
LEMMA Popping ==
  ASSUME NEW n \in Nat \ {0}, NEW s \in Seq(0 .. n - 1), IsInjective(s), s # <<>>
  PROVE  /\ top(s) \in ToSet(s) /\ top(s) \in 0 .. n - 1
         /\ popped(s) \in Seq(0 .. n - 1) /\ IsInjective(popped(s))
         /\ ToSet(popped(s)) = ToSet(s) \ {top(s)}
         /\ push(popped(s), top(s), n) = s
<1> DEFINE r == popped(s)
<1>1. Len(s) \in Nat /\ Len(s) > 0 /\ DOMAIN s = 1 .. Len(s)
  OBVIOUS
<1>2. top(s) = s[Len(s)]
  BY DEF top
<1>3. /\ r \in Seq(0 .. n - 1) /\ Len(r) = Len(s) - 1
      /\ DOMAIN r = 1 .. Len(s) - 1
      /\ \A i \in 1 .. Len(s) - 1 : r[i] = s[i]
  BY <1>1 DEF popped
<1> HIDE DEF r
<1>4. IsInjective(r)
  <2> SUFFICES ASSUME NEW i \in 1 .. Len(s) - 1, NEW j \in 1 .. Len(s) - 1, r[i] = r[j]
               PROVE  i = j
    BY <1>3 DEF IsInjective
  <2>1. s[i] = s[j] /\ i \in DOMAIN s /\ j \in DOMAIN s
    BY <1>1, <1>3
  <2> QED BY <2>1 DEF IsInjective
<1>5. ToSet(r) = ToSet(s) \ {s[Len(s)]}
  <2>1. ASSUME NEW y \in ToSet(r) PROVE y \in ToSet(s) /\ y # s[Len(s)]
    <3>1. PICK i \in DOMAIN r : y = r[i]
      BY DEF ToSet
    <3>2. i \in 1 .. Len(s) - 1 /\ y = s[i]
      BY <1>3, <3>1
    <3>3. i \in DOMAIN s /\ Len(s) \in DOMAIN s /\ i # Len(s)
      BY <1>1, <3>2
    <3> QED BY <3>2, <3>3 DEF ToSet, IsInjective
  <2>2. ASSUME NEW y \in ToSet(s), y # s[Len(s)] PROVE y \in ToSet(r)
    <3>1. PICK i \in 1 .. Len(s) : y = s[i]
      BY <1>1 DEF ToSet
    <3>2. i \in 1 .. Len(s) - 1
      BY <1>1, <2>2, <3>1
    <3> QED BY <1>3, <3>1, <3>2 DEF ToSet
  <2> QED BY <2>1, <2>2
<1>6. s[Len(s)] \in ToSet(s) /\ s[Len(s)] \in 0 .. n - 1
  BY <1>1 DEF ToSet
<1>7. Len(r) < n
  BY <1>3, <1>4, <1>5, <1>6, RoomToPush
<1>8. Append(r, s[Len(s)]) = s
  <2> DEFINE q == Append(r, s[Len(s)])
  <2>1. Len(q) = Len(s) /\ DOMAIN q = 1 .. Len(s) /\ q \in Seq(0 .. n - 1)
    <3> DEFINE N == 0 .. n - 1
    <3>1. r \in Seq(N) /\ s[Len(s)] \in N
      BY <1>3, <1>6
    <3> HIDE DEF N
    <3>2. q \in Seq(N) /\ Len(q) = Len(r) + 1 /\ DOMAIN q = 1 .. Len(r) + 1
      BY <3>1
    <3>3. Len(r) + 1 = Len(s)
      BY <1>1, <1>3
    <3>4. q \in Seq(0 .. n - 1)
      BY <3>2 DEF N
    <3> QED BY <3>2, <3>3, <3>4
  <2>2. ASSUME NEW i \in 1 .. Len(s) PROVE q[i] = s[i]
    BY <1>1, <1>3
  <2> HIDE DEF q
  <2>3. q = s
    BY <1>1, <2>1, <2>2
  <2> QED BY <2>3 DEF q
<1>9. push(r, s[Len(s)], n) = s
  BY <1>7, <1>8 DEF push
<1> QED BY <1>2, <1>3, <1>4, <1>5, <1>6, <1>9 DEF r

\* What a push puts on.
LEMMA Pushing ==
  ASSUME NEW n \in Nat \ {0}, NEW s \in Seq(0 .. n - 1), IsInjective(s),
         NEW x \in 0 .. n - 1, x \notin ToSet(s)
  PROVE  /\ push(s, x, n) \in Seq(0 .. n - 1) /\ IsInjective(push(s, x, n))
         /\ ToSet(push(s, x, n)) = ToSet(s) \cup {x}
<1> DEFINE r == Append(s, x)
<1>1. Len(s) < n
  BY RoomToPush
<1>2. push(s, x, n) = r
  BY <1>1 DEF push
<1>3. Len(s) \in Nat /\ DOMAIN s = 1 .. Len(s)
  OBVIOUS
<1>4. /\ r \in Seq(0 .. n - 1) /\ DOMAIN r = 1 .. Len(s) + 1
      /\ \A i \in 1 .. Len(s) : r[i] = s[i]
      /\ r[Len(s) + 1] = x
  BY <1>3
<1> HIDE DEF r
<1>5. IsInjective(r)
  <2> SUFFICES ASSUME NEW i \in DOMAIN r, NEW j \in DOMAIN r, r[i] = r[j]
               PROVE  i = j
    BY DEF IsInjective
  <2>1. \A k \in 1 .. Len(s) : r[k] # x
    <3> SUFFICES ASSUME NEW k \in 1 .. Len(s) PROVE s[k] # x
      BY <1>4
    <3> QED BY <1>3 DEF ToSet
  <2>2. /\ i \in 1 .. Len(s) \/ i = Len(s) + 1
        /\ j \in 1 .. Len(s) \/ j = Len(s) + 1
    BY <1>3, <1>4
  <2>3. CASE i \in 1 .. Len(s) /\ j \in 1 .. Len(s)
    <3>1. s[i] = s[j]
      BY <1>4, <2>3
    <3> QED BY <1>3, <2>3, <3>1 DEF IsInjective
  <2>4. CASE i = Len(s) + 1 \/ j = Len(s) + 1
    BY <1>4, <2>1, <2>2, <2>4
  <2> QED BY <2>2, <2>3, <2>4
<1>6. ToSet(r) = ToSet(s) \cup {x}
  <2>1. ASSUME NEW y \in ToSet(r) PROVE y \in ToSet(s) \cup {x}
    <3>1. PICK i \in 1 .. Len(s) + 1 : y = r[i]
      BY <1>4 DEF ToSet
    <3>2. CASE i = Len(s) + 1
      BY <1>4, <3>1, <3>2
    <3>3. CASE i \in 1 .. Len(s)
      BY <1>3, <1>4, <3>1, <3>3 DEF ToSet
    <3> QED BY <1>3, <3>2, <3>3
  <2>2. ASSUME NEW y \in ToSet(s) PROVE y \in ToSet(r)
    <3>1. PICK i \in 1 .. Len(s) : y = s[i]
      BY <1>3 DEF ToSet
    <3> QED BY <1>3, <1>4, <3>1 DEF ToSet
  <2>3. x \in ToSet(r)
    BY <1>3, <1>4 DEF ToSet
  <2> QED BY <2>1, <2>2, <2>3
<1> QED BY <1>2, <1>4, <1>5, <1>6
-----------------------------------------------------------------------------
(* A set split up into a stack, what is held and what is lost *)

LEMMA SplitPop ==
  ASSUME NEW n \in Nat \ {0}, NEW s \in Seq(0 .. n - 1), NEW a, NEW b,
         Split(0 .. n - 1, s, a, b), s # <<>>
  PROVE  /\ top(s) \in 0 .. n - 1 /\ top(s) \notin a \cup b
         /\ popped(s) \in Seq(0 .. n - 1)
         /\ Split(0 .. n - 1, popped(s), a \cup {top(s)}, b)
         /\ Split(0 .. n - 1, popped(s), a, b \cup {top(s)})
         /\ push(popped(s), top(s), n) = s
<1>1. IsInjective(s)
  BY DEF Split
<1>2. /\ top(s) \in ToSet(s) /\ top(s) \in 0 .. n - 1
      /\ popped(s) \in Seq(0 .. n - 1) /\ IsInjective(popped(s))
      /\ ToSet(popped(s)) = ToSet(s) \ {top(s)}
      /\ push(popped(s), top(s), n) = s
  BY <1>1, Popping
<1> QED BY <1>2 DEF Split

LEMMA SplitPush ==
  ASSUME NEW n \in Nat \ {0}, NEW s \in Seq(0 .. n - 1), NEW a, NEW b,
         Split(0 .. n - 1, s, a, b), NEW x \in a
  PROVE  /\ push(s, x, n) \in Seq(0 .. n - 1)
         /\ Split(0 .. n - 1, push(s, x, n), a \ {x}, b)
<1>1. IsInjective(s) /\ x \in 0 .. n - 1 /\ x \notin ToSet(s)
  BY DEF Split
<1>2. /\ push(s, x, n) \in Seq(0 .. n - 1) /\ IsInjective(push(s, x, n))
      /\ ToSet(push(s, x, n)) = ToSet(s) \cup {x}
  BY <1>1, Pushing
<1> QED BY <1>2 DEF Split

LEMMA SplitLose ==
  ASSUME NEW all, NEW s, NEW a, NEW b, Split(all, s, a, b), NEW x \in a
  PROVE  Split(all, s, a \ {x}, b \cup {x})
BY DEF Split
-----------------------------------------------------------------------------
(* The books of one process: its stacks, its table, the fds it holds, and  *)
(* what it has lost *)

UnitsOf(arr, held) == {arr[fd].share_unit_index : fd \in held}

OneEach(arr, held) ==
  \A fd, other \in held :
    arr[fd].share_unit_index = arr[other].share_unit_index => fd = other

Balanced(fds, us, arr, held, fdsLost, unitsLost) ==
  /\ fds \in Seq(Fds) /\ us \in Seq(Units)
  /\ Split(Fds, fds, held, fdsLost)
  /\ Split(Units, us, UnitsOf(arr, held), unitsLost)
  /\ OneEach(arr, held)

\* Two tables that say the same units of some fds.
Agree(arr, brr, held) ==
  \A fd \in held : brr[fd].share_unit_index = arr[fd].share_unit_index

LEMMA Sizes == /\ NFds \in Nat \ {0} /\ Fds = 0 .. NFds - 1
               /\ SOCKET_NUM \in Nat \ {0} /\ Units = 0 .. SOCKET_NUM - 1
BY FdTableAssumption DEF Fds, Units

LEMMA BalancedHeld ==
  ASSUME NEW fds, NEW us, NEW arr, NEW held, NEW fl, NEW ul,
         Balanced(fds, us, arr, held, fl, ul), NEW fd \in held
  PROVE  /\ fd \in Fds /\ fd \notin fl
         /\ arr[fd].share_unit_index \in Units
         /\ arr[fd].share_unit_index \in UnitsOf(arr, held)
BY DEF Balanced, Split, UnitsOf

\* The books do not depend on what else the table says.
LEMMA BalancedAgree ==
  ASSUME NEW fds, NEW us, NEW arr, NEW brr, NEW held, NEW fl, NEW ul,
         Balanced(fds, us, arr, held, fl, ul), Agree(arr, brr, held)
  PROVE  Balanced(fds, us, brr, held, fl, ul)
<1>1. UnitsOf(brr, held) = UnitsOf(arr, held)
  BY DEF UnitsOf, Agree
<1>2. OneEach(brr, held)
  BY DEF OneEach, Agree, Balanced
<1> QED BY <1>1, <1>2 DEF Balanced

\* A held fd given up, its unit leaves what is held.
LEMMA UnitsLess ==
  ASSUME NEW arr, NEW held, OneEach(arr, held), NEW fd \in held
  PROVE  /\ UnitsOf(arr, held \ {fd}) = UnitsOf(arr, held) \ {arr[fd].share_unit_index}
         /\ OneEach(arr, held \ {fd})
<1>1. ASSUME NEW u \in UnitsOf(arr, held \ {fd})
      PROVE  u \in UnitsOf(arr, held) /\ u # arr[fd].share_unit_index
  <2>1. PICK g \in held \ {fd} : u = arr[g].share_unit_index
    BY <1>1 DEF UnitsOf
  <2> QED BY <2>1 DEF UnitsOf, OneEach
<1>2. ASSUME NEW u \in UnitsOf(arr, held), u # arr[fd].share_unit_index
      PROVE  u \in UnitsOf(arr, held \ {fd})
  BY <1>2 DEF UnitsOf
<1> QED BY <1>1, <1>2 DEF OneEach

\* A fd and a unit popped, and the one put down for the other.
LEMMA BalancedTake ==
  ASSUME NEW fds, NEW us, NEW arr, NEW brr, NEW held, NEW fl, NEW ul,
         Balanced(fds, us, arr, held, fl, ul), fds # <<>>, us # <<>>,
         Agree(arr, brr, held), brr[top(fds)].share_unit_index = top(us)
  PROVE  /\ top(fds) \in Fds /\ top(fds) \notin held /\ top(us) \in Units
         /\ top(us) \notin UnitsOf(arr, held)
         /\ Balanced(popped(fds), popped(us), brr, held \cup {top(fds)}, fl, ul)
<1> DEFINE f == top(fds)
           u == top(us)
<1>1. /\ f \in Fds /\ f \notin held
      /\ popped(fds) \in Seq(Fds) /\ Split(Fds, popped(fds), held \cup {f}, fl)
  BY Sizes, SplitPop DEF Balanced
<1>2. /\ u \in Units /\ u \notin UnitsOf(arr, held)
      /\ popped(us) \in Seq(Units)
      /\ Split(Units, popped(us), UnitsOf(arr, held) \cup {u}, ul)
  BY Sizes, SplitPop DEF Balanced
<1> HIDE DEF f, u
<1>3. brr[f].share_unit_index = u
  BY DEF f, u
<1>4. UnitsOf(brr, held \cup {f}) = UnitsOf(arr, held) \cup {u}
  <2>1. ASSUME NEW v \in UnitsOf(brr, held \cup {f}) PROVE v \in UnitsOf(arr, held) \cup {u}
    BY <1>3 DEF UnitsOf, Agree
  <2>2. ASSUME NEW v \in UnitsOf(arr, held) PROVE v \in UnitsOf(brr, held \cup {f})
    BY DEF UnitsOf, Agree
  <2>3. u \in UnitsOf(brr, held \cup {f})
    BY <1>3 DEF UnitsOf
  <2> QED BY <2>1, <2>2, <2>3
<1>5. \A g \in held : brr[g].share_unit_index # u
  BY <1>2 DEF UnitsOf, Agree
<1>6. OneEach(brr, held)
  BY DEF OneEach, Agree, Balanced
<1>7. OneEach(brr, held \cup {f})
  BY <1>3, <1>5, <1>6 DEF OneEach
<1>8. Balanced(popped(fds), popped(us), brr, held \cup {f}, fl, ul)
  BY <1>1, <1>2, <1>4, <1>7 DEF Balanced
<1> QED BY <1>1, <1>2, <1>8 DEF f, u
\* close: a held fd and its unit go back.
LEMMA BalancedClose ==
  ASSUME NEW fds, NEW us, NEW arr, NEW brr, NEW held, NEW fl, NEW ul,
         Balanced(fds, us, arr, held, fl, ul), NEW fd \in held,
         Agree(arr, brr, held \ {fd})
  PROVE  Balanced(push(fds, fd, NFds), push(us, arr[fd].share_unit_index, SOCKET_NUM),
                  brr, held \ {fd}, fl, ul)
<1> DEFINE u == arr[fd].share_unit_index
<1>1. push(fds, fd, NFds) \in Seq(Fds) /\ Split(Fds, push(fds, fd, NFds), held \ {fd}, fl)
  BY Sizes, SplitPush DEF Balanced
<1>2. u \in UnitsOf(arr, held)
  BY BalancedHeld
<1>3. /\ push(us, u, SOCKET_NUM) \in Seq(Units)
      /\ Split(Units, push(us, u, SOCKET_NUM), UnitsOf(arr, held) \ {u}, ul)
  BY <1>2, Sizes, SplitPush DEF Balanced
<1>4. UnitsOf(arr, held \ {fd}) = UnitsOf(arr, held) \ {u} /\ OneEach(arr, held \ {fd})
  BY UnitsLess DEF Balanced
<1>5. Balanced(push(fds, fd, NFds), push(us, u, SOCKET_NUM), arr, held \ {fd}, fl, ul)
  BY <1>1, <1>3, <1>4 DEF Balanced
<1> QED BY <1>5, BalancedAgree

\* A held fd goes back, and its unit is lost.
LEMMA BalancedLoseUnit ==
  ASSUME NEW fds, NEW us, NEW arr, NEW brr, NEW held, NEW fl, NEW ul,
         Balanced(fds, us, arr, held, fl, ul), NEW fd \in held,
         Agree(arr, brr, held \ {fd})
  PROVE  Balanced(push(fds, fd, NFds), us, brr, held \ {fd}, fl,
                  ul \cup {arr[fd].share_unit_index})
<1> DEFINE u == arr[fd].share_unit_index
<1>1. push(fds, fd, NFds) \in Seq(Fds) /\ Split(Fds, push(fds, fd, NFds), held \ {fd}, fl)
  BY Sizes, SplitPush DEF Balanced
<1>2. u \in UnitsOf(arr, held)
  BY BalancedHeld
<1>3. Split(Units, us, UnitsOf(arr, held) \ {u}, ul \cup {u})
  BY <1>2, SplitLose DEF Balanced
<1>4. UnitsOf(arr, held \ {fd}) = UnitsOf(arr, held) \ {u} /\ OneEach(arr, held \ {fd})
  BY UnitsLess DEF Balanced
<1>5. Balanced(push(fds, fd, NFds), us, arr, held \ {fd}, fl, ul \cup {u})
  BY <1>1, <1>3, <1>4 DEF Balanced
<1> QED BY <1>5, BalancedAgree

\* A held fd is lost, and its unit with it.
LEMMA BalancedLoseBoth ==
  ASSUME NEW fds, NEW us, NEW arr, NEW held, NEW fl, NEW ul,
         Balanced(fds, us, arr, held, fl, ul), NEW fd \in held
  PROVE  Balanced(fds, us, arr, held \ {fd}, fl \cup {fd},
                  ul \cup {arr[fd].share_unit_index})
<1> DEFINE u == arr[fd].share_unit_index
<1>1. Split(Fds, fds, held \ {fd}, fl \cup {fd})
  BY SplitLose DEF Balanced
<1>2. u \in UnitsOf(arr, held)
  BY BalancedHeld
<1>3. Split(Units, us, UnitsOf(arr, held) \ {u}, ul \cup {u})
  BY <1>2, SplitLose DEF Balanced
<1>4. UnitsOf(arr, held \ {fd}) = UnitsOf(arr, held) \ {u} /\ OneEach(arr, held \ {fd})
  BY UnitsLess DEF Balanced
<1> QED BY <1>1, <1>3, <1>4 DEF Balanced

\* A fd is popped and lost.
LEMMA BalancedPopOnly ==
  ASSUME NEW fds, NEW us, NEW arr, NEW brr, NEW held, NEW fl, NEW ul,
         Balanced(fds, us, arr, held, fl, ul), fds # <<>>,
         \A fd \in Fds \ {top(fds)} : brr[fd] = arr[fd]
  PROVE  Balanced(popped(fds), us, brr, held, fl \cup {top(fds)}, ul)
<1>1. /\ top(fds) \in Fds /\ top(fds) \notin held
      /\ popped(fds) \in Seq(Fds) /\ Split(Fds, popped(fds), held, fl \cup {top(fds)})
  BY Sizes, SplitPop DEF Balanced
<1>2. held \subseteq Fds
  BY DEF Balanced, Split
<1>3. Agree(arr, brr, held)
  BY <1>1, <1>2 DEF Agree
<1>4. Balanced(fds, us, brr, held, fl, ul)
  BY <1>3, BalancedAgree
<1> QED BY <1>1, <1>4 DEF Balanced

\* A fd popped and pushed again.
LEMMA PutBack ==
  ASSUME NEW fds, NEW us, NEW arr, NEW held, NEW fl, NEW ul,
         Balanced(fds, us, arr, held, fl, ul), fds # <<>>
  PROVE  push(popped(fds), top(fds), NFds) = fds
BY Sizes, SplitPop DEF Balanced
-----------------------------------------------------------------------------
(* The invariant *)

BooksOf(p) ==
  Balanced(available_fd[p], available_share_unit[p], socket_arr[p], Held(p),
           lostFds[p], lostUnits[p])

\* The fd of a call that is not over has been handed out, and not to the program.
PendingWell(p) ==
  pending[p] # NotPending => p \in alive /\ pending[p].fd \in Fds \ open[p]

Books == TypeOK /\ \A p \in Procs : PendingWell(p) /\ BooksOf(p)

\* A process's own state is as it was.
Kept(q) ==
  /\ available_fd'[q] = available_fd[q]
  /\ available_share_unit'[q] = available_share_unit[q]
  /\ socket_arr'[q] = socket_arr[q]
  /\ open'[q] = open[q] /\ pending'[q] = pending[q]
  /\ lostFds'[q] = lostFds[q] /\ lostUnits'[q] = lostUnits[q]
  /\ q \in alive => q \in alive'

LEMMA KeptBooks ==
  ASSUME Books, NEW q \in Procs, Kept(q)
  PROVE  (PendingWell(q) /\ BooksOf(q))'
BY DEF Books, Kept, PendingWell, BooksOf, Held

LEMMA HeldAtRest ==
  ASSUME NEW p, pending[p] = NotPending
  PROVE  Held(p) = open[p]
BY DEF Held, NotPending

LEMMA HeldInCall ==
  ASSUME NEW p, pending[p].fd \in Fds
  PROVE  Held(p) = open[p] \cup {pending[p].fd}
BY DEF Held, Fds, INT_MIN

\* A process in the middle of a call holds the fd of the call.
LEMMA InCall ==
  ASSUME Books, NEW p \in Procs, pending[p].call # "none"
  PROVE  /\ pending[p].fd \in Fds \ open[p] /\ pending[p].fd \in Held(p)
         /\ Held(p) \ {pending[p].fd} = open[p]
         /\ socket_arr[p][pending[p].fd].share_unit_index \in Units
<1>1. pending[p].fd \in Fds \ open[p]
  BY DEF Books, PendingWell, NotPending
<1>2. Held(p) = open[p] \cup {pending[p].fd}
  BY <1>1, HeldInCall
<1>3. socket_arr[p][pending[p].fd].share_unit_index \in Units
  BY <1>2, BalancedHeld DEF Books, BooksOf
<1> QED BY <1>1, <1>2, <1>3

\* What Take does to the books of the process, and to the types.
LEMMA TakeBooks ==
  ASSUME Books, NEW p \in Procs, Take(p)
  PROVE  /\ FreeFd(p) \in Fds \ Held(p) /\ FreeUnit(p) \in Units
         /\ FreeUnit(p) \notin UnitsOf(socket_arr[p], Held(p))
         /\ Balanced(available_fd'[p], available_share_unit'[p], socket_arr'[p],
                     Held(p) \cup {FreeFd(p)}, lostFds[p], lostUnits[p])
         /\ available_fd' \in [Procs -> Seq(Fds)]
         /\ available_share_unit' \in [Procs -> Seq(Units)]
         /\ socket_arr' \in [Procs -> [Fds -> Entries]]
         /\ opens' \in 0 .. MaxOpens /\ serves' \in [Units -> 0 .. MaxOpens]
         /\ taken' \subseteq Units
         /\ \A q \in Procs \ {p} :
              /\ available_fd'[q] = available_fd[q]
              /\ available_share_unit'[q] = available_share_unit[q]
              /\ socket_arr'[q] = socket_arr[q]
<1> DEFINE f == FreeFd(p)
           u == FreeUnit(p)
           entry == [in_use |-> TRUE, has_bind |-> FALSE, share_unit_index |-> u,
                     made |-> opens + 1]
<1>1. BooksOf(p) /\ TypeOK /\ available_fd[p] # <<>> /\ available_share_unit[p] # <<>>
  BY DEF Books, Take, HasFd, HasUnit
<1>2. /\ available_fd' = [available_fd EXCEPT ![p] = popped(@)]
      /\ available_share_unit' = [available_share_unit EXCEPT ![p] = popped(@)]
      /\ socket_arr' = [socket_arr EXCEPT ![p][f] = entry]
      /\ opens < MaxOpens /\ opens' = opens + 1
      /\ serves' = [serves EXCEPT ![u] = opens + 1]
      /\ taken' = taken \/ taken' = taken \cup {u}
  BY DEF Take
<1>3. /\ available_fd \in [Procs -> Seq(Fds)]
      /\ available_share_unit \in [Procs -> Seq(Units)]
      /\ socket_arr \in [Procs -> [Fds -> Entries]]
      /\ opens \in 0 .. MaxOpens /\ serves \in [Units -> 0 .. MaxOpens]
      /\ taken \subseteq Units
  BY <1>1 DEF TypeOK
<1>4. f \in Fds /\ f \notin Held(p)
  BY <1>1, Sizes, SplitPop DEF BooksOf, Balanced, FreeFd
<1>5. u \in Units
  BY <1>1, Sizes, SplitPop DEF BooksOf, Balanced, FreeUnit
<1>6. /\ available_fd'[p] = popped(available_fd[p])
      /\ available_share_unit'[p] = popped(available_share_unit[p])
  BY <1>2, <1>3
<1>7. /\ socket_arr'[p] = [socket_arr[p] EXCEPT ![f] = entry]
      /\ socket_arr[p] \in [Fds -> Entries]
  BY <1>2, <1>3
<1>8. Held(p) \subseteq Fds
  BY <1>1 DEF BooksOf, Balanced, Split
<1>9. Agree(socket_arr[p], socket_arr'[p], Held(p))
  BY <1>4, <1>7, <1>8 DEF Agree
<1>10. socket_arr'[p][f].share_unit_index = u
  BY <1>4, <1>7
<1>11. /\ u \notin UnitsOf(socket_arr[p], Held(p))
       /\ Balanced(popped(available_fd[p]), popped(available_share_unit[p]),
                   socket_arr'[p], Held(p) \cup {f}, lostFds[p], lostUnits[p])
  BY <1>1, <1>9, <1>10, BalancedTake DEF BooksOf, FreeFd, FreeUnit
<1>12. /\ popped(available_fd[p]) \in Seq(Fds)
       /\ popped(available_share_unit[p]) \in Seq(Units)
  BY <1>11 DEF Balanced
<1>13. MaxOpens \in Nat
  BY FdTableAssumption
<1>14. entry \in Entries
  BY <1>2, <1>3, <1>5, <1>13 DEF Entries
<1> HIDE DEF f, u, entry
<1>15. /\ available_fd' \in [Procs -> Seq(Fds)]
       /\ available_share_unit' \in [Procs -> Seq(Units)]
  BY <1>2, <1>3, <1>12
<1>16. socket_arr' \in [Procs -> [Fds -> Entries]]
  BY <1>2, <1>3, <1>4, <1>14
<1>17. opens' \in 0 .. MaxOpens /\ serves' \in [Units -> 0 .. MaxOpens]
  <2>1. opens + 1 \in 0 .. MaxOpens
    BY <1>2, <1>3, <1>13
  <2> QED BY <1>2, <1>3, <2>1
<1>18. taken' \subseteq Units
  BY <1>2, <1>3, <1>5
<1>19. \A q \in Procs \ {p} :
         /\ available_fd'[q] = available_fd[q]
         /\ available_share_unit'[q] = available_share_unit[q]
         /\ socket_arr'[q] = socket_arr[q]
  BY <1>2, <1>3
<1> QED BY <1>4, <1>5, <1>6, <1>11, <1>15, <1>16, <1>17, <1>18, <1>19 DEF f, u
-----------------------------------------------------------------------------
(* Each action keeps the books. *)

\* What it takes: the types, the books of the process that makes the step, and
\* that the others' are left alone.
LEMMA OneProcess ==
  ASSUME Books, NEW p \in Procs, TypeOK', PendingWell(p)', BooksOf(p)',
         \A q \in Procs \ {p} : Kept(q)
  PROVE  Books'
BY KeptBooks DEF Books

LEMMA BooksInit == Init => Books
<1> SUFFICES ASSUME Init PROVE Books
  OBVIOUS
<1>1. /\ FreeFds \in Seq(Fds) /\ IsInjective(FreeFds) /\ ToSet(FreeFds) = Fds
  BY Sizes DEF FreeFds, IsInjective, ToSet
<1>2. /\ FreeUnits \in Seq(Units) /\ IsInjective(FreeUnits) /\ ToSet(FreeUnits) = Units
  BY Sizes DEF FreeUnits, IsInjective, ToSet
<1>3. ASSUME NEW p \in Procs PROVE PendingWell(p) /\ BooksOf(p)
  <2>1. pending[p] = NotPending /\ open[p] = {}
    BY DEF Init
  <2>2. Held(p) = {}
    BY <2>1, HeldAtRest
  <2>3. available_fd[p] = FreeFds /\ available_share_unit[p] = FreeUnits
        /\ lostFds[p] = {} /\ lostUnits[p] = {}
    BY DEF Init
  <2>4. UnitsOf(socket_arr[p], {}) = {} /\ OneEach(socket_arr[p], {})
    BY DEF UnitsOf, OneEach
  <2> QED BY <1>1, <1>2, <2>1, <2>2, <2>3, <2>4
          DEF PendingWell, BooksOf, Balanced, Split
<1>4. TypeOK
  <2>1. Cleared \in Entries /\ NotPending \in Pendings
    BY Sizes, FdTableAssumption DEF Cleared, NotPending, Entries, Pendings
  <2> QED BY <1>1, <1>2, <2>1, FdTableAssumption DEF Init, TypeOK
<1> QED BY <1>3, <1>4 DEF Books

LEMMA BooksSocket ==
  ASSUME Books, NEW p \in Procs, socket(p)
  PROVE  Books'
<1>1. Take(p) /\ pending[p] = NotPending /\ pending' = pending
      /\ open' = [open EXCEPT ![p] = @ \cup {FreeFd(p)}]
      /\ UNCHANGED <<server, alive, forked, close_arr, stray, lostFds, lostUnits>>
  BY DEF socket, Calls, Unchanging, losses
<1>2. TypeOK
  BY DEF Books
<1>3. Held(p) = open[p] /\ FreeFd(p) \in Fds
  BY <1>1, HeldAtRest, TakeBooks
<1>4. open'[p] = open[p] \cup {FreeFd(p)} /\ open' \in [Procs -> SUBSET Fds]
      /\ \A q \in Procs \ {p} : open'[q] = open[q]
  BY <1>1, <1>2, <1>3 DEF TypeOK
<1>5. Held(p)' = Held(p) \cup {FreeFd(p)}
  BY <1>1, <1>3, <1>4 DEF Held, NotPending
<1>6. BooksOf(p)'
  BY <1>1, <1>5, TakeBooks DEF BooksOf
<1>7. TypeOK'
  BY <1>1, <1>2, <1>4, TakeBooks DEF TypeOK
<1>8. PendingWell(p)'
  BY <1>1 DEF PendingWell
<1>9. \A q \in Procs \ {p} : Kept(q)
  BY <1>1, <1>4, TakeBooks DEF Kept
<1> QED BY <1>6, <1>7, <1>8, <1>9, OneProcess

\* socketpair's first half and accept: the fd is the call's.
LEMMA BooksTaken ==
  ASSUME Books, NEW p \in Procs, p \in alive, Take(p), NEW pd \in Pendings,
         pending[p] = NotPending, pending' = [pending EXCEPT ![p] = pd],
         pd.fd = FreeFd(p),
         UNCHANGED <<server, alive, forked, open, close_arr, stray, lostFds, lostUnits>>
  PROVE  Books'
<1>1. TypeOK /\ FreeFd(p) \in Fds \ Held(p) /\ Held(p) = open[p]
  BY HeldAtRest, TakeBooks DEF Books
<1>2. pending'[p] = pd /\ pending' \in [Procs -> Pendings]
      /\ \A q \in Procs \ {p} : pending'[q] = pending[q]
  BY <1>1 DEF TypeOK
<1>3. Held(p)' = Held(p) \cup {FreeFd(p)}
  BY <1>1, <1>2 DEF Held, Fds, INT_MIN
<1>4. BooksOf(p)'
  BY <1>3, TakeBooks DEF BooksOf
<1>5. TypeOK'
  BY <1>1, <1>2, TakeBooks DEF TypeOK
<1>6. PendingWell(p)'
  BY <1>1, <1>2 DEF PendingWell
<1>7. \A q \in Procs \ {p} : Kept(q)
  BY <1>2, TakeBooks DEF Kept
<1> QED BY <1>4, <1>5, <1>6, <1>7, OneProcess

LEMMA BooksSocketpairAccept ==
  ASSUME Books, NEW p \in Procs,
         socketpair(p) \/ \E listener \in Fds : accept(p, listener)
  PROVE  Books'
<1>1. FreeFd(p) \in Fds
  BY TakeBooks DEF socketpair, accept
<1>2. CASE socketpair(p)
  <2> DEFINE pd == [call |-> "socketpair", fd |-> FreeFd(p), listener |-> INT_MIN]
  <2>1. pd \in Pendings /\ pd.fd = FreeFd(p)
    BY <1>1 DEF Pendings
  <2>2. pending' = [pending EXCEPT ![p] = pd] /\ Take(p) /\ pending[p] = NotPending
        /\ p \in alive
        /\ UNCHANGED <<server, alive, forked, open, close_arr, stray, lostFds, lostUnits>>
    BY <1>2 DEF socketpair, Calls, Unchanging, losses
  <2> HIDE DEF pd
  <2> QED BY <2>1, <2>2, BooksTaken
<1>3. ASSUME NEW listener \in Fds, accept(p, listener) PROVE Books'
  <2> DEFINE pd == [call |-> "accept", fd |-> FreeFd(p), listener |-> listener]
  <2>1. pd \in Pendings /\ pd.fd = FreeFd(p)
    BY <1>1 DEF Pendings
  <2>2. pending' = [pending EXCEPT ![p] = pd] /\ Take(p) /\ pending[p] = NotPending
        /\ p \in alive
        /\ UNCHANGED <<server, alive, forked, open, close_arr, stray, lostFds, lostUnits>>
    BY <1>3 DEF accept, Calls, Unchanging, losses
  <2> HIDE DEF pd
  <2> QED BY <2>1, <2>2, BooksTaken
<1> QED BY <1>2, <1>3
LEMMA BooksSecondMade ==
  ASSUME Books, NEW p \in Procs, SecondMade(p)
  PROVE  Books'
<1> DEFINE fd == pending[p].fd
<1>1. Take(p) /\ pending[p].call # "none"
      /\ pending' = [pending EXCEPT ![p] = NotPending]
      /\ open' = [open EXCEPT ![p] = @ \cup {fd, FreeFd(p)}]
      /\ UNCHANGED <<server, alive, forked, close_arr, stray, lostFds, lostUnits>>
  BY DEF SecondMade, Unchanging, losses
<1>2. TypeOK /\ FreeFd(p) \in Fds /\ fd \in Fds /\ Held(p) = open[p] \cup {fd}
  BY <1>1, InCall, HeldInCall, TakeBooks DEF Books
<1> HIDE DEF fd
<1>3. NotPending \in Pendings
  BY DEF NotPending, Pendings
<1>4. open'[p] = open[p] \cup {fd, FreeFd(p)} /\ open' \in [Procs -> SUBSET Fds]
      /\ pending'[p] = NotPending /\ pending' \in [Procs -> Pendings]
      /\ \A q \in Procs \ {p} : open'[q] = open[q] /\ pending'[q] = pending[q]
  BY <1>1, <1>2, <1>3 DEF TypeOK
<1>5. Held(p)' = Held(p) \cup {FreeFd(p)}
  BY <1>2, <1>4 DEF Held, NotPending
<1>6. BooksOf(p)'
  BY <1>1, <1>5, TakeBooks DEF BooksOf
<1>7. TypeOK'
  BY <1>1, <1>2, <1>4, TakeBooks DEF TypeOK
<1>8. PendingWell(p)'
  BY <1>4 DEF PendingWell
<1>9. \A q \in Procs \ {p} : Kept(q)
  BY <1>1, <1>4, TakeBooks DEF Kept
<1> QED BY <1>6, <1>7, <1>8, <1>9, OneProcess

\* What Lose does.
LEMMA Losing ==
  ASSUME TypeOK, NEW p \in Procs, NEW fds \in SUBSET Fds, NEW us \in SUBSET Units,
         Lose(p, fds, us)
  PROVE  /\ lostFds' \in [Procs -> SUBSET Fds] /\ lostUnits' \in [Procs -> SUBSET Units]
         /\ lostFds'[p] = lostFds[p] \cup fds /\ lostUnits'[p] = lostUnits[p] \cup us
         /\ \A q \in Procs \ {p} : lostFds'[q] = lostFds[q] /\ lostUnits'[q] = lostUnits[q]
BY DEF TypeOK, Lose

\* What Botched does: no held fd is touched.
LEMMA Botching ==
  ASSUME Books, NEW p \in Procs, HasFd(p), Botched(p)
  PROVE  /\ socket_arr' \in [Procs -> [Fds -> Entries]]
         /\ FreeFd(p) \in Fds \ Held(p)
         /\ \A fd \in Fds \ {FreeFd(p)} : socket_arr'[p][fd] = socket_arr[p][fd]
         /\ \A q \in Procs \ {p} : socket_arr'[q] = socket_arr[q]
<1> DEFINE entry == [in_use |-> TRUE, has_bind |-> FALSE, share_unit_index |-> INT_MIN,
                     made |-> 0]
<1>1. entry \in Entries
  BY FdTableAssumption DEF Entries
<1>2. FreeFd(p) \in Fds \ Held(p)
  BY Sizes, SplitPop DEF Books, BooksOf, Balanced, HasFd, FreeFd
<1>3. socket_arr' = [socket_arr EXCEPT ![p][FreeFd(p)] = entry]
  BY DEF Botched
<1>4. socket_arr \in [Procs -> [Fds -> Entries]]
  BY DEF Books, TypeOK
<1> HIDE DEF entry
<1> QED BY <1>1, <1>2, <1>3, <1>4

LEMMA BooksNoUnit ==
  ASSUME Books, NEW p \in Procs, NoUnit(p)
  PROVE  Books'
<1>1. /\ HasFd(p) /\ Botched(p) /\ Lose(p, {FreeFd(p)}, {})
      /\ available_fd' = [available_fd EXCEPT ![p] = popped(@)]
      /\ UNCHANGED <<server, alive, forked, available_share_unit, open, pending,
                     close_arr, opens, serves, taken, stray>>
  BY DEF NoUnit, Unchanging, shared
<1>2. TypeOK /\ BooksOf(p) /\ PendingWell(p)
  BY DEF Books
<1>3. FreeFd(p) \in Fds
  BY <1>1, Botching
<1>4. /\ lostFds' \in [Procs -> SUBSET Fds] /\ lostUnits' \in [Procs -> SUBSET Units]
      /\ lostFds'[p] = lostFds[p] \cup {FreeFd(p)} /\ lostUnits'[p] = lostUnits[p]
      /\ \A q \in Procs \ {p} : lostFds'[q] = lostFds[q] /\ lostUnits'[q] = lostUnits[q]
  <2>1. {FreeFd(p)} \in SUBSET Fds /\ {} \in SUBSET Units
    BY <1>3
  <2>2. /\ lostFds' \in [Procs -> SUBSET Fds] /\ lostUnits' \in [Procs -> SUBSET Units]
        /\ lostFds'[p] = lostFds[p] \cup {FreeFd(p)} /\ lostUnits'[p] = lostUnits[p] \cup {}
        /\ \A q \in Procs \ {p} : lostFds'[q] = lostFds[q] /\ lostUnits'[q] = lostUnits[q]
    BY <1>1, <1>2, <2>1, Losing
  <2> QED BY <2>2
<1>5. /\ available_fd'[p] = popped(available_fd[p])
      /\ \A q \in Procs \ {p} : available_fd'[q] = available_fd[q]
  BY <1>1, <1>2 DEF TypeOK
<1>6. Balanced(popped(available_fd[p]), available_share_unit[p], socket_arr'[p], Held(p),
               lostFds[p] \cup {FreeFd(p)}, lostUnits[p])
  BY <1>1, <1>2, Botching, BalancedPopOnly DEF BooksOf, FreeFd, HasFd
<1>7. available_fd' \in [Procs -> Seq(Fds)]
  BY <1>1, <1>2, <1>6 DEF TypeOK, Balanced
<1>8. Held(p)' = Held(p)
  BY <1>1 DEF Held
<1>9. BooksOf(p)'
  BY <1>1, <1>4, <1>5, <1>6, <1>8 DEF BooksOf
<1>10. TypeOK'
  BY <1>1, <1>2, <1>4, <1>7, Botching DEF TypeOK
<1>11. PendingWell(p)'
  BY <1>1, <1>2 DEF PendingWell
<1>12. \A q \in Procs \ {p} : Kept(q)
  BY <1>1, <1>4, <1>5, Botching DEF Kept
<1> QED BY <1>9, <1>10, <1>11, <1>12, OneProcess

LEMMA BooksAcceptNoUnit ==
  ASSUME Books, NEW p \in Procs, NEW listener \in Fds, AcceptNoUnit(p, listener)
  PROVE  Books'
<1>1. /\ HasFd(p) /\ Botched(p)
      /\ available_fd' = [available_fd EXCEPT ![p] = push(popped(@), FreeFd(p), NFds)]
      /\ UNCHANGED <<server, alive, forked, available_share_unit, open, pending,
                     close_arr, opens, serves, taken, stray, lostFds, lostUnits>>
  BY DEF AcceptNoUnit, Unchanging, shared, losses
<1>2. TypeOK /\ BooksOf(p) /\ PendingWell(p)
  BY DEF Books
<1>3. available_fd' = available_fd
  <2>1. push(popped(available_fd[p]), FreeFd(p), NFds) = available_fd[p]
    BY <1>1, <1>2, PutBack DEF BooksOf, HasFd, FreeFd
  <2> QED BY <1>1, <1>2, <2>1 DEF TypeOK
<1>4. Agree(socket_arr[p], socket_arr'[p], Held(p))
  BY <1>1, <1>2, Botching DEF Agree, BooksOf, Balanced, Split
<1>5. Held(p)' = Held(p)
  BY <1>1 DEF Held
<1>6. BooksOf(p)'
  BY <1>1, <1>2, <1>3, <1>4, <1>5, BalancedAgree DEF BooksOf
<1>7. TypeOK'
  BY <1>1, <1>2, <1>3, Botching DEF TypeOK
<1>8. PendingWell(p)'
  BY <1>1, <1>2 DEF PendingWell
<1>9. \A q \in Procs \ {p} : Kept(q)
  BY <1>1, <1>3, Botching DEF Kept
<1> QED BY <1>6, <1>7, <1>8, <1>9, OneProcess

LEMMA BooksSecondNoFd ==
  ASSUME Books, NEW p \in Procs, SecondNoFd(p)
  PROVE  Books'
<1> DEFINE fd == pending[p].fd
           u == socket_arr[p][fd].share_unit_index
<1>1. /\ pending[p].call # "none"
      /\ socket_arr' = [socket_arr EXCEPT ![p][fd] = Cleared]
      /\ available_fd' = [available_fd EXCEPT ![p] = push(@, fd, NFds)]
      /\ Lose(p, {}, {u})
      /\ pending' = [pending EXCEPT ![p] = NotPending]
      /\ UNCHANGED <<server, alive, forked, available_share_unit, open,
                     close_arr, opens, serves, taken, stray>>
  BY DEF SecondNoFd, Unchanging, shared
<1>2. TypeOK /\ BooksOf(p)
  BY DEF Books
<1>3. fd \in Fds /\ fd \in Held(p) /\ Held(p) \ {fd} = open[p] /\ u \in Units
  BY <1>1, InCall
<1>4. {} \in SUBSET Fds /\ {u} \in SUBSET Units
  BY <1>3
<1> HIDE DEF fd
<1>5. /\ lostFds' \in [Procs -> SUBSET Fds] /\ lostUnits' \in [Procs -> SUBSET Units]
      /\ lostFds'[p] = lostFds[p] \cup {} /\ lostUnits'[p] = lostUnits[p] \cup {u}
      /\ \A q \in Procs \ {p} : lostFds'[q] = lostFds[q] /\ lostUnits'[q] = lostUnits[q]
  BY <1>1, <1>2, <1>4, Losing
<1>6. NotPending \in Pendings /\ Cleared \in Entries
  BY Sizes, FdTableAssumption DEF NotPending, Pendings, Cleared, Entries
<1>7. /\ available_fd'[p] = push(available_fd[p], fd, NFds) /\ pending'[p] = NotPending
      /\ pending' \in [Procs -> Pendings]
      /\ \A q \in Procs \ {p} : available_fd'[q] = available_fd[q] /\ pending'[q] = pending[q]
  BY <1>1, <1>2, <1>6 DEF TypeOK
<1>8. /\ socket_arr' \in [Procs -> [Fds -> Entries]]
      /\ \A g \in Fds \ {fd} : socket_arr'[p][g] = socket_arr[p][g]
      /\ \A q \in Procs \ {p} : socket_arr'[q] = socket_arr[q]
  BY <1>1, <1>2, <1>3, <1>6 DEF TypeOK
<1>9. Agree(socket_arr[p], socket_arr'[p], Held(p) \ {fd})
  BY <1>2, <1>8 DEF Agree, BooksOf, Balanced, Split
<1>10. Balanced(push(available_fd[p], fd, NFds), available_share_unit[p], socket_arr'[p],
                Held(p) \ {fd}, lostFds[p], lostUnits[p] \cup {u})
  BY <1>2, <1>3, <1>9, BalancedLoseUnit DEF BooksOf
<1>11. Held(p)' = Held(p) \ {fd}
  BY <1>1, <1>3, <1>7 DEF Held, NotPending
<1>12. lostFds'[p] = lostFds[p]
  BY <1>5
<1>13. BooksOf(p)'
  BY <1>1, <1>5, <1>7, <1>10, <1>11, <1>12 DEF BooksOf
<1>14. available_fd' \in [Procs -> Seq(Fds)]
  BY <1>1, <1>2, <1>10 DEF TypeOK, Balanced
<1>15. TypeOK'
  BY <1>1, <1>2, <1>5, <1>7, <1>8, <1>14 DEF TypeOK
<1>16. PendingWell(p)'
  BY <1>7 DEF PendingWell
<1>17. \A q \in Procs \ {p} : Kept(q)
  BY <1>1, <1>5, <1>7, <1>8 DEF Kept
<1> QED BY <1>13, <1>15, <1>16, <1>17, OneProcess

LEMMA BooksAcceptNoLock ==
  ASSUME Books, NEW p \in Procs, AcceptNoLock(p)
  PROVE  Books'
<1> DEFINE fd == pending[p].fd
           u == socket_arr[p][fd].share_unit_index
<1>1. /\ pending[p].call # "none"
      /\ available_fd' = [available_fd EXCEPT ![p] = push(@, fd, NFds)]
      /\ Lose(p, {}, {u})
      /\ pending' = [pending EXCEPT ![p] = NotPending]
      /\ UNCHANGED <<server, alive, forked, available_share_unit, socket_arr, open,
                     close_arr, opens, serves, taken, stray>>
  BY DEF AcceptNoLock, InAccept, NewUnit, Unchanging, shared
<1>2. TypeOK /\ BooksOf(p)
  BY DEF Books
<1>3. fd \in Fds /\ fd \in Held(p) /\ Held(p) \ {fd} = open[p] /\ u \in Units
  BY <1>1, InCall
<1>4. {} \in SUBSET Fds /\ {u} \in SUBSET Units
  BY <1>3
<1> HIDE DEF fd
<1>5. /\ lostFds' \in [Procs -> SUBSET Fds] /\ lostUnits' \in [Procs -> SUBSET Units]
      /\ lostFds'[p] = lostFds[p] \cup {} /\ lostUnits'[p] = lostUnits[p] \cup {u}
      /\ \A q \in Procs \ {p} : lostFds'[q] = lostFds[q] /\ lostUnits'[q] = lostUnits[q]
  BY <1>1, <1>2, <1>4, Losing
<1>6. NotPending \in Pendings
  BY DEF NotPending, Pendings
<1>7. /\ available_fd'[p] = push(available_fd[p], fd, NFds) /\ pending'[p] = NotPending
      /\ pending' \in [Procs -> Pendings]
      /\ \A q \in Procs \ {p} : available_fd'[q] = available_fd[q] /\ pending'[q] = pending[q]
  BY <1>1, <1>2, <1>6 DEF TypeOK
<1>8. Agree(socket_arr[p], socket_arr'[p], Held(p) \ {fd})
  BY <1>1 DEF Agree
<1>9. Balanced(push(available_fd[p], fd, NFds), available_share_unit[p], socket_arr'[p],
               Held(p) \ {fd}, lostFds[p], lostUnits[p] \cup {u})
  BY <1>2, <1>3, <1>8, BalancedLoseUnit DEF BooksOf
<1>10. Held(p)' = Held(p) \ {fd} /\ lostFds'[p] = lostFds[p]
  BY <1>1, <1>3, <1>5, <1>7 DEF Held, NotPending
<1>11. BooksOf(p)'
  BY <1>1, <1>5, <1>7, <1>9, <1>10 DEF BooksOf
<1>12. available_fd' \in [Procs -> Seq(Fds)]
  BY <1>1, <1>2, <1>9 DEF TypeOK, Balanced
<1>13. TypeOK'
  BY <1>1, <1>2, <1>5, <1>7, <1>12 DEF TypeOK
<1>14. PendingWell(p)'
  BY <1>7 DEF PendingWell
<1>15. \A q \in Procs \ {p} : Kept(q)
  BY <1>1, <1>5, <1>7 DEF Kept
<1> QED BY <1>11, <1>13, <1>14, <1>15, OneProcess

LEMMA BooksAcceptFails ==
  ASSUME Books, NEW p \in Procs, AcceptFails(p)
  PROVE  Books'
<1> DEFINE fd == pending[p].fd
           u == socket_arr[p][fd].share_unit_index
<1>1. /\ pending[p].call # "none"
      /\ Lose(p, {fd}, {u})
      /\ pending' = [pending EXCEPT ![p] = NotPending]
      /\ UNCHANGED <<server, alive, forked, available_fd, available_share_unit, socket_arr,
                     open, close_arr, opens, serves, taken, stray>>
  BY DEF AcceptFails, InAccept, NewUnit, Unchanging, shared, stacks
<1>2. TypeOK /\ BooksOf(p)
  BY DEF Books
<1>3. fd \in Fds /\ fd \in Held(p) /\ Held(p) \ {fd} = open[p] /\ u \in Units
  BY <1>1, InCall
<1>4. {fd} \in SUBSET Fds /\ {u} \in SUBSET Units
  BY <1>3
<1> HIDE DEF fd
<1>5. /\ lostFds' \in [Procs -> SUBSET Fds] /\ lostUnits' \in [Procs -> SUBSET Units]
      /\ lostFds'[p] = lostFds[p] \cup {fd} /\ lostUnits'[p] = lostUnits[p] \cup {u}
      /\ \A q \in Procs \ {p} : lostFds'[q] = lostFds[q] /\ lostUnits'[q] = lostUnits[q]
  BY <1>1, <1>2, <1>4, Losing
<1>6. NotPending \in Pendings
  BY DEF NotPending, Pendings
<1>7. /\ pending'[p] = NotPending /\ pending' \in [Procs -> Pendings]
      /\ \A q \in Procs \ {p} : pending'[q] = pending[q]
  BY <1>1, <1>2, <1>6 DEF TypeOK
<1>8. Balanced(available_fd[p], available_share_unit[p], socket_arr[p],
               Held(p) \ {fd}, lostFds[p] \cup {fd}, lostUnits[p] \cup {u})
  BY <1>2, <1>3, BalancedLoseBoth DEF BooksOf
<1>9. Held(p)' = Held(p) \ {fd}
  BY <1>1, <1>3, <1>7 DEF Held, NotPending
<1>10. BooksOf(p)'
  BY <1>1, <1>5, <1>8, <1>9 DEF BooksOf
<1>11. TypeOK'
  BY <1>1, <1>2, <1>5, <1>7 DEF TypeOK
<1>12. PendingWell(p)'
  BY <1>7 DEF PendingWell
<1>13. \A q \in Procs \ {p} : Kept(q)
  BY <1>1, <1>5, <1>7 DEF Kept
<1> QED BY <1>10, <1>11, <1>12, <1>13, OneProcess
\* It pops a fd that is lost, and loses the first fd with its unit.
LEMMA BooksSecondNoUnit ==
  ASSUME Books, NEW p \in Procs, SecondNoUnit(p)
  PROVE  Books'
<1> DEFINE fd == pending[p].fd
           u == socket_arr[p][fd].share_unit_index
<1>1. /\ pending[p].call # "none" /\ HasFd(p) /\ Botched(p)
      /\ available_fd' = [available_fd EXCEPT ![p] = popped(@)]
      /\ Lose(p, {fd, FreeFd(p)}, {u})
      /\ pending' = [pending EXCEPT ![p] = NotPending]
      /\ UNCHANGED <<server, alive, forked, available_share_unit, open,
                     close_arr, opens, serves, taken, stray>>
  BY DEF SecondNoUnit, Unchanging, shared
<1>2. TypeOK /\ BooksOf(p)
  BY DEF Books
<1>3. fd \in Fds /\ fd \in Held(p) /\ Held(p) \ {fd} = open[p] /\ u \in Units
  BY <1>1, InCall
<1>4. FreeFd(p) \in Fds
  BY <1>1, Botching
<1>5. {fd, FreeFd(p)} \in SUBSET Fds /\ {u} \in SUBSET Units
  BY <1>3, <1>4
<1> HIDE DEF fd
<1>6. /\ lostFds' \in [Procs -> SUBSET Fds] /\ lostUnits' \in [Procs -> SUBSET Units]
      /\ lostFds'[p] = lostFds[p] \cup {fd, FreeFd(p)}
      /\ lostUnits'[p] = lostUnits[p] \cup {u}
      /\ \A q \in Procs \ {p} : lostFds'[q] = lostFds[q] /\ lostUnits'[q] = lostUnits[q]
  <2> DEFINE gone == {fd, FreeFd(p)}
             us == {u}
  <2>1. gone \in SUBSET Fds /\ us \in SUBSET Units /\ Lose(p, gone, us)
    BY <1>1, <1>5
  <2> HIDE DEF gone, us
  <2>2. /\ lostFds' \in [Procs -> SUBSET Fds] /\ lostUnits' \in [Procs -> SUBSET Units]
        /\ lostFds'[p] = lostFds[p] \cup gone /\ lostUnits'[p] = lostUnits[p] \cup us
        /\ \A q \in Procs \ {p} : lostFds'[q] = lostFds[q] /\ lostUnits'[q] = lostUnits[q]
    BY <1>2, <2>1, Losing
  <2> QED BY <2>2 DEF gone, us
<1>7. NotPending \in Pendings
  BY DEF NotPending, Pendings
<1>8. /\ available_fd'[p] = popped(available_fd[p]) /\ pending'[p] = NotPending
      /\ pending' \in [Procs -> Pendings]
      /\ \A q \in Procs \ {p} : available_fd'[q] = available_fd[q] /\ pending'[q] = pending[q]
  BY <1>1, <1>2, <1>7 DEF TypeOK
<1>9. Balanced(available_fd[p], available_share_unit[p], socket_arr[p],
               Held(p) \ {fd}, lostFds[p] \cup {fd}, lostUnits[p] \cup {u})
  BY <1>2, <1>3, BalancedLoseBoth DEF BooksOf
<1>10. Balanced(popped(available_fd[p]), available_share_unit[p], socket_arr'[p],
                Held(p) \ {fd}, (lostFds[p] \cup {fd}) \cup {FreeFd(p)},
                lostUnits[p] \cup {u})
  <2>1. \A g \in Fds \ {top(available_fd[p])} : socket_arr'[p][g] = socket_arr[p][g]
    BY <1>1, Botching DEF FreeFd
  <2>2. available_fd[p] # <<>>
    BY <1>1 DEF HasFd
  <2> QED BY <1>9, <2>1, <2>2, BalancedPopOnly DEF FreeFd
<1>11. Held(p)' = Held(p) \ {fd}
  BY <1>1, <1>3, <1>8 DEF Held, NotPending
<1>12. lostFds'[p] = (lostFds[p] \cup {fd}) \cup {FreeFd(p)}
  BY <1>6
<1>13. BooksOf(p)'
  BY <1>1, <1>6, <1>8, <1>10, <1>11, <1>12 DEF BooksOf
<1>14. available_fd' \in [Procs -> Seq(Fds)]
  BY <1>1, <1>2, <1>10 DEF TypeOK, Balanced
<1>15. TypeOK'
  BY <1>1, <1>2, <1>6, <1>8, <1>14, Botching DEF TypeOK
<1>16. PendingWell(p)'
  BY <1>8 DEF PendingWell
<1>17. \A q \in Procs \ {p} : Kept(q)
  BY <1>1, <1>6, <1>8, Botching DEF Kept
<1> QED BY <1>13, <1>15, <1>16, <1>17, OneProcess

LEMMA BooksAccepted ==
  ASSUME Books, NEW p \in Procs, NEW matches \in BOOLEAN, Accepted(p, matches)
  PROVE  Books'
<1> DEFINE fd == pending[p].fd
<1>1. /\ pending[p].call # "none"
      /\ close_arr' = IF matches THEN [close_arr EXCEPT ![NewUnit(p)] = FALSE] ELSE close_arr
      /\ open' = [open EXCEPT ![p] = @ \cup {fd}]
      /\ pending' = [pending EXCEPT ![p] = NotPending]
      /\ UNCHANGED <<server, alive, forked, available_fd, available_share_unit, socket_arr,
                     opens, serves, taken, stray, lostFds, lostUnits>>
  BY DEF Accepted, InAccept, Unchanging, stacks, losses
<1>2. TypeOK /\ BooksOf(p)
  BY DEF Books
<1>3. fd \in Fds /\ Held(p) = open[p] \cup {fd}
  BY <1>1, InCall, HeldInCall
<1> HIDE DEF fd
<1>4. NotPending \in Pendings
  BY DEF NotPending, Pendings
<1>5. /\ open'[p] = open[p] \cup {fd} /\ open' \in [Procs -> SUBSET Fds]
      /\ pending'[p] = NotPending /\ pending' \in [Procs -> Pendings]
      /\ \A q \in Procs \ {p} : open'[q] = open[q] /\ pending'[q] = pending[q]
  BY <1>1, <1>2, <1>3, <1>4 DEF TypeOK
<1>6. Held(p)' = Held(p)
  BY <1>3, <1>5 DEF Held, NotPending
<1>7. BooksOf(p)'
  BY <1>1, <1>2, <1>6 DEF BooksOf
<1>8. close_arr' \in [Units -> BOOLEAN]
  BY <1>1, <1>2 DEF TypeOK
<1>9. TypeOK'
  BY <1>1, <1>2, <1>5, <1>8 DEF TypeOK
<1>10. PendingWell(p)'
  BY <1>5 DEF PendingWell
<1>11. \A q \in Procs \ {p} : Kept(q)
  BY <1>1, <1>5 DEF Kept
<1> QED BY <1>7, <1>9, <1>10, <1>11, OneProcess

LEMMA BooksBind ==
  ASSUME Books, NEW p \in Procs, NEW fd \in Fds, bind(p, fd)
  PROVE  Books'
<1>1. /\ socket_arr' = [socket_arr EXCEPT ![p][fd].has_bind = TRUE]
      /\ UNCHANGED <<server, alive, forked, available_fd, available_share_unit, open,
                     pending, close_arr, opens, serves, taken, stray, lostFds, lostUnits>>
  BY DEF bind, Unchanging, stacks, shared, losses
<1>2. TypeOK /\ BooksOf(p) /\ PendingWell(p)
  BY DEF Books
<1>3. socket_arr[p][fd] \in Entries /\ socket_arr \in [Procs -> [Fds -> Entries]]
  BY <1>2 DEF TypeOK
<1> DEFINE entry == [socket_arr[p][fd] EXCEPT !.has_bind = TRUE]
<1>4. entry \in Entries /\ entry.share_unit_index = socket_arr[p][fd].share_unit_index
  BY <1>3 DEF Entries
<1>5. socket_arr' = [socket_arr EXCEPT ![p] = [socket_arr[p] EXCEPT ![fd] = entry]]
  BY <1>1, <1>3
<1> HIDE DEF entry
<1>6. /\ socket_arr' \in [Procs -> [Fds -> Entries]]
      /\ \A q \in Procs \ {p} : socket_arr'[q] = socket_arr[q]
      /\ socket_arr'[p] = [socket_arr[p] EXCEPT ![fd] = entry]
  BY <1>3, <1>4, <1>5
<1>7. Agree(socket_arr[p], socket_arr'[p], Held(p))
  BY <1>2, <1>3, <1>4, <1>6 DEF Agree, BooksOf, Balanced, Split
<1>8. Held(p)' = Held(p)
  BY <1>1 DEF Held
<1>9. BooksOf(p)'
  BY <1>1, <1>2, <1>7, <1>8, BalancedAgree DEF BooksOf
<1>10. TypeOK'
  BY <1>1, <1>2, <1>6 DEF TypeOK
<1>11. PendingWell(p)'
  BY <1>1, <1>2 DEF PendingWell
<1>12. \A q \in Procs \ {p} : Kept(q)
  BY <1>1, <1>6 DEF Kept
<1> QED BY <1>9, <1>10, <1>11, <1>12, OneProcess
LEMMA BooksClose ==
  ASSUME Books, NEW p \in Procs, NEW fd \in Fds, close(p, fd)
  PROVE  Books'
<1> DEFINE u == socket_arr[p][fd].share_unit_index
<1>1. /\ pending[p] = NotPending /\ fd \in open[p]
      /\ close_arr' = [close_arr EXCEPT ![u] = @ \/ MayRaise(p)]
      /\ stray' = stray \/ stray' = stray \cup {u}
      /\ available_share_unit' =
           [available_share_unit EXCEPT ![p] = push(@, u, SOCKET_NUM)]
      /\ socket_arr' = [socket_arr EXCEPT ![p][fd] = Cleared]
      /\ available_fd' = [available_fd EXCEPT ![p] = push(@, fd, NFds)]
      /\ open' = [open EXCEPT ![p] = @ \ {fd}]
      /\ UNCHANGED <<server, alive, forked, pending, opens, serves, taken,
                     lostFds, lostUnits>>
  BY DEF close, Calls, Freed, Unchanging, losses
<1>2. TypeOK /\ BooksOf(p)
  BY DEF Books
<1>3. Held(p) = open[p]
  BY <1>1, HeldAtRest
<1>4. u \in Units
  BY <1>1, <1>2, <1>3, BalancedHeld DEF BooksOf
<1>5. Cleared \in Entries
  BY Sizes, FdTableAssumption DEF Cleared, Entries
<1>6. /\ available_fd'[p] = push(available_fd[p], fd, NFds)
      /\ available_share_unit'[p] = push(available_share_unit[p], u, SOCKET_NUM)
      /\ open'[p] = open[p] \ {fd} /\ open' \in [Procs -> SUBSET Fds]
      /\ \A q \in Procs \ {p} :
           /\ available_fd'[q] = available_fd[q]
           /\ available_share_unit'[q] = available_share_unit[q]
           /\ open'[q] = open[q]
  BY <1>1, <1>2 DEF TypeOK
<1>7. /\ socket_arr' \in [Procs -> [Fds -> Entries]]
      /\ \A g \in Fds \ {fd} : socket_arr'[p][g] = socket_arr[p][g]
      /\ \A q \in Procs \ {p} : socket_arr'[q] = socket_arr[q]
  BY <1>1, <1>2, <1>5 DEF TypeOK
<1>8. Agree(socket_arr[p], socket_arr'[p], Held(p) \ {fd})
  BY <1>2, <1>7 DEF Agree, BooksOf, Balanced, Split
<1>9. Balanced(push(available_fd[p], fd, NFds), push(available_share_unit[p], u, SOCKET_NUM),
               socket_arr'[p], Held(p) \ {fd}, lostFds[p], lostUnits[p])
  BY <1>1, <1>2, <1>3, <1>8, BalancedClose DEF BooksOf
<1>10. Held(p)' = Held(p) \ {fd}
  BY <1>1, <1>3, <1>6 DEF Held, NotPending
<1> HIDE DEF u
<1>11. BooksOf(p)'
  BY <1>1, <1>6, <1>9, <1>10 DEF BooksOf
<1>12. /\ available_fd' \in [Procs -> Seq(Fds)]
       /\ available_share_unit' \in [Procs -> Seq(Units)]
  BY <1>1, <1>2, <1>9 DEF TypeOK, Balanced
<1>13. close_arr' \in [Units -> BOOLEAN] /\ stray' \subseteq Units
  <2>1. (close_arr[u] \/ MayRaise(p)) \in BOOLEAN
    OBVIOUS
  <2> QED BY <1>1, <1>2, <1>4, <2>1 DEF TypeOK
<1>14. TypeOK'
  BY <1>1, <1>2, <1>6, <1>7, <1>12, <1>13 DEF TypeOK
<1>15. PendingWell(p)'
  BY <1>1 DEF PendingWell
<1>16. \A q \in Procs \ {p} : Kept(q)
  BY <1>1, <1>6, <1>7 DEF Kept
<1> QED BY <1>11, <1>14, <1>15, <1>16, OneProcess

\* The child's books are its parent's.
LEMMA BooksFork ==
  ASSUME Books, NEW p \in Procs, NEW child \in Procs, fork(p, child)
  PROVE  Books'
<1>1. /\ pending[p] = NotPending /\ child \notin alive /\ alive' = alive \cup {child}
      /\ forked' = forked \/ forked' = forked \cup {child}
      /\ available_fd' = [available_fd EXCEPT ![child] = available_fd[p]]
      /\ available_share_unit' =
           [available_share_unit EXCEPT ![child] = available_share_unit[p]]
      /\ socket_arr' = [socket_arr EXCEPT ![child] = socket_arr[p]]
      /\ open' = [open EXCEPT ![child] = open[p]]
      /\ lostFds' = [lostFds EXCEPT ![child] = lostFds[p]]
      /\ lostUnits' = [lostUnits EXCEPT ![child] = lostUnits[p]]
      /\ UNCHANGED <<server, pending, close_arr, opens, serves, taken, stray>>
  BY DEF fork, Calls, shared
<1>2. TypeOK /\ BooksOf(p)
  BY DEF Books
<1>3. TypeOK'
  BY <1>1, <1>2 DEF TypeOK
<1>4. ASSUME NEW q \in Procs \ {child} PROVE Kept(q)
  BY <1>1, <1>2 DEF TypeOK, Kept
<1>5. PendingWell(child)' /\ BooksOf(child)'
  <2>1. pending[child] = NotPending /\ pending'[child] = NotPending
    BY <1>1 DEF Books, PendingWell
  <2>2. available_fd'[child] = available_fd[p] /\ socket_arr'[child] = socket_arr[p]
        /\ available_share_unit'[child] = available_share_unit[p]
        /\ open'[child] = open[p]
        /\ lostFds'[child] = lostFds[p] /\ lostUnits'[child] = lostUnits[p]
    BY <1>1, <1>2 DEF TypeOK
  <2>3. Held(child)' = Held(p)
    BY <1>1, <2>1, <2>2 DEF Held
  <2> QED BY <1>2, <2>1, <2>2, <2>3 DEF PendingWell, BooksOf
<1> QED BY <1>3, <1>4, <1>5, OneProcess
LEMMA BooksNext == Books /\ [Next]_vars => Books'
<1> SUFFICES ASSUME Books, [Next]_vars PROVE Books'
  OBVIOUS
<1>1. CASE UNCHANGED vars
  BY <1>1 DEF vars, stacks, private, shared, losses, Books, TypeOK, PendingWell,
     BooksOf, Held
<1>2. ASSUME NEW p \in Procs, Step(p) PROVE Books'
  <2>1. CASE socket(p) \/ NoUnit(p)
    BY <2>1, BooksSocket, BooksNoUnit
  <2>2. CASE SecondMade(p) \/ SecondNoFd(p) \/ SecondNoUnit(p)
    BY <2>2, BooksSecondMade, BooksSecondNoFd, BooksSecondNoUnit
  <2>3. CASE socketpair(p) \/ \E fd \in Fds : accept(p, fd)
    BY <2>3, BooksSocketpairAccept
  <2>4. CASE \E fd \in Fds : bind(p, fd) \/ close(p, fd) \/ AcceptNoUnit(p, fd)
    BY <2>4, BooksBind, BooksClose, BooksAcceptNoUnit
  <2>5. CASE (\E matches \in BOOLEAN : Accepted(p, matches)) \/ AcceptNoLock(p) \/ AcceptFails(p)
    BY <2>5, BooksAccepted, BooksAcceptNoLock, BooksAcceptFails
  <2>6. CASE \E child \in Procs : fork(p, child)
    BY <2>6, BooksFork
  <2> QED BY <1>2, <2>1, <2>2, <2>3, <2>4, <2>5, <2>6 DEF Step
<1> QED BY <1>1, <1>2 DEF Next

LEMMA BooksAlways == Spec => []Books
BY BooksInit, BooksNext, PTL DEF Spec

\* The types of the variables, for every value of the constants.
THEOREM TypesKept == Spec => []TypeOK
<1>1. Books => TypeOK
  BY DEF Books
<1> QED BY BooksAlways, <1>1, PTL

\* Every fd, and every unit, is on the stack of a process, or held by one of
\* its sockets, or lost on an exit that gives nothing back; it never is in two
\* of these places, whatever calls the processes make and however they fork.
THEOREM NothingTwice == Spec => []Accounted
<1>1. Books => Accounted
  <2> SUFFICES ASSUME Books, NEW p \in alive PROVE
        /\ Split(Fds, available_fd[p], Held(p), lostFds[p])
        /\ Split(Units, available_share_unit[p], UnitsHeld(p), lostUnits[p])
        /\ \A fd, other \in Held(p) :
             socket_arr[p][fd].share_unit_index = socket_arr[p][other].share_unit_index
               => fd = other
    BY DEF Accounted
  <2>1. BooksOf(p)
    BY DEF Books, TypeOK
  <2> QED BY <2>1 DEF BooksOf, Balanced, OneEach, UnitsOf, UnitsHeld
<1> QED BY BooksAlways, <1>1, PTL
-----------------------------------------------------------------------------
(* Whom close tells *)

\* A unit the parent holds was made new last for the socket that holds it,
\* unless a child has taken the unit from its copy of the stack.
Own(fd) ==
  \/ serves[socket_arr[parent][fd].share_unit_index] = socket_arr[parent][fd].made
  \/ socket_arr[parent][fd].share_unit_index \in taken

Owned ==
  /\ parent \in alive
  /\ server = "DCMQRSCP" => alive \ {parent} \subseteq forked
  /\ \A fd \in Held(parent) : Own(fd)
  /\ stray \subseteq taken

LEMMA OwnedInit == Init => Owned
BY FdTableAssumption DEF Init, Owned, Held, NotPending

\* The parent's sockets are the ones it had, or fewer.
Fewer ==
  /\ Held(parent)' \subseteq Held(parent)
  /\ \A fd \in Held(parent)' :
       /\ socket_arr'[parent][fd].share_unit_index = socket_arr[parent][fd].share_unit_index
       /\ socket_arr'[parent][fd].made = socket_arr[parent][fd].made
  /\ UNCHANGED <<serves, taken>>

LEMMA FewerOwned ==
  ASSUME Owned, Fewer
  PROVE  (\A fd \in Held(parent) : Own(fd))'
BY DEF Owned, Fewer, Own

LEMMA FewerLosses ==
  ASSUME Books, NEW p \in Procs,
         \/ NoUnit(p) \/ SecondNoFd(p) \/ SecondNoUnit(p)
         \/ AcceptNoLock(p) \/ AcceptFails(p)
         \/ \E listener \in Fds : AcceptNoUnit(p, listener)
  PROVE  Fewer
<1>1. TypeOK /\ parent \in Procs
  BY FdTableAssumption DEF Books
<1>2. CASE NoUnit(p) \/ \E listener \in Fds : AcceptNoUnit(p, listener)
  <2>1. HasFd(p) /\ Botched(p) /\ UNCHANGED <<open, pending, serves, taken>>
    BY <1>2 DEF NoUnit, AcceptNoUnit, shared
  <2>2. /\ FreeFd(p) \in Fds \ Held(p)
        /\ \A fd \in Fds \ {FreeFd(p)} : socket_arr'[p][fd] = socket_arr[p][fd]
        /\ \A q \in Procs \ {p} : socket_arr'[q] = socket_arr[q]
    BY <2>1, Botching
  <2>3. Held(parent)' = Held(parent)
    BY <2>1 DEF Held
  <2>4. Held(parent) \subseteq Fds
    BY <1>1 DEF Books, BooksOf, Balanced, Split
  <2> QED BY <1>1, <2>1, <2>2, <2>3, <2>4 DEF Fewer
<1>3. CASE SecondNoFd(p) \/ SecondNoUnit(p) \/ AcceptNoLock(p) \/ AcceptFails(p)
  <2>1. /\ pending[p].call # "none" /\ pending' = [pending EXCEPT ![p] = NotPending]
        /\ UNCHANGED <<open, serves, taken>>
    BY <1>3 DEF SecondNoFd, SecondNoUnit, AcceptNoLock, AcceptFails, InAccept, shared
  <2>2. pending[p].fd \in Fds \ open[p] /\ Held(p) \ {pending[p].fd} = open[p]
    BY <2>1, InCall
  <2>3. Held(p)' = open[p]
    BY <1>1, <2>1 DEF TypeOK, Held, NotPending
  <2>4. \A q \in Procs \ {p} : Held(q)' = Held(q)
    BY <1>1, <2>1 DEF TypeOK, Held
  <2>5. \A fd \in open[p] : socket_arr'[p][fd] = socket_arr[p][fd]
    <3>1. open[p] \subseteq Fds /\ open[p] \subseteq Held(p)
      BY <1>1, <2>2 DEF TypeOK
    <3>2. CASE SecondNoUnit(p)
      BY <3>1, <3>2, Botching DEF SecondNoUnit
    <3>3. CASE SecondNoFd(p)
      BY <1>1, <2>2, <3>3, <3>1 DEF SecondNoFd, TypeOK
    <3>4. CASE AcceptNoLock(p) \/ AcceptFails(p)
      BY <3>4 DEF AcceptNoLock, AcceptFails
    <3> QED BY <1>3, <3>2, <3>3, <3>4
  <2>6. \A q \in Procs \ {p} : socket_arr'[q] = socket_arr[q]
    <3>1. CASE SecondNoUnit(p)
      BY <3>1, Botching DEF SecondNoUnit
    <3>2. CASE SecondNoFd(p)
      BY <1>1, <3>2 DEF SecondNoFd, TypeOK
    <3>3. CASE AcceptNoLock(p) \/ AcceptFails(p)
      BY <3>3 DEF AcceptNoLock, AcceptFails
    <3> QED BY <1>3, <3>1, <3>2, <3>3
  <2> QED BY <1>1, <2>1, <2>2, <2>3, <2>4, <2>5, <2>6 DEF Fewer
<1> QED BY <1>2, <1>3

LEMMA FewerOthers ==
  ASSUME Books, parent \in alive, NEW p \in Procs,
         \/ \E fd \in Fds : bind(p, fd) \/ close(p, fd)
         \/ \E matches \in BOOLEAN : Accepted(p, matches)
         \/ \E child \in Procs : fork(p, child)
  PROVE  Fewer
<1>1. TypeOK /\ parent \in Procs
  BY FdTableAssumption DEF Books
<1>2. ASSUME NEW fd \in Fds, bind(p, fd) PROVE Fewer
  <2>1. socket_arr' = [socket_arr EXCEPT ![p][fd].has_bind = TRUE]
        /\ UNCHANGED <<open, pending, serves, taken>>
    BY <1>2 DEF bind, shared
  <2>2. Held(parent) \subseteq Fds
    BY <1>1 DEF Books, BooksOf, Balanced, Split
  <2>3. Held(parent)' = Held(parent)
    BY <2>1 DEF Held
  <2>4. ASSUME NEW g \in Fds
        PROVE  /\ socket_arr'[parent][g].share_unit_index
                    = socket_arr[parent][g].share_unit_index
               /\ socket_arr'[parent][g].made = socket_arr[parent][g].made
    BY <1>1, <2>1 DEF TypeOK, Entries
  <2> QED BY <2>1, <2>2, <2>3, <2>4 DEF Fewer
<1>3. ASSUME NEW fd \in Fds, close(p, fd) PROVE Fewer
  <2>1. /\ pending[p] = NotPending /\ fd \in open[p]
        /\ socket_arr' = [socket_arr EXCEPT ![p][fd] = Cleared]
        /\ open' = [open EXCEPT ![p] = @ \ {fd}]
        /\ UNCHANGED <<pending, serves, taken>>
    BY <1>3 DEF close, Calls
  <2>2. Held(p)' = Held(p) \ {fd} /\ \A q \in Procs \ {p} : Held(q)' = Held(q)
    BY <1>1, <2>1 DEF TypeOK, Held, NotPending
  <2>3. Held(parent) \subseteq Fds
    BY <1>1 DEF Books, BooksOf, Balanced, Split
  <2>4. /\ \A g \in Fds \ {fd} : socket_arr'[p][g] = socket_arr[p][g]
        /\ \A q \in Procs \ {p} : socket_arr'[q] = socket_arr[q]
    BY <1>1, <2>1 DEF TypeOK
  <2> QED BY <1>1, <2>1, <2>2, <2>3, <2>4 DEF Fewer
<1>4. ASSUME NEW matches \in BOOLEAN, Accepted(p, matches) PROVE Fewer
  <2>1. /\ pending[p].call # "none" /\ pending' = [pending EXCEPT ![p] = NotPending]
        /\ open' = [open EXCEPT ![p] = @ \cup {pending[p].fd}]
        /\ UNCHANGED <<socket_arr, serves, taken>>
    BY <1>4 DEF Accepted, InAccept
  <2>2. pending[p].fd \in Held(p) /\ Held(p) \ {pending[p].fd} = open[p]
    BY <2>1, InCall
  <2>3. Held(p)' \subseteq Held(p) /\ \A q \in Procs \ {p} : Held(q)' = Held(q)
    BY <1>1, <2>1, <2>2 DEF TypeOK, Held, NotPending
  <2> QED BY <1>1, <2>1, <2>3 DEF Fewer
<1>5. ASSUME NEW child \in Procs, fork(p, child) PROVE Fewer
  BY <1>1, <1>5 DEF fork, shared, Fewer, Held, TypeOK
<1> QED BY <1>2, <1>3, <1>4, <1>5
\* A unit taken is made new for the one that takes it.
LEMMA TakeOwned ==
  ASSUME Books, Owned, NEW p \in Procs, Take(p),
         Held(parent)' \subseteq Held(parent)
                         \cup (IF p = parent THEN {FreeFd(p)} ELSE {})
  PROVE  (\A fd \in Held(parent) : Own(fd))' /\ taken \subseteq taken'
<1>0. PICK f, u : f = FreeFd(p) /\ u = FreeUnit(p)
  OBVIOUS
<1>1. TypeOK /\ parent \in Procs
  BY FdTableAssumption DEF Books
<1>2. /\ f \in Fds \ Held(p) /\ u \in Units
      /\ u \notin UnitsOf(socket_arr[p], Held(p))
      /\ \A q \in Procs \ {p} : socket_arr'[q] = socket_arr[q]
  BY <1>0, TakeBooks
<1>3. /\ socket_arr'[p] = [socket_arr[p] EXCEPT ![f] =
           [in_use |-> TRUE, has_bind |-> FALSE, share_unit_index |-> u,
            made |-> opens + 1]]
      /\ serves' = [serves EXCEPT ![u] = opens + 1]
      /\ taken' = IF p = parent THEN taken ELSE taken \cup {u}
  BY <1>0, <1>1 DEF Take, TypeOK
<1>4. Held(parent) \subseteq Fds
  BY <1>1 DEF Books, BooksOf, Balanced, Split
<1>5. \A fd \in Held(parent) : socket_arr[parent][fd].share_unit_index \in Units
  BY <1>1, BalancedHeld DEF Books, BooksOf
<1>6. \A v \in Units \ {u} : serves'[v] = serves[v]
  BY <1>1, <1>3 DEF TypeOK
<1>7. CASE p # parent
  <2>1. socket_arr'[parent] = socket_arr[parent] /\ Held(parent)' \subseteq Held(parent)
        /\ taken' = taken \cup {u}
    BY <1>1, <1>2, <1>3, <1>7
  <2> QED BY <1>5, <1>6, <2>1 DEF Owned, Own
<1>8. CASE p = parent
  <2>1. ASSUME NEW fd \in Held(parent) PROVE Own(fd)'
    <3>1. socket_arr[parent][fd].share_unit_index # u /\ fd # f
      BY <1>2, <1>8 DEF UnitsOf
    <3>2. socket_arr'[parent][fd] = socket_arr[parent][fd] /\ taken' = taken
      BY <1>1, <1>3, <1>4, <1>8, <3>1 DEF TypeOK
    <3> QED BY <1>5, <1>6, <3>1, <3>2 DEF Owned, Own
  <2>2. Own(f)'
    <3>1. socket_arr'[parent][f].share_unit_index = u /\ socket_arr'[parent][f].made = opens + 1
      BY <1>1, <1>2, <1>3, <1>8 DEF TypeOK
    <3>2. serves'[u] = opens + 1
      BY <1>1, <1>2, <1>3 DEF TypeOK
    <3> QED BY <3>1, <3>2 DEF Own
  <2> QED BY <1>0, <1>3, <1>8, <2>1, <2>2
<1> QED BY <1>7, <1>8

LEMMA OwnedTaken ==
  ASSUME Books, Owned, NEW p \in Procs,
         \/ socket(p) \/ socketpair(p) \/ SecondMade(p)
         \/ \E listener \in Fds : accept(p, listener)
  PROVE  (\A fd \in Held(parent) : Own(fd))' /\ taken \subseteq taken'
         /\ UNCHANGED <<server, alive, forked, stray>>
<1>1. Take(p) /\ UNCHANGED <<server, alive, forked, stray>>
  BY DEF socket, socketpair, SecondMade, accept, Unchanging
<1>2. TypeOK /\ parent \in Procs /\ FreeFd(p) \in Fds
  BY <1>1, TakeBooks, FdTableAssumption DEF Books
<1>3. CASE socket(p)
  <2>1. \A q \in Procs \ {p} : Held(q)' = Held(q)
    BY <1>2, <1>3 DEF socket, Held, TypeOK
  <2>2. Held(p)' \subseteq Held(p) \cup {FreeFd(p)}
    BY <1>2, <1>3 DEF socket, Held, TypeOK
  <2> QED BY <1>1, <1>2, <2>1, <2>2, TakeOwned
<1>4. CASE socketpair(p) \/ \E listener \in Fds : accept(p, listener)
  <2>1. \A q \in Procs \ {p} : Held(q)' = Held(q)
    BY <1>2, <1>4 DEF socketpair, accept, Held, TypeOK
  <2>2. pending'[p].fd = FreeFd(p) /\ open' = open
    BY <1>2, <1>4 DEF socketpair, accept, TypeOK
  <2>3. Held(p)' \subseteq Held(p) \cup {FreeFd(p)}
    BY <2>2 DEF Held
  <2> QED BY <1>1, <1>2, <2>1, <2>3, TakeOwned
<1>5. CASE SecondMade(p)
  <2>1. \A q \in Procs \ {p} : Held(q)' = Held(q)
    BY <1>2, <1>5 DEF SecondMade, Held, TypeOK
  <2>2. pending[p].fd \in Held(p)
    BY <1>5, InCall DEF SecondMade
  <2>3. pending'[p] = NotPending /\ open'[p] = open[p] \cup {pending[p].fd, FreeFd(p)}
    BY <1>2, <1>5 DEF SecondMade, TypeOK
  <2>4. Held(p)' \subseteq Held(p) \cup {FreeFd(p)}
    BY <2>2, <2>3 DEF Held, NotPending
  <2> QED BY <1>1, <1>2, <2>1, <2>4, TakeOwned
<1> QED BY <1>3, <1>4, <1>5

\* Who closes tells the client only as the parent, of a unit it owns.
LEMMA CloseTells ==
  ASSUME Books, Owned, NEW p \in Procs, NEW fd \in Fds, close(p, fd)
  PROVE  stray' \subseteq taken
<1>1. fd \in open[p] /\ p \in alive /\ pending[p] = NotPending
  BY DEF close, Calls
<1>2. fd \in Held(p)
  BY <1>1, HeldAtRest
<1>3. CASE MayRaise(p)
  <2>1. p = parent
    BY <1>1, <1>3 DEF MayRaise, Owned
  <2>2. Own(fd)
    BY <1>2, <2>1 DEF Owned
  <2> QED BY <2>1, <2>2 DEF close, Own, Owned
<1>4. CASE ~MayRaise(p)
  BY <1>4 DEF close, Owned
<1> QED BY <1>3, <1>4

LEMMA OwnedNext == Books /\ Owned /\ [Next]_vars => Owned'
<1> SUFFICES ASSUME Books, Owned, [Next]_vars PROVE Owned'
  OBVIOUS
<1>1. CASE UNCHANGED vars
  BY <1>1 DEF vars, stacks, private, shared, losses, Owned, Own, Held
<1>2. ASSUME NEW p \in Procs, Step(p) PROVE Owned'
  <2>1. CASE \/ socket(p) \/ socketpair(p) \/ SecondMade(p)
             \/ \E fd \in Fds : accept(p, fd)
    BY <2>1, OwnedTaken DEF Owned
  <2>2. CASE \/ NoUnit(p) \/ SecondNoFd(p) \/ SecondNoUnit(p)
             \/ AcceptNoLock(p) \/ AcceptFails(p)
             \/ \E fd \in Fds : AcceptNoUnit(p, fd)
    <3>1. UNCHANGED <<server, alive, forked, stray, taken>>
      BY <2>2 DEF NoUnit, SecondNoFd, SecondNoUnit, AcceptNoLock, AcceptFails,
         AcceptNoUnit, Unchanging, shared
    <3> QED BY <2>2, <3>1, FewerLosses, FewerOwned DEF Owned
  <2>3. CASE (\E fd \in Fds : bind(p, fd)) \/ \E matches \in BOOLEAN : Accepted(p, matches)
    <3>1. UNCHANGED <<server, alive, forked, stray, taken>>
      BY <2>3 DEF bind, Accepted, Unchanging, shared
    <3> QED BY <2>3, <3>1, FewerOthers, FewerOwned DEF Owned
  <2>4. ASSUME NEW fd \in Fds, close(p, fd) PROVE Owned'
    <3>1. UNCHANGED <<server, alive, forked, taken>>
      BY <2>4 DEF close, Unchanging
    <3>2. stray' \subseteq taken
      BY <2>4, CloseTells
    <3>3. (\A g \in Held(parent) : Own(g))'
      BY <2>4, FewerOthers, FewerOwned DEF Owned
    <3> QED BY <3>1, <3>2, <3>3 DEF Owned
  <2>5. ASSUME NEW child \in Procs, fork(p, child) PROVE Owned'
    <3>1. /\ alive' = alive \cup {child}
          /\ forked' = IF server = "DNSMASQ" THEN forked ELSE forked \cup {child}
          /\ UNCHANGED <<server, stray, taken>>
      BY <2>5 DEF fork, shared
    <3>2. (\A g \in Held(parent) : Own(g))'
      BY <2>5, FewerOthers, FewerOwned DEF Owned
    <3> QED BY <3>1, <3>2 DEF Owned
  <2> QED BY <1>2, <2>1, <2>2, <2>3, <2>4, <2>5 DEF Step
<1> QED BY <1>1, <1>2 DEF Next

\* dcmqrscp's close raises the flags of a unit that was given to another
\* socket only where a child has popped that unit from its own stack.
THEOREM TellsItsOwn == Spec => []OnlyItsOwnClient
<1>1. Owned => OnlyItsOwnClient
  BY DEF Owned, OnlyItsOwnClient
<1> QED BY BooksAlways, OwnedInit, OwnedNext, <1>1, PTL DEF Spec
=============================================================================
