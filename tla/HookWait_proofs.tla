-------------------------- MODULE HookWait_proofs --------------------------
(***************************************************************************)
(* What the timed waits of the server promise, for any number of fds, of   *)
(* timers and of calls.                                                    *)
(***************************************************************************)
EXTENDS HookWait, FiniteSetTheorems, TLAPS

PollOps == {"poll", "select"}
\* The places of a poll or select that has set its timer, if it sets one.
Waiting == {"scan", "normal", "check", "stop"}
-----------------------------------------------------------------------------
(* The counts of a scan *)

LEMMA FdsFacts ==
  /\ NumFds \in Nat \ {0} /\ 1 \in Fds /\ None \notin Timers
  /\ IsFiniteSet(Fds) /\ Cardinality(Fds) = NumFds /\ IsFiniteSet(Timers)
<1>1. NumFds \in Nat \ {0} /\ MaxTimers \in Nat \ {0}
  BY WaitAssumption
<1>2. /\ IsFiniteSet(1 .. NumFds) /\ Cardinality(1 .. NumFds) = NumFds
      /\ IsFiniteSet(1 .. MaxTimers)
  BY <1>1, FS_Interval
<1> QED BY <1>1, <1>2 DEF Fds, Timers, None

LEMMA PollCountType == PollCount \in 0 .. 2 * NumFds
<1> DEFINE S == {f \in Scanned : PollBits(f) # {}} \cup FirstClosed
<1>1. S \subseteq Fds
  BY DEF Scanned, FirstClosed
<1>2. IsFiniteSet(S) /\ Cardinality(S) <= NumFds
  BY <1>1, FdsFacts, FS_Subset
<1>3. Cardinality(S) \in Nat
  BY <1>2, FS_CardinalityType
<1> QED BY <1>2, <1>3, FdsFacts DEF PollCount

LEMMA SelectCountType == SelectCount \in 0 .. 2 * NumFds
<1> DEFINE B == {"in", "out"}
           S == {e \in Fds \X B : e[2] \in SelectBits(e[1])}
<1>1. IsFiniteSet(B) /\ Cardinality(B) = 2
  <2>1. IsFiniteSet({"in"}) /\ Cardinality({"in"}) = 1
    BY FS_Singleton
  <2>2. B = {"in"} \cup {"out"} /\ "out" \notin {"in"}
    OBVIOUS
  <2> HIDE DEF B
  <2> QED BY <2>1, <2>2, FS_AddElement
<1>2. S \subseteq Fds \X B
  OBVIOUS
<1>3. IsFiniteSet(Fds \X B) /\ Cardinality(Fds \X B) = NumFds * 2
  <2> HIDE DEF B
  <2> QED BY <1>1, FdsFacts, FS_Product
<1>4. IsFiniteSet(S) /\ Cardinality(S) <= NumFds * 2
  <2> HIDE DEF S, B
  <2> QED BY <1>2, <1>3, FS_Subset
<1>5. Cardinality(S) \in Nat
  BY <1>4, FS_CardinalityType
<1> QED BY <1>4, <1>5, FdsFacts DEF SelectCount
-----------------------------------------------------------------------------
(* Types *)

\* The type invariant in four parts.
FdTypes ==
  /\ canRead \in [Fds -> BOOLEAN] /\ canWrite \in [Fds -> BOOLEAN]
  /\ closed \in [Fds -> BOOLEAN] /\ normalReady \in BOOLEAN
TimerTypes ==
  /\ timers \in [Timers -> {"free", "idle", "armed"}]
  /\ poll_timer \in Timers \cup {None} /\ current_timer \in Timers \cup {None}
  /\ recv_timer \in [Fds -> Timers \cup {None}]
  /\ send_timer \in [Fds -> Timers \cup {None}]
CallTypes ==
  /\ transfer \in SocketOps
  /\ op \in {"none", "poll", "select", "recv", "send"}
  /\ timeout \in Waits /\ hasNormal \in BOOLEAN /\ normalNamed \in BOOLEAN
  /\ events \in Interests \cup {Nothing} /\ fd \in Fds /\ stale \in BOOLEAN
StepTypes ==
  /\ poll_timeout \in BOOLEAN /\ is_socket_timeout \in BOOLEAN
  /\ spc \in {"idle", "reset", "arm", "scan", "normal", "check", "stop", "size",
              "empty", "full", "returned"}
  /\ result \in {"none", "ready", "nothing", "timeout", "eof", "failed"}
  /\ expired \in BOOLEAN /\ leftArmed \in BOOLEAN /\ polled \in BOOLEAN
ReportTypes ==
  hook_rv \in 0 .. 2 * NumFds /\ revents \in [Fds -> SUBSET {"in", "out"}]

LEMMA TypeParts ==
  /\ TypeOK <=> FdTypes /\ TimerTypes /\ CallTypes /\ StepTypes /\ ReportTypes
  /\ TypeOK' <=> /\ FdTypes' /\ TimerTypes' /\ CallTypes' /\ StepTypes'
                 /\ ReportTypes'
BY DEF TypeOK, FdTypes, TimerTypes, CallTypes, StepTypes, ReportTypes

\* What a step leaves alone keeps its type.
LEMMA TypesStay ==
  /\ FdTypes /\ UNCHANGED fdVars => FdTypes'
  /\ TimerTypes /\ UNCHANGED <<timerVars, current_timer>> => TimerTypes'
  /\ CallTypes /\ UNCHANGED callVars => CallTypes'
  /\ StepTypes /\ UNCHANGED <<flagVars, spc, result, expired, leftArmed, polled>>
       => StepTypes'
  /\ ReportTypes /\ UNCHANGED <<hook_rv, revents>> => ReportTypes'
<1>1. FdTypes /\ UNCHANGED fdVars => FdTypes'
  BY DEF FdTypes, fdVars
<1>2. TimerTypes /\ UNCHANGED <<timerVars, current_timer>> => TimerTypes'
  BY DEF TimerTypes, timerVars
<1>3. CallTypes /\ UNCHANGED callVars => CallTypes'
  BY DEF CallTypes, callVars
<1>4. StepTypes /\ UNCHANGED <<flagVars, spc, result, expired, leftArmed, polled>>
       => StepTypes'
  BY DEF StepTypes, flagVars
<1>5. ReportTypes /\ UNCHANGED <<hook_rv, revents>> => ReportTypes'
  BY DEF ReportTypes
<1> QED BY <1>1, <1>2, <1>3, <1>4, <1>5

LEMMA NothingType == Nothing \in [Fds -> SUBSET {"in", "out"}]
BY DEF Nothing

LEMMA TypesInit == Init => TypeOK
<1> SUFFICES ASSUME Init PROVE TypeOK
  OBVIOUS
<1>1. FdTypes
  BY DEF Init, FdTypes
<1>2. TimerTypes
  BY DEF Init, TimerTypes
<1>3. CallTypes
  BY FdsFacts DEF Init, CallTypes, Waits, SocketOps
<1>4. StepTypes
  BY DEF Init, StepTypes
<1>5. ReportTypes
  BY FdsFacts, NothingType DEF Init, ReportTypes
<1> QED BY <1>1, <1>2, <1>3, <1>4, <1>5, TypeParts

LEMMA EventsType ==
  ASSUME TypeOK
  PROVE  events \in [Fds -> SUBSET {"in", "out"}]
BY WaitAssumption DEF TypeOK, Nothing

LEMMA TypesOutside ==
  ASSUME TypeOK, Environment \/ \E t \in Timers : Expire(t)
  PROVE  TypeOK'
<1>1. CASE Environment
  <2>1. FdTypes'
    BY <1>1, TypeParts
    DEF FdTypes, Environment, Deliver, Drain, ClientClose, NormalBecomesReady
  <2>2. TimerTypes' /\ CallTypes' /\ StepTypes' /\ ReportTypes'
    BY <1>1, TypeParts, TypesStay DEF Environment
  <2> QED BY <2>1, <2>2, TypeParts
<1>2. ASSUME NEW t \in Timers, Expire(t) PROVE TypeOK'
  <2>1. FdTypes' /\ CallTypes' /\ ReportTypes'
    BY <1>2, TypeParts, TypesStay DEF Expire
  <2>2. TimerTypes'
    BY <1>2, TypeParts DEF Expire, TimerTypes
  <2>3. StepTypes'
    BY <1>2, TypeParts DEF Expire, StepTypes
  <2> QED BY <2>1, <2>2, <2>3, TypeParts
<1> QED BY <1>1, <1>2

LEMMA TypesServe ==
  ASSUME TypeOK, Serve
  PROVE  TypeOK'
<1>1. FdTypes'
  BY TypeParts DEF Serve, FdTypes
<1>2. TimerTypes'
  BY TypeParts DEF Serve, TimerTypes, timerVars
<1>3. CallTypes'
  BY TypeParts, FdsFacts DEF Serve, CallTypes, Waits
<1>4. StepTypes'
  BY TypeParts DEF Serve, StepTypes, flagVars
<1>5. ReportTypes'
  BY TypeParts, FdsFacts DEF Serve, ReportTypes
<1> QED BY <1>1, <1>2, <1>3, <1>4, <1>5, TypeParts

LEMMA TypesStart ==
  ASSUME TypeOK, Call
  PROVE  TypeOK'
<1>1. ASSUME NEW o \in {"poll", "select"}, NEW n \in BOOLEAN, NEW t \in Waits,
             NEW ev \in Interests, Start(o, n, t, ev)
      PROVE  TypeOK'
  <2>1. FdTypes'
    BY <1>1, TypeParts, TypesStay DEF Start
  <2>2. TimerTypes'
    BY <1>1, TypeParts DEF Start, TimerTypes, timerVars
  <2>3. CallTypes'
    BY <1>1, TypeParts DEF Start, CallTypes, StepTypes
  <2>4. StepTypes'
    BY <1>1, TypeParts DEF Start, StepTypes, flagVars
  <2>5. ReportTypes'
    BY <1>1, TypeParts, FdsFacts, NothingType DEF Start, ReportTypes
  <2> QED BY <2>1, <2>2, <2>3, <2>4, <2>5, TypeParts
<1>2. ASSUME NEW f \in Fds, NEW t \in {"some", "never"},
             RecvStart(f, t) \/ SendStart(f, t)
      PROVE  TypeOK'
  <2>1. FdTypes'
    BY <1>2, TypeParts DEF RecvStart, SendStart, FdTypes, fdVars
  <2>2. TimerTypes'
    BY <1>2, TypeParts DEF RecvStart, SendStart, TimerTypes, timerVars
  <2>3. CallTypes'
    BY <1>2, TypeParts
    DEF RecvStart, SendStart, Begin, CallTypes, StepTypes, Waits, SocketOps
  <2>4. StepTypes'
    BY <1>2, TypeParts DEF RecvStart, SendStart, Begin, StepTypes, flagVars
  <2>5. ReportTypes'
    BY <1>2, TypeParts, FdsFacts DEF RecvStart, SendStart, Begin, ReportTypes
  <2> QED BY <2>1, <2>2, <2>3, <2>4, <2>5, TypeParts
<1> QED BY <1>1, <1>2 DEF Call

LEMMA TypesScan ==
  ASSUME TypeOK, Scan
  PROVE  TypeOK'
<1>1. hook_rv' \in 0 .. 2 * NumFds
  BY PollCountType, SelectCountType DEF Scan, HookCount
<1>2. revents' \in [Fds -> SUBSET {"in", "out"}]
  BY EventsType DEF Scan, Found, PollRevents, PollBits, SelectBits, TypeOK
<1>3. /\ spc' \in {"returned", "check", "stop", "normal", "scan"}
      /\ result' \in {"ready", "nothing", result}
  BY DEF Scan, Return, TypeOK, Waits
<1>4. StepTypes'
  BY <1>3, TypeParts DEF Scan, StepTypes, flagVars
<1>5. TimerTypes'
  BY TypeParts, TypesStay DEF Scan
<1> QED BY <1>1, <1>2, <1>4, <1>5, TypeParts, TypesStay DEF Scan, ReportTypes

LEMMA TypesPoll ==
  ASSUME TypeOK,
         \/ ResetFlag \/ PollArm \/ SelectArm \/ AskForNone \/ AskNormal \/ CheckFlag
         \/ PollStop \/ SelectStop
  PROVE  TypeOK'
<1>1. FdTypes' /\ CallTypes'
  BY TypeParts, TypesStay
  DEF ResetFlag, PollArm, SelectArm, AskForNone, AskNormal, CheckFlag, PollStop,
      SelectStop, CallTypes
<1>2. ReportTypes'
  BY TypeParts, TypesStay, NothingType
  DEF ResetFlag, PollArm, SelectArm, AskForNone, AskNormal, CheckFlag, PollStop,
      SelectStop, ReportTypes
<1>3. TimerTypes'
  BY TypeParts DEF ResetFlag, PollArm, SelectArm, AskForNone, AskNormal, CheckFlag,
     PollStop, SelectStop, TimerTypes, timerVars, NewTimer, Named, Live
<1>4. StepTypes'
  BY TypeParts, ZenonT(40) DEF ResetFlag, PollArm, SelectArm, AskForNone, AskNormal,
     CheckFlag,
     PollStop, SelectStop, StepTypes, flagVars, Return
<1> QED BY <1>1, <1>2, <1>3, <1>4, TypeParts

LEMMA TypesTransfer ==
  ASSUME TypeOK, RecvSize \/ RecvEmpty \/ SendArm \/ SendSize \/ SendFull
  PROVE  TypeOK'
<1>1. FdTypes'
  BY TypeParts
  DEF RecvSize, RecvEmpty, SendArm, SendSize, SendFull, FdTypes, fdVars
<1>2. CallTypes' /\ ReportTypes'
  BY TypeParts, TypesStay DEF RecvSize, RecvEmpty, SendArm, SendSize, SendFull
<1>3. TimerTypes'
  <2> USE TypeParts DEF TimerTypes, StopSocketTimer, ArmSocketTimer, NewTimer
  <2>1. CASE RecvSize BY <2>1 DEF RecvSize
  <2>2. CASE RecvEmpty BY <2>2 DEF RecvEmpty
  <2>3. CASE SendArm BY <2>3 DEF SendArm
  <2>4. CASE SendSize BY <2>4 DEF SendSize
  <2>5. CASE SendFull BY <2>5 DEF SendFull
  <2> QED BY <2>1, <2>2, <2>3, <2>4, <2>5
<1>4. StepTypes'
  BY TypeParts, ZenonT(40) DEF RecvSize, RecvEmpty, SendArm, SendSize, SendFull, StepTypes,
     flagVars, Return, ArmSocketTimer
<1> QED BY <1>1, <1>2, <1>3, <1>4, TypeParts

LEMMA TypesNext == TypeOK /\ [Next]_vars => TypeOK'
<1> SUFFICES ASSUME TypeOK, [Next]_vars PROVE TypeOK'
  OBVIOUS
<1>1. CASE UNCHANGED vars
  BY <1>1 DEF TypeOK, vars, fdVars, timerVars, flagVars, callVars
<1> QED
  BY <1>1, TypesScan, TypesOutside, TypesServe, TypesStart, TypesPoll, TypesTransfer
  DEF Next, ServerStep

\* The variables keep their types.
THEOREM TypesKept == Spec => []TypeOK
BY TypesInit, TypesNext, PTL DEF Spec
-----------------------------------------------------------------------------
(* The inductive invariants *)

\* Where a call can be, and what it has of a timer there.
Placed ==
  /\ spc = "idle" => op = "none"
  /\ spc \in {"reset"} \cup Waiting => op \in PollOps
  /\ spc = "arm" => op \in {"poll", "select", "send"}
  /\ spc \in {"size", "empty", "full"} => op \in SocketOps
  /\ spc \in {"reset", "arm", "stop"} => timeout = "some"
  /\ spc \in {"normal", "check"} => timeout = "some" \/ (timeout = "never" /\ hasNormal)
  /\ op = "select" => timeout # "never"
  /\ spc \in {"idle", "reset", "arm"} => current_timer = None
  /\ spc \in Waiting => (current_timer # None <=> timeout = "some")
  /\ (spc \in Waiting /\ timeout = "some") => poll_timer # None

\* Which timer may run, and whose expiry a flag that is set stands for.
Clocked ==
  /\ ~is_socket_timeout
  /\ ~leftArmed => \A t \in Timers :
                     timers[t] = "armed" => ~AtRest /\ ~expired /\ t = current_timer
  /\ expired => current_timer # None
  /\ (spc \in Waiting \cup {"arm"} /\ op \in PollOps /\ poll_timeout) =>
       \/ expired
       \/ leftArmed
       \/ timeout # "some" /\ stale
  /\ TimeoutIsReal

\* The timer select keeps is deleted by poll alone.
Kept ==
  /\ ~polled /\ poll_timer # None => timers[poll_timer] # "free"
  /\ SelectFailsOnlyAfterPoll

SocketTimers ==
  {t \in Timers : \E f \in Fds : t \in {recv_timer[f], send_timer[f]}}

\* Beside the timers of the sockets and the one a poll has made there is at most
\* one, and none before poll_timer names a timer.
Beside(k) ==
  /\ poll_timer = None => k = None
  /\ \A t \in Live : \/ t = k \/ t \in SocketTimers
                     \/ op = "poll" /\ ~AtRest /\ t = current_timer

Bounded ==
  /\ \E k \in Timers \cup {None} : Beside(k)
  /\ op \in SocketOps /\ current_timer # None => current_timer \in SocketTimers

\* An event that may be reported of an fd; it stays one while the call lasts.
Reportable(f, b) ==
  \/ b = "in" /\ canRead[f]
  \/ b = "out" /\ canWrite[f]
  \/ op = "poll" /\ \E g \in 1 .. f : closed[g]
  \/ op = "select" /\ b = "out" /\ ("in" \in events[f] \/ f = Listener)

Reported ==
  (/\ op \in PollOps
   /\ \/ spc \in {"normal", "check", "stop"}
      \/ spc = "returned" /\ result = "ready"
      \/ op = "select" /\ spc \in {"reset", "arm", "scan"}) =>
    \A f \in Fds : \A b \in revents[f] : Reportable(f, b)
-----------------------------------------------------------------------------
(* The place of a call *)

LEMMA PlacedInit == Init => Placed
BY DEF Init, Placed, Waiting, PollOps, SocketOps

\* The clients and the timers leave a call where it is.
LEMMA PlacedStays ==
  ASSUME Placed, UNCHANGED <<spc, op, timeout, hasNormal, current_timer, poll_timer>>
  PROVE  Placed'
BY DEF Placed

LEMMA PlacedPoll ==
  ASSUME TypeOK, Placed,
         \/ ResetFlag \/ PollArm \/ SelectArm \/ AskForNone \/ AskNormal \/ CheckFlag
         \/ PollStop \/ SelectStop
  PROVE  Placed'
<1> USE FdsFacts DEF Placed, Waiting, PollOps, SocketOps, Return, callVars, timerVars
<1>1. CASE ResetFlag
  BY <1>1 DEF ResetFlag
<1>2. CASE PollArm
  BY <1>2 DEF PollArm
<1>3. CASE SelectArm
  <2>1. CASE poll_timer = None
    BY <1>3, <2>1 DEF SelectArm
  <2>2. CASE poll_timer # None
    <3>1. PICK t \in Named(poll_timer) :
            /\ UNCHANGED poll_timer
            /\ IF t = None
               THEN Return("failed") /\ UNCHANGED <<timers, current_timer>>
               ELSE /\ timers' = [timers EXCEPT ![t] = "armed"]
                    /\ current_timer' = t
                    /\ spc' = "scan" /\ UNCHANGED result
      BY <1>3, <2>2 DEF SelectArm
    <3> QED BY <1>3, <2>2, <3>1 DEF SelectArm
  <2> QED BY <2>1, <2>2
<1>4. CASE AskNormal
  BY <1>4 DEF AskNormal
<1>5. CASE CheckFlag
  BY <1>5 DEF CheckFlag
<1>6. CASE PollStop
  BY <1>6 DEF PollStop
<1>7. CASE SelectStop
  BY <1>7 DEF SelectStop
<1>8. CASE AskForNone
  BY <1>8 DEF AskForNone, AsksForNone
<1> QED BY <1>1, <1>2, <1>3, <1>4, <1>5, <1>6, <1>7, <1>8

LEMMA PlacedScan ==
  ASSUME TypeOK, Placed, Scan
  PROVE  Placed'
<1>1. UNCHANGED <<op, timeout, hasNormal, current_timer, poll_timer>>
  BY DEF Scan, callVars, timerVars
<1>2. \/ spc' = "returned"
      \/ spc' \in {"check", "stop", "normal"} /\ timeout = "some"
      \/ spc' = "normal" /\ timeout = "never" /\ hasNormal
      \/ spc' = "scan" /\ timeout = "never"
  BY DEF Scan, Return, TypeOK, Waits
<1>3. spc = "scan"
  BY DEF Scan
<1>4. hasNormal \in BOOLEAN /\ hasNormal' \in BOOLEAN
  BY <1>1 DEF TypeOK
<1>5. CASE spc' = "returned"
  BY <1>1, <1>3, <1>5 DEF Placed, Waiting, PollOps
<1>6. CASE spc' = "scan"
  BY <1>1, <1>3, <1>6 DEF Placed, Waiting, PollOps
<1>7. CASE spc' \in {"check", "stop", "normal"}
  <2>1. CASE timeout = "some"
    BY <1>1, <1>3, <1>7, <2>1 DEF Placed, Waiting, PollOps
  <2>2. CASE spc' = "normal" /\ timeout = "never" /\ hasNormal
    <3>1. hasNormal'
      BY <1>1, <1>4, <2>2
    <3> QED BY <1>1, <1>3, <2>2, <3>1 DEF Placed, Waiting, PollOps
  <2> QED BY <1>2, <1>7, <2>1, <2>2
<1> QED BY <1>2, <1>5, <1>6, <1>7

LEMMA PlacedTransfer ==
  ASSUME TypeOK, Placed, RecvSize \/ RecvEmpty \/ SendArm \/ SendSize \/ SendFull
  PROVE  Placed'
<1> USE DEF Placed, Waiting, PollOps, SocketOps, Return, callVars
<1>1. CASE RecvSize
  BY <1>1 DEF RecvSize
<1>2. CASE RecvEmpty
  BY <1>2 DEF RecvEmpty
<1>3. CASE SendArm
  BY <1>3 DEF SendArm
<1>4. CASE SendSize
  BY <1>4 DEF SendSize
<1>5. CASE SendFull
  BY <1>5 DEF SendFull
<1> QED BY <1>1, <1>2, <1>3, <1>4, <1>5

LEMMA PlacedStart ==
  ASSUME TypeOK, Placed, Call \/ Serve
  PROVE  Placed'
<1> USE DEF Placed, Waiting, PollOps, SocketOps, timerVars
<1>1. CASE Serve
  BY <1>1 DEF Serve
<1>2. ASSUME NEW o \in PollOps, NEW n \in BOOLEAN, NEW t \in Waits,
             NEW ev \in Interests, Start(o, n, t, ev)
      PROVE  Placed'
  BY <1>2 DEF Start
<1>3. ASSUME NEW f \in Fds, NEW t \in {"some", "never"}, RecvStart(f, t)
      PROVE  Placed'
  BY <1>3 DEF RecvStart, Begin
<1>4. ASSUME NEW f \in Fds, NEW t \in {"some", "never"}, SendStart(f, t)
      PROVE  Placed'
  BY <1>4 DEF SendStart, Begin
<1> QED BY <1>1, <1>2, <1>3, <1>4 DEF Call

LEMMA PlacedNext == TypeOK /\ Placed /\ [Next]_vars => Placed'
<1> SUFFICES ASSUME TypeOK, Placed, [Next]_vars PROVE Placed'
  OBVIOUS
<1>1. CASE UNCHANGED vars \/ Environment \/ \E t \in Timers : Expire(t)
  BY <1>1, PlacedStays DEF vars, Environment, Expire, timerVars, callVars
<1> QED
  BY <1>1, PlacedPoll, PlacedScan, PlacedTransfer, PlacedStart DEF Next, ServerStep
-----------------------------------------------------------------------------
(* Whose expiry the flag stands for *)

LEMMA ClockedInit == Init => Clocked
BY FdsFacts DEF Init, Clocked, TimeoutIsReal, Waiting, PollOps, SocketOps

LEMMA ClockedStays ==
  ASSUME Clocked,
         UNCHANGED <<timers, flagVars, spc, op, timeout, stale, current_timer, result,
                     expired, leftArmed>>
  PROVE  Clocked'
BY DEF Clocked, TimeoutIsReal, flagVars, AtRest

LEMMA ClockedExpire ==
  ASSUME TypeOK, Placed, Clocked, NEW t \in Timers, Expire(t)
  PROVE  Clocked'
<1>1. leftArmed \/ (t = current_timer /\ ~AtRest)
  BY DEF Clocked, Expire
<1>2. expired' = (expired \/ t = current_timer)
  BY DEF Expire
<1>3. \A u \in Timers : timers'[u] = "armed" => timers[u] = "armed" /\ u # t
  BY DEF Expire, TypeOK
<1>4. UNCHANGED <<is_socket_timeout, leftArmed, current_timer, spc, op, timeout, stale,
                 result>>
  BY DEF Expire, callVars
<1>5. ~leftArmed => \A u \in Timers :
                     timers'[u] = "armed" => ~AtRest /\ ~expired' /\ u = current_timer
  BY <1>1, <1>2, <1>3 DEF Clocked
<1>6. expired' => current_timer # None
  BY <1>2, FdsFacts DEF Clocked
<1>7. ~leftArmed => expired'
  BY <1>1, <1>2
<1>8. TimeoutIsReal'
  BY <1>2, <1>4 DEF Clocked, TimeoutIsReal
<1> QED BY <1>4, <1>5, <1>6, <1>7, <1>8 DEF Clocked, AtRest

LEMMA ClockedStart ==
  ASSUME TypeOK, Placed, Clocked, Call \/ Serve
  PROVE  Clocked'
<1> USE DEF Clocked, TimeoutIsReal, AtRest, Waiting, PollOps, SocketOps, timerVars,
            flagVars
<1>1. CASE Serve
  BY <1>1 DEF Serve
<1>2. ASSUME NEW o \in PollOps, NEW n \in BOOLEAN, NEW t \in Waits,
             NEW ev \in Interests, Start(o, n, t, ev)
      PROVE  Clocked'
  BY <1>2 DEF Start
<1>3. ASSUME NEW f \in Fds, NEW t \in {"some", "never"}, RecvStart(f, t)
      PROVE  Clocked'
  BY <1>3 DEF RecvStart, Begin
<1>4. ASSUME NEW f \in Fds, NEW t \in {"some", "never"}, SendStart(f, t)
      PROVE  Clocked'
  BY <1>4 DEF SendStart, Begin
<1> QED BY <1>1, <1>2, <1>3, <1>4 DEF Call

LEMMA ClockedPoll ==
  ASSUME TypeOK, Placed, Clocked,
         \/ ResetFlag \/ PollArm \/ SelectArm \/ AskForNone \/ AskNormal \/ CheckFlag
         \/ PollStop \/ SelectStop
  PROVE  Clocked'
<1> USE FdsFacts DEF Placed, Clocked, TimeoutIsReal, AtRest, Waiting, PollOps,
        SocketOps, Return, timerVars, flagVars, callVars, TypeOK
<1>1. CASE ResetFlag
  BY <1>1 DEF ResetFlag
<1>2. CASE PollArm
  BY <1>2 DEF PollArm
<1>3. CASE SelectArm
  <2>1. CASE poll_timer = None
    BY <1>3, <2>1 DEF SelectArm
  <2>2. CASE poll_timer # None
    <3>1. PICK t \in Named(poll_timer) :
            /\ UNCHANGED poll_timer
            /\ IF t = None
               THEN Return("failed") /\ UNCHANGED <<timers, current_timer>>
               ELSE /\ timers' = [timers EXCEPT ![t] = "armed"]
                    /\ current_timer' = t
                    /\ spc' = "scan" /\ UNCHANGED result
      BY <1>3, <2>2 DEF SelectArm
    <3> QED BY <1>3, <2>2, <3>1 DEF SelectArm
  <2> QED BY <2>1, <2>2
<1>4. CASE AskNormal
  BY <1>4 DEF AskNormal
<1>5. CASE CheckFlag
  BY <1>5 DEF CheckFlag
<1>6. CASE PollStop
  BY <1>6 DEF PollStop
<1>7. CASE SelectStop
  BY <1>7, ZenonT(40) DEF SelectStop
<1>8. CASE AskForNone
  BY <1>8 DEF AskForNone, AsksForNone
<1> QED BY <1>1, <1>2, <1>3, <1>4, <1>5, <1>6, <1>7, <1>8

LEMMA ClockedScan ==
  ASSUME TypeOK, Placed, Clocked, Scan
  PROVE  Clocked'
<1>1. UNCHANGED <<timers, poll_timeout, is_socket_timeout, op, timeout, stale,
                 current_timer, expired, leftArmed>>
  BY DEF Scan, callVars, timerVars, flagVars
<1>2. \/ spc' = "returned" /\ result' # "timeout" /\ timeout # "some"
      \/ spc' \in Waiting
  BY DEF Scan, Return, TypeOK, Waits, Waiting
<1>3. spc = "scan" /\ op \in PollOps /\ (timeout # "some" => current_timer = None)
  BY DEF Scan, Placed, Waiting
<1>4. CASE spc' = "returned" /\ result' # "timeout" /\ timeout # "some"
  BY <1>1, <1>3, <1>4, FdsFacts
  DEF Clocked, TimeoutIsReal, Waiting, PollOps, SocketOps, AtRest
<1>5. CASE spc' \in Waiting
  BY <1>1, <1>3, <1>5
  DEF Clocked, TimeoutIsReal, Waiting, PollOps, SocketOps, AtRest
<1> QED BY <1>2, <1>4, <1>5

LEMMA ClockedTransfer ==
  ASSUME TypeOK, Placed, Clocked,
         RecvSize \/ RecvEmpty \/ SendArm \/ SendSize \/ SendFull
  PROVE  Clocked'
<1> USE FdsFacts DEF Placed, Clocked, TimeoutIsReal, AtRest, Waiting, PollOps,
        SocketOps, Return, timerVars, flagVars, callVars, TypeOK, StopSocketTimer,
        ArmSocketTimer
<1>1. CASE RecvSize
  BY <1>1 DEF RecvSize
<1>2. CASE RecvEmpty
  BY <1>2 DEF RecvEmpty
<1>3. CASE SendArm
  BY <1>3 DEF SendArm
<1>4. CASE SendSize
  BY <1>4 DEF SendSize
<1>5. CASE SendFull
  BY <1>5 DEF SendFull
<1> QED BY <1>1, <1>2, <1>3, <1>4, <1>5

LEMMA ClockedNext == TypeOK /\ Placed /\ Clocked /\ [Next]_vars => Clocked'
<1> SUFFICES ASSUME TypeOK, Placed, Clocked, [Next]_vars PROVE Clocked'
  OBVIOUS
<1>1. CASE UNCHANGED vars \/ Environment
  BY <1>1, ClockedStays DEF vars, Environment, timerVars, callVars
<1> QED
  BY <1>1, ClockedExpire, ClockedStart, ClockedPoll, ClockedScan, ClockedTransfer
  DEF Next, ServerStep

LEMMA IsPlaced == Spec => []Placed
BY PlacedInit, PlacedNext, TypesKept, PTL DEF Spec

LEMMA IsClocked == Spec => []Clocked
BY ClockedInit, ClockedNext, TypesKept, IsPlaced, PTL DEF Spec

\* No call reports a timeout before its timer has expired, for all that every
\* timer sets the same flag, except on the two ways the property names.
THEOREM TimeoutsAreReal == Spec => []TimeoutIsReal
<1>1. Clocked => TimeoutIsReal
  BY DEF Clocked
<1> QED BY <1>1, IsClocked, PTL

\* Between two calls no timer runs, until a select has left one running.
THEOREM RestIsQuiet == Spec => []QuietAtRest
<1>1. Clocked => QuietAtRest
  BY DEF Clocked, QuietAtRest
<1> QED BY <1>1, IsClocked, PTL
-----------------------------------------------------------------------------
(* The timer select keeps *)

LEMMA KeptInit == Init => Kept
BY DEF Init, Kept, SelectFailsOnlyAfterPoll

LEMMA KeptStays ==
  ASSUME Kept, UNCHANGED <<timers, poll_timer, polled, spc, op, timeout, hasNormal,
                           result>>
  PROVE  Kept'
BY DEF Kept, SelectFailsOnlyAfterPoll

LEMMA KeptOutside ==
  ASSUME TypeOK, Kept, \/ Call \/ Serve \/ \E t \in Timers : Expire(t)
  PROVE  Kept'
<1>1. CASE \E t \in Timers : Expire(t)
  BY <1>1 DEF Expire, TypeOK, callVars, Kept, SelectFailsOnlyAfterPoll
<1>2. CASE Call \/ Serve
  BY <1>2, ZenonT(40) DEF Call, Serve, Start, RecvStart, SendStart, Begin, timerVars,
     Kept,
     SelectFailsOnlyAfterPoll
<1> QED BY <1>1, <1>2

LEMMA KeptPoll ==
  ASSUME TypeOK, Placed, Kept,
         \/ ResetFlag \/ PollArm \/ SelectArm \/ AskForNone \/ AskNormal \/ CheckFlag
         \/ PollStop \/ SelectStop \/ Scan
  PROVE  Kept'
<1> USE FdsFacts DEF Placed, Kept, SelectFailsOnlyAfterPoll, Waiting, PollOps,
        SocketOps, Return, timerVars, flagVars, callVars, TypeOK
<1>1. CASE ResetFlag
  BY <1>1 DEF ResetFlag
<1>2. CASE PollArm
  BY <1>2 DEF PollArm
<1>3. CASE SelectArm
  <2>1. CASE poll_timer = None
    BY <1>3, <2>1 DEF SelectArm
  <2>2. CASE poll_timer # None
    <3>1. PICK t \in Named(poll_timer) :
            /\ UNCHANGED poll_timer
            /\ IF t = None
               THEN Return("failed") /\ UNCHANGED <<timers, current_timer>>
               ELSE /\ timers' = [timers EXCEPT ![t] = "armed"]
                    /\ current_timer' = t
                    /\ spc' = "scan" /\ UNCHANGED result
      BY <1>3, <2>2 DEF SelectArm
    <3>2. t = None => timers[poll_timer] = "free"
      BY <2>2, <3>1 DEF Named
    <3> QED BY <1>3, <2>2, <3>1, <3>2 DEF SelectArm
  <2> QED BY <2>1, <2>2
<1>4. CASE AskNormal
  BY <1>4 DEF AskNormal
<1>5. CASE CheckFlag
  BY <1>5 DEF CheckFlag
<1>6. CASE PollStop
  BY <1>6 DEF PollStop
<1>7. CASE SelectStop
  <2>1. PICK t \in Named(poll_timer) :
          IF t = None THEN Return("failed") /\ UNCHANGED timers
          ELSE Return("ready") /\ timers' = [timers EXCEPT ![t] = "idle"]
    BY <1>7 DEF SelectStop
  <2>2. t = None => timers[poll_timer] = "free" /\ poll_timer # None
    BY <1>7, <2>1 DEF Named, SelectStop
  <2> QED BY <1>7, <2>1, <2>2 DEF SelectStop
<1>8. CASE Scan
  <2>1. result' # "failed" \/ spc' # "returned"
    BY <1>8 DEF Scan, Waits
  <2> QED BY <1>8, <2>1 DEF Scan
<1>9. CASE AskForNone
  BY <1>9 DEF AskForNone, AsksForNone
<1> QED BY <1>1, <1>2, <1>3, <1>4, <1>5, <1>6, <1>7, <1>8, <1>9

LEMMA KeptTransfer ==
  ASSUME TypeOK, Placed, Kept,
         RecvSize \/ RecvEmpty \/ SendArm \/ SendSize \/ SendFull
  PROVE  Kept'
<1> USE FdsFacts DEF Placed, Kept, SelectFailsOnlyAfterPoll, SocketOps, Return,
        timerVars, flagVars, callVars, TypeOK, StopSocketTimer, ArmSocketTimer
<1>1. CASE RecvSize
  BY <1>1 DEF RecvSize
<1>2. CASE RecvEmpty
  BY <1>2 DEF RecvEmpty
<1>3. CASE SendArm
  BY <1>3 DEF SendArm
<1>4. CASE SendSize
  BY <1>4 DEF SendSize
<1>5. CASE SendFull
  BY <1>5 DEF SendFull
<1> QED BY <1>1, <1>2, <1>3, <1>4, <1>5

LEMMA KeptNext == TypeOK /\ Placed /\ Kept /\ [Next]_vars => Kept'
<1> SUFFICES ASSUME TypeOK, Placed, Kept, [Next]_vars PROVE Kept'
  OBVIOUS
<1>1. CASE UNCHANGED vars \/ Environment
  BY <1>1, KeptStays DEF vars, Environment, timerVars, callVars
<1> QED BY <1>1, KeptOutside, KeptPoll, KeptTransfer DEF Next, ServerStep

\* select fails only where a poll has deleted the timer both of them use.
THEOREM SelectFailures == Spec => []SelectFailsOnlyAfterPoll
<1>1. Kept => SelectFailsOnlyAfterPoll
  BY DEF Kept
<1>2. Spec => []Kept
  BY KeptInit, KeptNext, TypesKept, IsPlaced, PTL DEF Spec
<1> QED BY <1>1, <1>2, PTL
-----------------------------------------------------------------------------
(* How many timers there are *)

LEMMA BoundedInit == Init => Bounded
<1> SUFFICES ASSUME Init PROVE Bounded
  OBVIOUS
<1>1. Live = {}
  BY DEF Init, Live
<1>2. Beside(None)
  BY <1>1 DEF Beside
<1> QED BY <1>2 DEF Init, Bounded, SocketOps

\* A step that gives no timer a new life keeps the bound, if the call it ends, or
\* leaves, was no poll with a timer of its own.
LEMMA BoundedWhere ==
  ASSUME TypeOK, Bounded, Live' \subseteq Live, SocketTimers \subseteq SocketTimers',
         UNCHANGED poll_timer,
         \A t \in Live' : (op = "poll" /\ ~AtRest /\ t = current_timer) =>
                             (op' = "poll" /\ ~AtRest' /\ t = current_timer'),
         (op' \in SocketOps /\ current_timer' # None) =>
            current_timer' \in SocketTimers'
  PROVE  Bounded'
<1>1. PICK k \in Timers \cup {None} : Beside(k)
  BY DEF Bounded
<1>2. Beside(k)'
  BY <1>1 DEF Beside
<1> QED BY <1>2 DEF Bounded

LEMMA BoundedOutside ==
  ASSUME TypeOK, Placed, Bounded, Call \/ Serve \/ \E t \in Timers : Expire(t)
  PROVE  Bounded'
<1>1. Live' \subseteq Live
  BY DEF TypeOK, Live, Call, Serve, Start, RecvStart, SendStart, Expire, timerVars
<1>2. UNCHANGED <<poll_timer, recv_timer, send_timer>>
  BY DEF Call, Serve, Start, RecvStart, SendStart, Expire, timerVars
<1>3. SocketTimers' = SocketTimers
  BY <1>2 DEF SocketTimers
<1>4. CASE Call \/ Serve
  <2>1. current_timer' = None /\ AtRest
    BY <1>4 DEF AtRest, Call, Serve, Start, RecvStart, SendStart, Begin
  <2> QED BY <1>1, <1>2, <1>3, <2>1, BoundedWhere
<1>5. CASE \E t \in Timers : Expire(t)
  <2>1. UNCHANGED <<op, spc, current_timer>>
    BY <1>5 DEF Expire, callVars
  <2> QED BY <1>1, <1>2, <1>3, <2>1, BoundedWhere DEF Bounded, AtRest
<1> QED BY <1>4, <1>5

\* The steps of a poll or select that make no timer.
LEMMA BoundedPoll ==
  ASSUME TypeOK, Placed, Bounded,
         ResetFlag \/ AskForNone \/ Scan \/ AskNormal \/ CheckFlag \/ PollStop \/ SelectStop
  PROVE  Bounded'
<1>1. UNCHANGED <<poll_timer, recv_timer, send_timer, op, current_timer>>
  BY DEF ResetFlag, AskForNone, Scan, AskNormal, CheckFlag, PollStop, SelectStop, timerVars,
     callVars
<1>2. SocketTimers' = SocketTimers
  BY <1>1 DEF SocketTimers
<1>3. op \in PollOps /\ op \notin SocketOps
  BY DEF Placed, ResetFlag, AskForNone, Scan, AskNormal, CheckFlag, PollStop, SelectStop,
     Waiting, PollOps, SocketOps
<1>4. Live' \subseteq Live
  BY FdsFacts DEF TypeOK, Live, ResetFlag, AskForNone, Scan, AskNormal, CheckFlag, PollStop,
     SelectStop, timerVars, Named
<1>5. ASSUME NEW t \in Live', op = "poll", ~AtRest, t = current_timer
      PROVE  ~AtRest'
  <2>1. t \in Timers /\ t # None /\ timers'[t] # "free"
    BY <1>5, FdsFacts DEF Live
  <2>2. spc \in Waiting => timeout = "some"
    BY <1>5, <2>1 DEF Placed
  <2> QED
    BY <1>5, <2>1, <2>2 DEF TypeOK, ResetFlag, AskForNone, AsksForNone, Scan, AskNormal, CheckFlag,
       PollStop, SelectStop, Waiting, AtRest, Return
<1> QED BY <1>1, <1>2, <1>3, <1>4, <1>5, BoundedWhere

\* poll and select make a timer.
LEMMA BoundedArm ==
  ASSUME TypeOK, Placed, Bounded, PollArm \/ SelectArm
  PROVE  Bounded'
<1>1. PICK k \in Timers \cup {None} : Beside(k)
  BY DEF Bounded
<1>2. UNCHANGED <<recv_timer, send_timer, op>> /\ op \in PollOps
  BY DEF PollArm, SelectArm, callVars, PollOps
<1>3. SocketTimers' = SocketTimers
  BY <1>2 DEF SocketTimers
<1>4. ASSUME NEW j \in Timers \cup {None}, Beside(j)' PROVE Bounded'
  BY <1>2, <1>4 DEF Bounded, PollOps, SocketOps
<1>5. current_timer = None
  BY DEF Placed, PollArm, SelectArm
<1>6. CASE PollArm
  <2>1. PICK t \in Timers : /\ timers' = [timers EXCEPT ![t] = "armed"]
                             /\ poll_timer' = t /\ current_timer' = t
    BY <1>6 DEF PollArm
  <2>2. op' = "poll" /\ spc' = "scan"
    BY <1>6 DEF PollArm, callVars
  <2>3. Live' \subseteq Live \cup {t}
    BY <2>1 DEF Live, TypeOK
  <2>4. Beside(k)'
    BY <1>1, <1>3, <1>5, <2>1, <2>2, <2>3, FdsFacts DEF Beside, AtRest, Live
  <2> QED BY <1>4, <2>4
<1>7. CASE SelectArm
  <2>1. op = "select"
    BY <1>7 DEF SelectArm
  <2>2. CASE poll_timer = None
    <3>1. PICK t \in Timers : /\ timers' = [timers EXCEPT ![t] = "armed"]
                               /\ poll_timer' = t
      BY <1>7, <2>2 DEF SelectArm
    <3>2. Live' \subseteq Live \cup {t}
      BY <3>1 DEF Live, TypeOK
    <3>3. None \notin Live
      BY FdsFacts DEF Live
    <3>4. Beside(t)'
      BY <1>1, <1>3, <2>1, <2>2, <3>1, <3>2, <3>3, FdsFacts DEF Beside
    <3> QED BY <1>4, <3>4
  <2>3. CASE poll_timer # None
    <3>1. Live' \subseteq Live /\ UNCHANGED poll_timer
      BY <1>7, <2>3 DEF SelectArm, Live, TypeOK, Named
    <3>2. Beside(k)'
      BY <1>1, <1>3, <2>1, <3>1 DEF Beside
    <3> QED BY <1>4, <3>2
  <2> QED BY <2>2, <2>3
<1> QED BY <1>6, <1>7

\* recv and send make timers that their sockets keep.
LEMMA BoundedTransfer ==
  ASSUME TypeOK, Placed, Bounded,
         RecvSize \/ RecvEmpty \/ SendArm \/ SendSize \/ SendFull
  PROVE  Bounded'
<1>1. op \in SocketOps /\ UNCHANGED <<op, poll_timer>>
  BY DEF RecvSize, RecvEmpty, SendArm, SendSize, SendFull, SocketOps, callVars
<1>2. PICK k \in Timers \cup {None} : Beside(k)
  BY DEF Bounded
<1>3. SocketTimers \subseteq SocketTimers'
  <2> USE DEF SocketTimers, TypeOK, ArmSocketTimer
  <2>1. CASE RecvEmpty
    BY <2>1, FdsFacts DEF RecvEmpty
  <2>2. CASE SendArm
    BY <2>2, FdsFacts DEF SendArm
  <2>3. CASE RecvSize \/ SendSize \/ SendFull
    BY <2>3 DEF RecvSize, SendSize, SendFull
  <2> QED BY <2>1, <2>2, <2>3
<1>4. current_timer' # None => current_timer' \in SocketTimers'
  <2> USE DEF SocketTimers, TypeOK, ArmSocketTimer
  <2>1. CASE UNCHANGED current_timer
    BY <1>1, <1>3, <2>1 DEF Bounded
  <2>2. CASE RecvEmpty /\ current_timer' # current_timer
    BY <2>2, FdsFacts DEF RecvEmpty
  <2>3. CASE SendArm
    BY <2>3, FdsFacts DEF SendArm
  <2>4. CASE RecvSize \/ SendSize \/ SendFull
    BY <2>1, <2>4 DEF RecvSize, SendSize, SendFull
  <2> QED BY <2>1, <2>2, <2>3, <2>4
<1>5. \/ timers' = timers
      \/ \E x \in {"idle", "armed"} :
            timers' = [timers EXCEPT ![current_timer'] = x] /\ current_timer' # None
  <2> USE FdsFacts DEF StopSocketTimer, ArmSocketTimer
  <2>1. CASE RecvEmpty
    BY <2>1 DEF RecvEmpty
  <2>2. CASE SendArm
    BY <2>2 DEF SendArm
  <2>3. CASE RecvSize \/ SendSize \/ SendFull
    BY <2>3 DEF RecvSize, SendSize, SendFull
  <2> QED BY <2>1, <2>2, <2>3
<1>6. Live' \subseteq Live \cup SocketTimers'
  BY <1>4, <1>5 DEF Live, TypeOK
<1>7. Beside(k)'
  BY <1>1, <1>2, <1>3, <1>6 DEF Beside, SocketOps
<1> QED BY <1>4, <1>7 DEF Bounded

LEMMA BoundedNext == TypeOK /\ Placed /\ Bounded /\ [Next]_vars => Bounded'
<1> SUFFICES ASSUME TypeOK, Placed, Bounded, [Next]_vars PROVE Bounded'
  OBVIOUS
<1>1. CASE UNCHANGED vars \/ Environment
  <2>1. UNCHANGED <<timers, poll_timer, recv_timer, send_timer, op, spc, current_timer>>
    BY <1>1 DEF vars, Environment, timerVars, callVars
  <2> QED BY <2>1 DEF Bounded, Beside, Live, SocketTimers, AtRest
<1> QED
  BY <1>1, BoundedOutside, BoundedPoll, BoundedArm, BoundedTransfer
  DEF Next, ServerStep

\* A set of timers that fds name is no larger than the set of the fds.
LEMMA NamesCount ==
  ASSUME NEW timer \in [Fds -> Timers \cup {None}]
  PROVE  LET S == {f \in Fds : timer[f] # None}
             T == {t \in Timers : \E f \in Fds : t = timer[f]}
         IN  /\ IsFiniteSet(S) /\ IsFiniteSet(T)
             /\ Cardinality(S) \in Nat /\ Cardinality(T) \in Nat
             /\ Cardinality(T) <= Cardinality(S)
<1> DEFINE S == {f \in Fds : timer[f] # None}
           T == {t \in Timers : \E f \in Fds : t = timer[f]}
           g == [f \in S |-> timer[f]]
<1>1. IsFiniteSet(S)
  BY FdsFacts, FS_Subset
<1>2. g \in Surjection(S, T)
  BY FdsFacts DEF Surjection
<1>3. IsFiniteSet(T) /\ Cardinality(T) <= Cardinality(S)
  <2> HIDE DEF S, T, g
  <2> QED BY <1>1, <1>2, FS_Surjection
<1>4. Cardinality(S) \in Nat /\ Cardinality(T) \in Nat
  <2> HIDE DEF S, T
  <2> QED BY <1>1, <1>3, FS_CardinalityType
<1> QED BY <1>1, <1>3, <1>4

LEMMA BoundedCount == TypeOK /\ Bounded => TimersBounded
<1> SUFFICES ASSUME TypeOK, Bounded, AtRest
             PROVE  Cardinality(Live)
                      <= 1 + Cardinality({f \in Fds : recv_timer[f] # None})
                           + Cardinality({f \in Fds : send_timer[f] # None})
  BY DEF TimersBounded
<1> DEFINE R == {f \in Fds : recv_timer[f] # None}
           S == {f \in Fds : send_timer[f] # None}
           TR == {t \in Timers : \E f \in Fds : t = recv_timer[f]}
           TS == {t \in Timers : \E f \in Fds : t = send_timer[f]}
<1>1. PICK k \in Timers \cup {None} : Beside(k)
  BY DEF Bounded
<1>2. /\ IsFiniteSet(TR) /\ IsFiniteSet(TS)
      /\ Cardinality(TR) \in Nat /\ Cardinality(TS) \in Nat
      /\ Cardinality(R) \in Nat /\ Cardinality(S) \in Nat
      /\ Cardinality(TR) <= Cardinality(R) /\ Cardinality(TS) <= Cardinality(S)
  BY NamesCount DEF TypeOK
<1>3. Live \subseteq (TR \cup TS) \cup {k}
  BY <1>1 DEF Beside, SocketTimers, Live
<1> HIDE DEF R, S, TR, TS
<1>4. /\ IsFiniteSet(TR \cup TS) /\ Cardinality(TR \cup TS) \in Nat
      /\ Cardinality(TR \cup TS) <= Cardinality(TR) + Cardinality(TS)
  <2>1. /\ IsFiniteSet(TR \cup TS)
        /\ Cardinality(TR \cup TS)
             = Cardinality(TR) + Cardinality(TS) - Cardinality(TR \cap TS)
    BY <1>2, FS_Union
  <2>2. Cardinality(TR \cap TS) \in Nat
    BY <1>2, FS_Subset, FS_CardinalityType
  <2>3. Cardinality(TR \cup TS) \in Nat
    BY <2>1, FS_CardinalityType
  <2> QED BY <1>2, <2>1, <2>2, <2>3
<1>5. /\ IsFiniteSet((TR \cup TS) \cup {k})
      /\ Cardinality((TR \cup TS) \cup {k}) \in Nat
      /\ Cardinality((TR \cup TS) \cup {k}) <= Cardinality(TR \cup TS) + 1
  <2> DEFINE U == TR \cup TS
  <2>1. IsFiniteSet(U) /\ Cardinality(U) \in Nat
    BY <1>4
  <2> HIDE DEF U
  <2>2. /\ IsFiniteSet(U \cup {k})
        /\ Cardinality(U \cup {k})
             = IF k \in U THEN Cardinality(U) ELSE Cardinality(U) + 1
    BY <2>1, FS_AddElement
  <2> QED BY <2>1, <2>2 DEF U
<1>6. Cardinality(Live) <= Cardinality((TR \cup TS) \cup {k})
  BY <1>3, <1>5, FS_Subset
<1>7. Cardinality(Live) \in Nat
  BY <1>3, <1>5, FS_Subset, FS_CardinalityType
<1>8. Cardinality(Live) <= 1 + Cardinality(R) + Cardinality(S)
  BY <1>2, <1>4, <1>5, <1>6, <1>7
<1> QED BY <1>8 DEF R, S

\* The server keeps one timer for poll and select together and one for every
\* direction of a socket that has had a timeout, after any number of calls.
THEOREM TimersStayFew == Spec => []TimersBounded
<1>1. Spec => []Bounded
  BY BoundedInit, BoundedNext, TypesKept, IsPlaced, PTL DEF Spec
<1> QED BY <1>1, TypesKept, BoundedCount, PTL
-----------------------------------------------------------------------------
(* What poll and select report *)

\* The events of a report, with Reported's scope as a name of its own.
HasReport ==
  /\ op \in PollOps
  /\ \/ spc \in {"normal", "check", "stop"}
     \/ spc = "returned" /\ result = "ready"
     \/ op = "select" /\ spc \in {"reset", "arm", "scan"}

LEMMA ReportedInit == Init => Reported
BY DEF Init, Reported, PollOps

\* An event that may be reported stays one while the call lasts, for the clients
\* of an fd only add to what it is ready for.
LEMMA ReportableStays ==
  ASSUME NEW f \in Fds, NEW b, Reportable(f, b),
         UNCHANGED <<op, events>>,
         canRead[f] => canRead'[f], canWrite[f] => canWrite'[f],
         \A g \in 1 .. f : closed[g] => closed'[g]
  PROVE  Reportable(f, b)'
BY DEF Reportable

\* A step of the call that changes neither the report nor what the fds are ready
\* for.
LEMMA ReportedStays ==
  ASSUME Reported, UNCHANGED <<op, events, revents, fdVars>>,
         HasReport' => HasReport
  PROVE  Reported'
<1> SUFFICES ASSUME HasReport', NEW f \in Fds, NEW b \in revents[f]
             PROVE  Reportable(f, b)'
  BY DEF Reported, HasReport
<1>1. Reportable(f, b)
  BY DEF Reported, HasReport
<1> QED BY <1>1 DEF Reportable, fdVars

LEMMA ReportedEnvironment ==
  ASSUME TypeOK, Reported, Environment
  PROVE  Reported'
<1>1. UNCHANGED <<op, events, revents, spc, result>>
  BY DEF Environment, callVars
<1>2. /\ \A f \in Fds : canRead[f] => canRead'[f]
      /\ \A f \in Fds : canWrite[f] => canWrite'[f]
      /\ \A f \in Fds : closed[f] => closed'[f]
  BY DEF Environment, Deliver, Drain, ClientClose, NormalBecomesReady, TypeOK
<1>3. \A f \in Fds : 1 .. f \subseteq Fds
  BY FdsFacts DEF Fds
<1>4. ASSUME NEW f \in Fds, NEW b, Reportable(f, b)
      PROVE  Reportable(f, b)'
  BY <1>1, <1>2, <1>3, <1>4, ReportableStays
<1> SUFFICES ASSUME HasReport, NEW f \in Fds, NEW b \in revents[f]
             PROVE  Reportable(f, b)'
  BY <1>1 DEF Reported, HasReport
<1>5. Reportable(f, b)
  BY DEF Reported, HasReport
<1> QED BY <1>4, <1>5

\* What a scan of poll puts into the array may be reported, whatever was there
\* before.
LEMMA PollReport ==
  ASSUME TypeOK, op = "poll", NEW f \in Fds, NEW b \in PollRevents[f]
  PROVE  Reportable(f, b)
<1>1. CASE f \in Scanned
  <2>1. b \in PollBits(f)
    <3>1. f \notin FirstClosed
      BY <1>1, FdsFacts DEF Scanned, Fds
    <3> QED BY <1>1, <3>1 DEF PollRevents
  <2>2. CASE "in" \in events[f]
    BY <2>1, <2>2 DEF PollBits, Reportable
  <2>3. CASE "in" \notin events[f] /\ events[f] = {"out"} /\ f # Listener
    BY <2>1, <2>3 DEF PollBits, Reportable
  <2>4. CASE "in" \notin events[f] /\ ~(events[f] = {"out"} /\ f # Listener)
    BY <2>1, <2>4 DEF PollBits, Reportable
  <2> QED BY <2>2, <2>3, <2>4
<1>2. CASE f \notin Scanned
  <2>1. PICK g \in FirstClosed : ~(f < g)
    BY <1>2 DEF Scanned
  <2>2. g \in 1 .. f /\ closed[g]
    BY <2>1, FdsFacts DEF FirstClosed, Fds
  <2> QED BY <2>2 DEF Reportable
<1> QED BY <1>1, <1>2

LEMMA SelectReport ==
  ASSUME TypeOK, op = "select", NEW f \in Fds, NEW b \in SelectBits(f)
  PROVE  Reportable(f, b)
<1>1. b \in events[f] /\ events[f] \subseteq {"in", "out"}
  BY EventsType DEF SelectBits
<1>2. CASE b = "in"
  BY <1>1, <1>2 DEF SelectBits, Reportable
<1>3. CASE b = "out" /\ "in" \notin events[f] /\ f # Listener
  <2>1. events[f] = {"out"}
    BY <1>1, <1>3
  <2> QED BY <1>3, <2>1 DEF SelectBits, Reportable
<1>4. CASE b = "out" /\ ("in" \in events[f] \/ f = Listener)
  BY <1>4 DEF Reportable
<1> QED BY <1>1, <1>2, <1>3, <1>4

LEMMA ReportedScan ==
  ASSUME TypeOK, Placed, Reported, Scan
  PROVE  Reported'
<1>1. UNCHANGED <<op, events, fdVars>> /\ revents' = Found /\ op \in PollOps
  BY DEF Scan, callVars, Placed, Waiting
<1>2. ASSUME NEW f \in Fds, NEW b \in Found[f]
      PROVE  Reportable(f, b)
  <2>1. CASE op = "poll"
    <3>1. Found = PollRevents
      BY <2>1 DEF Found
    <3> QED BY <1>2, <2>1, <3>1, PollReport
  <2>2. CASE op = "select" /\ SelectCount > 0
    BY <1>2, <2>2, SelectReport DEF Found
  <2>3. CASE op = "select" /\ ~(SelectCount > 0)
    BY <1>2, <2>3 DEF Found, Reported, Scan, PollOps
  <2> QED BY <1>1, <2>1, <2>2, <2>3 DEF PollOps
<1> SUFFICES ASSUME NEW f \in Fds, NEW b \in revents'[f]
             PROVE  Reportable(f, b)'
  BY DEF Reported
<1>3. Reportable(f, b)
  BY <1>1, <1>2
<1> QED BY <1>1, <1>3 DEF Reportable, fdVars

LEMMA ReportedPoll ==
  ASSUME TypeOK, Placed, Reported,
         \/ ResetFlag \/ PollArm \/ SelectArm \/ AskForNone \/ AskNormal \/ CheckFlag
         \/ PollStop \/ SelectStop
  PROVE  Reported'
<1> USE DEF HasReport, PollOps, Return, callVars
<1>1. CASE ResetFlag
  BY <1>1, ReportedStays DEF ResetFlag
<1>2. CASE PollArm
  BY <1>2 DEF PollArm, Reported
<1>3. CASE SelectArm
  BY <1>3, ReportedStays DEF SelectArm
<1>4. CASE AskNormal
  BY <1>4, ReportedStays DEF AskNormal, Placed, Waiting
<1>5. CASE CheckFlag
  <2>1. CASE poll_timeout
    <3>1. CASE op = "poll"
      BY <1>5, <2>1, <3>1, ReportedStays DEF CheckFlag
    <3>2. CASE op # "poll"
      BY <1>5, <2>1, <3>2 DEF CheckFlag, Reported, Nothing
    <3> QED BY <3>1, <3>2
  <2>2. CASE ~poll_timeout
    BY <1>5, <2>2, ReportedStays DEF CheckFlag, Placed, Waiting
  <2> QED BY <2>1, <2>2
<1>6. CASE PollStop
  BY <1>6, ReportedStays DEF PollStop
<1>7. CASE SelectStop
  BY <1>7, ReportedStays DEF SelectStop
<1>8. CASE AskForNone
  BY <1>8, ReportedStays DEF AskForNone
<1> QED BY <1>1, <1>2, <1>3, <1>4, <1>5, <1>6, <1>7, <1>8

LEMMA ReportedElse ==
  ASSUME TypeOK, Placed, Reported,
         \/ Call \/ Serve \/ \E t \in Timers : Expire(t)
         \/ RecvSize \/ RecvEmpty \/ SendArm \/ SendSize \/ SendFull
  PROVE  Reported'
<1>1. ASSUME NEW o \in PollOps, NEW n \in BOOLEAN, NEW t \in Waits,
             NEW ev \in Interests, Start(o, n, t, ev)
      PROVE  Reported'
  BY <1>1 DEF Start, Reported, Nothing, PollOps
<1>2. ASSUME NEW f \in Fds, NEW t \in {"some", "never"},
             RecvStart(f, t) \/ SendStart(f, t)
      PROVE  Reported'
  BY <1>2 DEF RecvStart, SendStart, Begin, Reported, PollOps
<1>3. CASE Serve
  BY <1>3 DEF Serve, Reported, PollOps
<1>4. CASE \E t \in Timers : Expire(t)
  BY <1>4, ReportedStays DEF Expire, callVars, HasReport
<1>5. CASE RecvSize \/ RecvEmpty \/ SendArm \/ SendSize \/ SendFull
  BY <1>5 DEF RecvSize, RecvEmpty, SendArm, SendSize, SendFull, Reported, PollOps,
     callVars
<1> QED BY <1>1, <1>2, <1>3, <1>4, <1>5 DEF Call, PollOps

LEMMA ReportedNext == TypeOK /\ Placed /\ Reported /\ [Next]_vars => Reported'
<1> SUFFICES ASSUME TypeOK, Placed, Reported, [Next]_vars PROVE Reported'
  OBVIOUS
<1>1. CASE UNCHANGED vars
  BY <1>1, ReportedStays DEF vars, callVars, HasReport
<1> QED
  BY <1>1, ReportedEnvironment, ReportedPoll, ReportedScan, ReportedElse
  DEF Next, ServerStep

\* poll and select report an fd only for what it is ready for when they return,
\* apart from the exceptions the property names.
THEOREM ReportsAreReady == Spec => []ReportedIsReady
<1>1. Reported => ReportedIsReady
  BY DEF Reported, ReportedIsReady, Reportable, PollOps
<1>2. Spec => []Reported
  BY ReportedInit, ReportedNext, TypesKept, IsPlaced, PTL DEF Spec
<1> QED BY <1>1, <1>2, PTL
-----------------------------------------------------------------------------
=============================================================================
