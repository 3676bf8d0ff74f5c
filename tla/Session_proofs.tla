--------------------------- MODULE Session_proofs ---------------------------
(***************************************************************************)
(* What a session promises, for every plan and every bound: a request is   *)
(* told of before dcmqrscp polls, a timeout of the harness is real, the    *)
(* program is given a prefix of the stream, and a note means an answer.    *)
(***************************************************************************)
EXTENDS Session, SequenceTheorems, TLAPS

Reading == {"look", "empty", "take"}

\* What the counters of dcmqrscp know of the requests its program has read:
\* while one is untold, read_count says so, and the next write is the first of
\* a turn; in poll nothing is counted any more.
Counted ==
  /\ read_count \in Nat /\ write_count \in Nat
  /\ IsDcmqrscp /\ spc \in Reading /\ "read" \in flags =>
       read_count >= 1 /\ write_count = 0
  /\ IsDcmqrscp /\ untold /\ ~interrupted /\ spc # "closed" =>
       read_count >= 1 /\ write_count = 0
  /\ IsDcmqrscp /\ spc = "poll" => read_count = 0

counted == <<server, spc, flags, read_count, write_count, untold, interrupted>>

LEMMA CountedInit == Init => Counted
BY DEF Init, ServerInit, Counted, Reading

\* What the harness does, and what it takes, changes none of it.
LEMMA CountedStays == Counted /\ UNCHANGED counted => Counted'
BY DEF Counted, counted, IsDcmqrscp, Reading

LEMMA CountedRecv ==
  ASSUME Counted, NEW n \in Nat, NEW f \in SUBSET {"waitall", "dontwait"}, Recv(n, f)
  PROVE  Counted'
<1>1. UNCHANGED <<server, read_count, write_count, untold, interrupted>> /\ spc = "app"
  BY DEF Recv, counts
<1>2. CASE UNCHANGED <<spc, reading>>
  BY <1>1, <1>2, CountedStays DEF counted, reading
<1>3. CASE spc' = "look" /\ flags' = f
  BY <1>1, <1>3 DEF Counted, IsDcmqrscp, Reading
<1> QED BY <1>2, <1>3 DEF Recv, Enter

LEMMA CountedRead ==
  ASSUME Counted, NEW n \in Nat, Read(n)
  PROVE  Counted'
<1>1. /\ read_count' \in Nat /\ read_count' >= 1
      /\ write_count' \in Nat /\ (IsDcmqrscp => write_count' = 0)
      /\ server' = server
  BY DEF Read, Counted, NewTurn
<1>2. spc = "app" /\ spc' \in {"app", "look"}
  BY DEF Read, Enter
<1> QED BY <1>1, <1>2 DEF Counted, IsDcmqrscp, Reading

LEMMA CountedReading ==
  ASSUME Counted, ReadLook \/ ReadEmpty \/ ReadTake
  PROVE  Counted'
<1>1. UNCHANGED <<server, read_count, write_count, interrupted>> /\ spc \in Reading
  BY DEF ReadLook, ReadEmpty, ReadTake, counts, Reading
<1>2. \/ UNCHANGED <<untold, flags>> /\ spc' \in Reading
      \/ \E bs : untold' = (untold \/ ("read" \in flags /\ bs # <<>>))
                 /\ spc' = "app" /\ flags' = {}
  BY DEF ReadLook, ReadEmpty, ReadTake, Give, reading, Reading
<1>3. CASE UNCHANGED <<untold, flags>> /\ spc' \in Reading
  BY <1>1, <1>3 DEF Counted, IsDcmqrscp, Reading
<1>4. CASE \E bs : untold' = (untold \/ ("read" \in flags /\ bs # <<>>))
                   /\ spc' = "app" /\ flags' = {}
  <2>1. untold' => untold \/ "read" \in flags
    BY <1>4
  <2> QED BY <1>1, <1>4, <2>1 DEF Counted, IsDcmqrscp, Reading
<1> QED BY <1>2, <1>3, <1>4

LEMMA CountedWriting ==
  ASSUME Counted, Write \/ WritePut
  PROVE  Counted'
BY DEF Counted, Write, WritePut, counts, reading, IsDcmqrscp, Reading

LEMMA CountedTell ==
  ASSUME Counted, WriteTell
  PROVE  Counted'
<1>1. UNCHANGED server /\ spc = "tell" /\ spc' = "app" /\ read_count' = 0
      /\ write_count' \in Nat
  BY DEF WriteTell, Counted
<1>2. IsDcmqrscp /\ untold' => interrupted'
  BY DEF WriteTell, Counted, Tell, NoNote
<1> QED BY <1>1, <1>2 DEF Counted, IsDcmqrscp, Reading

LEMMA CountedPoll ==
  ASSUME Counted, Poll
  PROVE  Counted'
<1>1. UNCHANGED server /\ spc = "app" /\ spc' = "poll" /\ write_count' = 0
      /\ read_count' \in Nat /\ (IsDcmqrscp => read_count' = 0)
  BY DEF Poll, Counted, Threshold
<1>2. IsDcmqrscp /\ untold' => interrupted'
  BY DEF Poll, Counted, Tell, NoNote, Threshold
<1> QED BY <1>1, <1>2 DEF Counted, IsDcmqrscp, Reading

LEMMA CountedOthers ==
  ASSUME Counted,
         PollReturn \/ SetNonblocking \/ ServerClose \/ \E how : Shutdown(how)
  PROVE  Counted'
BY DEF Counted, PollReturn, SetNonblocking, ServerClose, Shutdown, counts, reading,
       IsDcmqrscp, Reading

LEMMA CountedNext == Counted /\ [Next]_vars => Counted'
<1> SUFFICES ASSUME Counted, [Next]_vars PROVE Counted'
  OBVIOUS
<1>1. CASE UNCHANGED vars
  BY <1>1, CountedStays DEF vars, serverState, counted, reading, counts
<1>2. CASE BeginRound \/ NotesEnded \/ ReceiveAnswer \/ Aside \/ LeaveServer
           \/ HarnessStep \/ \E k \in Kinds : TimerStep(k)
  BY <1>2, CountedStays DEF BeginRound, NotesEnded, ReceiveAnswer, Aside,
     LeaveServer, HarnessStep, TimerStep, HarnessRest, serverState, counted,
     reading, counts
<1>3. CASE TakeNote
  BY <1>3, CountedStays DEF TakeNote, counted, reading, counts
<1>4. CASE ServerBegins
  <2>1. \/ \E n \in Nat, f \in SUBSET {"waitall", "dontwait"} : Recv(n, f)
        \/ \E n \in Nat : Read(n)
        \/ Write \/ Poll
        \/ PollReturn \/ SetNonblocking \/ ServerClose \/ \E how : Shutdown(how)
    <3>. MaxAsk \in Nat
      BY ServerAssumption, Zenon DEF ServerAssumption
    <3>1. 1 .. MaxAsk \subseteq Nat
      OBVIOUS
    <3>2. ServerCall(plan.calls)
      BY <1>4 DEF ServerBegins
    <3> QED BY <3>1, <3>2, Zenon DEF ServerCall
  <2> QED BY <2>1, CountedRecv, CountedRead, CountedWriting, CountedPoll, CountedOthers
<1>5. CASE ServerGoesOn
  BY <1>5, CountedReading, CountedWriting, CountedTell, CountedOthers
     DEF ServerGoesOn, ServerStep
<1> QED BY <1>1, <1>2, <1>3, <1>4, <1>5 DEF Next

\* dcmqrscp never polls with a request that it has read and that no note was
\* sent about, unless a note was given up for a signal.
THEOREM ToldBeforePoll == Spec => []NoSilentPoll
<1>1. Counted => NoSilentPoll
  BY DEF Counted, NoSilentPoll
<1> QED BY CountedInit, CountedNext, <1>1, PTL DEF Spec
-----------------------------------------------------------------------------
(* The harness's timers *)

\* While it does not wait, no timer runs.
AtRest == {"idle", "closing", "closed"}
Unarmed == \A k \in Kinds : timer[k] # "armed"

\* Only the timer of the call that set it can be armed, and once it has gone
\* off it is not; so the flag, cleared before, means that it has.
Clocked ==
  /\ timer \in [Kinds -> {"none", "idle", "armed"}]
  /\ {timed, ranOut, is_socket_timeout, spurious} \subseteq BOOLEAN
  /\ cpc \in AtRest => cop = "none"
  /\ cpc \in AtRest \/ cop \in Kinds
  /\ cop = "none" \/ cpc \in {"first", "reset", "arm"} => ~timed
  /\ \A k \in Kinds : timer[k] = "armed" => k = cop /\ timed /\ ~ranOut
  /\ cpc = "act" => Unarmed
  /\ cpc = "arm" => ~is_socket_timeout
  /\ timed /\ is_socket_timeout => ranOut
  /\ ranOut => timed
  /\ ~spurious

clocked == <<cpc, cop, timed, timer, is_socket_timeout, ranOut, spurious>>

LEMMA ClockedInit == Init => Clocked
BY DEF Init, ClientInit, Clocked, Kinds, AtRest, Unarmed

LEMMA ClockedStays == Clocked /\ UNCHANGED clocked => Clocked'
BY DEF Clocked, clocked, Unarmed

\* A call that ends with no timer armed leaves things as they should be.
LEMMA ClockedReturn ==
  ASSUME Clocked, Return, Unarmed', UNCHANGED spurious,
         timer' \in [Kinds -> {"none", "idle", "armed"}],
         is_socket_timeout' \in BOOLEAN
  PROVE  Clocked'
BY DEF Clocked, Return, Unarmed, AtRest

LEMMA ClockedStarts ==
  ASSUME Clocked,
         \/ \E n : SendStart(n) \/ RecvStart(n)
         \/ \E t, ev : PollStart(t, ev)
         \/ CloseStart
  PROVE  Clocked'
<1>1. cpc = "idle" /\ cop = "none" /\ ~timed /\ ~ranOut /\ Unarmed
  BY DEF SendStart, RecvStart, PollStart, CloseStart, Clocked, AtRest, Unarmed, Kinds
<1>2. UNCHANGED <<timed, timer, is_socket_timeout, ranOut, spurious>>
  BY DEF SendStart, RecvStart, PollStart, CloseStart, clocks, call
<1>3. CASE UNCHANGED <<cpc, cop>>
  BY <1>2, <1>3, ClockedStays DEF clocked
<1>4. CASE cpc' \in {"act", "reset", "look", "first"} /\ cop' \in Kinds
  BY <1>1, <1>2, <1>4 DEF Clocked, AtRest, Unarmed
<1>5. CASE cpc' = "closing" /\ cop' = cop
  BY <1>1, <1>2, <1>5 DEF Clocked, AtRest, Unarmed
<1> QED BY <1>3, <1>4, <1>5
        DEF SendStart, RecvStart, PollStart, CloseStart, Goto, call, Kinds

LEMMA ClockedOption ==
  ASSUME Clocked, NEW k, SetOption(k)
  PROVE  Clocked'
BY ClockedStays DEF SetOption, clocked, call, clocks

LEMMA ClockedTimer ==
  ASSUME Clocked, NEW k \in Kinds, Expire(k)
  PROVE  Clocked'
<1>1. k = cop /\ timed /\ ~ranOut
  BY DEF Expire, Clocked
<1>2. timer' \in [Kinds -> {"none", "idle", "armed"}] /\ Unarmed'
  BY <1>1 DEF Expire, Clocked, Unarmed
<1>3. ranOut' = TRUE /\ is_socket_timeout' = TRUE
      /\ UNCHANGED <<cpc, cop, timed, spurious>>
  BY <1>1 DEF Expire, call
<1> QED BY <1>1, <1>2, <1>3 DEF Clocked, Unarmed

LEMMA ClockedArm ==
  ASSUME Clocked, ResetFlag \/ Arm
  PROVE  Clocked'
<1>1. CASE ResetFlag
  BY <1>1 DEF ResetFlag, Reset, Goto, Clocked, call, AtRest, Unarmed
<1>2. CASE Arm
  <2>1. cpc = "arm" /\ ~timed /\ ~ranOut /\ Unarmed /\ ~is_socket_timeout
        /\ UNCHANGED <<is_socket_timeout, spurious>>
    BY <1>2 DEF Arm, Clocked, Unarmed
  <2>2. CASE timer' = [timer EXCEPT ![cop] = "armed"] /\ timed' = TRUE
             /\ cpc' \in {"flag", "look"} /\ UNCHANGED <<cop, ranOut>>
    <3>1. \A k \in Kinds : timer'[k] = "armed" => k = cop
      BY <2>1, <2>2 DEF Clocked, Unarmed
    <3>2. cop \in Kinds
      BY <2>1 DEF Clocked, AtRest
    <3> QED BY <2>1, <2>2, <3>1, <3>2 DEF Clocked, AtRest, Kinds
  <2>3. CASE timer' = [timer EXCEPT ![cop] = "idle"] /\ Return
    <3>1. Unarmed' /\ timer' \in [Kinds -> {"none", "idle", "armed"}]
      BY <2>1, <2>3 DEF Clocked, Unarmed
    <3> QED BY <2>1, <2>3, <3>1, ClockedReturn DEF Clocked
  <2> QED BY <1>2, <2>2, <2>3 DEF Arm, Goto
<1> QED BY <1>1, <1>2

\* my_stoptimer leaves no timer armed.
LEMMA StoppedUnarmed ==
  ASSUME Clocked
  PROVE  /\ Stopped \in [Kinds -> {"none", "idle", "armed"}]
         /\ \A k \in Kinds : Stopped[k] # "armed"
BY DEF Stopped, Clocked

LEMMA ClockedFlag ==
  ASSUME Clocked, LookAtFlag
  PROVE  Clocked'
<1>1. CASE is_socket_timeout /\ timer[cop] # "none"
  <2>1. timed => ranOut
    BY <1>1 DEF Clocked
  <2>2. Unarmed' /\ timer' = timer
    BY <2>1 DEF LookAtFlag, Clocked, Unarmed
  <2>3. UNCHANGED spurious /\ Return /\ is_socket_timeout' = FALSE
    BY <1>1, <2>1 DEF LookAtFlag, Clocked
  <2> QED BY <2>2, <2>3, ClockedReturn DEF Clocked
<1>2. CASE ~(is_socket_timeout /\ timer[cop] # "none")
  BY <1>2 DEF LookAtFlag, Goto, call, Clocked, AtRest, Unarmed
<1> QED BY <1>1, <1>2

LEMMA ClockedCheck ==
  ASSUME Clocked, Check
  PROVE  Clocked'
<1>1. CASE Gone
  <2>1. timer' = Stopped /\ Return /\ UNCHANGED <<is_socket_timeout, spurious>>
    BY <1>1 DEF Check
  <2> QED BY <2>1, StoppedUnarmed, ClockedReturn DEF Clocked, Unarmed
<1>2. CASE ~Gone
  <2>1. UNCHANGED <<cop, timed, timer, is_socket_timeout, ranOut, spurious>>
        /\ cpc' \in {"reset", "flag"} /\ (cpc' = "reset" => ~timed)
    BY <1>2 DEF Check, Goto, call
  <2>2. cpc = "check"
    BY DEF Check
  <2> QED BY <2>1, <2>2 DEF Clocked, AtRest, Unarmed
<1> QED BY <1>1, <1>2

LEMMA ClockedStop ==
  ASSUME Clocked, Stop
  PROVE  Clocked'
<1>1. Unarmed' /\ timer' \in [Kinds -> {"none", "idle", "armed"}]
  BY StoppedUnarmed DEF Stop, Clocked, Unarmed
<1>2. UNCHANGED <<is_socket_timeout, spurious>>
  BY DEF Stop
<1>3. CASE Return
  BY <1>1, <1>2, <1>3, ClockedReturn DEF Clocked
<1>4. CASE cpc = "stop" /\ cpc' = "act" /\ UNCHANGED <<cop, timed, ranOut>>
  BY <1>1, <1>2, <1>4 DEF Clocked, AtRest, Unarmed
<1> QED BY <1>3, <1>4 DEF Stop, Goto, call

LEMMA ClockedQueues ==
  ASSUME Clocked,
         SendLook \/ SendPut \/ RecvLook \/ RecvTake \/ PollFirst \/ PollLook
  PROVE  Clocked'
<1>1. UNCHANGED <<timer, is_socket_timeout, spurious>>
  BY DEF SendLook, SendPut, RecvLook, RecvTake, PollFirst, PollLook, clocks
<1>2. CASE Return /\ cpc \in {"act", "first"}
  <2>1. Unarmed'
    BY <1>1, <1>2 DEF Clocked, Unarmed
  <2> QED BY <1>1, <1>2, <2>1, ClockedReturn DEF Clocked
<1>3. CASE cpc = "look" /\ cpc' \in {"check", "stop", "flag"}
           /\ UNCHANGED <<cop, timed, ranOut>>
  BY <1>1, <1>3 DEF Clocked, AtRest, Unarmed
<1>4. CASE UNCHANGED <<cop, timed, ranOut>> /\ cpc = "first" /\ cpc' = "reset"
  BY <1>1, <1>4 DEF Clocked, AtRest, Unarmed
<1> QED BY <1>2, <1>3, <1>4
        DEF SendLook, SendPut, RecvLook, RecvTake, PollFirst, PollLook, Goto, call, clocks

LEMMA ClockedClose ==
  ASSUME Clocked, CloseFinish
  PROVE  Clocked'
BY DEF CloseFinish, Goto, call, Clocked, AtRest, Unarmed

LEMMA ClockedNext == Clocked /\ [Next]_vars => Clocked'
<1> SUFFICES ASSUME Clocked, [Next]_vars PROVE Clocked'
  OBVIOUS
<1>1. CASE \/ UNCHANGED vars \/ TakeNote \/ NotesEnded \/ ServerBegins \/ ServerGoesOn
  BY <1>1, ClockedStays DEF vars, TakeNote, NotesEnded, ServerBegins, ServerGoesOn,
     ServerRest, client, call, clocks, clocked
<1>2. CASE BeginRound \/ ReceiveAnswer \/ Aside \/ LeaveServer
  BY <1>2, ClockedStarts, ClockedOption
     DEF BeginRound, ReceiveAnswer, Aside, LeaveServer
<1>3. CASE HarnessStep
  BY <1>3, ClockedArm, ClockedFlag, ClockedCheck, ClockedStop, ClockedQueues,
     ClockedClose DEF HarnessStep, ClientStep
<1>4. CASE \E k \in Kinds : TimerStep(k)
  BY <1>4, ClockedTimer DEF TimerStep
<1> QED BY <1>1, <1>2, <1>3, <1>4 DEF Next

\* A call of the harness that set its timer reports a timeout only when that
\* timer has gone off.
THEOREM TimeoutsAreReal == Spec => []HarnessTimeoutIsReal
<1>1. Clocked => HarnessTimeoutIsReal
  BY DEF Clocked, HarnessTimeoutIsReal
<1> QED BY ClockedInit, ClockedNext, <1>1, PTL DEF Spec
-----------------------------------------------------------------------------
(* Types, the stream of requests and the answers *)

\* What the bounds of the types rest on.
WritesFit ==
  /\ spc = "room" => writes < MaxWrites
  /\ write_count <= writes /\ (spc = "tell" => write_count < writes)
Tallied == (cop = "send" => sent + size <= MaxSent) /\ WritesFit

\* Until the client has closed and the server has noticed, what the program has
\* been given, what a MSG_WAITALL holds and what is queued are the bytes sent.
Streamed ==
  /\ cpc # "closed" => ~clientWrite
  /\ spc \notin Reading => held = <<>>
  /\ spc \in Reading => Len(held) < len
  /\ \A i \in 1 .. Len(gotten) : gotten[i] = i
  /\ spc \in Reading \/ ~clientWrite =>
       /\ sent = Len(gotten) + Len(held) + Len(request)
       /\ \A i \in 1 .. Len(held) : held[i] = Len(gotten) + i
       /\ \A i \in 1 .. Len(request) : request[i] = Len(gotten) + Len(held) + i

\* The answers queued are those behind the last one received, up to the last
\* write, and no note is of a later write.
Answered ==
  /\ writes = received + Len(response)
  /\ \A i \in 1 .. Len(response) : response[i] = received + i
  /\ \A i \in 1 .. Len(control) : control[i] <= writes
  /\ note <= writes

LEMMA BoundsFacts ==
  /\ RequestCap \in Nat \ {0} /\ ResponseCap \in Nat \ {0} /\ MaxSent \in Nat
  /\ MaxWrites \in Nat /\ MaxAsk \in Nat
<1>1. RequestCap \in Nat \ {0} /\ ResponseCap \in Nat \ {0}
  BY ChannelAssumption, Zenon DEF ChannelAssumption
<1>2. MaxWrites \in Nat /\ MaxAsk \in Nat
  BY ServerAssumption, Zenon DEF ServerAssumption
<1> QED BY <1>1, <1>2, ClientAssumption

LEMMA MinOfTwo ==
  ASSUME NEW a \in Int, NEW b \in Int
  PROVE  Min({a, b}) = IF a <= b THEN a ELSE b
BY DEF Min

LEMMA ConcatItems ==
  ASSUME NEW s \in Seq(Nat), NEW t \in Seq(Nat)
  PROVE  /\ s \o t \in Seq(Nat) /\ Len(s \o t) = Len(s) + Len(t)
         /\ \A i \in 1 .. Len(s) : (s \o t)[i] = s[i]
         /\ \A i \in 1 .. Len(t) : (s \o t)[Len(s) + i] = t[i]
OBVIOUS

\* Taking at most n items takes the first ones, and leaves the others.
LEMMA TakenItems ==
  ASSUME NEW s \in Seq(Nat), NEW n \in Nat
  PROVE  /\ Taken(s, n) \in Seq(Nat) /\ Rest(s, n) \in Seq(Nat)
         /\ Len(Taken(s, n)) = IF n <= Len(s) THEN n ELSE Len(s)
         /\ Len(Rest(s, n)) = Len(s) - Len(Taken(s, n))
         /\ \A i \in 1 .. Len(Taken(s, n)) : Taken(s, n)[i] = s[i]
         /\ \A i \in 1 .. Len(Rest(s, n)) : Rest(s, n)[i] = s[Len(Taken(s, n)) + i]
<1> DEFINE m == IF n <= Len(s) THEN n ELSE Len(s)
<1>1. Len(s) \in Nat /\ m \in Nat /\ m <= Len(s)
  OBVIOUS
<1>2. Taken(s, n) = SubSeq(s, 1, m)
  BY <1>1, MinOfTwo DEF Taken
<1>3. /\ SubSeq(s, 1, m) \in Seq(Nat) /\ Len(SubSeq(s, 1, m)) = m
      /\ \A i \in 1 .. m : SubSeq(s, 1, m)[i] = s[i]
  <2> HIDE DEF m
  <2> QED BY <1>1
<1>4. /\ Rest(s, n) \in Seq(Nat) /\ Len(Rest(s, n)) = Len(s) - m
      /\ \A i \in 1 .. Len(s) - m : Rest(s, n)[i] = s[m + i]
  <2>1. CASE n <= Len(s)
    BY <1>1, <2>1 DEF Rest
  <2>2. CASE n > Len(s)
    <3>1. Rest(s, n) = << >>
      BY <1>1, <2>2, SubSeqEmpty DEF Rest
    <3> QED BY <1>1, <2>2, <3>1
  <2> QED BY <1>1, <2>1, <2>2
<1> HIDE DEF m
<1>5. Len(Taken(s, n)) = m
  BY <1>2, <1>3
<1> QED BY <1>2, <1>3, <1>4, <1>5 DEF m
-----------------------------------------------------------------------------
(* Types *)

\* The type invariant in parts: the numbers and sequences, and the flags.
QueueTypes ==
  /\ request \in Seq(Nat) /\ Len(request) <= RequestCap
  /\ response \in Seq(Nat) /\ Len(response) <= ResponseCap
CallTypes ==
  /\ cpc \in {"idle", "reset", "arm", "look", "check", "flag", "stop", "act",
              "first", "closing", "closed"}
  /\ cop \in Kinds \cup {"none"} /\ limit \in {"zero", "some", "never"}
  /\ events \subseteq {"in", "out"} /\ limited \subseteq {"send", "recv"}
  /\ timer \in [Kinds -> {"none", "idle", "armed"}]
  /\ sent \in 0 .. MaxSent /\ size \in Nat /\ received \in Nat
ServeTypes ==
  /\ server \in Servers
  /\ spc \in {"app", "look", "empty", "take", "room", "tell", "poll", "closed"}
  /\ len \in 0 .. MaxAsk /\ flags \subseteq {"waitall", "dontwait", "read"}
  /\ held \in Seq(Nat) /\ gotten \in Seq(Nat)
  /\ read_count \in 0 .. 3 /\ write_count \in 0 .. MaxWrites
  /\ control \in Seq(0 .. MaxWrites) /\ writes \in 0 .. MaxWrites
RoundTypes == phase \in {"send", "note", "recv"} /\ note \in 0 .. MaxWrites
CloseTypes ==
  /\ clientRead \in BOOLEAN /\ clientWrite \in BOOLEAN
  /\ serverRead \in BOOLEAN /\ serverWrite \in BOOLEAN
ClockTypes ==
  /\ timed \in BOOLEAN /\ is_socket_timeout \in BOOLEAN
  /\ ranOut \in BOOLEAN /\ spurious \in BOOLEAN
ModeTypes ==
  /\ shutdown_read \in BOOLEAN /\ shutdown_write \in BOOLEAN
  /\ nonblocking \in BOOLEAN /\ untold \in BOOLEAN /\ interrupted \in BOOLEAN

LEMMA TypeParts ==
  /\ TypeOK <=> /\ QueueTypes /\ CallTypes /\ ServeTypes /\ RoundTypes
                /\ CloseTypes /\ ClockTypes /\ ModeTypes
  /\ TypeOK' <=> /\ QueueTypes' /\ CallTypes' /\ ServeTypes' /\ RoundTypes'
                 /\ CloseTypes' /\ ClockTypes' /\ ModeTypes'
BY DEF TypeOK, ChannelTypeOK, ClientTypeOK, ServerTypeOK, QueueTypes, CallTypes,
   ServeTypes, RoundTypes, CloseTypes, ClockTypes, ModeTypes

LEMMA TypesInit == Init => TypeOK /\ Tallied
<1> SUFFICES ASSUME Init PROVE TypeOK /\ Tallied
  OBVIOUS
<1>1. QueueTypes
  BY BoundsFacts, EmptySeq DEF Init, ChannelInit, QueueTypes
<1>2. CallTypes
  BY BoundsFacts DEF Init, ClientInit, CallTypes
<1>3. ServeTypes
  BY BoundsFacts, EmptySeq DEF Init, ServerInit, ServeTypes
<1>4. CloseTypes /\ ClockTypes /\ ModeTypes
  BY DEF Init, ChannelInit, ClientInit, ServerInit, CloseTypes, ClockTypes, ModeTypes
<1>5. RoundTypes
  BY BoundsFacts DEF Init, RoundTypes, Malformed
<1>6. Tallied
  BY BoundsFacts DEF Init, ClientInit, ServerInit, Tallied, WritesFit
<1> QED BY <1>1, <1>2, <1>3, <1>4, <1>5, <1>6, TypeParts

\* What a step leaves alone keeps its type.
LEMMA TypesStay ==
  /\ QueueTypes /\ UNCHANGED queues => QueueTypes'
  /\ CloseTypes /\ UNCHANGED <<clientFlags, serverFlags>> => CloseTypes'
  /\ UNCHANGED channel => UNCHANGED queues /\ UNCHANGED <<clientFlags, serverFlags>>
  /\ CallTypes /\ UNCHANGED client => CallTypes'
  /\ ClockTypes /\ UNCHANGED client => ClockTypes'
  /\ ServeTypes /\ UNCHANGED serverState => ServeTypes'
  /\ ModeTypes /\ UNCHANGED serverState => ModeTypes'
<1>1. QueueTypes /\ UNCHANGED queues => QueueTypes'
  BY DEF QueueTypes, queues
<1>2. CloseTypes /\ UNCHANGED <<clientFlags, serverFlags>> => CloseTypes'
  BY DEF CloseTypes, clientFlags, serverFlags
<1>3. UNCHANGED channel => UNCHANGED queues /\ UNCHANGED <<clientFlags, serverFlags>>
  BY DEF channel
<1>4. CallTypes /\ UNCHANGED client => CallTypes'
  BY DEF CallTypes, client, call, clocks, progress
<1>5. ClockTypes /\ UNCHANGED client => ClockTypes'
  BY DEF ClockTypes, client, call, clocks
<1>6. ServeTypes /\ UNCHANGED serverState => ServeTypes'
  BY DEF ServeTypes, serverState, reading, counts
<1>7. ModeTypes /\ UNCHANGED serverState => ModeTypes'
  BY DEF ModeTypes, serverState, modes
<1> QED BY <1>1, <1>2, <1>3, <1>4, <1>5, <1>6, <1>7

\* The flags are set to TRUE and FALSE only.
LEMMA FlagsClient ==
  ASSUME CloseTypes, ClockTypes,
         \/ ClientStep \/ \E k \in Kinds : Expire(k)
         \/ \E n : SendStart(n) \/ RecvStart(n)
         \/ \E t, ev : PollStart(t, ev)
         \/ CloseStart
         \/ \E k : SetOption(k)
  PROVE  CloseTypes' /\ ClockTypes'
<1>1. CloseTypes'
  <2>1. CASE UNCHANGED channel
    BY <2>1, TypesStay
  <2>2. CASE CloseStart
    BY <2>2 DEF CloseStart, CloseTypes, serverFlags
  <2>3. CASE CloseFinish
    BY <2>3 DEF CloseFinish, CloseTypes, serverFlags
  <2>4. CASE UNCHANGED <<clientFlags, serverFlags>>
    BY <2>4, TypesStay
  <2> QED
    BY <2>1, <2>2, <2>3, <2>4
    DEF ClientStep, ResetFlag, Arm, LookAtFlag, Check, Stop, SendLook, SendPut,
        RecvLook, RecvTake, PollFirst, PollLook, Expire, SendStart, RecvStart,
        PollStart, SetOption
<1>2. ClockTypes'
  <2> DEFINE Cleared == timed' = FALSE /\ ranOut' = FALSE
  <2>1. Return => Cleared
    BY DEF Return
  <2>2. UNCHANGED call => UNCHANGED timed
    BY DEF call
  <2>3. UNCHANGED clocks => UNCHANGED <<ranOut, is_socket_timeout>>
    BY DEF clocks
  <2> HIDE DEF Cleared
  <2>4. \/ timed' = TRUE /\ UNCHANGED ranOut
        \/ UNCHANGED <<timed, ranOut>>
        \/ UNCHANGED timed /\ ranOut' \in BOOLEAN
        \/ Cleared
    BY <2>1, <2>2, <2>3
    DEF ClientStep, ResetFlag, Arm, LookAtFlag, Check, Stop, SendLook, SendPut,
        RecvLook, RecvTake, PollFirst, PollLook, Expire, SendStart, RecvStart,
        PollStart, SetOption, CloseStart, CloseFinish
  <2>5. timed' \in BOOLEAN /\ ranOut' \in BOOLEAN
    BY <2>4 DEF ClockTypes, Cleared
  <2>6. \/ UNCHANGED is_socket_timeout
        \/ is_socket_timeout' = TRUE
        \/ is_socket_timeout' = FALSE
    BY <2>3
    DEF ClientStep, ResetFlag, Reset, Arm, LookAtFlag, Check, Stop, SendLook, SendPut,
        RecvLook, RecvTake, PollFirst, PollLook, Expire, SendStart, RecvStart,
        PollStart, SetOption, CloseStart, CloseFinish
  <2>7. UNCHANGED spurious \/ spurious' \in BOOLEAN
    BY DEF ClientStep, ResetFlag, Arm, LookAtFlag, Check, Stop, SendLook, SendPut,
        RecvLook, RecvTake, PollFirst, PollLook, Expire, SendStart, RecvStart,
        PollStart, SetOption, CloseStart, CloseFinish
  <2> QED BY <2>5, <2>6, <2>7 DEF ClockTypes
<1> QED BY <1>1, <1>2

LEMMA FlagsServer ==
  ASSUME CloseTypes, ModeTypes, ServerStep \/ \E calls : ServerCall(calls)
  PROVE  CloseTypes' /\ ModeTypes'
<1> DEFINE Untold == \/ UNCHANGED <<untold, interrupted>>
                     \/ untold' = FALSE /\ UNCHANGED interrupted
                     \/ interrupted' = TRUE /\ UNCHANGED untold
                     \/ untold' \in BOOLEAN /\ UNCHANGED interrupted
<1>1. ModeTypes /\ UNCHANGED modes /\ Untold => ModeTypes'
  <2>1. Untold /\ untold \in BOOLEAN /\ interrupted \in BOOLEAN
          => untold' \in BOOLEAN /\ interrupted' \in BOOLEAN
    OBVIOUS
  <2> HIDE DEF Untold
  <2> QED BY <2>1 DEF ModeTypes, modes
<1>2. /\ \A n : Tell(n) => Untold
      /\ NoNote => Untold
      /\ UNCHANGED <<untold, interrupted>> => Untold
      /\ \A bs : Give(bs) /\ UNCHANGED interrupted => Untold
  BY DEF Tell, NoNote, Give
<1>3. UNCHANGED channel => CloseTypes'
  BY TypesStay
<1>4. UNCHANGED <<clientFlags, serverFlags>> => CloseTypes'
  BY TypesStay
<1> HIDE DEF Untold
<1>5. ASSUME NEW n, NEW f, Recv(n, f) PROVE CloseTypes' /\ ModeTypes'
  BY <1>1, <1>2, <1>3, <1>5 DEF Recv
<1>6. ASSUME NEW n, Read(n) PROVE CloseTypes' /\ ModeTypes'
  BY <1>1, <1>2, <1>3, <1>6 DEF Read
<1>7. CASE Write \/ Poll \/ PollReturn \/ ReadLook
  BY <1>1, <1>2, <1>3, <1>7 DEF Write, Poll, PollReturn, ReadLook
<1>8. CASE SetNonblocking
  <2>1. nonblocking' \in BOOLEAN
    BY <1>8 DEF SetNonblocking
  <2> QED BY <1>3, <1>8, <2>1 DEF SetNonblocking, ModeTypes
<1>9. ASSUME NEW how, Shutdown(how) PROVE CloseTypes' /\ ModeTypes'
  BY <1>9 DEF Shutdown, CloseTypes, ModeTypes, clientFlags
<1>10. CASE ServerClose
  BY <1>1, <1>2, <1>10 DEF ServerClose, CloseTypes, clientFlags
<1>11. CASE ReadEmpty
  BY <1>1, <1>2, <1>3, <1>11 DEF ReadEmpty
<1>12. CASE ReadTake
  BY <1>1, <1>2, <1>4, <1>12 DEF ReadTake
<1>13. CASE WritePut
  BY <1>1, <1>2, <1>4, <1>13 DEF WritePut
<1>14. CASE WriteTell
  BY <1>1, <1>2, <1>3, <1>14 DEF WriteTell
<1> QED BY <1>5, <1>6, <1>7, <1>8, <1>9, <1>10, <1>11, <1>12, <1>13, <1>14
        DEF ServerStep, ServerCall

\* my_send puts what there is room for.
LEMMA PutItems ==
  ASSUME TypeOK, Tallied, SendPut
  PROVE  \E n \in Nat :
           /\ n <= size /\ n <= RequestCap - Len(request) /\ sent' = sent + n
           /\ sent' \in 0 .. MaxSent
           /\ request' \in Seq(Nat) /\ Len(request') = Len(request) + n
           /\ \A i \in 1 .. Len(request) : request'[i] = request[i]
           /\ \A i \in 1 .. n : request'[Len(request) + i] = sent + i
<1> DEFINE room == RequestCap - Len(request)
           n == Min({size, room})
           bs == [i \in 1 .. n |-> sent + i]
<1>1. /\ request \in Seq(Nat) /\ Len(request) \in Nat /\ room \in Nat
      /\ size \in Nat /\ sent \in Nat /\ sent + size <= MaxSent
  BY BoundsFacts DEF TypeOK, ChannelTypeOK, ClientTypeOK, SendPut, Tallied
<1>2. n \in Nat /\ n <= size /\ n <= room
  BY <1>1, MinOfTwo
<1>3. request' = request \o bs /\ sent' = sent + n
  BY DEF SendPut
<1> HIDE DEF n, room
<1>4. bs \in Seq(Nat) /\ Len(bs) = n /\ \A i \in 1 .. n : bs[i] = sent + i
  BY <1>1, <1>2
<1> HIDE DEF bs
<1>5. /\ request' \in Seq(Nat) /\ Len(request') = Len(request) + n
      /\ \A i \in 1 .. Len(request) : request'[i] = request[i]
      /\ \A i \in 1 .. n : request'[Len(request) + i] = sent + i
  BY <1>1, <1>3, <1>4, ConcatItems
<1>6. sent' \in 0 .. MaxSent
  BY <1>1, <1>2, <1>3, BoundsFacts
<1> QED BY <1>2, <1>3, <1>5, <1>6 DEF room

\* my_recv takes some of the answers, the oldest first, and remembers the last.
LEMMA GotItems ==
  ASSUME TypeOK, RecvTake
  PROVE  \E n \in 0 .. Len(response) :
           /\ received' = IF n = 0 THEN received ELSE response[n]
           /\ response' \in Seq(Nat) /\ Len(response') = Len(response) - n
           /\ \A i \in 1 .. Len(response') : response'[i] = response[n + i]
<1> DEFINE got == Taken(response, size)
           n == Len(got)
<1>1. response \in Seq(Nat) /\ size \in Nat
  BY DEF TypeOK, ChannelTypeOK, ClientTypeOK
<1>2. /\ got \in Seq(Nat) /\ n \in Nat /\ n <= Len(response)
      /\ \A i \in 1 .. n : got[i] = response[i]
  BY <1>1, TakenItems
<1>3. /\ received' = IF got = << >> THEN received ELSE Last(got)
      /\ response' = Rest(response, n)
  BY DEF RecvTake
<1> HIDE DEF got
<1>4. received' = IF n = 0 THEN received ELSE response[n]
  BY <1>2, <1>3 DEF Last
<1>5. /\ response' \in Seq(Nat) /\ Len(response') = Len(response) - n
      /\ \A i \in 1 .. Len(response') : response'[i] = response[n + i]
  <2>1. /\ Len(Taken(response, n)) = n /\ Rest(response, n) \in Seq(Nat)
        /\ Len(Rest(response, n)) = Len(response) - Len(Taken(response, n))
        /\ \A i \in 1 .. Len(Rest(response, n)) :
              Rest(response, n)[i] = response[Len(Taken(response, n)) + i]
    <3> HIDE DEF n
    <3> QED BY <1>1, <1>2, TakenItems
  <2> QED BY <1>3, <2>1
<1>6. n \in 0 .. Len(response)
  BY <1>1, <1>2
<1> HIDE DEF n
<1> QED BY <1>4, <1>5, <1>6

\* read and recv take some of the bytes: those they held, and the oldest queued.
LEMMA TookItems ==
  ASSUME TypeOK, NEW n \in Nat
  PROVE  LET bs == held \o Taken(request, n)
         IN \E m \in 0 .. Len(request) :
              /\ bs \in Seq(Nat) /\ Len(bs) = Len(held) + m
              /\ \A i \in 1 .. Len(held) : bs[i] = held[i]
              /\ \A i \in 1 .. m : bs[Len(held) + i] = request[i]
              /\ Rest(request, n) \in Seq(Nat)
              /\ Len(Rest(request, n)) = Len(request) - m
              /\ \A i \in 1 .. Len(request) - m : Rest(request, n)[i] = request[m + i]
<1> DEFINE t == Taken(request, n)
           m == Len(t)
<1>1. request \in Seq(Nat) /\ held \in Seq(Nat)
  BY DEF TypeOK, ChannelTypeOK, ServerTypeOK
<1>2. /\ t \in Seq(Nat) /\ m \in 0 .. Len(request) /\ Rest(request, n) \in Seq(Nat)
      /\ Len(Rest(request, n)) = Len(request) - m
      /\ \A i \in 1 .. m : t[i] = request[i]
      /\ \A i \in 1 .. Len(request) - m : Rest(request, n)[i] = request[m + i]
  BY <1>1, TakenItems
<1> HIDE DEF t
<1>3. /\ held \o t \in Seq(Nat) /\ Len(held \o t) = Len(held) + m
      /\ \A i \in 1 .. Len(held) : (held \o t)[i] = held[i]
      /\ \A i \in 1 .. m : (held \o t)[Len(held) + i] = t[i]
  BY <1>1, <1>2, ConcatItems
<1>4. \A i \in 1 .. m : (held \o t)[Len(held) + i] = request[i]
  BY <1>2, <1>3
<1> HIDE DEF m
<1> QED BY <1>2, <1>3, <1>4 DEF t

\* Return forgets the call.
LEMMA ReturnTypes ==
  ASSUME CallTypes, Return, limited' = limited, sent' \in 0 .. MaxSent,
         received' \in Nat, timer' \in [Kinds -> {"none", "idle", "armed"}]
  PROVE  CallTypes' /\ cop' # "send"
BY DEF CallTypes, Return, Kinds

LEMMA CallStays ==
  ASSUME CallTypes, Tallied, UNCHANGED call, UNCHANGED progress, limited' = limited,
         timer' \in [Kinds -> {"none", "idle", "armed"}],
         cpc' \in {"idle", "reset", "arm", "look", "check", "flag", "stop", "act",
                  "first", "closing", "closed"}
  PROVE  CallTypes' /\ (cop' = "send" => sent' + size' <= MaxSent)
BY DEF CallTypes, Tallied, call, progress

\* The calls of the harness keep the types.
LEMMA CallsStart ==
  ASSUME CallTypes, QueueTypes, Tallied,
         \/ \E n \in 1 .. MaxAsk : SendStart(n) \/ RecvStart(n)
         \/ \E t \in {"zero", "some", "never"}, ev \in {{"in"}, {"out"}} :
               PollStart(t, ev)
         \/ \E k \in {"send", "recv"} : SetOption(k)
         \/ CloseStart
  PROVE  CallTypes' /\ QueueTypes' /\ (cop' = "send" => sent' + size' <= MaxSent)
<1>1. QueueTypes'
  <2>1. UNCHANGED channel \/ UNCHANGED queues
    BY DEF SendStart, RecvStart, PollStart, SetOption, CloseStart
  <2> QED BY <2>1, TypesStay
<1>2. ASSUME NEW n \in 1 .. MaxAsk, SendStart(n)
      PROVE  CallTypes' /\ (cop' = "send" => sent' + size' <= MaxSent)
  <2>1. n \in Nat /\ sent + n <= MaxSent /\ cpc' \in {"act", "reset", "look"}
    BY <1>2, BoundsFacts DEF SendStart, Goto
  <2>2. /\ cop' = "send" /\ size' = n
        /\ UNCHANGED <<limit, events, limited, timer, sent, received>>
    BY <1>2 DEF SendStart, clocks, progress
  <2> QED BY <2>1, <2>2 DEF CallTypes, Kinds
<1>3. ASSUME NEW n \in 1 .. MaxAsk, RecvStart(n)
      PROVE  CallTypes' /\ (cop' = "send" => sent' + size' <= MaxSent)
  <2>1. UNCHANGED <<limit, events, limited, timer, sent, received>>
    BY <1>3 DEF RecvStart, clocks, progress
  <2>2. \/ UNCHANGED <<cpc, cop, size>>
        \/ cpc' = "look" /\ cop' = "recv" /\ size' = n
    BY <1>3 DEF RecvStart, Goto
  <2>3. n \in Nat
    BY BoundsFacts
  <2> QED BY <2>1, <2>2, <2>3 DEF CallTypes, Tallied, Kinds
<1>4. ASSUME NEW t \in {"zero", "some", "never"}, NEW ev \in {{"in"}, {"out"}},
             PollStart(t, ev)
      PROVE  CallTypes' /\ (cop' = "send" => sent' + size' <= MaxSent)
  BY <1>4 DEF PollStart, Goto, clocks, progress, CallTypes, Kinds
<1>5. ASSUME NEW k \in {"send", "recv"}, SetOption(k)
      PROVE  CallTypes' /\ (cop' = "send" => sent' + size' <= MaxSent)
  BY <1>5 DEF SetOption, call, clocks, progress, CallTypes, Tallied
<1>6. CASE CloseStart
  BY <1>1, <1>6, CallStays DEF CloseStart, Goto, clocks, CallTypes
<1> QED BY <1>1, <1>2, <1>3, <1>4, <1>5, <1>6

LEMMA CallsGoOn ==
  ASSUME TypeOK, Tallied, ClientStep \/ \E k \in Kinds : Expire(k)
  PROVE  CallTypes' /\ QueueTypes' /\ (cop' = "send" => sent' + size' <= MaxSent)
<1>1. CallTypes /\ QueueTypes
  BY TypeParts
<1>2. CASE SendPut
  <2>1. PICK n \in Nat :
           /\ n <= RequestCap - Len(request) /\ sent' \in 0 .. MaxSent
           /\ request' \in Seq(Nat) /\ Len(request') = Len(request) + n
    BY <1>2, PutItems
  <2>2. QueueTypes'
    <3>1. Len(request) \in Nat /\ Len(request') <= RequestCap
      BY <1>1, <2>1, BoundsFacts DEF QueueTypes
    <3> QED BY <1>1, <1>2, <2>1, <3>1 DEF SendPut, QueueTypes
  <2> QED BY <1>1, <1>2, <2>1, <2>2, ReturnTypes DEF SendPut, CallTypes
<1>3. CASE RecvTake
  <2>1. PICK n \in 0 .. Len(response) :
           /\ received' = IF n = 0 THEN received ELSE response[n]
           /\ response' \in Seq(Nat) /\ Len(response') = Len(response) - n
    BY <1>3, GotItems
  <2>2. received' \in Nat
    BY <1>1, <2>1 DEF CallTypes, QueueTypes
  <2>3. QueueTypes'
    BY <1>1, <1>3, <2>1, BoundsFacts DEF RecvTake, QueueTypes
  <2> QED BY <1>1, <1>3, <2>2, <2>3, ReturnTypes DEF RecvTake, CallTypes
<1>4. CASE ~SendPut /\ ~RecvTake
  <2>1. QueueTypes'
    <3>1. UNCHANGED channel \/ UNCHANGED queues
      BY <1>4 DEF ClientStep, ResetFlag, Arm, LookAtFlag, Check, Stop, SendLook,
         RecvLook, PollFirst, PollLook, CloseFinish, Expire
    <3> QED BY <1>1, <3>1, TypesStay
  <2>2. timer' \in [Kinds -> {"none", "idle", "armed"}]
    BY <1>1, <1>4 DEF CallTypes, ClientStep, ResetFlag, Arm, LookAtFlag, Check, Stop,
       Stopped, SendLook, RecvLook, PollFirst, PollLook, CloseFinish, Expire, clocks
  <2>3. UNCHANGED progress /\ (limited' = limited \/ CloseFinish)
    BY <1>4 DEF ClientStep, ResetFlag, Arm, LookAtFlag, Check, Stop, SendLook,
       RecvLook, PollFirst, PollLook, CloseFinish, Expire
  <2>4. \/ Return \/ Arm
        \/ /\ UNCHANGED call
           /\ cpc' \in {"idle", "reset", "arm", "look", "check", "flag", "stop", "act",
                        "first", "closing", "closed"}
    BY <1>1, <1>4 DEF ClientStep, ResetFlag, Reset, LookAtFlag, Check, Stop, SendLook,
       RecvLook, PollFirst, PollLook, CloseFinish, Expire, Goto, CallTypes
  <2>5. CASE CloseFinish
    BY <1>1, <2>1, <2>2, <2>5
    DEF CloseFinish, CallTypes, Tallied, call, progress, Goto
  <2>6. CASE Return /\ limited' = limited
    BY <1>1, <2>1, <2>2, <2>3, <2>6, ReturnTypes DEF progress, CallTypes
  <2>7. CASE UNCHANGED call /\ limited' = limited
             /\ cpc' \in {"idle", "reset", "arm", "look", "check", "flag", "stop",
                          "act", "first", "closing", "closed"}
    BY <1>1, <2>1, <2>2, <2>3, <2>7, CallStays
  <2>8. CASE Arm /\ ~Return
    BY <1>1, <2>1, <2>2, <2>3, <2>8 DEF Arm, CallTypes, Tallied, progress, Goto
  <2>9. Arm => limited' = limited
    BY DEF Arm
  <2> QED BY <2>1, <2>3, <2>4, <2>5, <2>6, <2>7, <2>8, <2>9
<1> QED BY <1>2, <1>3, <1>4
-----------------------------------------------------------------------------
LEMMA TellTypes ==
  ASSUME NEW S, control \in Seq(S), NEW n \in S, Tell(n) \/ NoNote
  PROVE  control' \in Seq(S)
BY DEF Tell, NoNote

LEMMA ServeStays ==
  ASSUME ServeTypes, WritesFit, spc' \in {"app", "look", "empty", "take", "poll", "closed"},
         UNCHANGED <<server, reading, counts, control, gotten, writes>>
  PROVE  ServeTypes' /\ WritesFit'
BY DEF ServeTypes, WritesFit, reading, counts

\* The calls of the server keep the types.
LEMMA ServeStarts ==
  ASSUME ServeTypes, QueueTypes, WritesFit, NEW calls, ServerCall(calls)
  PROVE  ServeTypes' /\ QueueTypes' /\ WritesFit'
<1>1. QueueTypes'
  <2>1. UNCHANGED queues
    BY DEF ServerCall, Recv, Read, Write, Poll, SetNonblocking, Shutdown, ServerClose,
       channel
  <2> QED BY <2>1, TypesStay
<1>2. ASSUME NEW n \in 1 .. MaxAsk, NEW f \in SUBSET {"waitall", "dontwait", "read"},
             Enter(n, f), spc = "app"
      PROVE  /\ spc' \in {"app", "look"} /\ len' \in 0 .. MaxAsk
             /\ flags' \subseteq {"waitall", "dontwait", "read"} /\ held' \in Seq(Nat)
  <2>1. \/ UNCHANGED <<spc, len, flags, held>>
        \/ spc' = "look" /\ len' = n /\ flags' = f /\ held' = << >>
    BY <1>2 DEF Enter, reading
  <2>2. n \in 0 .. MaxAsk
    BY BoundsFacts
  <2> QED BY <1>2, <2>1, <2>2, EmptySeq DEF ServeTypes
<1>3. ASSUME NEW n \in 1 .. MaxAsk, NEW f \in SUBSET {"waitall", "dontwait"},
             Recv(n, f)
      PROVE  ServeTypes' /\ WritesFit'
  <2>1. /\ spc' \in {"app", "look"} /\ len' \in 0 .. MaxAsk
        /\ flags' \subseteq {"waitall", "dontwait", "read"} /\ held' \in Seq(Nat)
    BY <1>2, <1>3 DEF Recv
  <2> QED BY <1>3, <2>1 DEF Recv, ServeTypes, WritesFit, counts
<1>4. ASSUME NEW n \in 1 .. MaxAsk, Read(n)
      PROVE  ServeTypes' /\ WritesFit'
  <2>1. Enter(n, {"read"}) /\ spc = "app"
    BY <1>4 DEF Read
  <2>2. /\ spc' \in {"app", "look"} /\ len' \in 0 .. MaxAsk
        /\ flags' \subseteq {"waitall", "dontwait", "read"} /\ held' \in Seq(Nat)
    BY <1>2, <2>1
  <2>3. read_count' \in 0 .. 3
    BY <1>4 DEF Read, Suspicious, ServeTypes
  <2>4. write_count' \in {0, write_count} /\ UNCHANGED <<server, gotten, writes>>
    BY <1>4 DEF Read, NewTurn
  <2>5. control' \in Seq(0 .. MaxWrites)
    <3>1. Tell(Malformed) \/ NoNote
      BY <1>4 DEF Read
    <3> QED BY <3>1, TellTypes, BoundsFacts DEF ServeTypes, Malformed
  <2> QED BY <2>2, <2>3, <2>4, <2>5, BoundsFacts DEF ServeTypes, WritesFit
<1>5. CASE Write
  BY <1>1, <1>5 DEF Write, ServeTypes, WritesFit, reading, counts
<1>6. CASE Poll
  <2>1. control' \in Seq(0 .. MaxWrites)
    <3>1. Tell(Malformed) \/ NoNote
      BY <1>6 DEF Poll
    <3> QED BY <3>1, TellTypes, BoundsFacts DEF ServeTypes, Malformed
  <2>2. /\ read_count' \in {0, read_count} /\ write_count' = 0 /\ spc' = "poll"
        /\ UNCHANGED <<server, len, flags, held, gotten, writes>>
    BY <1>6 DEF Poll, reading
  <2> QED BY <1>1, <2>1, <2>2, BoundsFacts DEF ServeTypes, WritesFit
<1>7. CASE SetNonblocking \/ \E how : Shutdown(how)
  BY <1>1, <1>7, ServeStays DEF SetNonblocking, Shutdown
<1>8. CASE ServerClose
  BY <1>1, <1>8, BoundsFacts DEF ServerClose, ServeTypes, WritesFit, reading
<1> QED BY <1>1, <1>3, <1>4, <1>5, <1>6, <1>7, <1>8 DEF ServerCall

LEMMA ServeGoesOn ==
  ASSUME TypeOK, WritesFit, spc \in Reading => Len(held) < len, ServerStep
  PROVE  ServeTypes' /\ QueueTypes' /\ WritesFit'
<1>1. ServeTypes /\ QueueTypes
  BY TypeParts
<1>2. UNCHANGED channel => QueueTypes'
  BY <1>1, TypesStay
<1>3. CASE ReadLook \/ PollReturn
  BY <1>1, <1>2, <1>3, ServeStays DEF ReadLook, PollReturn
<1>4. ASSUME NEW bs \in Seq(Nat), Give(bs), UNCHANGED <<server, counts, control, writes>>
      PROVE  ServeTypes' /\ WritesFit'
  <2>1. gotten' \in Seq(Nat) /\ held' \in Seq(Nat)
    BY <1>1, <1>4, ConcatItems, EmptySeq DEF Give, ServeTypes
  <2>2. /\ spc' = "app" /\ len' = 0 /\ flags' = {}
        /\ UNCHANGED <<server, read_count, write_count, control, writes>>
    BY <1>4 DEF Give, counts
  <2> QED BY <1>1, <2>1, <2>2, BoundsFacts DEF ServeTypes, WritesFit
<1>5. CASE ReadEmpty
  <2>1. QueueTypes' /\ UNCHANGED <<server, counts, control, writes>>
    BY <1>2, <1>5 DEF ReadEmpty
  <2>2. CASE Give(<< >>)
    BY <1>4, <2>1, <2>2, EmptySeq
  <2>3. CASE spc' = "look" /\ UNCHANGED <<reading, gotten>>
    BY <1>1, <2>1, <2>3, ServeStays
  <2> QED BY <1>5, <2>2, <2>3 DEF ReadEmpty
<1>6. CASE ReadTake
  <2> DEFINE n == len - Len(held)
             bs == held \o Taken(request, n)
  <2>1. spc \in Reading
    BY <1>6 DEF ReadTake, Reading
  <2>2. n \in Nat
    BY <1>1, <2>1, BoundsFacts DEF ServeTypes
  <2>3. /\ request' = Rest(request, n) /\ UNCHANGED <<server, counts, control, writes>>
        /\ response' = response
        /\ \/ spc' = "look" /\ held' = bs /\ UNCHANGED <<len, flags, gotten>>
           \/ Give(bs)
    BY <1>6 DEF ReadTake
  <2> HIDE DEF n
  <2>4. PICK m \in 0 .. Len(request) :
          /\ bs \in Seq(Nat) /\ Rest(request, n) \in Seq(Nat)
          /\ Len(Rest(request, n)) = Len(request) - m
    BY <2>2, TookItems
  <2>5. QueueTypes'
    <3>1. Len(request) \in Nat /\ Len(request) <= RequestCap
      BY <1>1 DEF QueueTypes
    <3>2. Len(request') <= RequestCap
      BY <2>3, <2>4, <3>1, BoundsFacts
    <3> QED BY <1>1, <2>3, <2>4, <3>2 DEF QueueTypes
  <2> HIDE DEF bs
  <2>6. CASE Give(bs)
    BY <1>4, <2>3, <2>4, <2>5, <2>6
  <2>7. CASE spc' = "look" /\ held' = bs /\ UNCHANGED <<len, flags, gotten>>
    BY <1>1, <2>3, <2>4, <2>5, <2>7 DEF ServeTypes, WritesFit, counts
  <2> QED BY <2>3, <2>6, <2>7
<1>7. CASE WritePut
  <2>1. writes' = writes + 1 /\ writes' \in 0 .. MaxWrites
    BY <1>1, <1>7, BoundsFacts DEF WritePut, WritesFit, ServeTypes
  <2>2. QueueTypes'
    <3>1. Len(response) # ResponseCap /\ response' = Append(response, writes + 1)
      BY <1>7 DEF WritePut, ResponseRoom, ResponseFull
    <3>2. response' \in Seq(Nat) /\ Len(response') = Len(response) + 1
      BY <1>1, <2>1, <3>1 DEF QueueTypes
    <3>3. Len(response') <= ResponseCap
      BY <1>1, <3>1, <3>2, BoundsFacts DEF QueueTypes
    <3> QED BY <1>1, <1>7, <3>2, <3>3 DEF WritePut, QueueTypes
  <2>3. /\ spc' = "tell" /\ UNCHANGED <<server, len, flags, held, gotten, read_count,
                                      write_count, control>>
    BY <1>7 DEF WritePut, reading, counts
  <2> QED BY <1>1, <2>1, <2>2, <2>3 DEF ServeTypes, WritesFit
<1>8. CASE WriteTell
  <2>1. QueueTypes'
    BY <1>2, <1>8 DEF WriteTell
  <2>2. control' \in Seq(0 .. MaxWrites)
    BY <1>1, <1>8, TellTypes DEF WriteTell, ServeTypes
  <2>3. /\ spc = "tell" /\ spc' = "app" /\ read_count' = 0
        /\ write_count' \in {write_count, write_count + 1}
        /\ UNCHANGED <<server, len, flags, held, gotten, writes>>
    BY <1>8 DEF WriteTell, reading
  <2>4. write_count \in Nat /\ writes \in 0 .. MaxWrites /\ write_count < writes
    BY <1>1, <2>3 DEF ServeTypes, WritesFit
  <2>5. write_count' \in 0 .. MaxWrites /\ write_count' <= writes'
    BY <2>3, <2>4, BoundsFacts
  <2> QED BY <1>1, <2>1, <2>2, <2>3, <2>5 DEF ServeTypes, WritesFit
<1> QED BY <1>3, <1>5, <1>6, <1>7, <1>8 DEF ServerStep
-----------------------------------------------------------------------------
(* The stream of requests *)

LEMMA StreamedInit == Init => Streamed
<1> SUFFICES ASSUME Init PROVE Streamed
  OBVIOUS
<1>1. /\ request = << >> /\ held = << >> /\ gotten = << >> /\ sent = 0
      /\ spc = "app" /\ ~clientWrite
  BY DEF Init, ChannelInit, ClientInit, ServerInit
<1> QED BY <1>1, EmptySeq DEF Streamed, Reading

LEMMA StreamedStays ==
  ASSUME Streamed, UNCHANGED <<request, clientWrite, sent, len, held, gotten>>,
         cpc' # "closed" => cpc # "closed",
         spc' \in Reading <=> spc \in Reading
  PROVE  Streamed'
BY DEF Streamed

LEMMA StreamedClient ==
  ASSUME TypeOK, Tallied, Streamed, UNCHANGED <<spc, len, held, gotten>>,
         \/ ClientStep \/ \E k \in Kinds : Expire(k)
         \/ \E n : SendStart(n) \/ RecvStart(n)
         \/ \E t, ev : PollStart(t, ev)
         \/ CloseStart
         \/ \E k : SetOption(k)
  PROVE  Streamed'
<1>1. cpc # "closed" \/ \E k \in Kinds : Expire(k)
  BY DEF ClientStep, ResetFlag, Arm, LookAtFlag, Check, Stop, SendLook, SendPut,
     RecvLook, RecvTake, PollFirst, PollLook, CloseFinish, SendStart, RecvStart,
     PollStart, SetOption, CloseStart
<1>2. CASE SendPut
  <2>1. PICK n \in Nat :
           /\ sent' = sent + n /\ Len(request') = Len(request) + n
           /\ \A i \in 1 .. Len(request) : request'[i] = request[i]
           /\ \A i \in 1 .. n : request'[Len(request) + i] = sent + i
    BY <1>2, PutItems
  <2>2. ~clientWrite /\ UNCHANGED clientWrite
    BY <1>2 DEF SendPut, Streamed, clientFlags
  <2>3. /\ sent = Len(gotten) + Len(held) + Len(request)
        /\ \A i \in 1 .. Len(request) : request[i] = Len(gotten) + Len(held) + i
    BY <2>2 DEF Streamed
  <2>4. Len(request) \in Nat /\ Len(gotten) \in Nat /\ Len(held) \in Nat
    BY DEF TypeOK, ChannelTypeOK, ServerTypeOK
  <2>5. \A i \in 1 .. Len(request') : request'[i] = Len(gotten) + Len(held) + i
    <3> SUFFICES ASSUME NEW i \in 1 .. Len(request')
                 PROVE  request'[i] = Len(gotten) + Len(held) + i
      OBVIOUS
    <3>1. CASE i <= Len(request)
      <4>1. i \in 1 .. Len(request)
        BY <2>4, <3>1
      <4>2. request'[i] = request[i] /\ request[i] = Len(gotten) + Len(held) + i
        BY <2>1, <2>3, <4>1
      <4> QED BY <4>2
    <3>2. CASE i > Len(request)
      <4>1. i - Len(request) \in 1 .. n
        BY <2>1, <2>4, <3>2
      <4>2. request'[Len(request) + (i - Len(request))] = sent + (i - Len(request))
        BY <2>1, <4>1
      <4> QED BY <2>3, <2>4, <4>1, <4>2
    <3> QED BY <2>4, <3>1, <3>2
  <2>6. sent' = Len(gotten) + Len(held) + Len(request')
    BY <2>1, <2>3, <2>4
  <2> QED BY <2>2, <2>5, <2>6 DEF Streamed
<1>3. CASE CloseFinish
  <2>1. UNCHANGED <<request, sent>> /\ clientWrite' = TRUE /\ cpc' = "closed"
    BY <1>3 DEF CloseFinish, queues, progress, Goto
  <2> QED BY <2>1 DEF Streamed
<1>4. CASE ~SendPut /\ ~CloseFinish
  <2>1. UNCHANGED <<request, sent>>
    BY <1>4 DEF ClientStep, ResetFlag, Arm, LookAtFlag, Check, Stop, SendLook,
       RecvLook, RecvTake, PollFirst, PollLook, SendStart, RecvStart, PollStart,
       SetOption, CloseStart, Expire, channel, queues, progress
  <2>2. UNCHANGED clientWrite
    BY <1>4 DEF ClientStep, ResetFlag, Arm, LookAtFlag, Check, Stop, SendLook,
       RecvLook, RecvTake, PollFirst, PollLook, SendStart, RecvStart, PollStart,
       SetOption, CloseStart, Expire, channel, clientFlags
  <2>3. (\E k \in Kinds : Expire(k)) => cpc' = cpc
    BY DEF Expire
  <2> QED BY <1>1, <2>1, <2>2, <2>3, StreamedStays
<1> QED BY <1>2, <1>3, <1>4

\* A call begins to read.
LEMMA StreamedEnter ==
  ASSUME TypeOK, Streamed, spc = "app", ~clientWrite, NEW n \in 1 .. MaxAsk, NEW f,
         Enter(n, f), UNCHANGED <<request, clientWrite, sent, gotten, cpc>>
  PROVE  Streamed'
<1>1. CASE UNCHANGED <<spc, reading>>
  BY <1>1, StreamedStays DEF reading
<1>2. CASE spc' = "look" /\ len' = n /\ flags' = f /\ held' = <<>>
  <2>1. held = << >>
    BY DEF Streamed, Reading
  <2>2. len' >= 1 /\ Len(held') = 0
    BY <1>2, EmptySeq, BoundsFacts
  <2> QED BY <1>2, <2>1, <2>2 DEF Streamed, Reading
<1> QED BY <1>1, <1>2 DEF Enter

LEMMA StreamedTake ==
  ASSUME TypeOK, Streamed, ReadTake, UNCHANGED client
  PROVE  Streamed'
<1> DEFINE n == len - Len(held)
           bs == held \o Taken(request, n)
<1>1. /\ spc \in Reading /\ Len(held) \in Nat /\ Len(gotten) \in Nat
      /\ Len(request) \in Nat /\ gotten \in Seq(Nat) /\ held \in Seq(Nat) /\ len \in Nat
  BY BoundsFacts DEF ReadTake, Reading, TypeOK, ServerTypeOK, ChannelTypeOK
<1>2. /\ sent = Len(gotten) + Len(held) + Len(request) /\ Len(held) < len
      /\ \A i \in 1 .. Len(gotten) : gotten[i] = i
      /\ \A i \in 1 .. Len(held) : held[i] = Len(gotten) + i
      /\ \A i \in 1 .. Len(request) : request[i] = Len(gotten) + Len(held) + i
  BY <1>1 DEF Streamed
<1>3. n \in Nat
  BY <1>1, <1>2
<1>4. /\ request' = Rest(request, n)
      /\ \/ /\ spc' = "look" /\ held' = bs /\ UNCHANGED <<len, gotten>>
            /\ Len(bs) < len
         \/ Give(bs)
  BY DEF ReadTake
<1>5. UNCHANGED <<sent, cpc>>
  BY DEF client, progress
<1>6. UNCHANGED clientWrite
  BY DEF ReadTake, clientFlags
<1> HIDE DEF n
<1>7. PICK m \in 0 .. Len(request) :
        /\ bs \in Seq(Nat) /\ Len(bs) = Len(held) + m
        /\ \A i \in 1 .. Len(held) : bs[i] = held[i]
        /\ \A i \in 1 .. m : bs[Len(held) + i] = request[i]
        /\ Rest(request, n) \in Seq(Nat)
        /\ Len(Rest(request, n)) = Len(request) - m
        /\ \A i \in 1 .. Len(request) - m : Rest(request, n)[i] = request[m + i]
  BY <1>3, TookItems
<1> HIDE DEF bs
<1>8. \A i \in 1 .. Len(bs) : bs[i] = Len(gotten) + i
  <2> SUFFICES ASSUME NEW i \in 1 .. Len(bs) PROVE bs[i] = Len(gotten) + i
    OBVIOUS
  <2>1. CASE i <= Len(held)
    BY <1>1, <1>2, <1>7, <2>1
  <2>2. CASE i > Len(held)
    <3>1. i - Len(held) \in 1 .. m
      BY <1>1, <1>7, <2>2
    <3>2. bs[Len(held) + (i - Len(held))] = request[i - Len(held)]
      BY <1>7, <3>1
    <3>3. i - Len(held) \in 1 .. Len(request)
      BY <1>1, <1>7, <3>1
    <3>4. request[i - Len(held)] = Len(gotten) + Len(held) + (i - Len(held))
      BY <1>2, <3>3
    <3> QED BY <1>1, <3>1, <3>2, <3>4
  <2> QED BY <1>1, <2>1, <2>2
<1>9. \A i \in 1 .. Len(request') : request'[i] = Len(gotten) + Len(bs) + i
  <2> SUFFICES ASSUME NEW i \in 1 .. Len(request')
               PROVE  request'[i] = Len(gotten) + Len(bs) + i
    OBVIOUS
  <2>1. i \in 1 .. Len(request) - m /\ m + i \in 1 .. Len(request)
    BY <1>1, <1>4, <1>7
  <2>2. request'[i] = request[m + i]
    BY <1>4, <1>7, <2>1
  <2>3. request[m + i] = Len(gotten) + Len(held) + (m + i)
    BY <1>2, <2>1
  <2> QED BY <1>1, <1>7, <2>1, <2>2, <2>3
<1>10. sent = Len(gotten) + Len(bs) + Len(request')
  BY <1>1, <1>2, <1>4, <1>7
<1>11. CASE spc' = "look" /\ held' = bs /\ UNCHANGED <<len, gotten>> /\ Len(bs) < len
  BY <1>2, <1>5, <1>6, <1>8, <1>9, <1>10, <1>11 DEF Streamed, Reading
<1>12. CASE Give(bs)
  <2>1. /\ gotten' = gotten \o bs /\ spc' = "app" /\ held' = << >>
    BY <1>12 DEF Give
  <2>2. /\ Len(gotten') = Len(gotten) + Len(bs)
        /\ \A i \in 1 .. Len(gotten) : gotten'[i] = gotten[i]
        /\ \A i \in 1 .. Len(bs) : gotten'[Len(gotten) + i] = bs[i]
    BY <1>1, <1>7, <2>1, ConcatItems
  <2>3. Len(bs) \in Nat
    BY <1>7
  <2>4. \A i \in 1 .. Len(gotten') : gotten'[i] = i
    <3> SUFFICES ASSUME NEW i \in 1 .. Len(gotten') PROVE gotten'[i] = i
      OBVIOUS
    <3>1. CASE i <= Len(gotten)
      <4>1. i \in 1 .. Len(gotten)
        BY <1>1, <3>1
      <4>2. gotten'[i] = gotten[i] /\ gotten[i] = i
        BY <1>2, <2>2, <4>1
      <4> QED BY <4>2
    <3>2. CASE i > Len(gotten)
      <4>1. i - Len(gotten) \in 1 .. Len(bs)
        BY <1>1, <2>2, <2>3, <3>2
      <4>2. gotten'[Len(gotten) + (i - Len(gotten))] = bs[i - Len(gotten)]
        BY <2>2, <4>1
      <4>3. bs[i - Len(gotten)] = Len(gotten) + (i - Len(gotten))
        BY <1>8, <4>1
      <4> QED BY <1>1, <4>1, <4>2, <4>3
    <3> QED BY <1>1, <3>1, <3>2
  <2>5. Len(held') = 0
    BY <2>1, EmptySeq
  <2>6. \A i \in 1 .. Len(request') : request'[i] = Len(gotten') + Len(held') + i
    BY <1>1, <1>9, <2>2, <2>3, <2>5
  <2>7. sent' = Len(gotten') + Len(held') + Len(request')
    BY <1>1, <1>5, <1>10, <2>2, <2>3, <2>5
  <2> QED BY <1>5, <1>6, <2>1, <2>4, <2>5, <2>6, <2>7, <1>2 DEF Streamed, Reading
<1> QED BY <1>4, <1>11, <1>12

LEMMA StreamedServer ==
  ASSUME TypeOK, Streamed, UNCHANGED client, ServerStep \/ \E calls : ServerCall(calls)
  PROVE  Streamed'
<1>1. UNCHANGED <<sent, cpc>>
  BY DEF client, progress
<1>2. UNCHANGED channel => UNCHANGED <<request, clientWrite>>
  BY DEF channel, queues, clientFlags
<1>3. UNCHANGED reading => UNCHANGED <<len, held>>
  BY DEF reading
<1>4. ASSUME NEW n \in 1 .. MaxAsk, NEW f, Recv(n, f) PROVE Streamed'
  <2>1. UNCHANGED <<request, clientWrite, gotten>> /\ Enter(n, f)
    BY <1>2, <1>4 DEF Recv
  <2>2. spc = "app" /\ ~clientWrite
    BY <1>4 DEF Recv, Ended
  <2> QED BY <1>1, <2>1, <2>2, StreamedEnter
<1>5. ASSUME NEW n \in 1 .. MaxAsk, Read(n) PROVE Streamed'
  <2>1. UNCHANGED <<request, clientWrite, gotten>> /\ Enter(n, {"read"})
    BY <1>2, <1>5 DEF Read
  <2>2. spc = "app" /\ ~clientWrite
    BY <1>5 DEF Read, Ended
  <2> QED BY <1>1, <2>1, <2>2, StreamedEnter
<1>6. CASE Write \/ WriteTell \/ Poll \/ PollReturn \/ SetNonblocking
  BY <1>1, <1>2, <1>3, <1>6, StreamedStays
  DEF Write, WriteTell, Poll, PollReturn, SetNonblocking, Reading
<1>7. CASE WritePut \/ ServerClose \/ \E how : Shutdown(how)
  BY <1>1, <1>3, <1>7, StreamedStays
  DEF WritePut, ServerClose, Shutdown, Reading, queues, clientFlags
<1>8. CASE ReadLook
  BY <1>1, <1>2, <1>3, <1>8, StreamedStays DEF ReadLook, Reading
<1>9. CASE ReadEmpty
  <2>1. CASE ~clientWrite
    BY <1>1, <1>2, <1>3, <1>9, <2>1, StreamedStays DEF ReadEmpty, Reading
  <2>2. CASE clientWrite
    <3>1. /\ gotten' = gotten \o << >> /\ spc' = "app" /\ held' = << >>
          /\ UNCHANGED clientWrite
      BY <1>2, <1>9, <2>2 DEF ReadEmpty, Give
    <3>2. gotten \in Seq(Nat)
      BY DEF TypeOK, ServerTypeOK
    <3>3. gotten' = gotten
      BY <3>1, <3>2
    <3> QED BY <1>1, <2>2, <3>1, <3>3 DEF Streamed, Reading
  <2> QED BY <2>1, <2>2
<1>10. CASE ReadTake
  BY <1>10, StreamedTake
<1> QED BY <1>4, <1>5, <1>6, <1>7, <1>8, <1>9, <1>10 DEF ServerStep, ServerCall
-----------------------------------------------------------------------------
(* The answers and the notes *)

LEMMA AnsweredInit == Init => Answered
<1> SUFFICES ASSUME Init PROVE Answered
  OBVIOUS
<1>1. /\ writes = 0 /\ received = 0 /\ response = << >> /\ control = << >>
      /\ note = 0
  BY DEF Init, ChannelInit, ClientInit, ServerInit, Malformed
<1> QED BY <1>1, EmptySeq DEF Answered

\* my_recv moves answers from the queue to the harness; its other calls do not.
LEMMA AnsweredClient ==
  ASSUME TypeOK, Answered, UNCHANGED <<writes, control, note>>,
         \/ ClientStep \/ \E k \in Kinds : Expire(k)
         \/ \E n : SendStart(n) \/ RecvStart(n)
         \/ \E t, ev : PollStart(t, ev)
         \/ CloseStart
         \/ \E k : SetOption(k)
  PROVE  Answered'
<1>1. CASE RecvTake
  <2>1. PICK n \in 0 .. Len(response) :
           /\ received' = IF n = 0 THEN received ELSE response[n]
           /\ response' \in Seq(Nat) /\ Len(response') = Len(response) - n
           /\ \A i \in 1 .. Len(response') : response'[i] = response[n + i]
    BY <1>1, GotItems
  <2>2. received \in Nat /\ Len(response) \in Nat
    BY DEF TypeOK, ClientTypeOK, ChannelTypeOK
  <2>3. n \in Nat /\ Len(response) - n \in Nat
    BY <2>2
  <2>4. received' = received + n
    BY <2>1, <2>2 DEF Answered
  <2>5. writes' = received' + Len(response')
    <3>1. writes' = received + Len(response) /\ Len(response') = Len(response) - n
      BY <2>1 DEF Answered
    <3> QED BY <2>2, <2>4, <2>3, <3>1
  <2>6. ASSUME NEW i \in 1 .. Len(response') PROVE response'[i] = received' + i
    <3>1. n + i \in 1 .. Len(response) /\ i \in Nat
      BY <2>1, <2>2
    <3>2. response'[i] = response[n + i] /\ response[n + i] = received + (n + i)
      BY <2>1, <3>1 DEF Answered
    <3> QED BY <2>2, <2>4, <2>3, <3>1, <3>2
  <2> QED BY <2>5, <2>6 DEF Answered
<1>2. CASE ~RecvTake
  <2>1. UNCHANGED <<response, received>>
    BY <1>2 DEF ClientStep, ResetFlag, Arm, LookAtFlag, Check, Stop, SendLook, SendPut,
       RecvLook, PollFirst, PollLook, CloseFinish, SendStart, RecvStart, PollStart,
       SetOption, CloseStart, Expire, channel, queues, progress
  <2> QED BY <2>1 DEF Answered
<1> QED BY <1>1, <1>2

\* A note is put behind the others, or given up.
LEMMA ToldItems ==
  ASSUME NEW S, control \in Seq(S), NEW n \in S, Tell(n) \/ NoNote,
         NEW P, \A i \in 1 .. Len(control) : control[i] \in P, n \in P
  PROVE  \A i \in 1 .. Len(control') : control'[i] \in P
<1>1. CASE control' = control
  BY <1>1
<1>2. CASE control' = Append(control, n)
  BY <1>2
<1> QED BY <1>1, <1>2 DEF Tell, NoNote

LEMMA AnsweredTold ==
  ASSUME TypeOK, Answered, NEW n \in 0 .. MaxWrites, n <= writes, Tell(n) \/ NoNote,
         UNCHANGED <<writes, received, response, note>>
  PROVE  Answered'
<1> DEFINE Past == {i \in 0 .. MaxWrites : i <= writes}
<1>1. control \in Seq(0 .. MaxWrites)
  BY DEF TypeOK, ServerTypeOK
<1>2. ASSUME NEW i \in 1 .. Len(control) PROVE control[i] \in Past
  <2>1. control[i] <= writes
    BY DEF Answered
  <2>2. control[i] \in 0 .. MaxWrites
    <3> DEFINE S == 0 .. MaxWrites
    <3>1. control \in Seq(S)
      BY <1>1
    <3> HIDE DEF S
    <3>2. control[i] \in S
      BY <3>1
    <3> QED BY <3>2 DEF S
  <2> QED BY <2>1, <2>2
<1>3. \A i \in 1 .. Len(control') : control'[i] \in Past
  <2>1. n \in Past
    OBVIOUS
  <2> HIDE DEF Past
  <2> QED BY <1>1, <1>2, <2>1, ToldItems
<1> QED BY <1>3 DEF Answered

LEMMA AnsweredServer ==
  ASSUME TypeOK, Answered, UNCHANGED <<client, note>>,
         ServerStep \/ \E calls : ServerCall(calls)
  PROVE  Answered'
<1>1. UNCHANGED received
  BY DEF client, progress
<1>2. /\ writes \in 0 .. MaxWrites /\ MaxWrites \in Nat /\ received \in Nat
      /\ response \in Seq(Nat)
  BY BoundsFacts DEF TypeOK, ServerTypeOK, ClientTypeOK, ChannelTypeOK
<1>3. UNCHANGED channel => UNCHANGED response
  BY DEF channel, queues
<1>4. ASSUME NEW m, Tell(m) \/ NoNote, m \in {Malformed, writes},
             UNCHANGED <<writes, response>>
      PROVE  Answered'
  <2>1. m \in 0 .. MaxWrites /\ m <= writes
    BY <1>2, <1>4 DEF Malformed
  <2> QED BY <1>1, <1>4, <2>1, AnsweredTold
<1>5. CASE (\E n : Read(n)) \/ Poll
  BY <1>3, <1>4, <1>5 DEF Read, Poll
<1>6. CASE WriteTell
  BY <1>3, <1>4, <1>6 DEF WriteTell
<1>7. CASE WritePut
  <2>1. /\ writes' = writes + 1 /\ response' = Append(response, writes + 1)
        /\ UNCHANGED control
    BY <1>7 DEF WritePut, ResponseRoom, ResponseFull
  <2>2. /\ writes = received + Len(response)
        /\ \A i \in 1 .. Len(response) : response[i] = received + i
    BY DEF Answered
  <2>3. Len(response') = Len(response) + 1 /\ writes' = received + Len(response')
    BY <1>2, <2>1, <2>2
  <2>4. \A i \in 1 .. Len(response') : response'[i] = received + i
    BY <1>2, <2>1, <2>2, <2>3
  <2>5. \A i \in 1 .. Len(control) : control[i] <= writes'
    <3>1. control \in Seq(0 .. MaxWrites)
      BY DEF TypeOK, ServerTypeOK
    <3> QED BY <1>2, <2>1, <3>1 DEF Answered
  <2>6. note <= writes'
    BY <1>2, <2>1 DEF Answered, TypeOK
  <2> QED BY <1>1, <2>1, <2>3, <2>4, <2>5, <2>6 DEF Answered
<1>8. CASE UNCHANGED <<writes, control, response>>
  BY <1>1, <1>8 DEF Answered
<1>9. \/ (\E n : Read(n)) \/ Poll \/ WriteTell \/ WritePut
      \/ UNCHANGED <<writes, control, response>>
  BY <1>3 DEF ServerStep, ServerCall, Recv, Write, SetNonblocking, Shutdown, ServerClose,
     ReadLook, ReadEmpty, ReadTake, PollReturn, queues
<1> QED BY <1>5, <1>6, <1>7, <1>8, <1>9

\* The oldest note is taken.
LEMMA AnsweredTaken ==
  ASSUME TypeOK, Answered, TakeNote
  PROVE  Answered' /\ note' \in 0 .. MaxWrites /\ control' \in Seq(0 .. MaxWrites)
<1>1. /\ control \in Seq(0 .. MaxWrites) /\ control # << >>
      /\ note' = Head(control) /\ control' = Tail(control)
  BY DEF TakeNote, TypeOK, ServerTypeOK
<1>2. UNCHANGED <<writes, received, response>>
  BY DEF TakeNote, channel, queues, client, progress
<1>3. 1 \in 1 .. Len(control) /\ Head(control) = control[1]
  BY <1>1
<1>4. \A i \in 1 .. Len(control') : i + 1 \in 1 .. Len(control) /\ control'[i] = control[i + 1]
  BY <1>1
<1>5. note' <= writes /\ \A i \in 1 .. Len(control') : control'[i] <= writes
  BY <1>1, <1>3, <1>4 DEF Answered
<1>6. note' \in 0 .. MaxWrites /\ control' \in Seq(0 .. MaxWrites)
  <2> DEFINE S == 0 .. MaxWrites
  <2>1. control \in Seq(S)
    BY <1>1
  <2> HIDE DEF S
  <2>2. control[1] \in S /\ Tail(control) \in Seq(S)
    BY <1>1, <1>3, <2>1
  <2> QED BY <1>1, <1>3, <2>2 DEF S
<1> QED BY <1>2, <1>5, <1>6 DEF Answered
-----------------------------------------------------------------------------
(* The steps of a session *)

\* The inductive invariant.
Rounds == TypeOK /\ Tallied /\ Streamed /\ Answered

LEMMA RoundsInit == Init => Rounds
BY TypesInit, StreamedInit, AnsweredInit DEF Rounds

LEMMA RoundsHarness ==
  ASSUME Rounds, UNCHANGED <<serverState, note>>, phase' \in {"send", "note", "recv"},
         \/ \E n \in 1 .. MaxAsk : SendStart(n) \/ RecvStart(n)
         \/ \E t \in {"zero", "some", "never"}, ev \in {{"in"}, {"out"}} :
              PollStart(t, ev)
         \/ \E k \in {"send", "recv"} : SetOption(k)
         \/ CloseStart \/ ClientStep \/ \E k \in Kinds : Expire(k)
  PROVE  Rounds'
<1>1. /\ TypeOK /\ Tallied /\ Streamed /\ Answered /\ QueueTypes /\ CallTypes
      /\ ServeTypes /\ RoundTypes /\ CloseTypes /\ ClockTypes /\ ModeTypes
  BY TypeParts DEF Rounds
<1>2. UNCHANGED <<spc, len, held, gotten, writes, write_count, control>>
  BY DEF serverState, reading, counts
<1>3. CallTypes' /\ QueueTypes' /\ (cop' = "send" => sent' + size' <= MaxSent)
  BY <1>1, CallsStart, CallsGoOn
<1>4. CloseTypes' /\ ClockTypes'
  BY <1>1, FlagsClient
<1>5. ServeTypes' /\ ModeTypes'
  BY <1>1, TypesStay
<1>6. RoundTypes'
  BY <1>1 DEF RoundTypes
<1>7. WritesFit'
  BY <1>1, <1>2 DEF Tallied, WritesFit
<1>8. Streamed'
  BY <1>1, <1>2, StreamedClient
<1>9. Answered'
  BY <1>1, <1>2, AnsweredClient
<1> QED BY <1>3, <1>4, <1>5, <1>6, <1>7, <1>8, <1>9, TypeParts DEF Rounds, Tallied

LEMMA RoundsServer ==
  ASSUME Rounds, UNCHANGED <<client, phase, note>>,
         ServerStep \/ \E calls : ServerCall(calls)
  PROVE  Rounds'
<1>1. /\ TypeOK /\ Tallied /\ Streamed /\ Answered /\ QueueTypes /\ CallTypes
      /\ ServeTypes /\ RoundTypes /\ CloseTypes /\ ClockTypes /\ ModeTypes
  BY TypeParts DEF Rounds
<1>2. ServeTypes' /\ QueueTypes' /\ WritesFit'
  <2>1. WritesFit /\ (spc \in Reading => Len(held) < len)
    BY <1>1 DEF Tallied, Streamed
  <2> QED BY <1>1, <2>1, ServeStarts, ServeGoesOn
<1>3. CloseTypes' /\ ModeTypes'
  BY <1>1, FlagsServer
<1>4. CallTypes' /\ ClockTypes'
  BY <1>1, TypesStay
<1>5. RoundTypes'
  BY <1>1 DEF RoundTypes
<1>6. cop' = "send" => sent' + size' <= MaxSent
  BY <1>1 DEF Tallied, client, call, progress
<1>7. Streamed'
  BY <1>1, StreamedServer
<1>8. Answered'
  BY <1>1, AnsweredServer
<1> QED BY <1>2, <1>3, <1>4, <1>5, <1>6, <1>7, <1>8, TypeParts DEF Rounds, Tallied

LEMMA RoundsNote ==
  ASSUME Rounds, TakeNote \/ NotesEnded \/ UNCHANGED vars
  PROVE  Rounds'
<1>1. /\ TypeOK /\ Tallied /\ Streamed /\ Answered /\ QueueTypes /\ CallTypes
      /\ ServeTypes /\ RoundTypes /\ CloseTypes /\ ClockTypes /\ ModeTypes
  BY TypeParts DEF Rounds
<1>2. UNCHANGED <<channel, client>>
  BY DEF TakeNote, NotesEnded, vars
<1>3. CallTypes' /\ ClockTypes' /\ QueueTypes' /\ CloseTypes'
  BY <1>1, <1>2, TypesStay
<1>4. /\ UNCHANGED <<server, spc, reading, modes, counts, gotten, writes, untold,
                     interrupted>>
      /\ UNCHANGED control \/ TakeNote
  BY DEF TakeNote, NotesEnded, vars, serverState
<1>5. /\ Answered' /\ note' \in 0 .. MaxWrites
      /\ control' \in Seq(0 .. MaxWrites)
  <2>1. CASE TakeNote
    BY <1>1, <2>1, AnsweredTaken
  <2>2. CASE ~TakeNote
    <3>1. note' \in {Malformed, note} /\ UNCHANGED control
      BY <2>2 DEF NotesEnded, vars, serverState
    <3>2. UNCHANGED <<writes, received, response>>
      BY <1>2, <1>4 DEF channel, queues, client, progress
    <3>3. note' \in 0 .. MaxWrites /\ note' <= writes
      BY <1>1, <3>1, BoundsFacts DEF Malformed, Answered, RoundTypes, ServeTypes
    <3>4. control' \in Seq(0 .. MaxWrites)
      BY <1>1, <3>1 DEF ServeTypes
    <3> QED BY <1>1, <3>1, <3>2, <3>3, <3>4 DEF Answered
  <2> QED BY <2>1, <2>2
<1>6. ServeTypes' /\ WritesFit'
  BY <1>1, <1>4, <1>5 DEF ServeTypes, Tallied, WritesFit, reading, counts
<1>7. ModeTypes'
  BY <1>1, <1>4 DEF ModeTypes, modes
<1>8. RoundTypes'
  <2>1. phase' \in {"send", "note", "recv"}
    BY <1>1 DEF TakeNote, NotesEnded, vars, RoundTypes
  <2> QED BY <1>5, <2>1 DEF RoundTypes
<1>9. cop' = "send" => sent' + size' <= MaxSent
  BY <1>1, <1>2 DEF Tallied, client, call, progress
<1>10. Streamed'
  <2>1. UNCHANGED <<request, clientWrite, sent, cpc>>
    BY <1>2 DEF channel, queues, clientFlags, client, progress
  <2>2. UNCHANGED <<spc, len, held, gotten>>
    BY <1>4 DEF reading
  <2> QED BY <1>1, <2>1, <2>2, StreamedStays
<1> QED BY <1>3, <1>5, <1>6, <1>7, <1>8, <1>9, <1>10, TypeParts DEF Rounds, Tallied

LEMMA RoundsNext == Rounds /\ [Next]_vars => Rounds'
<1> SUFFICES ASSUME Rounds, [Next]_vars PROVE Rounds'
  OBVIOUS
<1>1. phase \in {"send", "note", "recv"}
  BY DEF Rounds, TypeOK
<1>2. CASE BeginRound
  BY <1>2, RoundsHarness DEF BeginRound
<1>3. CASE ReceiveAnswer
  BY <1>3, RoundsHarness DEF ReceiveAnswer
<1>4. CASE Aside
  BY <1>1, <1>4, RoundsHarness DEF Aside
<1>5. CASE LeaveServer
  BY <1>1, <1>5, RoundsHarness DEF LeaveServer
<1>6. CASE HarnessStep
  BY <1>1, <1>6, RoundsHarness DEF HarnessStep, HarnessRest
<1>7. ASSUME NEW k \in Kinds, TimerStep(k) PROVE Rounds'
  BY <1>1, <1>7, RoundsHarness DEF TimerStep, HarnessRest
<1>8. CASE ServerBegins
  BY <1>8, RoundsServer DEF ServerBegins, ServerRest
<1>9. CASE ServerGoesOn
  BY <1>9, RoundsServer DEF ServerGoesOn, ServerRest
<1>10. CASE TakeNote \/ NotesEnded \/ UNCHANGED vars
  BY <1>10, RoundsNote
<1> QED BY <1>2, <1>3, <1>4, <1>5, <1>6, <1>7, <1>8, <1>9, <1>10 DEF Next

LEMMA RoundsHold == Spec => []Rounds
BY RoundsInit, RoundsNext, PTL DEF Spec

\* The variables of both sides keep to what the code can give them: no count of
\* a queue or of a turn leaves its bounds.
THEOREM TypesKept == Spec => []TypeOK
<1>1. Rounds => TypeOK
  BY DEF Rounds
<1> QED BY RoundsHold, <1>1, PTL

\* What recv and read give the program is a prefix of what my_send put, also
\* where MSG_WAITALL gathers bytes and the close breaks it off.
THEOREM ProgramReadsStream == Spec => []ProgramSeesPrefix
<1>1. Rounds => ProgramSeesPrefix
  <2> SUFFICES ASSUME Rounds PROVE ProgramSeesPrefix
    OBVIOUS
  <2>1. gotten \in Seq(Nat) /\ \A i \in 1 .. Len(gotten) : gotten[i] = i
    BY DEF Rounds, TypeOK, ServerTypeOK, Streamed
  <2>2. gotten = [i \in 1 .. Len(gotten) |-> gotten[i]]
    BY <2>1
  <2> QED BY <2>1, <2>2 DEF ProgramSeesPrefix
<1> QED BY RoundsHold, <1>1, PTL

\* A harness that a note of a write has woken finds the answer of that write,
\* unless it has received bytes of it before.
THEOREM NotesAreAnswered == Spec => []NoteMeansAnswer
<1>1. Rounds => NoteMeansAnswer
  <2> SUFFICES ASSUME Rounds, note > received PROVE note \in ToSet(response)
    <3>1. Rounds => note \in Nat /\ received \in Nat
      BY BoundsFacts DEF Rounds, TypeOK, ClientTypeOK
    <3> QED BY <3>1 DEF NoteMeansAnswer
  <2>1. note \in Nat /\ received \in Nat /\ response \in Seq(Nat)
    BY DEF Rounds, TypeOK, ClientTypeOK, ChannelTypeOK
  <2>2. note <= received + Len(response)
    BY DEF Rounds, Answered
  <2>3. note - received \in 1 .. Len(response)
    BY <2>1, <2>2
  <2>4. response[note - received] = note
    BY <2>1, <2>3 DEF Rounds, Answered
  <2> QED BY <2>3, <2>4 DEF ToSet
<1> QED BY RoundsHold, <1>1, PTL
=============================================================================
