------------------------------ MODULE HookWait ------------------------------
(***************************************************************************)
(* The calls of the hooked server that wait with a timeout: poll, select,  *)
(* and recv and send on a socket with SO_RCVTIMEO or SO_SNDTIMEO           *)
(* (socket_hook.c).  Each arms a POSIX timer and then polls shared memory; *)
(* all of the timers raise the one signal SIGRTMIN, whose handler sets the *)
(* one flag poll_timeout.  The server has a single thread; its clients     *)
(* make fds readable or writable, or close, between any two of its steps.  *)
(*                                                                         *)
(* Left out: the messages to the control socket; fds in exceptfds (select  *)
(* gives up on them); a NULL timeout of select, which the trace message    *)
(* at its top dereferences; failures of timer_create and, with an existing *)
(* timer, of timer_settime; errors of the original calls; shutdown flags,  *)
(* MSG_WAITALL and O_NONBLOCK; what the fds carry.                         *)
(***************************************************************************)
EXTENDS Integers, FiniteSets

CONSTANTS
  NumFds,       \* hooked fds, in the order of the caller's array
  Listener,     \* the one that listens; 0 if none does
  Ops,          \* the calls this server makes
  Interests,    \* the events it asks poll and select for, fd by fd
  MaxTimers     \* bound: timers that exist at once

Fds == 1 .. NumFds
Timers == 1 .. MaxTimers
None == 0
SocketOps == {"recv", "send"}

ASSUME WaitAssumption ==
  /\ NumFds \in Nat \ {0} /\ Listener \in 0 .. NumFds /\ MaxTimers \in Nat \ {0}
  /\ Ops \subseteq {"poll", "select"} \cup SocketOps /\ Ops \cap SocketOps # {}
  /\ Interests \subseteq [Fds -> SUBSET {"in", "out"}]

VARIABLES
  \* what the clients and the rest of the system do to the fds
  canRead,      \* its queue, or the connect queue, has something
  canWrite,     \* its response queue has room
  closed,       \* its client has raised its close flags
  normalReady,  \* a fd that is not hooked is ready
  \* the timers of the server process, and what their handler writes
  timers,       \* each "free", "idle" or "armed"
  poll_timeout,
  poll_timer,               \* a timer's name or None
  recv_timer, send_timer,   \* of each fd
  is_socket_timeout,
  transfer,     \* "recv" or "send": the one of the two this server calls
  \* the call the server is in, or has returned from
  spc, op,
  hasNormal,      \* the call is about normal fds, too
  timeout,        \* "zero", "some" or "never"
  events,         \* what it asked for
  normalNamed,    \* what it asks the original call about still names them
  fd,             \* recv and send: the socket
  current_timer,  \* the timer it has armed
  hook_rv,        \* what the last scan of the hooked fds counted
  revents,        \* what the call reports of the hooked fds
  result,         \* what it returned
  \* history
  expired,      \* the timer the call has armed has expired
  stale,        \* poll_timeout was set when the call began
  leftArmed,    \* a select has returned without stopping its timer
  polled        \* a poll has deleted its timer

fdVars == <<canRead, canWrite, closed, normalReady>>
timerVars == <<timers, poll_timer, recv_timer, send_timer>>
flagVars == <<poll_timeout, is_socket_timeout>>
callVars == <<transfer, op, hasNormal, normalNamed, timeout, events, fd, stale>>
vars == <<fdVars, timerVars, flagVars, spc, callVars, current_timer, hook_rv,
          revents, result, expired, leftArmed, polled>>

Nothing == [f \in Fds |-> {}]
AtRest == spc \in {"idle", "returned"}
Live == {t \in Timers : timers[t] # "free"}

Init ==
  /\ canRead = [f \in Fds |-> FALSE] /\ canWrite = [f \in Fds |-> TRUE]
  /\ closed = [f \in Fds |-> FALSE] /\ normalReady = FALSE
  /\ timers = [t \in Timers |-> "free"] /\ poll_timer = None
  /\ recv_timer = [f \in Fds |-> None] /\ send_timer = [f \in Fds |-> None]
  /\ poll_timeout = FALSE /\ is_socket_timeout = FALSE
  /\ transfer \in Ops \cap SocketOps
  /\ spc = "idle" /\ op = "none" /\ timeout = "zero"
  /\ hasNormal = FALSE /\ normalNamed = FALSE
  /\ events = Nothing /\ fd = 1 /\ current_timer = None
  /\ hook_rv = 0 /\ revents = Nothing /\ result = "none"
  /\ expired = FALSE /\ stale = FALSE /\ leftArmed = FALSE /\ polled = FALSE
-----------------------------------------------------------------------------
(* What a scan of the hooked fds finds *)

\* The first closed fd of the array, if any, ends hook_fd_poll's loop.
FirstClosed == {f \in Fds : closed[f] /\ \A g \in Fds : closed[g] => f <= g}
Scanned == {f \in Fds : \A g \in FirstClosed : f < g}

\* hook_fd_poll for an open fd: output is looked at only where input was not
\* asked for, and never for a listening socket.
PollBits(f) ==
  CASE "in" \in events[f] -> IF canRead[f] THEN {"in"} ELSE {}
    [] events[f] = {"out"} /\ f # Listener -> IF canWrite[f] THEN {"out"} ELSE {}
    [] OTHER -> {}

\* An entry behind the first closed one is not even cleared.
PollRevents ==
  [f \in Fds |-> CASE f \in Scanned -> PollBits(f)
                   [] f \in FirstClosed -> events[f]
                   [] OTHER -> revents[f]]

\* A slip: a closed fd is reported and not counted.
Slip_PollCount == Cardinality({f \in Scanned : PollBits(f) # {}})

PollCount ==
  Cardinality({f \in Scanned : PollBits(f) # {}} \cup FirstClosed)

\* A slip: nothing is struck out.
Slip_SelectBits(f) == events[f]

\* hook_fd_select starts from what was asked for and strikes out what is not
\* ready: output only where input was not asked for, and not for a listening
\* socket.  It does not look at the close flags.
SelectBits(f) ==
  (IF "in" \in events[f] /\ ~canRead[f] THEN events[f] \ {"in"} ELSE events[f])
    \ (IF events[f] = {"out"} /\ f # Listener /\ ~canWrite[f] THEN {"out"} ELSE {})

\* A slip: bits are struck out of a count that does not hold them.
Slip_SelectCount ==
  0 - Cardinality({e \in Fds \X {"in", "out"} : e[2] \in events[e[1]] \ SelectBits(e[1])})

SelectCount ==
  Cardinality({e \in Fds \X {"in", "out"} : e[2] \in SelectBits(e[1])})

HookCount == IF op = "poll" THEN PollCount ELSE SelectCount

\* poll fills in the caller's array whatever it finds; select keeps the fds it
\* has found for update_fd_set.
Found == IF op = "poll" THEN PollRevents
         ELSE IF SelectCount > 0 THEN [f \in Fds |-> SelectBits(f)]
         ELSE revents
-----------------------------------------------------------------------------
(* The clients, the normal fds, the timers *)

Deliver(f) ==
  /\ ~canRead[f] /\ ~closed[f]
  /\ canRead' = [canRead EXCEPT ![f] = TRUE]
  /\ UNCHANGED <<canWrite, closed, normalReady>>

Drain(f) ==
  /\ ~canWrite[f] /\ ~closed[f]
  /\ canWrite' = [canWrite EXCEPT ![f] = TRUE]
  /\ UNCHANGED <<canRead, closed, normalReady>>

ClientClose(f) ==
  /\ f # Listener /\ ~closed[f]
  /\ closed' = [closed EXCEPT ![f] = TRUE]
  /\ UNCHANGED <<canRead, canWrite, normalReady>>

NormalBecomesReady ==
  /\ ~normalReady /\ normalReady' = TRUE
  /\ UNCHANGED <<canRead, canWrite, closed>>

Environment ==
  /\ \/ \E f \in Fds : Deliver(f) \/ Drain(f) \/ ClientClose(f)
     \/ NormalBecomesReady
  /\ UNCHANGED <<timerVars, flagVars, spc, callVars, current_timer, hook_rv,
                 revents, result, expired, leftArmed, polled>>

\* A slip: the handler sets the flag of recv and send alone.
Slip_Expire(t) ==
  /\ timers[t] = "armed"
  /\ timers' = [timers EXCEPT ![t] = "idle"]
  /\ is_socket_timeout' = TRUE
  /\ expired' = (expired \/ t = current_timer)
  /\ UNCHANGED <<fdVars, poll_timer, recv_timer, send_timer, poll_timeout,
                 spc, callVars, current_timer, hook_rv, revents, result,
                 leftArmed, polled>>

\* my_signal_handler sets the flag of poll and select, whoever's timer it is,
\* and not the one recv and send look at.
Expire(t) ==
  /\ timers[t] = "armed"
  /\ timers' = [timers EXCEPT ![t] = "idle"]
  /\ poll_timeout' = TRUE
  /\ expired' = (expired \/ t = current_timer)
  /\ UNCHANGED <<fdVars, poll_timer, recv_timer, send_timer, is_socket_timeout,
                 spc, callVars, current_timer, hook_rv, revents, result,
                 leftArmed, polled>>

\* my_createtimer
NewTimer(t) == timers[t] = "free" /\ \A s \in Timers : s < t => timers[s] # "free"

\* A slip: a timer that has gone off is taken for a deleted one.
Slip_Named(t) == IF timers[t] = "armed" THEN {t} ELSE Live \cup {None}

\* What the system takes a timer's name for: a name that poll has deleted is
\* none, or the name of some other timer.
Named(t) == IF timers[t] = "free" THEN Live \cup {None} ELSE {t}
-----------------------------------------------------------------------------
(* poll and select *)

Return(r) == spc' = "returned" /\ result' = r

\* The server works on what it was told and is ready to call again.
Serve ==
  /\ spc = "returned" /\ spc' = "idle"
  /\ normalReady' \in {FALSE, normalReady}
  /\ canRead' \in {canRead, [f \in Fds |-> canRead[f] /\ f # Listener]}
  /\ op' = "none" /\ hasNormal' = FALSE /\ normalNamed' = FALSE /\ timeout' = "zero"
  /\ events' = Nothing /\ fd' = 1 /\ current_timer' = None
  /\ hook_rv' = 0 /\ result' = "none" /\ expired' = FALSE /\ stale' = FALSE
  /\ UNCHANGED <<canWrite, closed, timerVars, flagVars, transfer, revents, leftArmed,
                 polled>>

Start(o, n, t, ev) ==
  /\ spc = "idle"
  /\ o \in Ops /\ (o = "select" => t # "never")
  /\ op' = o /\ hasNormal' = n /\ normalNamed' = n /\ timeout' = t /\ events' = ev
  /\ spc' = IF t = "some" THEN "reset" ELSE "scan"
  /\ revents' = IF o = "poll" THEN revents ELSE Nothing
  /\ current_timer' = None /\ hook_rv' = 0 /\ result' = "none"
  /\ expired' = FALSE /\ stale' = poll_timeout
  /\ UNCHANGED <<fdVars, timerVars, flagVars, transfer, fd, leftArmed, polled>>

\* A slip: the flag of an earlier timer stays.
Slip_ResetFlag ==
  /\ spc = "reset" /\ spc' = "arm"
  /\ UNCHANGED <<fdVars, timerVars, flagVars, callVars, current_timer, hook_rv,
                 revents, result, expired, leftArmed, polled>>

\* poll_timeout is cleared before the timer is set.
ResetFlag ==
  /\ spc = "reset" /\ spc' = "arm"
  /\ poll_timeout' = FALSE
  /\ UNCHANGED <<fdVars, timerVars, is_socket_timeout, callVars, current_timer,
                 hook_rv, revents, result, expired, leftArmed, polled>>

\* my_poll_settimer makes a timer for every call.
PollArm ==
  /\ spc = "arm" /\ op = "poll" /\ spc' = "scan"
  /\ \E t \in Timers :
       /\ NewTimer(t)
       /\ timers' = [timers EXCEPT ![t] = "armed"]
       /\ poll_timer' = t /\ current_timer' = t
  /\ UNCHANGED <<fdVars, recv_timer, send_timer, flagVars, callVars, hook_rv,
                 revents, result, expired, leftArmed, polled>>

\* select makes one timer and uses it ever after, the deleted one of a poll too.
SelectArm ==
  /\ spc = "arm" /\ op = "select"
  /\ IF poll_timer = None
     THEN /\ \E t \in Timers :
                /\ NewTimer(t)
                /\ timers' = [timers EXCEPT ![t] = "armed"]
                /\ poll_timer' = t /\ current_timer' = t
          /\ spc' = "scan" /\ UNCHANGED result
     ELSE \E t \in Named(poll_timer) :
            /\ UNCHANGED poll_timer
            /\ IF t = None
               THEN Return("failed") /\ UNCHANGED <<timers, current_timer>>
               ELSE /\ timers' = [timers EXCEPT ![t] = "armed"]
                    /\ current_timer' = t
                    /\ spc' = "scan" /\ UNCHANGED result
  /\ UNCHANGED <<fdVars, recv_timer, send_timer, flagVars, callVars, hook_rv,
                 revents, expired, leftArmed, polled>>

\* What the original call finds when it does not wait.
NormalFound == normalNamed /\ normalReady

\* A select that is not to wait asks the original call first, for the number of
\* normal fds; where there are none this is -1, and the original call fails.
AsksForNone == op = "select" /\ timeout = "zero" /\ ~hasNormal

AskForNone ==
  /\ spc = "scan" /\ AsksForNone
  /\ Return("failed")
  /\ UNCHANGED <<fdVars, timerVars, flagVars, callVars, current_timer, hook_rv,
                 revents, expired, leftArmed, polled>>

\* One scan of the hooked fds.  With a timeout, a call about hooked fds alone
\* looks at poll_timeout before it looks at what the scan found.
Scan ==
  /\ spc = "scan" /\ ~AsksForNone
  /\ hook_rv' = HookCount /\ revents' = Found
  /\ CASE timeout = "zero" ->
            Return(IF HookCount > 0 \/ NormalFound THEN "ready" ELSE "nothing")
       [] timeout = "some" /\ ~hasNormal -> spc' = "check" /\ UNCHANGED result
       [] timeout = "some" /\ hasNormal ->
            /\ spc' = IF HookCount > 0 THEN "stop" ELSE "normal"
            /\ UNCHANGED result
       [] timeout = "never" ->
            IF HookCount > 0 THEN Return("ready")
            ELSE /\ spc' = IF hasNormal THEN "normal" ELSE "scan"
                 /\ UNCHANGED result
  /\ UNCHANGED <<fdVars, timerVars, flagVars, callVars, current_timer, expired,
                 leftArmed, polled>>

\* The original call without waiting: where it finds something, poll stops its
\* timer and select does not.  Where it finds nothing it takes every fd out of
\* select's sets, and the next rounds ask about none.
AskNormal ==
  /\ spc = "normal"
  /\ IF ~NormalFound THEN spc' = "check" /\ UNCHANGED result
     ELSE IF op = "poll" /\ timeout = "some" THEN spc' = "stop" /\ UNCHANGED result
     ELSE Return("ready")
  /\ normalNamed' = (normalNamed /\ (NormalFound \/ op = "poll"))
  /\ leftArmed' = (leftArmed \/ (op = "select" /\ NormalFound))
  /\ UNCHANGED <<fdVars, timerVars, flagVars, transfer, op, hasNormal, timeout,
                 events, fd, stale, current_timer, hook_rv, revents, expired,
                 polled>>

\* Has poll_timeout been set?  A poll without a timeout asks, too.  A call about
\* normal fds asks the original call once more, and returns what that finds.
CheckFlag ==
  /\ spc = "check"
  /\ IF poll_timeout
     THEN /\ Return(IF NormalFound THEN "ready" ELSE "timeout")
          /\ timers' = IF op = "poll" /\ timeout = "some"
                       THEN [timers EXCEPT ![current_timer] = "free"] ELSE timers
          /\ polled' = (polled \/ (op = "poll" /\ timeout = "some"))
          /\ revents' = IF op = "poll" THEN revents ELSE Nothing
     ELSE /\ spc' = IF ~hasNormal /\ hook_rv > 0 THEN "stop" ELSE "scan"
          /\ UNCHANGED <<timers, polled, revents, result>>
  /\ poll_timeout' = FALSE
  /\ UNCHANGED <<fdVars, poll_timer, recv_timer, send_timer, is_socket_timeout,
                 callVars, current_timer, hook_rv, expired, leftArmed>>

\* A slip: the timer is stopped and kept.
Slip_PollStop ==
  /\ spc = "stop" /\ op = "poll"
  /\ timers' = [timers EXCEPT ![current_timer] = "idle"] /\ polled' = TRUE
  /\ Return("ready")
  /\ UNCHANGED <<fdVars, poll_timer, recv_timer, send_timer, flagVars, callVars,
                 current_timer, hook_rv, revents, expired, leftArmed>>

PollStop ==
  /\ spc = "stop" /\ op = "poll"
  /\ timers' = [timers EXCEPT ![current_timer] = "free"] /\ polled' = TRUE
  /\ Return("ready")
  /\ UNCHANGED <<fdVars, poll_timer, recv_timer, send_timer, flagVars, callVars,
                 current_timer, hook_rv, revents, expired, leftArmed>>

SelectStop ==
  /\ spc = "stop" /\ op = "select"
  /\ \E t \in Named(poll_timer) :
       /\ IF t = None THEN Return("failed") /\ UNCHANGED timers
          ELSE Return("ready") /\ timers' = [timers EXCEPT ![t] = "idle"]
       /\ leftArmed' = (leftArmed \/ t # current_timer)
  /\ UNCHANGED <<fdVars, poll_timer, recv_timer, send_timer, flagVars, callVars,
                 current_timer, hook_rv, revents, expired, polled>>
-----------------------------------------------------------------------------
(* recv and send on a socket, which may have SO_RCVTIMEO or SO_SNDTIMEO *)

Begin(o, f, t, pc, r) ==
  /\ spc = "idle"
  /\ o = transfer /\ f # Listener
  /\ op' = o /\ fd' = f /\ timeout' = t /\ events' = Nothing
  /\ hasNormal' = FALSE /\ normalNamed' = FALSE
  /\ spc' = pc /\ result' = r
  /\ hook_rv' = 0 /\ expired' = FALSE /\ stale' = poll_timeout
  /\ UNCHANGED transfer

\* my_settimer, with my_createtimer before it for a socket that has no timer.
ArmSocketTimer(timer) ==
  /\ is_socket_timeout' = FALSE
  /\ \E t \in Timers :
       /\ IF timer[fd] = None THEN NewTimer(t) ELSE t = timer[fd]
       /\ timers' = [timers EXCEPT ![t] = "armed"]
       /\ current_timer' = t

\* A slip: nothing is stopped.
Slip_StopSocketTimer == timers' = timers

\* my_stoptimer, where this call has armed the timer
StopSocketTimer ==
  timers' = IF current_timer = None THEN timers
            ELSE [timers EXCEPT ![current_timer] = "idle"]

RecvStart(f, t) ==
  /\ IF closed[f] THEN Begin("recv", f, t, "returned", "eof")
     ELSE Begin("recv", f, t, "size", "none")
  /\ current_timer' = None
  /\ UNCHANGED <<fdVars, timerVars, flagVars, revents, leftArmed, polled>>

\* The queue is looked at; the bytes, or some of them, are taken.
RecvSize ==
  /\ spc = "size" /\ op = "recv"
  /\ IF canRead[fd]
     THEN /\ canRead' \in {canRead, [canRead EXCEPT ![fd] = FALSE]}
          /\ StopSocketTimer /\ Return("ready")
     ELSE spc' = "empty" /\ UNCHANGED <<canRead, timers, result>>
  /\ UNCHANGED <<canWrite, closed, normalReady, poll_timer, recv_timer, send_timer,
                 flagVars, callVars, current_timer, hook_rv, revents, expired,
                 leftArmed, polled>>

\* The queue was empty: has the client closed, has the time run out?
RecvEmpty ==
  /\ spc = "empty" /\ op = "recv"
  /\ IF closed[fd]
     THEN /\ StopSocketTimer /\ Return("eof")
          /\ UNCHANGED <<recv_timer, is_socket_timeout, current_timer>>
     ELSE /\ IF timeout = "some" /\ current_timer = None
             THEN /\ ArmSocketTimer(recv_timer)
                  /\ recv_timer' = [recv_timer EXCEPT ![fd] = current_timer']
             ELSE /\ is_socket_timeout' = (is_socket_timeout /\ recv_timer[fd] = None)
                  /\ UNCHANGED <<timers, recv_timer, current_timer>>
          /\ IF recv_timer[fd] # None /\ is_socket_timeout THEN Return("timeout")
             ELSE spc' = "size" /\ UNCHANGED result
  /\ UNCHANGED <<fdVars, poll_timer, send_timer, poll_timeout, callVars, hook_rv,
                 revents, expired, leftArmed, polled>>

\* send sets its timer before it waits, and only if the queue is full by then.
SendStart(f, t) ==
  /\ IF canWrite[f]
     THEN /\ Begin("send", f, t, "returned", "ready")
          /\ canWrite' \in {canWrite, [canWrite EXCEPT ![f] = FALSE]}
     ELSE /\ Begin("send", f, t, IF t = "some" THEN "arm" ELSE "size", "none")
          /\ UNCHANGED canWrite
  /\ current_timer' = None
  /\ UNCHANGED <<canRead, closed, normalReady, timerVars, flagVars, revents,
                 leftArmed, polled>>

SendArm ==
  /\ spc = "arm" /\ op = "send" /\ spc' = "size"
  /\ ArmSocketTimer(send_timer)
  /\ send_timer' = [send_timer EXCEPT ![fd] = current_timer']
  /\ UNCHANGED <<fdVars, poll_timer, recv_timer, poll_timeout, callVars, hook_rv,
                 revents, result, expired, leftArmed, polled>>

SendSize ==
  /\ spc = "size" /\ op = "send"
  /\ IF canWrite[fd]
     THEN /\ canWrite' \in {canWrite, [canWrite EXCEPT ![fd] = FALSE]}
          /\ StopSocketTimer /\ Return("ready")
     ELSE spc' = "full" /\ UNCHANGED <<canWrite, timers, result>>
  /\ UNCHANGED <<canRead, closed, normalReady, poll_timer, recv_timer, send_timer,
                 flagVars, callVars, current_timer, hook_rv, revents, expired,
                 leftArmed, polled>>

\* Full: the client of a closed socket gets EPIPE or SIGPIPE, and where the
\* server ignores SIGPIPE the wait goes on with the timer stopped.
SendFull ==
  /\ spc = "full" /\ op = "send"
  /\ IF closed[fd]
     THEN /\ StopSocketTimer
          /\ \/ Return("failed")
             \/ send_timer[fd] # None /\ spc' = "size" /\ UNCHANGED result
     ELSE /\ IF send_timer[fd] # None /\ is_socket_timeout THEN Return("timeout")
             ELSE spc' = "size" /\ UNCHANGED result
          /\ UNCHANGED timers
  /\ is_socket_timeout' = (is_socket_timeout /\ send_timer[fd] = None)
  /\ UNCHANGED <<fdVars, poll_timer, recv_timer, send_timer, poll_timeout, callVars,
                 current_timer, hook_rv, revents, expired, leftArmed, polled>>
-----------------------------------------------------------------------------
Waits == {"zero", "some", "never"}

Call ==
  \/ \E o \in {"poll", "select"}, n \in BOOLEAN, t \in Waits, ev \in Interests :
       Start(o, n, t, ev)
  \/ \E f \in Fds, t \in {"some", "never"} : RecvStart(f, t) \/ SendStart(f, t)

ServerStep ==
  \/ ResetFlag \/ PollArm \/ SelectArm \/ AskForNone \/ Scan \/ AskNormal \/ CheckFlag
  \/ PollStop \/ SelectStop
  \/ RecvSize \/ RecvEmpty \/ SendArm \/ SendSize \/ SendFull

Next ==
  \/ Environment
  \/ \E t \in Timers : Expire(t)
  \/ Serve \/ Call \/ ServerStep

Spec == Init /\ [][Next]_vars

\* A call that has begun is carried on, and a timer that is set goes off.
FairSpec ==
  Spec /\ WF_vars(ServerStep) /\ \A t \in Timers : WF_vars(Expire(t))
-----------------------------------------------------------------------------
TypeOK ==
  /\ canRead \in [Fds -> BOOLEAN] /\ canWrite \in [Fds -> BOOLEAN]
  /\ closed \in [Fds -> BOOLEAN] /\ normalReady \in BOOLEAN
  /\ timers \in [Timers -> {"free", "idle", "armed"}]
  /\ poll_timer \in Timers \cup {None} /\ current_timer \in Timers \cup {None}
  /\ recv_timer \in [Fds -> Timers \cup {None}]
  /\ send_timer \in [Fds -> Timers \cup {None}]
  /\ poll_timeout \in BOOLEAN /\ is_socket_timeout \in BOOLEAN
  /\ spc \in {"idle", "reset", "arm", "scan", "normal", "check", "stop", "size",
              "empty", "full", "returned"}
  /\ transfer \in SocketOps
  /\ op \in {"none", "poll", "select", "recv", "send"}
  /\ timeout \in Waits /\ hasNormal \in BOOLEAN /\ normalNamed \in BOOLEAN
  /\ events \in Interests \cup {Nothing} /\ fd \in Fds
  /\ hook_rv \in 0 .. 2 * NumFds /\ revents \in [Fds -> SUBSET {"in", "out"}]
  /\ result \in {"none", "ready", "nothing", "timeout", "eof", "failed"}
  /\ expired \in BOOLEAN /\ stale \in BOOLEAN
  /\ leftArmed \in BOOLEAN /\ polled \in BOOLEAN

\* What is still true when the call returns, though scan and return are apart:
\* an fd is reported only for what it is ready for.  The exceptions are the
\* code's: poll reports a closed fd, and an entry behind a closed one as the
\* caller left it; select reports output that goes with input unseen, and a
\* listening socket's output.
ReportedIsReady ==
  (spc = "returned" /\ op \in {"poll", "select"} /\ result = "ready") =>
    \A f \in Fds : \A b \in revents[f] :
      \/ b = "in" /\ canRead[f]
      \/ b = "out" /\ canWrite[f]
      \/ op = "poll" /\ \E g \in 1 .. f : closed[g]
      \/ op = "select" /\ b = "out" /\ ("in" \in events[f] \/ f = Listener)

\* All timers share one signal and one flag, but a timeout is never reported
\* before its time: unless a select has left its timer running, or a poll that
\* has no timeout meets the flag of an earlier timer.
TimeoutIsReal ==
  (spc = "returned" /\ result = "timeout") =>
    \/ expired
    \/ leftArmed
    \/ timeout = "never" /\ stale

\* Between two calls no timer runs, except one that a select has left.
QuietAtRest ==
  (AtRest /\ ~leftArmed) => \A t \in Timers : timers[t] # "armed"

\* However many calls there have been, a server keeps one timer beside those of
\* its sockets.
TimersBounded ==
  AtRest => Cardinality(Live) <= 1 + Cardinality({f \in Fds : recv_timer[f] # None})
                                   + Cardinality({f \in Fds : send_timer[f] # None})

\* A select fails only where a poll has deleted the timer it keeps, or where it is
\* about hooked fds alone and is not to wait.
SelectFailsOnlyAfterPoll ==
  (spc = "returned" /\ op = "select" /\ result = "failed") =>
    polled \/ (timeout = "zero" /\ ~hasNormal)

\* A timed poll or select returns, whatever timers of other calls do to the flag.
TimedCallsReturn ==
  (spc = "reset" /\ timeout = "some") ~> (spc = "returned")

\* A poll or select that waits, for ever too, returns once an fd it was asked
\* about has something to read, or is asked about output alone and has room, or,
\* for poll, has been closed; and once a normal fd is ready, for select if no ask
\* has been in vain by then.
ReadyCallsReturn ==
  (/\ op \in {"poll", "select"} /\ ~AtRest
   /\ \/ NormalFound
      \/ \E f \in Fds : \/ "in" \in events[f] /\ canRead[f]
                        \/ events[f] = {"out"} /\ f # Listener /\ canWrite[f]
                        \/ op = "poll" /\ closed[f])
    ~> (spc = "returned")

\* recv on a socket with SO_RCVTIMEO gives up in the end: my_settimer is there
\* "for send and recv timeout".
RecvTimesOut ==
  (op = "recv" /\ spc = "size" /\ timeout = "some") ~> (spc = "returned")
=============================================================================
