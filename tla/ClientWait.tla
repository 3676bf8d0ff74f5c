----------------------------- MODULE ClientWait -----------------------------
(***************************************************************************)
(* The harness's side of a connection (inet_client_shm.c): my_send,        *)
(* my_recv, my_poll, my_setsockopt and my_close.  The three calls wait by  *)
(* polling shared memory; each has a timer of its own, and the handler of  *)
(* all three sets the one flag is_socket_timeout.                          *)
(*                                                                         *)
(* Left out: datagram sockets (DatagramQueue has them), failures of        *)
(* timer_create, and timeouts of my_poll below -1.                         *)
(***************************************************************************)
EXTENDS Channel

CONSTANT MaxSent      \* bound: bytes the client sends

ASSUME ClientAssumption == MaxSent \in Nat

Kinds == {"send", "recv", "poll"}

VARIABLES
  cpc, cop,             \* where the harness is, and in which call
  size,                 \* bytes to send, or most to receive
  limit,                \* my_poll's timeout: "zero", "some" or "never"
  events,               \* what my_poll asks for
  timed,                \* this call has set its timer
  limited,              \* of "send" and "recv": SO_SNDTIMEO, SO_RCVTIMEO set
  timer,                \* of each kind: "none", "idle" or "armed"
  is_socket_timeout,
  sent,                 \* bytes my_send has put
  received,             \* the last write my_recv has got bytes of
  ranOut,               \* history: the timer of this call has gone off
  spurious              \* history: a timeout was reported without that

call == <<cop, size, limit, events, timed>>
clocks == <<timer, is_socket_timeout, ranOut>>
progress == <<sent, received>>
client == <<cpc, call, limited, clocks, progress, spurious>>

ClientInit ==
  /\ cpc = "idle" /\ cop = "none" /\ size = 0 /\ limit = "zero" /\ events = {}
  /\ timed = FALSE
  /\ limited = {}
  /\ timer = [k \in Kinds |-> "none"]
  /\ is_socket_timeout = FALSE
  /\ sent = 0 /\ received = 0 /\ ranOut = FALSE /\ spurious = FALSE

Goto(label) == cpc' = label

\* The call is over; what it was called with is forgotten.
Return ==
  /\ cpc' = "idle" /\ cop' = "none" /\ size' = 0 /\ limit' = "zero"
  /\ events' = {} /\ timed' = FALSE /\ ranOut' = FALSE

\* What my_poll finds.
Ready ==
  \/ "in" \in events /\ response # <<>>
  \/ "out" \in events /\ ~RequestFull
-----------------------------------------------------------------------------
(* Slips, each in place of the definition it is named after. *)

Slip_Reset == Goto("arm") /\ UNCHANGED is_socket_timeout  \* an old flag stays
Slip_Gone == FALSE                            \* the loops ignore the close
-----------------------------------------------------------------------------
(* Timers *)

\* The flag is cleared before the timer is set.
Reset == Goto("arm") /\ is_socket_timeout' = FALSE

ResetFlag ==
  /\ cpc = "reset" /\ Reset
  /\ UNCHANGED <<call, limited, timer, ranOut, progress, spurious, channel>>

\* my_settimer, or my_poll_settimer, which does not carry a second over from
\* tv_nsec: the system may then refuse the timer, and my_poll returns -1.
Arm ==
  /\ cpc = "arm"
  /\ \/ /\ timer' = [timer EXCEPT ![cop] = "armed"] /\ timed' = TRUE
        /\ Goto(IF cop = "recv" THEN "flag" ELSE "look")
        /\ UNCHANGED <<cop, size, limit, events, ranOut>>
     \/ /\ cop = "poll" /\ timer' = [timer EXCEPT ![cop] = "idle"]
        /\ Return
  /\ UNCHANGED <<limited, is_socket_timeout, progress, spurious, channel>>

\* my_signal_handler
Expire(k) ==
  /\ timer[k] = "armed" /\ timer' = [timer EXCEPT ![k] = "idle"]
  /\ is_socket_timeout' = TRUE
  /\ ranOut' = (ranOut \/ k = cop)
  /\ UNCHANGED <<cpc, call, limited, progress, spurious, channel>>

\* my_stoptimer of a timer that is there.
Stopped == [timer EXCEPT ![cop] = IF @ = "armed" THEN "idle" ELSE @]

\* The flag is looked at, where the call's timer exists; a flag that is set
\* is cleared and ends the call.
LookAtFlag ==
  /\ cpc = "flag"
  /\ IF is_socket_timeout /\ timer[cop] # "none"
     THEN /\ is_socket_timeout' = FALSE
          /\ spurious' = (spurious \/ (timed /\ ~ranOut))
          /\ Return
     ELSE Goto("look") /\ UNCHANGED <<call, is_socket_timeout, ranOut, spurious>>
  /\ UNCHANGED <<limited, timer, progress, channel>>
-----------------------------------------------------------------------------
(* my_send *)

\* The first look decides whether the call minds a timeout.
SendStart(n) ==
  /\ cpc = "idle" /\ sent + n <= MaxSent
  /\ cop' = "send" /\ size' = n
  /\ Goto(CASE ~RequestFull -> "act"
            [] RequestFull /\ "send" \in limited -> "reset"
            [] OTHER -> "look")
  /\ UNCHANGED <<limit, events, timed, limited, clocks, progress,
                 spurious, channel>>

SendLook ==
  /\ cpc = "look" /\ cop = "send"
  /\ Goto(IF RequestFull THEN "check" ELSE "stop")
  /\ UNCHANGED <<call, limited, clocks, progress, spurious, channel>>

\* stream_enqueue under the lock, of as much as there is room for.
SendPut ==
  /\ cpc = "act" /\ cop = "send"
  /\ LET n == Min({size, RequestCap - Len(request)})
     IN /\ request' = request \o [i \in 1 .. n |-> sent + i]
        /\ sent' = sent + n
  /\ Return
  /\ UNCHANGED <<limited, timer, is_socket_timeout, received, spurious, response,
                 clientFlags, serverFlags>>
-----------------------------------------------------------------------------
(* my_recv *)

\* A server that has closed is noticed first, whatever is queued.
RecvStart(n) ==
  /\ cpc = "idle"
  /\ IF serverWrite THEN UNCHANGED <<cpc, cop, size>>
     ELSE Goto("look") /\ cop' = "recv" /\ size' = n
  /\ UNCHANGED <<limit, events, timed, limited, clocks, progress,
                 spurious, channel>>

RecvLook ==
  /\ cpc = "look" /\ cop = "recv"
  /\ Goto(IF response = <<>> THEN "check" ELSE "stop")
  /\ UNCHANGED <<call, limited, clocks, progress, spurious, channel>>

\* stream_dequeue under the lock.
RecvTake ==
  /\ cpc = "act" /\ cop = "recv"
  /\ LET got == Taken(response, size)
     IN /\ received' = IF got = <<>> THEN received ELSE Last(got)
        /\ response' = Rest(response, Len(got))
  /\ Return
  /\ UNCHANGED <<limited, timer, is_socket_timeout, sent, spurious, request,
                 clientFlags, serverFlags>>
-----------------------------------------------------------------------------
(* What my_send and my_recv do when their queue makes them wait *)

\* The server will not read, or not write, any more.
Gone == IF cop = "send" THEN serverRead ELSE serverWrite

\* Closed: the call ends, its timer, if any, stopped.  Otherwise my_recv sets
\* its timer, once, and either call looks at the flag.
Check ==
  /\ cpc = "check"
  /\ IF Gone
     THEN timer' = Stopped /\ Return
     ELSE /\ Goto(IF cop = "recv" /\ "recv" \in limited /\ ~timed
                  THEN "reset" ELSE "flag")
          /\ UNCHANGED <<call, timer, ranOut>>
  /\ UNCHANGED <<limited, is_socket_timeout, progress, spurious, channel>>

\* The wait is over: the timer is stopped where the call has set one.
Stop ==
  /\ cpc = "stop"
  /\ timer' = IF timed THEN Stopped ELSE timer
  /\ IF cop = "poll" THEN Return
     ELSE Goto("act") /\ UNCHANGED <<call, ranOut>>
  /\ UNCHANGED <<limited, is_socket_timeout, progress, spurious, channel>>
-----------------------------------------------------------------------------
(* my_poll *)

\* One look first; then a timer, or a loop that looks at nothing else.
PollStart(t, ev) ==
  /\ cpc = "idle"
  /\ cop' = "poll" /\ limit' = t /\ events' = ev
  /\ Goto("first")
  /\ UNCHANGED <<size, timed, limited, clocks, progress, spurious, channel>>

PollFirst ==
  /\ cpc = "first" /\ (Ready \/ limit # "never")
  /\ IF Ready \/ limit = "zero" THEN Return
     ELSE Goto("reset") /\ UNCHANGED <<call, ranOut>>
  /\ UNCHANGED <<limited, timer, is_socket_timeout, progress, spurious, channel>>

PollLook ==
  /\ cpc = "look" /\ cop = "poll"
  /\ Goto(IF Ready THEN "stop" ELSE "flag")
  /\ UNCHANGED <<call, limited, clocks, progress, spurious, channel>>
-----------------------------------------------------------------------------
(* my_setsockopt, my_close *)

SetOption(k) ==
  /\ cpc = "idle"
  /\ limited' = IF k \in limited THEN limited \ {k} ELSE limited \cup {k}
  /\ UNCHANGED <<cpc, call, clocks, progress, spurious, channel>>

CloseStart ==
  /\ cpc = "idle" /\ Goto("closing")
  /\ clientRead' = TRUE
  /\ UNCHANGED <<call, limited, clocks, progress, spurious, queues, clientWrite,
                 serverFlags>>

\* The second flag; then the timers are deleted.
CloseFinish ==
  /\ cpc = "closing" /\ Goto("closed")
  /\ clientWrite' = TRUE
  /\ timer' = [k \in Kinds |-> "none"] /\ limited' = {}
  /\ is_socket_timeout' = FALSE
  /\ UNCHANGED <<call, ranOut, progress, spurious, queues, clientRead, serverFlags>>
-----------------------------------------------------------------------------
\* The steps of a call that has begun.
ClientStep ==
  \/ ResetFlag \/ Arm \/ LookAtFlag \/ Check \/ Stop
  \/ SendLook \/ SendPut \/ RecvLook \/ RecvTake \/ PollFirst \/ PollLook
  \/ CloseFinish

ClientTypeOK ==
  /\ cpc \in {"idle", "reset", "arm", "look", "check", "flag", "stop", "act",
              "first", "closing", "closed"}
  /\ cop \in Kinds \cup {"none"} /\ limit \in {"zero", "some", "never"}
  /\ events \subseteq {"in", "out"} /\ limited \subseteq {"send", "recv"}
  /\ timer \in [Kinds -> {"none", "idle", "armed"}]
  /\ sent \in 0 .. MaxSent /\ size \in Nat /\ received \in Nat
  /\ timed \in BOOLEAN /\ is_socket_timeout \in BOOLEAN
  /\ ranOut \in BOOLEAN /\ spurious \in BOOLEAN
=============================================================================
