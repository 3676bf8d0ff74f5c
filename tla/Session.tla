------------------------------ MODULE Session ------------------------------
(***************************************************************************)
(* The rounds of a harness (main of inet_client_shm.c) with the hooked     *)
(* server, over one connection: my_send a request, wait for a note on the  *)
(* control socket, my_recv the answer, and in the end my_close.  Between   *)
(* its calls the harness may set and unset timeouts, and my_poll.          *)
(***************************************************************************)
EXTENDS ClientWait, ServerIO

CONSTANT Plans
ASSUME PlanAssumption ==
  \A p \in Plans : p.server \in Servers /\ p.asides \subseteq {"options", "poll"}

VARIABLES
  plan,       \* which programs meet: the server, its calls, the harness's asides
  phase,      \* what the harness does next: "send", "note" or "recv"
  note        \* the note it took last

vars == <<channel, client, serverState, plan, phase, note>>

Init ==
  /\ ChannelInit /\ ClientInit /\ ServerInit
  /\ plan \in Plans /\ server = plan.server
  /\ phase = "send" /\ note = Malformed

\* my_send may put less than it was given, and even nothing; main goes on.
BeginRound ==
  /\ phase = "send" /\ \E n \in 1 .. MaxAsk : SendStart(n)
  /\ phase' = "note"
  /\ UNCHANGED <<serverState, plan, note>>

\* recv on the control socket has no timeout.
TakeNote ==
  /\ phase = "note" /\ cpc = "idle" /\ control # <<>>
  /\ note' = Head(control) /\ control' = Tail(control)
  /\ phase' = "recv"
  /\ UNCHANGED <<channel, client, server, spc, reading, modes, counts, gotten,
                 writes, untold, interrupted, plan>>

\* It returns 0 once the server has closed it; main goes on to my_recv.
NotesEnded ==
  /\ phase = "note" /\ cpc = "idle" /\ control = <<>> /\ spc = "closed"
  /\ note' = Malformed /\ phase' = "recv"
  /\ UNCHANGED <<channel, client, serverState, plan>>

ReceiveAnswer ==
  /\ phase = "recv" /\ \E n \in 1 .. MaxAsk : RecvStart(n)
  /\ phase' = "send"
  /\ UNCHANGED <<serverState, plan, note>>

Aside ==
  /\ phase # "note"
  /\ \/ "options" \in plan.asides /\ \E k \in {"send", "recv"} : SetOption(k)
     \/ /\ "poll" \in plan.asides
        /\ \E t \in {"zero", "some", "never"}, ev \in {{"in"}, {"out"}} :
             PollStart(t, ev)
  /\ UNCHANGED <<serverState, plan, phase, note>>

\* After the last round.
LeaveServer ==
  /\ phase = "send" /\ CloseStart
  /\ UNCHANGED <<serverState, plan, phase, note>>

HarnessRest == UNCHANGED <<serverState, plan, phase, note>>
HarnessStep == ClientStep /\ HarnessRest
TimerStep(k) == Expire(k) /\ HarnessRest

ServerRest == UNCHANGED <<client, plan, phase, note>>
ServerBegins == ServerCall(plan.calls) /\ ServerRest
ServerGoesOn == ServerStep /\ ServerRest

Next ==
  \/ BeginRound \/ TakeNote \/ NotesEnded \/ ReceiveAnswer \/ Aside \/ LeaveServer
  \/ HarnessStep \/ \E k \in Kinds : TimerStep(k)
  \/ ServerBegins \/ ServerGoesOn

Spec == Init /\ [][Next]_vars

\* Both sides poll: whoever has begun a call is scheduled again, and a timer
\* that is armed goes off.  Nobody need call, and a note need not be taken.
Fairness ==
  /\ WF_vars(HarnessStep) /\ \A k \in Kinds : WF_vars(TimerStep(k))
  /\ WF_vars(ServerGoesOn)

FairSpec == Spec /\ Fairness
-----------------------------------------------------------------------------
\* The variables of both sides have the values the code can give them.
TypeOK ==
  /\ ChannelTypeOK /\ ClientTypeOK /\ ServerTypeOK
  /\ phase \in {"send", "note", "recv"} /\ note \in 0 .. MaxWrites

\* my_send, my_recv and my_poll share the flag that their three timers set; a
\* call that set its timer reports a timeout only once that timer has gone
\* off, never for a flag or a timer an earlier call left behind.
HarnessTimeoutIsReal == ~spurious

\* dcmqrscp never comes to poll with request bytes that read has given it and
\* that no note was sent about, or the harness would wait for ever: between
\* them, write, read's and poll's counts tell of every request, save where a
\* note was given up for a signal.
NoSilentPoll ==
  spc = "poll" /\ IsDcmqrscp /\ ~interrupted => ~untold

\* A harness woken by the note of a write finds that write's answer in the
\* response queue, unless it has received bytes of it before.
NoteMeansAnswer ==
  phase = "recv" /\ note # Malformed =>
    note <= received \/ note \in ToSet(response)

\* The program is given a prefix of what the client sent, in order: what recv
\* drops of a MSG_WAITALL that the close breaks off is never followed by bytes
\* the client sent later.
ProgramSeesPrefix == gotten = [i \in 1 .. Len(gotten) |-> i]

\* A call of the harness that set a timer returns; my_recv and my_send return
\* once the server has closed that direction; and recv and read of the server
\* return once the client has closed.
CallsReturn ==
  /\ (cop # "none" /\ timed) ~> (cop = "none")
  /\ (cop = "recv" /\ serverWrite) ~> (cop = "none")
  /\ (cop = "send" /\ serverRead) ~> (cop = "none")
  /\ (spc \in {"look", "empty", "take"} /\ clientWrite) ~> (spc = "app")
=============================================================================
