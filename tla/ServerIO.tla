------------------------------ MODULE ServerIO ------------------------------
(***************************************************************************)
(* The hooked server's side of a connection (socket_hook.c): recv, read,   *)
(* write, poll, shutdown, fcntl and close on one stream socket, and the    *)
(* notes that it sends over the control socket for the harness to know     *)
(* that a round is over.                                                   *)
(*                                                                         *)
(* The server has a single thread and ignores SIGPIPE.  It is dnsmasq, or  *)
(* dcmqrscp as one process, or a child that dcmqrscp has forked for this   *)
(* connection.                                                             *)
(*                                                                         *)
(* Left out: how poll finds out what it reports, and timeouts (HookWait);  *)
(* send (SendStream), which has no part in the counts; MSG_PEEK; errors of *)
(* the control socket other than an interrupt.                             *)
(***************************************************************************)
EXTENDS Channel

CONSTANTS
  Servers,      \* the programs it may be
  MaxWrites,    \* bound: writes
  MaxNotes,     \* bound: notes the harness has not taken
  MaxAsk        \* bound: bytes a call asks for

ASSUME ServerAssumption ==
  /\ Servers \subseteq {"DNSMASQ", "DCMQRSCP", "DCMQRSCP child"}
  /\ {MaxWrites, MaxNotes, MaxAsk} \subseteq Nat

VARIABLES
  server,                       \* the program
  spc,                          \* where it is
  len, flags, held,             \* recv and read: asked for, flags, got so far
  shutdown_read, shutdown_write, nonblocking,
  read_count, write_count,
  control,                      \* notes on their way: the write, or malformed
  gotten,                       \* all the bytes the program has been given
  writes,                       \* writes so far
  untold,                       \* history: bytes read, no note sent since
  interrupted                   \* history: a note was given up for a signal

reading == <<len, flags, held>>
modes == <<shutdown_read, shutdown_write, nonblocking>>
counts == <<read_count, write_count>>
serverState == <<server, spc, reading, modes, counts, control, gotten, writes,
                 untold, interrupted>>

Malformed == 0
IsDcmqrscp == server # "DNSMASQ"

ServerInit ==
  /\ server \in Servers
  /\ spc = "app" /\ len = 0 /\ flags = {} /\ held = <<>>
  /\ shutdown_read = FALSE /\ shutdown_write = FALSE /\ nonblocking = FALSE
  /\ read_count = 0 /\ write_count = 0 /\ control = <<>>
  /\ gotten = <<>> /\ writes = 0 /\ untold = FALSE /\ interrupted = FALSE

\* A note is sent; its send may be interrupted, and no caller sends it again
\* (poll means to, but compares the -1 it gets as an unsigned number).
Tell(note) ==
  \/ /\ Len(control) < MaxNotes /\ control' = Append(control, note)
     /\ untold' = FALSE /\ UNCHANGED interrupted
  \/ interrupted' = TRUE /\ UNCHANGED <<control, untold>>
NoNote == UNCHANGED <<control, untold, interrupted>>
-----------------------------------------------------------------------------
(* Slips, each in place of the definition it is named after. *)

Slip_Ended == shutdown_read             \* the client's close is not seen first
Slip_ResponseRoom == TRUE               \* write does not wait
Slip_Suspicious(n) == n = 5             \* malformed two reads later
Slip_NewTurn(c) == c                    \* a read does not begin a new turn
-----------------------------------------------------------------------------
(* recv and read *)

\* What a reading call looks at first.
Ended == shutdown_read \/ clientWrite

\* Past the flags: the call waits, or has nothing to read and may not wait.
Enter(n, f) ==
  IF (nonblocking \/ "dontwait" \in f) /\ request = <<>>
  THEN UNCHANGED <<spc, reading>>
  ELSE spc' = "look" /\ len' = n /\ flags' = f /\ held' = <<>>

Recv(n, f) ==
  /\ spc = "app" /\ ~Ended
  /\ Enter(n, f)
  /\ UNCHANGED <<server, modes, counts, control, gotten, writes, untold,
                 interrupted, channel>>

\* dcmqrscp begins a new turn of writes.
NewTurn(c) == IF IsDcmqrscp THEN 0 ELSE c

\* A read too many without a write between: the request must be malformed.
Suspicious(n) == IF IsDcmqrscp THEN n >= 3 ELSE n = 4

\* read counts itself before it looks at the queue.
Read(n) ==
  /\ spc = "app" /\ ~Ended
  /\ IF Suspicious(read_count + 1) THEN Tell(Malformed) /\ read_count' = 1
     ELSE NoNote /\ read_count' = read_count + 1
  /\ write_count' = NewTurn(write_count)
  /\ Enter(n, {"read"})
  /\ UNCHANGED <<server, modes, gotten, writes, channel>>

\* The call ends, and gives the program bs.
Give(bs) ==
  /\ gotten' = gotten \o bs
  /\ untold' = (untold \/ ("read" \in flags /\ bs # <<>>))
  /\ spc' = "app" /\ len' = 0 /\ flags' = {} /\ held' = <<>>

ReadLook ==
  /\ spc = "look"
  /\ spc' = IF request = <<>> THEN "empty" ELSE "take"
  /\ UNCHANGED <<server, reading, modes, counts, control, gotten, writes, untold,
                 interrupted, channel>>

\* The queue was empty: a call whose client has closed returns 0, and what it
\* held for MSG_WAITALL is gone.
ReadEmpty ==
  /\ spc = "empty"
  /\ IF clientWrite THEN Give(<<>>)
     ELSE spc' = "look" /\ UNCHANGED <<reading, gotten, untold>>
  /\ UNCHANGED <<server, modes, counts, control, writes, interrupted, channel>>

\* stream_dequeue under the lock; MSG_WAITALL goes on until all is there.
ReadTake ==
  /\ spc = "take"
  /\ LET bs == held \o Taken(request, len - Len(held))
     IN /\ request' = Rest(request, len - Len(held))
        /\ IF "waitall" \in flags /\ Len(bs) < len
           THEN /\ spc' = "look" /\ held' = bs
                /\ UNCHANGED <<len, flags, gotten, untold>>
           ELSE Give(bs)
  /\ UNCHANGED <<server, modes, counts, control, writes, interrupted, response,
                 clientFlags, serverFlags>>
-----------------------------------------------------------------------------
(* write *)

\* SIGPIPE, for a socket shut down, is ignored, and the call goes on.
Write ==
  /\ spc = "app" /\ writes < MaxWrites
  /\ ~(nonblocking /\ ResponseFull)
  /\ spc' = "room"
  /\ UNCHANGED <<server, reading, modes, counts, control, gotten, writes, untold,
                 interrupted, channel>>

ResponseRoom == ~ResponseFull

\* The wait for room, which no close of the client ends; then stream_enqueue.
WritePut ==
  /\ spc = "room" /\ ResponseRoom
  /\ writes' = writes + 1
  /\ response' = IF ResponseFull THEN response ELSE Append(response, writes + 1)
  /\ spc' = "tell"
  /\ UNCHANGED <<server, reading, modes, counts, control, gotten, untold,
                 interrupted, request, clientFlags, serverFlags>>

\* The first write of a turn is told to the harness.
WriteTell ==
  /\ spc = "tell" /\ spc' = "app"
  /\ IF write_count = 0 THEN Tell(writes) ELSE NoNote
  /\ read_count' = 0
  /\ write_count' = IF IsDcmqrscp THEN write_count + 1 ELSE write_count
  /\ UNCHANGED <<server, reading, modes, gotten, writes, channel>>
-----------------------------------------------------------------------------
(* poll, fcntl, shutdown, close *)

\* How many reads without a write make a poll of dcmqrscp send a note.
Threshold(n) == n >= 1

Poll ==
  /\ spc = "app" /\ spc' = "poll"
  /\ IF IsDcmqrscp /\ Threshold(read_count)
     THEN Tell(Malformed) /\ read_count' = 0
     ELSE NoNote /\ UNCHANGED read_count
  /\ write_count' = 0
  /\ UNCHANGED <<server, reading, modes, gotten, writes, channel>>

PollReturn ==
  /\ spc = "poll" /\ spc' = "app"
  /\ UNCHANGED <<server, reading, modes, counts, control, gotten, writes, untold,
                 interrupted, channel>>

\* fcntl(F_SETFL)
SetNonblocking ==
  /\ spc = "app" /\ nonblocking' = ~nonblocking
  /\ UNCHANGED <<server, spc, reading, shutdown_read, shutdown_write, counts,
                 control, gotten, writes, untold, interrupted, channel>>

\* how: SHUT_RD, SHUT_WR, or both.
Shutdown(how) ==
  /\ spc = "app"
  /\ shutdown_read' = (shutdown_read \/ "read" \in how)
  /\ shutdown_write' = (shutdown_write \/ "write" \in how)
  /\ serverRead' = (serverRead \/ "read" \in how)
  /\ serverWrite' = (serverWrite \/ "write" \in how)
  /\ UNCHANGED <<server, spc, reading, nonblocking, counts, control, gotten,
                 writes, untold, interrupted, queues, clientFlags>>

\* Only a dcmqrscp that is nobody's child tells the client.
ServerClose ==
  /\ spc = "app" /\ spc' = "closed"
  /\ serverRead' = (serverRead \/ server = "DCMQRSCP")
  /\ serverWrite' = (serverWrite \/ server = "DCMQRSCP")
  /\ read_count' = 0 /\ write_count' = 0
  /\ UNCHANGED <<server, reading, modes, control, gotten, writes, untold,
                 interrupted, queues, clientFlags>>
-----------------------------------------------------------------------------
\* The calls a program makes; and the steps of a call that has begun.
ServerCall(calls) ==
  \/ \E n \in 1 .. MaxAsk, f \in SUBSET {"waitall", "dontwait"} :
       "recv" \in calls /\ f \subseteq calls /\ Recv(n, f)
  \/ \E n \in 1 .. MaxAsk : "read" \in calls /\ Read(n)
  \/ "write" \in calls /\ Write
  \/ "poll" \in calls /\ Poll
  \/ "fcntl" \in calls /\ SetNonblocking
  \/ \E how \in (SUBSET {"read", "write"}) \ {{}} :
       "shutdown" \in calls /\ Shutdown(how)
  \/ "close" \in calls /\ ServerClose

ServerStep ==
  ReadLook \/ ReadEmpty \/ ReadTake \/ WritePut \/ WriteTell \/ PollReturn

ServerTypeOK ==
  /\ server \in Servers
  /\ spc \in {"app", "look", "empty", "take", "room", "tell", "poll", "closed"}
  /\ len \in 0 .. MaxAsk /\ flags \subseteq {"waitall", "dontwait", "read"}
  /\ held \in Seq(Nat) /\ gotten \in Seq(Nat)
  /\ read_count \in 0 .. 3 /\ write_count \in 0 .. MaxWrites
  /\ control \in Seq(0 .. MaxWrites) /\ writes \in 0 .. MaxWrites
  /\ shutdown_read \in BOOLEAN /\ shutdown_write \in BOOLEAN
  /\ nonblocking \in BOOLEAN /\ untold \in BOOLEAN /\ interrupted \in BOOLEAN
=============================================================================
