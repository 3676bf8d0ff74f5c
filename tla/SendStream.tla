----------------------------- MODULE SendStream -----------------------------
(***************************************************************************)
(* send and write of the hooked server on a stream socket (socket_hook.c): *)
(* a long send goes into the response queue in chunks of LO_MSS bytes, the *)
(* lock given back between two of them; a short one with MSG_MORE is kept, *)
(* and goes in front of the next send.  The client reads at any time, and  *)
(* may close.                                                              *)
(*                                                                         *)
(* The server's program has a stream to send, whose bytes are 1, 2, 3, ... *)
(* It goes on behind the bytes that the last call has said it took.        *)
(*                                                                         *)
(* The queue is a sequence of bytes (StreamQueue has the ring).  Left out: *)
(* shutdown; timeouts (HookWait); a nonblocking call on a full queue, which *)
(* returns -1 and changes nothing; the control messages of write.          *)
(***************************************************************************)
EXTENDS Integers, Sequences

CONSTANTS
  Capacity,     \* STREAM_QUEUE_CAPACITY
  LO_MSS,       \* bytes of a chunk
  MaxLen,       \* bound: bytes of a call
  MaxBytes      \* bound: bytes of the program's stream

ASSUME SendAssumption ==
  Capacity \in Nat \ {0} /\ LO_MSS \in Nat \ {0} /\ MaxLen \in Nat /\ MaxBytes \in Nat

VARIABLES
  response_queue,   \* the bytes in the queue
  received,         \* the bytes the client has read
  client_read,      \* the client has closed
  msg_more_buf,     \* the bytes kept for the next send
  spc,              \* where the server is
  len, more,        \* the call's arguments
  rest,             \* what is behind the chunks already put
  count,            \* what the call will return
  taken,            \* bytes of the stream that calls have said they took
  \* history
  tight,            \* a send of several parts did not fit when it began
  overtaken         \* a write has gone past kept bytes

queueVars == <<response_queue, received, client_read>>
callVars == <<len, more>>
vars == <<queueVars, msg_more_buf, spc, callVars, rest, count, taken, tight,
          overtaken>>

Lesser(a, b) == IF a < b THEN a ELSE b
Greater(a, b) == IF a > b THEN a ELSE b
Front(s, n) == SubSeq(s, 1, Lesser(n, Len(s)))
Run(m, n) == [i \in 1 .. n |-> m + i]   \* n bytes of the stream, behind byte m
-----------------------------------------------------------------------------
\* Slips the code could have had; each stands in for the definition it is
\* named after to show that a property notices.
Slip_Keeps == more /\ len < LO_MSS               \* forgets the bytes it has
Slip_Room == Len(response_queue) + len <= Capacity  \* for the whole call
Slip_OwnOf(n) == n                               \* counts the kept bytes, too
-----------------------------------------------------------------------------
Init ==
  /\ response_queue = <<>> /\ received = <<>> /\ client_read = FALSE
  /\ msg_more_buf = <<>>
  /\ spc = "idle" /\ len = 0 /\ more = FALSE
  /\ rest = <<>> /\ count = 0 /\ taken = 0
  /\ tight = FALSE /\ overtaken = FALSE

\* The calls wait for this without the lock.
Room == Len(response_queue) # Capacity

\* stream_enqueue puts as much as fits, and returns how much that is.
Fits(s) == Lesser(Capacity - Len(response_queue), Len(s))
Enqueue(s) == response_queue' = response_queue \o Front(s, Fits(s))

\* The bytes of this call, with the kept ones in front.
Bytes == Run(taken, len)
Total == msg_more_buf \o Bytes

Keeps == more /\ Len(msg_more_buf) + len < LO_MSS

\* What is left of s behind a chunk, however much of the chunk was put.
Behind(s) == SubSeq(s, LO_MSS + 1, Len(s))

\* Of n bytes put, those that are the call's own.
OwnOf(n) == Greater(n - Len(msg_more_buf), 0)

Finish(n) == spc' = "idle" /\ taken' = taken + n /\ count' = n
-----------------------------------------------------------------------------
(* The client: my_recv of any number of bytes, and my_close *)

Receive ==
  /\ response_queue # <<>> /\ ~client_read
  /\ \E n \in 1 .. Len(response_queue) :
       /\ received' = received \o Front(response_queue, n)
       /\ response_queue' = SubSeq(response_queue, n + 1, Len(response_queue))
  /\ UNCHANGED <<client_read, msg_more_buf, spc, callVars, rest, count, taken,
                 tight, overtaken>>

ClientClose ==
  /\ ~client_read /\ client_read' = TRUE
  /\ UNCHANGED <<response_queue, received, msg_more_buf, spc, callVars, rest,
                 count, taken, tight, overtaken>>
-----------------------------------------------------------------------------
(* The server: send and write *)

Start(call, n, m) ==
  /\ spc = "idle" /\ taken + n <= MaxBytes
  /\ spc' = call /\ len' = n /\ more' = m
  /\ UNCHANGED <<queueVars, msg_more_buf, rest, count, taken, tight, overtaken>>

\* A wait for room that meets a close ends in EPIPE, or in SIGPIPE, which by
\* default ends the program.
Wait(call, next) ==
  /\ spc = call
  /\ \/ Room /\ spc' = next
     \/ ~Room /\ client_read /\ spc' = "idle"
  /\ UNCHANGED <<queueVars, msg_more_buf, callVars, rest, count, taken, tight,
                 overtaken>>

WaitSend == Wait("send", "first")
WaitWrite == Wait("write", "only")

\* MSG_MORE, and together less than a chunk: nothing is put.
Keep ==
  /\ spc = "first" /\ Keeps
  /\ msg_more_buf' = Total
  /\ Finish(len)
  /\ UNCHANGED <<queueVars, callVars, rest, tight, overtaken>>

\* The first chunk, which is the last if it is not a full one.  The buffer of
\* kept bytes is freed when all chunks are put; nobody looks at it before.
FirstChunk ==
  /\ spc = "first" /\ ~Keeps
  /\ LET chunk == Front(Total, LO_MSS)
         own == OwnOf(Fits(chunk))
     IN /\ Enqueue(chunk)
        /\ IF Len(Total) < LO_MSS
           THEN Finish(own) /\ UNCHANGED rest
           ELSE /\ spc' = "chunk" /\ count' = own /\ rest' = Behind(Total)
                /\ UNCHANGED taken
  /\ tight' = (tight \/ /\ Len(response_queue) + Len(Total) > Capacity
                        /\ Len(Total) >= LO_MSS \/ msg_more_buf # <<>>)
  /\ msg_more_buf' = <<>>
  /\ UNCHANGED <<received, client_read, callVars, overtaken>>

\* The wait before each further chunk does not look at the close flag.
WaitChunk ==
  /\ spc = "chunk" /\ Room
  /\ spc' = "next"
  /\ UNCHANGED <<queueVars, msg_more_buf, callVars, rest, count, taken, tight,
                 overtaken>>

NextChunk ==
  /\ spc = "next"
  /\ LET chunk == Front(rest, LO_MSS)
     IN /\ Enqueue(chunk)
        /\ IF Len(rest) < LO_MSS
           THEN Finish(count + Fits(chunk)) /\ UNCHANGED rest
           ELSE /\ spc' = "chunk" /\ count' = count + Fits(chunk)
                /\ rest' = Behind(rest) /\ UNCHANGED taken
  /\ UNCHANGED <<received, client_read, msg_more_buf, callVars, tight, overtaken>>

\* write puts what fits, in one piece, and leaves the kept bytes where they are.
WriteOnce ==
  /\ spc = "only"
  /\ Enqueue(Bytes)
  /\ Finish(Fits(Bytes))
  /\ overtaken' = (overtaken \/ (msg_more_buf # <<>> /\ Fits(Bytes) > 0))
  /\ UNCHANGED <<received, client_read, msg_more_buf, callVars, rest, tight>>
-----------------------------------------------------------------------------
ServerStep ==
  WaitSend \/ WaitWrite \/ Keep \/ FirstChunk \/ WaitChunk \/ NextChunk \/ WriteOnce

Next ==
  \/ Receive \/ ClientClose
  \/ \E n \in 0 .. MaxLen, m \in BOOLEAN : Start("send", n, m)
  \/ \E n \in 0 .. MaxLen : Start("write", n, FALSE)
  \/ ServerStep

Spec == Init /\ [][Next]_vars

\* A call that has begun is carried on, and a client that has not closed reads.
FairSpec == Spec /\ WF_vars(ServerStep) /\ WF_vars(Receive)
-----------------------------------------------------------------------------
\* The kept bytes are never enough for a chunk.
TypeOK ==
  /\ response_queue \in Seq(Nat) /\ Len(response_queue) <= Capacity
  /\ received \in Seq(Nat) /\ client_read \in BOOLEAN
  /\ msg_more_buf \in Seq(Nat) /\ Len(msg_more_buf) < LO_MSS
  /\ spc \in {"idle", "send", "first", "chunk", "next", "write", "only"}
  /\ len \in 0 .. MaxLen /\ more \in BOOLEAN /\ rest \in Seq(Nat)
  /\ count \in 0 .. MaxLen /\ taken \in 0 .. MaxBytes
  /\ tight \in BOOLEAN /\ overtaken \in BOOLEAN

\* Between two calls, what the client has read, what is queued and what is
\* kept are, in this order, the bytes of the stream that calls have said they
\* took: none lost, none twice, none out of order, although long sends are cut
\* into chunks between which the client reads, and a full queue cuts a call
\* short.  Unless a send of several parts did not fit, in which case what was
\* cut off a part is not noticed; or a write has gone past kept bytes.
StreamIntact ==
  (spc = "idle" /\ ~tight /\ ~overtaken) =>
    received \o response_queue \o msg_more_buf = Run(0, taken)

\* A send or a write to a client that reads returns.
SendReturns == spc # "idle" ~> (spc = "idle" \/ client_read)
=============================================================================
