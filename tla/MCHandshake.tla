---------------------------- MODULE MCHandshake ----------------------------
(***************************************************************************)
(* TLC's instances of the handshake, and the scheduling under which every  *)
(* connect is answered.                                                    *)
(***************************************************************************)
EXTENDS Handshake, TLC

CONSTANTS c1, c2

\* For the safety run, in which the clients can do the same things.
Symmetry == Permutations(Clients)

\* Bound: the last session is not spent on a torn queue, of which little is
\* promised.
FewOnceTorn == torn => sessions < MaxSessions

(***************************************************************************)
(* A server that serves one session after the other (inet_server.c without *)
(* its fork) and clients that end the sessions they begin (main of         *)
(* inet_client_shm.c).  Nobody is killed.  Each process is given the       *)
(* processor again and again, which is all that its polling loops need;    *)
(* nothing obliges a client to start, or to send.                          *)
(***************************************************************************)
Serving == \E u \in Units : sock[u] \in {"open", "eof"}

ServerLoop ==
  \/ Boot
  \/ AcceptStart /\ ~Serving
  \/ Accept
  \/ \E u \in Units : ReadStart(u) \/ (Close(u) /\ sock[u] = "eof")
  \/ ReadFinish \/ ReadEof

ClientLoop(c) == Connect(c) \/ CloseRead(c) \/ CloseWrite(c)

LoopNext ==
  \/ ServerLoop
  \/ \E c \in Clients : ClientLoop(c) \/ ConnectStart(c) \/ Send(c)

LoopSpec ==
  /\ Init /\ [][LoopNext]_vars
  /\ WF_vars(ServerLoop)
  /\ \A c \in Clients : WF_vars(ClientLoop(c))

=============================================================================
