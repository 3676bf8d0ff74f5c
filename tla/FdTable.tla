------------------------------ MODULE FdTable ------------------------------
(***************************************************************************)
(* The descriptors of the hooked server (socket_hook.c, stack.c): a stack  *)
(* of free fds, a stack of free units of the shared segment, and           *)
(* socket_arr, with socket, socketpair, bind, accept, close and fork.  All *)
(* three are private to a process, and fork copies them; the units are     *)
(* shared by everybody.                                                    *)
(*                                                                         *)
(* Left out: what else a socket_arr entry holds, the queues of the         *)
(* handshake (module Handshake), shutdown (Session), the end of a process. *)
(***************************************************************************)
EXTENDS Integers, Sequences, SequencesExt

CONSTANTS
  Procs,          \* processes
  parent,         \* the one that is there from the start
  NFds,           \* fds
  SOCKET_NUM,     \* units
  Servers,        \* the programs it may be
  MaxOpens        \* bound: sockets ever made

ASSUME FdTableAssumption ==
  /\ parent \in Procs
  /\ {NFds, SOCKET_NUM} \subseteq Nat \ {0} /\ MaxOpens \in Nat
  /\ Servers \subseteq {"DNSMASQ", "TINYDTLS", "DCMQRSCP"}

Fds == 0 .. NFds - 1
Units == 0 .. SOCKET_NUM - 1
INT_MIN == -1          \* what pop returns of an empty stack

VARIABLES
  server,
  alive,                 \* the processes there are
  forked,                \* those whose fork_pid is their own pid
  available_fd, available_share_unit, socket_arr,    \* of each process
  open,                  \* fds its program has got, and not closed
  pending,               \* the socketpair or accept it is in the middle of
  close_arr,             \* of each unit: a server flag is raised
  opens,                 \* sockets made so far
  serves,                \* history: the socket each unit was made new for
  taken,                 \* history: units a child has popped
  stray,                 \* history: units closed though new for another socket
  lostFds, lostUnits     \* history: what a failing exit has lost

stacks == <<available_fd, available_share_unit>>
private == <<socket_arr, open, pending>>
shared == <<close_arr, opens, serves, taken>>
losses == <<lostFds, lostUnits>>
vars == <<server, alive, forked, stacks, private, shared, stray, losses>>

-----------------------------------------------------------------------------
(* Slips, each in place of the definition it is named after. *)

Slip_FreeUnits == [i \in 1 .. SOCKET_NUM |-> SOCKET_NUM + 1 - i]     \* 1, 2, ...
Slip_Freed(p, fd) == 0                      \* read after the memset
Slip_MayRaise(p) == server = "DCMQRSCP"     \* whoever closes raises the flags
-----------------------------------------------------------------------------
\* memset
Cleared == [in_use |-> FALSE, has_bind |-> FALSE, share_unit_index |-> 0, made |-> 0]

\* Lower fds are pushed first, and higher units.
FreeFds == [i \in 1 .. NFds |-> i - 1]
FreeUnits ==
  [i \in 1 .. SOCKET_NUM |-> SOCKET_NUM - i]

NotPending == [call |-> "none", fd |-> INT_MIN, listener |-> INT_MIN]

Init ==
  /\ server \in Servers
  /\ alive = {parent} /\ forked = {}
  /\ available_fd = [p \in Procs |-> FreeFds]
  /\ available_share_unit = [p \in Procs |-> FreeUnits]
  /\ socket_arr = [p \in Procs |-> [fd \in Fds |-> Cleared]]
  /\ open = [p \in Procs |-> {}]
  /\ pending = [p \in Procs |-> NotPending]
  /\ close_arr = [u \in Units |-> FALSE]
  /\ opens = 0 /\ serves = [u \in Units |-> 0] /\ taken = {} /\ stray = {}
  /\ lostFds = [p \in Procs |-> {}] /\ lostUnits = [p \in Procs |-> {}]
-----------------------------------------------------------------------------
(* stack.c: the top of a stack is the end of the sequence. *)

push(stack, item, capacity) ==
  IF Len(stack) = capacity THEN stack ELSE Append(stack, item)

top(stack) == IF stack = <<>> THEN INT_MIN ELSE stack[Len(stack)]
popped(stack) == SubSeq(stack, 1, Len(stack) - 1)

FreeFd(p) == top(available_fd[p])
FreeUnit(p) == top(available_share_unit[p])
-----------------------------------------------------------------------------
\* A process's program makes its calls one after the other.
Calls(p) == p \in alive /\ pending[p] = NotPending

HasFd(p) == available_fd[p] # <<>>
HasUnit(p) == available_share_unit[p] # <<>>

\* pop a fd, then init_socket, which pops a unit and makes its queues new.
Take(p) ==
  /\ HasFd(p) /\ HasUnit(p) /\ opens < MaxOpens
  /\ socket_arr' = [socket_arr EXCEPT ![p][FreeFd(p)] =
       [in_use |-> TRUE, has_bind |-> FALSE, share_unit_index |-> FreeUnit(p),
        made |-> opens + 1]]
  /\ available_fd' = [available_fd EXCEPT ![p] = popped(@)]
  /\ available_share_unit' = [available_share_unit EXCEPT ![p] = popped(@)]
  /\ opens' = opens + 1
  /\ serves' = [serves EXCEPT ![FreeUnit(p)] = opens + 1]
  /\ taken' = IF p = parent THEN taken ELSE taken \cup {FreeUnit(p)}

\* init_socket that finds no unit has taken the entry already.
Botched(p) ==
  socket_arr' = [socket_arr EXCEPT ![p][FreeFd(p)] =
    [in_use |-> TRUE, has_bind |-> FALSE, share_unit_index |-> INT_MIN, made |-> 0]]

Lose(p, fds, us) ==
  /\ lostFds' = [lostFds EXCEPT ![p] = @ \cup fds]
  /\ lostUnits' = [lostUnits EXCEPT ![p] = @ \cup us]

Unchanging == UNCHANGED <<server, alive, forked>>
-----------------------------------------------------------------------------
(* socket, socketpair, bind.  A call that finds no fd changes nothing. *)

socket(p) ==
  /\ Calls(p) /\ Take(p)
  /\ open' = [open EXCEPT ![p] = @ \cup {FreeFd(p)}]
  /\ Unchanging /\ UNCHANGED <<pending, close_arr, stray, losses>>

\* socket, or socketpair at once, with a fd and no unit.
NoUnit(p) ==
  /\ Calls(p) /\ HasFd(p) /\ ~HasUnit(p)
  /\ Botched(p)
  /\ available_fd' = [available_fd EXCEPT ![p] = popped(@)]
  /\ Lose(p, {FreeFd(p)}, {})
  /\ Unchanging /\ UNCHANGED <<available_share_unit, open, pending, shared, stray>>

socketpair(p) ==
  /\ Calls(p) /\ Take(p)
  /\ pending' = [pending EXCEPT ![p] =
       [call |-> "socketpair", fd |-> FreeFd(p), listener |-> INT_MIN]]
  /\ Unchanging /\ UNCHANGED <<open, close_arr, stray, losses>>

\* Its second half: with a fd and a unit; without a fd; without a unit.
SecondMade(p) ==
  /\ pending[p].call = "socketpair" /\ Take(p)
  /\ open' = [open EXCEPT ![p] = @ \cup {pending[p].fd, FreeFd(p)}]
  /\ pending' = [pending EXCEPT ![p] = NotPending]
  /\ Unchanging /\ UNCHANGED <<close_arr, stray, losses>>

SecondNoFd(p) ==
  /\ pending[p].call = "socketpair" /\ ~HasFd(p)
  /\ LET fd == pending[p].fd
     IN /\ socket_arr' = [socket_arr EXCEPT ![p][fd] = Cleared]
        /\ available_fd' = [available_fd EXCEPT ![p] = push(@, fd, NFds)]
        /\ Lose(p, {}, {socket_arr[p][fd].share_unit_index})
  /\ pending' = [pending EXCEPT ![p] = NotPending]
  /\ Unchanging /\ UNCHANGED <<available_share_unit, open, shared, stray>>

SecondNoUnit(p) ==
  /\ pending[p].call = "socketpair"
  /\ HasFd(p) /\ ~HasUnit(p)
  /\ LET fd == pending[p].fd
     IN Lose(p, {fd, FreeFd(p)}, {socket_arr[p][fd].share_unit_index})
  /\ Botched(p)
  /\ available_fd' = [available_fd EXCEPT ![p] = popped(@)]
  /\ pending' = [pending EXCEPT ![p] = NotPending]
  /\ Unchanging /\ UNCHANGED <<available_share_unit, open, shared, stray>>

bind(p, fd) ==
  /\ Calls(p) /\ fd \in open[p]
  /\ socket_arr' = [socket_arr EXCEPT ![p][fd].has_bind = TRUE]
  /\ Unchanging /\ UNCHANGED <<stacks, open, pending, shared, stray, losses>>
-----------------------------------------------------------------------------
(* accept: the fd and the unit are taken before there is a connection.  An *)
(* init_socket that finds no unit is the one whose fd is given back.       *)

accept(p, listener) ==
  /\ Calls(p) /\ listener \in open[p] /\ Take(p)
  /\ pending' = [pending EXCEPT ![p] =
       [call |-> "accept", fd |-> FreeFd(p), listener |-> listener]]
  /\ Unchanging /\ UNCHANGED <<open, close_arr, stray, losses>>

AcceptNoUnit(p, listener) ==
  /\ Calls(p) /\ listener \in open[p]
  /\ HasFd(p) /\ ~HasUnit(p)
  /\ Botched(p)
  /\ available_fd' = [available_fd EXCEPT ![p] = push(popped(@), FreeFd(p), NFds)]
  /\ Unchanging
  /\ UNCHANGED <<available_share_unit, open, pending, shared, stray, losses>>

InAccept(p) == pending[p].call = "accept"
Bound(p) == socket_arr[p][pending[p].listener].has_bind
NewUnit(p) == socket_arr[p][pending[p].fd].share_unit_index

\* The flags are cleared for the client of a connection to the bound address.
Accepted(p, matches) ==
  /\ InAccept(p) /\ Bound(p)
  /\ close_arr' = IF matches THEN [close_arr EXCEPT ![NewUnit(p)] = FALSE] ELSE close_arr
  /\ open' = [open EXCEPT ![p] = @ \cup {pending[p].fd}]
  /\ pending' = [pending EXCEPT ![p] = NotPending]
  /\ Unchanging /\ UNCHANGED <<stacks, socket_arr, opens, serves, taken, stray, losses>>

\* The lock of the connect queue cannot be had.
AcceptNoLock(p) ==
  /\ InAccept(p) /\ Bound(p)
  /\ available_fd' = [available_fd EXCEPT ![p] = push(@, pending[p].fd, NFds)]
  /\ Lose(p, {}, {NewUnit(p)})
  /\ pending' = [pending EXCEPT ![p] = NotPending]
  /\ Unchanging /\ UNCHANGED <<available_share_unit, socket_arr, open, shared, stray>>

\* The listening socket is not bound; or another process, by now, has taken
\* the connection.
AcceptFails(p) ==
  /\ InAccept(p) /\ (~Bound(p) \/ alive # {p})
  /\ Lose(p, {pending[p].fd}, {NewUnit(p)})
  /\ pending' = [pending EXCEPT ![p] = NotPending]
  /\ Unchanging /\ UNCHANGED <<stacks, socket_arr, open, shared, stray>>
-----------------------------------------------------------------------------
(* close and fork *)

\* The unit that close pushes.
Freed(p, fd) ==
  socket_arr[p][fd].share_unit_index

\* A process dcmqrscp has forked does not tell the client.
MayRaise(p) ==
  server = "DCMQRSCP" /\ p \notin forked

close(p, fd) ==
  /\ Calls(p) /\ fd \in open[p]
  /\ LET u == socket_arr[p][fd].share_unit_index
     IN /\ close_arr' = [close_arr EXCEPT ![u] = @ \/ MayRaise(p)]
        /\ stray' = IF MayRaise(p) /\ serves[u] # socket_arr[p][fd].made
                    THEN stray \cup {u} ELSE stray
  /\ available_share_unit' = [available_share_unit EXCEPT ![p] =
       push(@, Freed(p, fd), SOCKET_NUM)]
  /\ socket_arr' = [socket_arr EXCEPT ![p][fd] = Cleared]
  /\ available_fd' = [available_fd EXCEPT ![p] = push(@, fd, NFds)]
  /\ open' = [open EXCEPT ![p] = @ \ {fd}]
  /\ Unchanging /\ UNCHANGED <<pending, opens, serves, taken, losses>>

fork(p, child) ==
  /\ Calls(p) /\ child \in Procs \ alive
  /\ alive' = alive \cup {child}
  /\ forked' = IF server = "DNSMASQ" THEN forked ELSE forked \cup {child}
  /\ available_fd' = [available_fd EXCEPT ![child] = available_fd[p]]
  /\ available_share_unit' =
       [available_share_unit EXCEPT ![child] = available_share_unit[p]]
  /\ socket_arr' = [socket_arr EXCEPT ![child] = socket_arr[p]]
  /\ open' = [open EXCEPT ![child] = open[p]]
  /\ lostFds' = [lostFds EXCEPT ![child] = lostFds[p]]
  /\ lostUnits' = [lostUnits EXCEPT ![child] = lostUnits[p]]
  /\ UNCHANGED <<server, pending, shared, stray>>
-----------------------------------------------------------------------------
Step(p) ==
  \/ socket(p) \/ NoUnit(p)
  \/ socketpair(p) \/ SecondMade(p) \/ SecondNoFd(p) \/ SecondNoUnit(p)
  \/ \E fd \in Fds : bind(p, fd) \/ close(p, fd) \/ accept(p, fd) \/ AcceptNoUnit(p, fd)
  \/ \E matches \in BOOLEAN : Accepted(p, matches)
  \/ AcceptNoLock(p) \/ AcceptFails(p)
  \/ \E child \in Procs : fork(p, child)

Next == \E p \in Procs : Step(p)

Spec == Init /\ [][Next]_vars
-----------------------------------------------------------------------------
Entries == [in_use : BOOLEAN, has_bind : BOOLEAN,
            share_unit_index : Units \cup {INT_MIN}, made : 0 .. MaxOpens]

Pendings == [call : {"none", "socketpair", "accept"}, fd : Fds \cup {INT_MIN},
             listener : Fds \cup {INT_MIN}]

\* The variables have the values the code can give them.
TypeOK ==
  /\ server \in Servers /\ alive \subseteq Procs /\ forked \subseteq alive
  /\ available_fd \in [Procs -> Seq(Fds)]
  /\ available_share_unit \in [Procs -> Seq(Units)]
  /\ socket_arr \in [Procs -> [Fds -> Entries]]
  /\ open \in [Procs -> SUBSET Fds] /\ pending \in [Procs -> Pendings]
  /\ close_arr \in [Units -> BOOLEAN]
  /\ opens \in 0 .. MaxOpens /\ serves \in [Units -> 0 .. MaxOpens]
  /\ taken \subseteq Units /\ stray \subseteq Units
  /\ lostFds \in [Procs -> SUBSET Fds] /\ lostUnits \in [Procs -> SUBSET Units]

\* Fds in the hands of a process: open, or those of the call it is in.
Held(p) == open[p] \cup ({pending[p].fd} \ {INT_MIN})
UnitsHeld(p) == {socket_arr[p][fd].share_unit_index : fd \in Held(p)}

\* A set is split up into a stack without repetitions and two other sets.
Split(all, stack, a, b) ==
  /\ IsInjective(stack)
  /\ all = ToSet(stack) \cup a \cup b
  /\ ToSet(stack) \cap a = {} /\ ToSet(stack) \cap b = {} /\ a \cap b = {}

\* No fd is handed out twice or forgotten, and no unit, whatever sockets a
\* process makes, accepts and closes, before and after a fork: each is on its
\* stack, or held by one open socket, or was lost on an exit of socket,
\* socketpair or accept that fails and does not give back.
Accounted ==
  \A p \in alive :
    /\ Split(Fds, available_fd[p], Held(p), lostFds[p])
    /\ Split(Units, available_share_unit[p], UnitsHeld(p), lostUnits[p])
    /\ \A fd, other \in Held(p) :
         socket_arr[p][fd].share_unit_index = socket_arr[p][other].share_unit_index
           => fd = other

\* close tells a client that the server has gone.  Parent and child both close
\* the fd of a connection, and the parent may have given the unit to a second
\* client by then: that client is not told of the first one's close, unless the
\* child has made sockets of its own from its copy of the stack.
OnlyItsOwnClient == stray \subseteq taken
=============================================================================
