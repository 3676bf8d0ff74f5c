----------------------------- MODULE Handshake -----------------------------
(***************************************************************************)
(* How clients and the hooked server meet, talk and part, over the shared  *)
(* memory that both map:                                                   *)
(*                                                                         *)
(*   client (inet_client_shm.c)          server (socket_hook.c)            *)
(*   my_connect   -- connection  -->     accept                            *)
(*                <-- acception  --                                        *)
(*   my_send      -- request queue -->   read                              *)
(*   my_close     -- close flags  -->    read returns 0, close             *)
(*                                                                         *)
(* Each step of the handshake makes at most one store that others can see; *)
(* every wait of the code is a loop that polls without a lock.  The server *)
(* is any single-threaded program that calls the hooked accept, read and   *)
(* close; a process may be killed between any two steps.                   *)
(*                                                                         *)
(* The connect and the accept queue are rings, and an operation on one is  *)
(* three or four steps.  The load of a field and the store that follows in *)
(* the same statement are one step: only a second process inside the queue *)
(* could come between, and by then torn is true.  torn records that an     *)
(* operation was cut short by a death, or that two processes have been     *)
(* past the lock of one queue; the queue may then hold what nobody put     *)
(* there, and lack what somebody did.                                      *)
(*                                                                         *)
(* A connection is the address it asks for, an acception the share unit it *)
(* names.  The client_fd both carry is 999 in every client; an acception   *)
(* that is all zero has another, and is NoUnit.  A request queue is a      *)
(* sequence: read and send hold its lock.                                  *)
(***************************************************************************)
EXTENDS Integers, Sequences, FiniteSets, RobustMutex, SharedRing

CONSTANTS
  Clients,      \* harness processes
  Server,       \* the hooked server process
  Addresses,    \* what clients ask for: "bound", or "other", that nobody has
  Mortal,       \* processes that may be killed
  SocketNum,    \* share units
  ConnectCap,   \* CONNECT_QUEUE_CAPACITY
  AcceptCap,    \* ACCEPT_QUEUE_CAPACITY
  QueueCap,     \* bound: messages a request queue holds
  MaxSessions,  \* bound: connects of all clients
  MaxSends,     \* bound: messages per session
  MaxBoots      \* bound: times the server process is started

ASSUME HandshakeAssumption ==
  /\ Addresses \subseteq {"bound", "other"}
  /\ Mortal \subseteq Clients \cup {Server}
  /\ Server \notin Clients /\ NoOne \notin Clients \cup {Server}
  /\ SocketNum \in Nat \ {0}
  /\ {ConnectCap, AcceptCap, QueueCap} \subseteq Nat \ {0}
  /\ {MaxSessions, MaxSends, MaxBoots} \subseteq Nat

Units == 0 .. SocketNum - 1
NoUnit == -1
\* What is asked for by a connection that is all zero, and by no connection.
Zero == "zero"
None == "none"

VARIABLES
  \* shared memory
  connectQ, connectCapacity,    \* the connect queue; capacity is 0 before init
  acceptQ,
  connectLock, acceptLock,
  requestQ,                     \* per unit: who sent each queued message
  clientRead, clientWrite,      \* per unit: the client's two close flags
  \* the server process
  spc,                          \* where it is
  cur,                          \* the unit its current call works on
  conn,                         \* the connection that accept has copied
  available_share_unit,         \* the stack, top first
  sock,                         \* per unit: the server's use of it
  heard,                        \* per unit: clients read from in this session
  boots,
  \* the clients
  pc, unit, sessions, sends,
  \* history
  hasty,                        \* units whose session the server left early
  contended,                    \* two clients were inside my_connect at once
  refused,                      \* some my_connect has returned -1
  lost,                         \* some connection or acception went nowhere
  torn                          \* an operation on a queue was not whole

shared == <<connectQ, connectCapacity, acceptQ, connectLock, acceptLock>>
data == <<requestQ, clientRead, clientWrite>>
server == <<spc, cur, conn, available_share_unit, sock, heard, boots>>
clients == <<pc, unit, sessions, sends>>
history == <<hasty, contended, refused, lost, torn>>
vars == <<shared, data, server, clients, history>>

\* Inside a queue: past its lock, and not past its unlock.
EnqueuePcs == {"rear", "item", "count"}
DequeuePcs == {"copy", "front", "shrink"}
\* Between the first store of an operation and the last.
HalfwayPcs == {"item", "count", "shrink"}

AwaitPcs == {"unlockConnect", "await", "lockAccept", "copy", "front"}
TakenPcs == {"shrink", "unlockAccept"}
ConnectPcs == {"room", "lockConnect"} \cup EnqueuePcs \cup AwaitPcs \cup TakenPcs
AttachedPcs == {"connected", "closing"}
ClientPcs == {"idle", "dead"} \cup ConnectPcs \cup AttachedPcs
BootPcs == {"down", "bootAccept", "bootLocks", "bootRest"}
AnswerPcs == {"initClose", "waitRoom", "lockAccept"} \cup EnqueuePcs
ServerPcs == BootPcs \cup DequeuePcs \cup AnswerPcs \cup
  {"app", "waitConnect", "lockConnect", "unlockConnect", "unlockAccept", "read"}
Uses == {"free", "listener", "accepting", "open", "eof", "leaked"}

Goto(c, label) == pc' = [pc EXCEPT ![c] = label]
Return == spc' = "app" /\ cur' = NoUnit      \* the server's call returns
Seen(q) == {q[i] : i \in DOMAIN q}

\* The processes inside each queue: a client adds to the one and takes from the
\* other, the server the other way round.
ConnectSection ==
  {c \in Clients : pc[c] \in EnqueuePcs \cup {"unlockConnect"}}
    \cup {p \in {Server} : spc \in DequeuePcs \cup {"unlockConnect"}}
AcceptSection ==
  {c \in Clients : pc[c] \in DequeuePcs \cup {"unlockAccept"}}
    \cup {p \in {Server} : spc \in EnqueuePcs \cup {"unlockAccept"}}

\* What is in the queues; an item is out of its queue once front has moved on,
\* although size still counts it.
Requests == connectQ.size - (IF spc = "shrink" THEN 1 ELSE 0)
Shrinking == \E c \in Clients : pc[c] = "shrink"
Acceptions == acceptQ.size - (IF Shrinking THEN 1 ELSE 0)
Offers == Items(acceptQ, Acceptions, AcceptCap)

\* accept has taken a connection and not yet put its acception.
Answering ==
  \/ spc \in {"shrink"} \cup AnswerPcs
  \/ spc = "unlockConnect" /\ conn # None
\* The client has taken the acception of u, and has not yet closed.
Attached(c, u) == pc[c] \in TakenPcs \cup AttachedPcs /\ unit[c] = u
-----------------------------------------------------------------------------
\* The shared memory exists, all zero; no server runs yet.
Init ==
  /\ connectQ = ZeroedRing(ConnectCap, Zero) /\ connectCapacity = 0
  /\ acceptQ = ZeroedRing(AcceptCap, NoUnit)
  /\ connectLock = ZeroedMutex /\ acceptLock = ZeroedMutex
  /\ requestQ = [u \in Units |-> <<>>]
  /\ clientRead = [u \in Units |-> FALSE]
  /\ clientWrite = [u \in Units |-> FALSE]
  /\ spc = "down" /\ cur = NoUnit /\ conn = None
  /\ available_share_unit = <<>>
  /\ sock = [u \in Units |-> "free"] /\ heard = [u \in Units |-> {}] /\ boots = 0
  /\ pc = [c \in Clients |-> "idle"] /\ unit = [c \in Clients |-> NoUnit]
  /\ sessions = 0 /\ sends = [c \in Clients |-> 0]
  /\ hasty = {} /\ contended = FALSE /\ refused = FALSE /\ lost = FALSE
  /\ torn = FALSE
-----------------------------------------------------------------------------
\* Slips the code could have had; each stands in for the definition it is
\* named after to show that a property notices.
Slip_ConnectFull == FALSE             \* the enqueue does not look again
Slip_AcceptionReady == TRUE           \* my_connect does not wait
Slip_AcceptionCounted == acceptQ      \* stores the item and does not count it
Slip_Cleared(flag) == flag            \* accept does not clear the flags
Slip_NewQueue(u) == requestQ          \* accept does not empty the queue
Slip_Released(u) == sock              \* close forgets to clear the socket
Slip_RaiseFirst(u) ==                 \* my_close raises client_write first
  clientWrite' = [clientWrite EXCEPT ![u] = TRUE] /\ UNCHANGED clientRead
-----------------------------------------------------------------------------
\* isFullConnectQueue, as Connect_enqueue looks at it under the lock.
ConnectFull == connectQ.size = connectCapacity
\* The condition my_connect polls before it takes the accept lock.
AcceptionReady == acceptQ.size # 0
\* The condition accept polls before it takes the accept lock.
AcceptRoom == acceptQ.size # AcceptCap
\* The last store of Accept_enqueue.
AcceptionCounted == Counted(acceptQ)
\* init_close_unit, for one of the client's flags.
Cleared(flag) == [flag EXCEPT ![cur] = FALSE]
\* init_share_queue for the unit a new socket gets.
NewQueue(u) == [requestQ EXCEPT ![u] = <<>>]
\* memset of the closed socket's entry.
Released(u) == [sock EXCEPT ![u] = "free"]
\* The close flag a reader looks at.
AtEof(u) == clientWrite[u]
\* The first of my_close's two stores.
RaiseFirst(u) ==
  clientRead' = [clientRead EXCEPT ![u] = TRUE] /\ UNCHANGED clientWrite
-----------------------------------------------------------------------------
(* The client: my_socket and my_connect *)

\* A harness that was killed may be started anew.
ConnectStart(c) ==
  /\ pc[c] \in {"idle", "dead"} /\ sessions < MaxSessions
  /\ sessions' = sessions + 1
  /\ contended' = (contended \/ \E d \in Clients \ {c} : pc[d] \in ConnectPcs)
  /\ Goto(c, "room")
  /\ UNCHANGED <<shared, data, server, unit, sends, hasty, refused, lost,
                 torn>>

\* while(size == capacity), before the lock.
ConnectRoom(c) ==
  /\ pc[c] = "room"
  /\ connectQ.size # connectCapacity
  /\ Goto(c, "lockConnect")
  /\ UNCHANGED <<shared, data, server, unit, sessions, sends, history>>

\* A failing lock is logged; the client goes on as if it held it.
ConnectLock(c) ==
  /\ pc[c] = "lockConnect"
  /\ LockReturns(connectLock)
  /\ connectLock' = Locked(connectLock, c)
  /\ torn' = (torn \/ ConnectSection # {})
  /\ Goto(c, "rear")
  /\ UNCHANGED <<connectQ, connectCapacity, acceptQ, acceptLock, data, server,
                 unit, sessions, sends, hasty, contended, refused, lost>>

\* Connect_enqueue.  A full queue is logged and the connection is gone, but the
\* client goes on to wait for its answer.
ConnectRear(c) ==
  /\ pc[c] = "rear"
  /\ IF ConnectFull
       THEN Goto(c, "unlockConnect") /\ lost' = TRUE /\ UNCHANGED connectQ
       ELSE /\ connectQ' = RearMoved(connectQ, ConnectCap)
            /\ Goto(c, "item")
            /\ UNCHANGED lost
  /\ UNCHANGED <<connectCapacity, acceptQ, connectLock, acceptLock, data, server,
                 unit, sessions, sends, hasty, contended, refused, torn>>

ConnectItem(c) ==
  /\ pc[c] = "item"
  /\ \E addr \in Addresses : connectQ' = ItemStored(connectQ, addr)
  /\ Goto(c, "count")
  /\ UNCHANGED <<connectCapacity, acceptQ, connectLock, acceptLock, data, server,
                 unit, sessions, sends, history>>

ConnectCount(c) ==
  /\ pc[c] = "count"
  /\ connectQ' = Counted(connectQ)
  /\ Goto(c, "unlockConnect")
  /\ UNCHANGED <<connectCapacity, acceptQ, connectLock, acceptLock, data, server,
                 unit, sessions, sends, history>>

ConnectUnlock(c) ==
  /\ pc[c] = "unlockConnect"
  /\ connectLock' = Unlocked(connectLock, c)
  /\ Goto(c, "await")
  /\ UNCHANGED <<connectQ, connectCapacity, acceptQ, acceptLock, data, server,
                 unit, sessions, sends, history>>

\* while(size == 0), before the lock.
ConnectAwait(c) ==
  /\ pc[c] = "await"
  /\ AcceptionReady
  /\ Goto(c, "lockAccept")
  /\ UNCHANGED <<shared, data, server, unit, sessions, sends, history>>

ConnectLockAccept(c) ==
  /\ pc[c] = "lockAccept"
  /\ LockReturns(acceptLock)
  /\ acceptLock' = Locked(acceptLock, c)
  /\ torn' = (torn \/ AcceptSection # {})
  /\ Goto(c, "copy")
  /\ UNCHANGED <<connectQ, connectCapacity, acceptQ, connectLock, data, server,
                 unit, sessions, sends, hasty, contended, refused, lost>>

\* Accept_dequeue: the client copies the oldest acception, whoever it was meant
\* for, or finds none.
ConnectCopy(c) ==
  /\ pc[c] = "copy"
  /\ IF AcceptionReady
       THEN Goto(c, "front") /\ unit' = [unit EXCEPT ![c] = FirstItem(acceptQ)]
       ELSE Goto(c, "unlockAccept") /\ unit' = [unit EXCEPT ![c] = NoUnit]
  /\ UNCHANGED <<shared, data, server, sessions, sends, history>>

ConnectFront(c) ==
  /\ pc[c] = "front"
  /\ acceptQ' = FrontMoved(acceptQ, AcceptCap)
  /\ Goto(c, "shrink")
  /\ UNCHANGED <<connectQ, connectCapacity, connectLock, acceptLock, data, server,
                 unit, sessions, sends, history>>

ConnectShrink(c) ==
  /\ pc[c] = "shrink"
  /\ acceptQ' = Discounted(acceptQ)
  /\ Goto(c, "unlockAccept")
  /\ UNCHANGED <<connectQ, connectCapacity, connectLock, acceptLock, data, server,
                 unit, sessions, sends, history>>

\* With no acception, or one whose client_fd is not that of the client's
\* socket, my_connect returns -1.
ConnectReturn(c) ==
  /\ pc[c] = "unlockAccept"
  /\ acceptLock' = Unlocked(acceptLock, c)
  /\ IF unit[c] = NoUnit
       THEN Goto(c, "idle") /\ refused' = TRUE
       ELSE Goto(c, "connected") /\ UNCHANGED refused
  /\ UNCHANGED <<connectQ, connectCapacity, acceptQ, connectLock, data, server,
                 unit, sessions, sends, hasty, contended, lost, torn>>
-----------------------------------------------------------------------------
(* The client: my_send, my_close, death *)

\* my_send: waits for room, then puts the message under the request lock.
Send(c) ==
  /\ pc[c] = "connected" /\ sends[c] < MaxSends
  /\ Len(requestQ[unit[c]]) < QueueCap
  /\ requestQ' = [requestQ EXCEPT ![unit[c]] = Append(@, c)]
  /\ sends' = [sends EXCEPT ![c] = @ + 1]
  /\ UNCHANGED <<shared, clientRead, clientWrite, server, pc, unit, sessions,
                 history>>

\* my_close raises client_read and client_write with two stores.
CloseRead(c) ==
  /\ pc[c] = "connected"
  /\ RaiseFirst(unit[c])
  /\ Goto(c, "closing")
  /\ sends' = [sends EXCEPT ![c] = 0]
  /\ UNCHANGED <<shared, requestQ, server, unit, sessions, history>>

CloseWrite(c) ==
  /\ pc[c] = "closing"
  /\ clientWrite' = [clientWrite EXCEPT ![unit[c]] = TRUE]
  /\ Goto(c, "idle")
  /\ unit' = [unit EXCEPT ![c] = NoUnit]
  /\ UNCHANGED <<shared, requestQ, clientRead, server, sessions, sends, history>>

ClientDeath(c) ==
  /\ c \in Mortal /\ pc[c] # "dead"
  /\ Goto(c, "dead")
  /\ unit' = [unit EXCEPT ![c] = NoUnit]
  /\ connectLock' = AfterDeath(connectLock, c)
  /\ acceptLock' = AfterDeath(acceptLock, c)
  /\ torn' = (torn \/ pc[c] \in HalfwayPcs)
  /\ sends' = [sends EXCEPT ![c] = 0]
  /\ UNCHANGED <<connectQ, connectCapacity, acceptQ, data, server, sessions,
                 hasty, contended, refused, lost>>
-----------------------------------------------------------------------------
(* The server: its constructor, init *)

\* init_connect_accept_queue copies the connect queue's header, ...
BootConnectQueue ==
  /\ spc = "down" /\ boots < MaxBoots
  /\ connectQ' = Emptied(connectQ, ConnectCap) /\ connectCapacity' = ConnectCap
  /\ lost' = (lost \/ connectQ.size # 0)
  /\ torn' = (torn \/ ConnectSection # {})
  /\ boots' = boots + 1
  /\ spc' = "bootAccept"
  /\ UNCHANGED <<acceptQ, connectLock, acceptLock, data, cur, conn,
                 available_share_unit, sock, heard, clients, hasty, contended,
                 refused>>

\* ... the accept queue's, ...
BootAcceptQueue ==
  /\ spc = "bootAccept"
  /\ acceptQ' = Emptied(acceptQ, AcceptCap)
  /\ lost' = (lost \/ acceptQ.size # 0)
  /\ torn' = (torn \/ AcceptSection # {})
  /\ spc' = "bootLocks"
  /\ UNCHANGED <<connectQ, connectCapacity, connectLock, acceptLock, data, cur,
                 conn, available_share_unit, sock, heard, boots, clients, hasty,
                 contended, refused>>

\* ... and initializes both locks, whoever holds them.
BootLocks ==
  /\ spc = "bootLocks"
  /\ connectLock' = FreshMutex /\ acceptLock' = FreshMutex
  /\ spc' = "bootRest"
  /\ UNCHANGED <<connectQ, connectCapacity, acceptQ, data, cur, conn,
                 available_share_unit, sock, heard, boots, clients, history>>

\* The queues of all units, the close memory and the stack of units; then the
\* program makes its listening socket, which takes the top unit, and binds it.
BootRest ==
  /\ spc = "bootRest"
  /\ requestQ' = [u \in Units |-> <<>>]
  /\ clientRead' = [u \in Units |-> FALSE]
  /\ clientWrite' = [u \in Units |-> FALSE]
  /\ available_share_unit' = [i \in 1 .. SocketNum - 1 |-> i]
  /\ sock' = [u \in Units |-> IF u = 0 THEN "listener" ELSE "free"]
  /\ heard' = [u \in Units |-> {}]
  /\ cur' = NoUnit
  /\ spc' = "app"
  /\ UNCHANGED <<shared, conn, boots, clients, history>>
-----------------------------------------------------------------------------
(* The server: accept *)

\* A unit is taken, and its queues made new, before anyone has connected.
\* With no unit left accept returns -1 and nothing has changed.
AcceptStart ==
  /\ spc = "app" /\ available_share_unit # <<>>
  /\ LET u == Head(available_share_unit)
     IN /\ cur' = u
        /\ requestQ' = NewQueue(u)
        /\ sock' = [sock EXCEPT ![u] = "accepting"]
        /\ heard' = [heard EXCEPT ![u] = {}]
  /\ available_share_unit' = Tail(available_share_unit)
  /\ spc' = "waitConnect"
  /\ UNCHANGED <<shared, clientRead, clientWrite, conn, boots, clients, history>>

AcceptWaitConnect ==
  /\ spc = "waitConnect"
  /\ connectQ.size # 0
  /\ spc' = "lockConnect"
  /\ UNCHANGED <<shared, data, cur, conn, available_share_unit, sock, heard,
                 boots, clients, history>>

\* Any code but 0 makes accept give back the fd and return -1: the unit is
\* not pushed back, and a lock held after EOWNERDEAD is not unlocked.
AcceptLockConnect ==
  /\ spc = "lockConnect"
  /\ LockReturns(connectLock)
  /\ connectLock' = Locked(connectLock, Server)
  /\ IF LockCode(connectLock) = "0"
       THEN /\ spc' = "copy"
            /\ torn' = (torn \/ ConnectSection # {})
            /\ UNCHANGED <<cur, sock>>
       ELSE /\ Return
            /\ sock' = [sock EXCEPT ![cur] = "leaked"]
            /\ UNCHANGED torn
  /\ UNCHANGED <<connectQ, connectCapacity, acceptQ, acceptLock, data, conn,
                 available_share_unit, heard, boots, clients, hasty, contended,
                 refused, lost>>

\* Connect_dequeue.
AcceptCopy ==
  /\ spc = "copy"
  /\ IF connectQ.size # 0
       THEN spc' = "front" /\ conn' = FirstItem(connectQ)
       ELSE spc' = "unlockConnect" /\ conn' = None
  /\ UNCHANGED <<shared, data, cur, available_share_unit, sock, heard, boots,
                 clients, history>>

AcceptFront ==
  /\ spc = "front"
  /\ connectQ' = FrontMoved(connectQ, ConnectCap)
  /\ spc' = "shrink"
  /\ UNCHANGED <<connectCapacity, acceptQ, connectLock, acceptLock, data, cur,
                 conn, available_share_unit, sock, heard, boots, clients, history>>

AcceptShrink ==
  /\ spc = "shrink"
  /\ connectQ' = Discounted(connectQ)
  /\ spc' = "unlockConnect"
  /\ UNCHANGED <<connectCapacity, acceptQ, connectLock, acceptLock, data, cur,
                 conn, available_share_unit, sock, heard, boots, clients, history>>

\* A connection to another address is logged and dropped; accept still returns
\* the fd of a socket that nobody talks to.  With no connection at all it
\* returns -1 and gives nothing back.
AcceptUnlockConnect ==
  /\ spc = "unlockConnect"
  /\ connectLock' = Unlocked(connectLock, Server)
  /\ conn' = None
  /\ \/ conn = "bound" /\ spc' = "initClose" /\ UNCHANGED <<cur, sock, lost>>
     \/ /\ conn \in {"other", Zero}
        /\ Return
        /\ sock' = [sock EXCEPT ![cur] = "open"]
        /\ lost' = TRUE
     \/ /\ conn = None
        /\ Return
        /\ sock' = [sock EXCEPT ![cur] = "leaked"]
        /\ UNCHANGED lost
  /\ UNCHANGED <<connectQ, connectCapacity, acceptQ, acceptLock, data,
                 available_share_unit, heard, boots, clients, hasty, contended,
                 refused, torn>>

AcceptInitClose ==
  /\ spc = "initClose"
  /\ clientRead' = Cleared(clientRead)
  /\ clientWrite' = Cleared(clientWrite)
  /\ spc' = "waitRoom"
  /\ UNCHANGED <<shared, requestQ, cur, conn, available_share_unit, sock, heard,
                 boots, clients, history>>

AcceptWaitRoom ==
  /\ spc = "waitRoom"
  /\ AcceptRoom
  /\ spc' = "lockAccept"
  /\ UNCHANGED <<shared, data, cur, conn, available_share_unit, sock, heard,
                 boots, clients, history>>

\* Here a failing lock is only logged.
AcceptLockAccept ==
  /\ spc = "lockAccept"
  /\ LockReturns(acceptLock)
  /\ acceptLock' = Locked(acceptLock, Server)
  /\ torn' = (torn \/ AcceptSection # {})
  /\ spc' = "rear"
  /\ UNCHANGED <<connectQ, connectCapacity, acceptQ, connectLock, data, cur, conn,
                 available_share_unit, sock, heard, boots, clients, hasty,
                 contended, refused, lost>>

\* Accept_enqueue.  A full queue, which polling and locks exclude as long as
\* nothing is torn, is logged.
AcceptRear ==
  /\ spc = "rear"
  /\ IF AcceptRoom
       THEN /\ acceptQ' = RearMoved(acceptQ, AcceptCap)
            /\ spc' = "item"
            /\ UNCHANGED <<sock, lost>>
       ELSE /\ spc' = "unlockAccept"
            /\ sock' = [sock EXCEPT ![cur] = "open"]
            /\ lost' = TRUE
            /\ UNCHANGED acceptQ
  /\ UNCHANGED <<connectQ, connectCapacity, connectLock, acceptLock, data, cur,
                 conn, available_share_unit, heard, boots, clients, hasty,
                 contended, refused, torn>>

AcceptItem ==
  /\ spc = "item"
  /\ acceptQ' = ItemStored(acceptQ, cur)
  /\ spc' = "count"
  /\ UNCHANGED <<connectQ, connectCapacity, connectLock, acceptLock, data, cur,
                 conn, available_share_unit, sock, heard, boots, clients, history>>

\* From here on a client may talk on the socket.
AcceptCount ==
  /\ spc = "count"
  /\ acceptQ' = AcceptionCounted
  /\ sock' = [sock EXCEPT ![cur] = "open"]
  /\ spc' = "unlockAccept"
  /\ UNCHANGED <<connectQ, connectCapacity, connectLock, acceptLock, data, cur,
                 conn, available_share_unit, heard, boots, clients, history>>

AcceptReturn ==
  /\ spc = "unlockAccept"
  /\ acceptLock' = Unlocked(acceptLock, Server)
  /\ Return
  /\ UNCHANGED <<connectQ, connectCapacity, acceptQ, connectLock, data, conn,
                 available_share_unit, sock, heard, boots, clients, history>>
-----------------------------------------------------------------------------
(* The server: read, close, death *)

\* read returns 0 at once if the client has closed, whatever is queued.
ReadStart(u) ==
  /\ spc = "app" /\ sock[u] = "open"
  /\ IF AtEof(u)
       THEN sock' = [sock EXCEPT ![u] = "eof"] /\ UNCHANGED <<spc, cur>>
       ELSE spc' = "read" /\ cur' = u /\ UNCHANGED sock
  /\ UNCHANGED <<shared, data, conn, available_share_unit, heard, boots, clients,
                 history>>

\* The polling loop ends because there is something to read: stream_dequeue
\* of as much as the caller asked for, under the request lock, ...
ReadFinish ==
  /\ spc = "read" /\ requestQ[cur] # <<>>
  /\ \E n \in 1 .. Len(requestQ[cur]) :
       /\ heard' = [heard EXCEPT ![cur] = @ \cup Seen(SubSeq(requestQ[cur], 1, n))]
       /\ requestQ' = [requestQ EXCEPT ![cur] = SubSeq(@, n + 1, Len(@))]
  /\ Return
  /\ UNCHANGED <<shared, clientRead, clientWrite, conn, available_share_unit,
                 sock, boots, clients, history>>

\* ... or because the client has closed.
ReadEof ==
  /\ spc = "read" /\ requestQ[cur] = <<>> /\ AtEof(cur)
  /\ sock' = [sock EXCEPT ![cur] = "eof"]
  /\ Return
  /\ UNCHANGED <<shared, data, conn, available_share_unit, heard, boots, clients,
                 history>>

\* close pushes the unit back; the next accept gets it.
Close(u) ==
  /\ spc = "app" /\ sock[u] \in {"open", "eof"}
  /\ available_share_unit' = <<u>> \o available_share_unit
  /\ sock' = Released(u)
  /\ hasty' = IF sock[u] = "open" THEN hasty \cup {u} ELSE hasty
  /\ UNCHANGED <<shared, data, spc, cur, conn, heard, boots, clients, contended,
                 refused, lost, torn>>

ServerDeath ==
  /\ Server \in Mortal /\ spc # "down"
  /\ spc' = "down"
  /\ lost' = (lost \/ Answering)
  /\ torn' = (torn \/ spc \in HalfwayPcs)
  /\ cur' = NoUnit /\ conn' = None
  /\ available_share_unit' = <<>>
  /\ hasty' = hasty \cup {u \in Units : sock[u] \in {"accepting", "open"}}
  /\ sock' = [u \in Units |-> "free"]
  /\ heard' = [u \in Units |-> {}]
  /\ connectLock' = AfterDeath(connectLock, Server)
  /\ acceptLock' = AfterDeath(acceptLock, Server)
  /\ UNCHANGED <<connectQ, connectCapacity, acceptQ, data, boots, clients,
                 contended, refused>>
-----------------------------------------------------------------------------
Connect(c) ==
  \/ ConnectRoom(c) \/ ConnectLock(c)
  \/ ConnectRear(c) \/ ConnectItem(c) \/ ConnectCount(c) \/ ConnectUnlock(c)
  \/ ConnectAwait(c) \/ ConnectLockAccept(c)
  \/ ConnectCopy(c) \/ ConnectFront(c) \/ ConnectShrink(c) \/ ConnectReturn(c)

Boot == BootConnectQueue \/ BootAcceptQueue \/ BootLocks \/ BootRest

Accept ==
  \/ AcceptWaitConnect \/ AcceptLockConnect
  \/ AcceptCopy \/ AcceptFront \/ AcceptShrink \/ AcceptUnlockConnect
  \/ AcceptInitClose \/ AcceptWaitRoom \/ AcceptLockAccept
  \/ AcceptRear \/ AcceptItem \/ AcceptCount \/ AcceptReturn

Next ==
  \/ \E c \in Clients : \/ ConnectStart(c) \/ Connect(c) \/ Send(c)
                        \/ CloseRead(c) \/ CloseWrite(c) \/ ClientDeath(c)
  \/ Boot \/ AcceptStart \/ Accept
  \/ \E u \in Units : ReadStart(u) \/ Close(u)
  \/ ReadFinish \/ ReadEof
  \/ ServerDeath

Spec == Init /\ [][Next]_vars
-----------------------------------------------------------------------------
\* The variables keep their types, and the queues their capacities as long as
\* no operation on one has been torn.
TypeOK ==
  /\ connectQ \in RingType(ConnectCap, Addresses \cup {Zero})
  /\ connectCapacity \in {0, ConnectCap}
  /\ acceptQ \in RingType(AcceptCap, Units \cup {NoUnit})
  /\ ~torn => connectQ.size \in 0 .. ConnectCap /\ acceptQ.size \in 0 .. AcceptCap
  /\ {connectLock, acceptLock} \subseteq MutexType(Clients \cup {Server})
  /\ requestQ \in [Units -> Seq(Clients)]
  /\ clientRead \in [Units -> BOOLEAN] /\ clientWrite \in [Units -> BOOLEAN]
  /\ spc \in ServerPcs /\ cur \in Units \cup {NoUnit}
  /\ conn \in Addresses \cup {Zero, None}
  /\ available_share_unit \in Seq(Units)
  /\ sock \in [Units -> Uses]
  /\ heard \in [Units -> SUBSET Clients]
  /\ boots \in 0 .. MaxBoots
  /\ pc \in [Clients -> ClientPcs] /\ unit \in [Clients -> Units \cup {NoUnit}]
  /\ sessions \in 0 .. MaxSessions
  /\ sends \in [Clients -> 0 .. MaxSends]
  /\ hasty \subseteq Units
  /\ {contended, refused, lost, torn} \subseteq BOOLEAN

\* The stack of available units holds each unit that no socket uses exactly
\* once: no unit is handed out twice, and none disappears but by the one path
\* of accept that forgets it.
UnitsAccounted ==
  spc \notin BootPcs =>
    /\ Seen(available_share_unit) = {u \in Units : sock[u] = "free"}
    /\ Len(available_share_unit) = Cardinality(Seen(available_share_unit))

\* A unit is promised to at most one client at a time, and as long as it is
\* promised its server socket is open and has not seen an end of file: a
\* client never talks into a closed or recycled session.  A server that
\* closes a session (or dies) before the client has closed breaks this, and
\* so does a torn queue, which may hand out a unit twice.
OneSessionPerUnit ==
  ~torn =>
    \A u \in Units \ hasty :
      LET holders == {i \in DOMAIN Offers : Offers[i] = u}
          talkers == {c \in Clients : Attached(c, u)}
      IN /\ Cardinality(holders) + Cardinality(talkers) <= 1
         /\ holders \cup talkers # {} => sock[u] = "open"

\* The unit a client is offered is as good as new: nothing queued from an
\* earlier session, no flag raised by an earlier client.
FreshWhenOffered ==
  ~torn =>
    \A u \in Seen(Offers) \ hasty :
      u \in Units /\ requestQ[u] = <<>> /\ ~clientRead[u] /\ ~clientWrite[u]

\* The close flags of a unit are only raised by the client that talks there
\* now: the late store of a closing client never ends another's session.
FlagsAreOurs ==
  ~torn =>
    \A c \in Clients :
      \A u \in Units \ hasty :
        Attached(c, u) =>
          ~clientWrite[u] /\ (pc[c] # "closing" => ~clientRead[u])

\* Within one session the server reads, and finds queued, the messages of one
\* client only.
NoCrossTalk ==
  ~torn =>
    \A u \in Units \ hasty :
      sock[u] \in {"open", "eof"} =>
        Cardinality(heard[u] \cup Seen(requestQ[u])) <= 1

\* A harness that runs one client at a time, against one server process, never
\* sees my_connect fail: only clients that race for the queues, a server that
\* starts anew, or a queue that a killed process has left torn (the next client
\* finds an acception that is none) produce a refusal.
LoneClientServed == refused => contended \/ boots > 1 \/ torn

\* Clients that wait for an acception are never more than the acceptions and
\* connections still on their way, unless one was lost (a full connect queue,
\* a wrong address, or a server killed or started while one was on its way) or
\* a queue is torn.
NoOneForgotten ==
  LET waiting == {c \in Clients : pc[c] \in AwaitPcs}
  IN ~lost /\ ~torn =>
       Cardinality(waiting)
         <= Requests + (IF Answering THEN 1 ELSE 0) + Acceptions

\* "lock owner dies without unlocking it, any future attempts to acquire lock
\* on this mutex will succeed" (socket_hook.c, at both mutex attributes).
LocksSurviveTheirOwners ==
  \A m \in {connectLock, acceptLock} : LockCode(m) # "ENOTRECOVERABLE"
=============================================================================
