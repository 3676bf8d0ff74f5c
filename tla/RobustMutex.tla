---------------------------- MODULE RobustMutex ----------------------------
(***************************************************************************)
(* The POSIX robust, process-shared mutex that init_share_queue and        *)
(* init_connect_accept_queue create (PTHREAD_MUTEX_ROBUST), as the code    *)
(* uses it: nobody ever calls pthread_mutex_consistent.  The mutex belongs *)
(* to the C library, not to this repository.                               *)
(*                                                                         *)
(* state is "ok"; "dead" once an owner has died holding it, until the next *)
(* owner unlocks; then "lost", because that owner never made it consistent.*)
(* It is "plain" while its memory is still all zero, which is what a       *)
(* mutex that is not robust looks like: one that its owner's death leaves  *)
(* locked.                                                                 *)
(***************************************************************************)
CONSTANT NoOne

MutexType(Process) ==
  [owner : Process \cup {NoOne}, state : {"plain", "ok", "dead", "lost"}]

ZeroedMutex == [owner |-> NoOne, state |-> "plain"]
FreshMutex == [owner |-> NoOne, state |-> "ok"]

\* pthread_mutex_lock returns at once, or blocks while there is an owner.
LockReturns(m) == m.owner = NoOne

\* It returns 0, EOWNERDEAD (and the mutex is held) or ENOTRECOVERABLE (and
\* it is not).
LockCode(m) == CASE m.state \in {"plain", "ok"} -> "0"
                 [] m.state = "dead" -> "EOWNERDEAD"
                 [] m.state = "lost" -> "ENOTRECOVERABLE"

Locked(m, p) == IF m.state = "lost" THEN m ELSE [m EXCEPT !.owner = p]

\* pthread_mutex_unlock by a process that does not own a robust mutex is
\* EPERM and changes nothing; a plain one is unlocked by anybody.
Unlocked(m, p) ==
  CASE m.state = "plain" -> ZeroedMutex
    [] m.state # "plain" /\ m.owner # p -> m
    [] m.state = "ok" /\ m.owner = p -> FreshMutex
    [] m.state \in {"dead", "lost"} /\ m.owner = p ->
         [owner |-> NoOne, state |-> "lost"]

AfterDeath(m, p) ==
  IF m.owner # p \/ m.state = "plain" THEN m
  ELSE [owner |-> NoOne, state |-> "dead"]
=============================================================================
