----------------------------- MODULE MCSession -----------------------------
(* Harnesses and servers that meet in a session. *)
EXTENDS Session

\* A harness with all its timeouts, and a server that may leave it waiting.
Waiting ==
  [server |-> "DCMQRSCP", calls |-> {"write", "recv", "shutdown"},
   asides |-> {"options", "poll"}]

\* The rounds of the two servers that count their reads.
Counting(s) ==
  [server |-> s, calls |-> {"read", "write", "poll", "close"}, asides |-> {}]

\* Every way of receiving.
Receiving ==
  [server |-> "DCMQRSCP child",
   calls |-> {"recv", "waitall", "dontwait", "fcntl", "write", "poll", "shutdown",
             "close"},
   asides |-> {}]

MCPlans == {Waiting, Receiving, Counting("DNSMASQ"), Counting("DCMQRSCP")}
=============================================================================
