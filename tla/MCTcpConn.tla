----------------------------- MODULE MCTcpConn -----------------------------
(* Instances of TcpConn: one connection. A SYN that arrives at the server  *)
(* after its connection has gone is dropped, as without the listener.      *)
EXTENDS TcpConn

Http(n)   == [mode |-> "http", graceful |-> TRUE, response |-> n]
MCClients == {Http(1), Http(2),
              [Http(1) EXCEPT !.mode = "syn"],
              [Http(1) EXCEPT !.graceful = FALSE]}
MCLong    == {Http(2)}

MCOpens == [e \in Ends |-> 1]
=============================================================================
