---------------------------- MODULE MCManagement -----------------------------
(***************************************************************************)
(* Three parts of the management thread that share no state, each in       *)
(* behaviours of its own: neighbours and ping, the packet capture, and the *)
(* command server.                                                         *)
(***************************************************************************)
EXTENDS Neighbours, PacketTrace, CliServer

CONSTANTS h1, h2, w1, w2

VARIABLE part    \* the part that runs

Calm == [v6 |-> FALSE, pings |-> <<>>, room |-> 2, nested |-> FALSE, asks |-> {}, ages |-> FALSE]

MCNScenes == {
  \* two requests and a start; replies may be late
  Calm,
  [Calm EXCEPT !.pings = <<2>>],
  [Calm EXCEPT !.pings = <<0, 1>>],
  \* a ping inside a ping
  [Calm EXCEPT !.pings = <<1, 1>>, !.nested = TRUE, !.v6 = TRUE],
  \* hosts ask while a ping waits
  [Calm EXCEPT !.pings = <<1>>, !.asks = {"solicit", "echo"} \X {h1}],
  [Calm EXCEPT !.pings = <<1>>, !.asks = {"solicit", "echo"} \X {h1}, !.v6 = TRUE],
  [Calm EXCEPT !.pings = <<1>>, !.asks = {<<"echo", h1>>, <<"other", h2>>}],
  \* no room for a second host
  [Calm EXCEPT !.pings = <<0, 0>>, !.asks = {<<"solicit", h2>>}, !.room = 1],
  [Calm EXCEPT !.pings = <<0, 0>>, !.asks = {<<"solicit", h2>>}, !.room = 1, !.v6 = TRUE],
  \* entries age
  [Calm EXCEPT !.pings = <<0, 1>>, !.ages = TRUE] }

Init ==
  /\ part \in {"neighbours", "trace", "server"}
  /\ NInit /\ TInit /\ CInit
  /\ part # "neighbours" => nscene = Calm

Next ==
  /\ UNCHANGED part
  /\ \/ part = "neighbours" /\ NNext /\ UNCHANGED <<tvars, cvars>>
     \/ part = "trace" /\ TNext /\ UNCHANGED <<nvars, cvars>>
     \/ part = "server" /\ CNext /\ UNCHANGED <<nvars, tvars>>

Spec == Init /\ [][Next]_<<part, nvars, tvars, cvars>> /\ NFairness /\ CFairness

=============================================================================
