---------------------------- MODULE MCFlowControl ----------------------------
(***************************************************************************)
(* Instances of FlowControl for TLC: each scene has one thing that makes   *)
(* flows hard, and at most three flows.                                    *)
(***************************************************************************)
EXTENDS FlowControl

Each(k) == [kind |-> k, one |-> FALSE]
One(k)  == [kind |-> k, one |-> TRUE]

Calm == [flows |-> {Each("tcp"), One("http")}, starts |-> 2, workers |-> {0},
         owners |-> {0}, tcbs |-> {1}, prompt |-> TRUE, remote |-> FALSE, rates |-> {},
         stray |-> FALSE, reset |-> FALSE, quit |-> FALSE]

MCScenes ==
  {\* two workers, only one of which has the egress port
   [Calm EXCEPT !.workers = {0, 1}],
   \* workers slower than the delays of the management thread, full rings
   [Calm EXCEPT !.flows = {Each("dgram")}, !.prompt = FALSE, !.workers = {0, 1},
                !.owners = {0, 1}],
   \* reset beside commands on their way
   [Calm EXCEPT !.flows = {Each("dgram")}, !.prompt = FALSE, !.reset = TRUE],
   \* a throughput flow whose TCB is used again by another flow
   [Calm EXCEPT !.flows = {Each("tput"), Each("http")}, !.reset = TRUE],
   \* HTTP flows one after the other and beside each other
   [Calm EXCEPT !.flows = {Each("http")}, !.starts = 3],
   \* a remote client's commands inside a --one that waits
   [Calm EXCEPT !.flows = {Each("tput"), One("dgram")}, !.remote = TRUE],
   [Calm EXCEPT !.flows = {One("tcp")}, !.remote = TRUE],
   [Calm EXCEPT !.flows = {One("dgram")}, !.remote = TRUE, !.rates = BOOLEAN],
   \* the end of the program
   [Calm EXCEPT !.flows = {One("dgram")}, !.remote = TRUE, !.quit = TRUE],
   \* segments of no connection
   [Calm EXCEPT !.flows = {Each("tcp"), One("tcp")}, !.stray = TRUE]}
==============================================================================
