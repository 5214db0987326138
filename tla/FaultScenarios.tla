--------------------------- MODULE FaultScenarios ---------------------------
(* Sessions of FaultSession for TLC: three injections of given kinds.      *)

CONSTANTS f1, f2, f3

Rules    == [f \in {f1, f2, f3} |-> "tc"]
Mixed    == [f \in {f1, f2, f3} |-> IF f = f3 THEN "setting" ELSE "tc"]
Settings == [f \in {f1, f2, f3} |-> IF f = f3 THEN "tc" ELSE "setting"]

(* Commands and their end only. *)
Plain == [kind |-> Settings, limit |-> 3, timers |-> FALSE, recover |-> FALSE,
          overlap |-> FALSE, signals |-> {}, nsignals |-> 0, nfails |-> 0, ncrashes |-> 0]

(* Commands, timers and signals. *)
Eventful == [Plain EXCEPT !.kind = Mixed, !.limit = 2, !.timers = TRUE, !.recover = TRUE,
                      !.signals = {"TERM"}, !.nsignals = 1]

MCSerial ==
  {Plain,
   [Eventful EXCEPT !.limit = 1],
   [Eventful EXCEPT !.kind = Rules, !.nfails = 1, !.ncrashes = 1],
   [Eventful EXCEPT !.signals = {"INT", "TERM"}, !.ncrashes = 1]}

MCUnattended == {[Eventful EXCEPT !.recover = FALSE]}

MCOverlap ==
  {[Plain EXCEPT !.kind = Rules, !.limit = 2, !.timers = TRUE, !.overlap = TRUE]}
=============================================================================
