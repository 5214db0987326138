------------------------------ MODULE MCServer ------------------------------
(***************************************************************************)
(* Two workers with rings of two commands. A port is at different places   *)
(* in the tables of the four configurations, and two of them need TLS.     *)
(***************************************************************************)
EXTENDS Server

CONSTANT nobody

MCWorkers == 0..1
MCPorts == {80, 443}

Listener(p, h) == [port |-> p, handler |-> h]
Large  == [specs |-> <<Listener(80, "http")>>, large |-> TRUE]
Small  == [specs |-> <<Listener(443, "echo"), Listener(80, "http")>>, large |-> FALSE]
Secure == [specs |-> <<Listener(80, "chargen"), Listener(443, "https")>>, large |-> TRUE]
Mixed  == [specs |-> <<Listener(443, "tls_echo"), Listener(80, "discard")>>, large |-> FALSE]

Scene(w, configs, n) == [rss |-> w, configs |-> configs, commands |-> n]
MCScenes == {
  Scene(nobody, {Large, Small, Secure, Mixed}, 3),
  Scene(0, {Small, Secure}, 2),
  Scene(1, {Large, Small, Secure, Mixed}, 2),
  Scene(1, {Large}, 3) }
=============================================================================
