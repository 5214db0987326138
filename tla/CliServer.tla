------------------------------ MODULE CliServer -------------------------------
(***************************************************************************)
(* The command server (mgmt/cli_server.c): a table of client descriptors,  *)
(* polled by the main loop and, while a command waits (ping, start --one), *)
(* by that command again: polls nest. close_client fills the gap with the  *)
(* last entry, and a poll that runs a command goes on afterwards with the  *)
(* index it had.                                                           *)
(*                                                                         *)
(* A client sends one command at a time and waits for its answer. Slots of *)
(* the table keep what they held after the entry is gone, and the system   *)
(* hands out the lowest free descriptor, as the code sees it.              *)
(***************************************************************************)
EXTENDS Integers, Sequences, FiniteSets, FiniteSetsExt, SequencesExt

CONSTANTS
  NClients,    \* clients, each of which connects once
  Slots,       \* CLI_SERVER_MAX_CLIENTS
  MaxAsks,     \* commands in a behaviour
  MaxLeaves    \* clients that break off in a behaviour

ASSUME CliAssumption ==
  /\ NClients \in Nat /\ Slots \in Nat \ {0}
  /\ MaxAsks \in Nat /\ MaxLeaves \in Nat

VARIABLES
  backlog,     \* clients waiting to be accepted
  table,       \* g_client_fds, every slot
  n_clients,   \* g_n_clients
  open,        \* the client behind every open descriptor
  sent,        \* what each client has sent and the server has not received
  waits,       \* clients that wait for an answer
  came,        \* clients that have connected so far, in the order of their names
  asks,        \* commands sent so far
  leaves,      \* clients that have broken off
  polls,       \* the polls in progress, the innermost last
  wrong,       \* an answer went astray although nothing excuses it (history)
  astray       \* an answer went astray (history)

cvars == <<backlog, table, n_clients, open, sent, waits, came, asks, leaves, polls, wrong, astray>>

Clients == 1..NClients
Fds == 1..NClients
NoClient == 0
Index == 0..(Slots - 1)

CInit ==
  /\ backlog = <<>>
  /\ table = [i \in Index |-> 0]
  /\ n_clients = 0
  /\ open = [fd \in Fds |-> NoClient]
  /\ sent = [c \in Clients |-> <<>>]
  /\ waits = {}
  /\ came = 0 /\ asks = 0 /\ leaves = 0
  /\ polls = <<>>
  /\ wrong = FALSE /\ astray = FALSE

-----------------------------------------------------------------------------
(* The clients. "gone" stands for the end of the stream.                   *)

Gone(c) == \E n \in DOMAIN sent[c] : sent[c][n] \in {"gone", "quit"}
Connected(c) == \E fd \in Fds : open[fd] = c

ClientConnects ==
  /\ came < NClients
  /\ came' = came + 1
  /\ backlog' = Append(backlog, came + 1)
  /\ UNCHANGED <<table, n_clients, open, sent, waits, asks, leaves, polls, wrong, astray>>

(* A command that answers at once, one that waits, or quit. *)
ClientAsks(c, what) ==
  /\ Connected(c) /\ c \notin waits /\ ~Gone(c) /\ asks < MaxAsks
  /\ sent' = [sent EXCEPT ![c] = Append(@, what)]
  /\ asks' = asks + 1
  /\ waits' = waits \cup {c}
  /\ UNCHANGED <<backlog, table, n_clients, open, came, leaves, polls, wrong, astray>>

ClientLeaves(c) ==
  /\ Connected(c) /\ ~Gone(c) /\ leaves < MaxLeaves
  /\ sent' = [sent EXCEPT ![c] = Append(@, "gone")]
  /\ leaves' = leaves + 1
  /\ waits' = waits \ {c}
  /\ UNCHANGED <<backlog, table, n_clients, open, came, asks, polls, wrong, astray>>

-----------------------------------------------------------------------------
(* cli_server_poll.                                                        *)

Inner == polls[Len(polls)]
SetInner(top) == polls' = [polls EXCEPT ![Len(polls)] = top]

(* accept: a client too many is refused. *)
Accept(s, c) ==
  LET fd == Min({f \in Fds : s.open[f] = NoClient})
  IN  IF s.n >= Slots THEN s
      ELSE [open |-> [s.open EXCEPT ![fd] = c], table |-> [s.table EXCEPT ![s.n] = fd],
            n |-> s.n + 1]

(* What happened to the table while the commands of outer polls waited. *)
Noted(newer, left) ==
  [k \in DOMAIN polls |-> [polls[k] EXCEPT !.newer = @ \/ newer, !.left = @ \cup left]]

(* A poll begins: in the main loop, or inside a command that waits. One    *)
(* that finds no client changes nothing.                                   *)
PollEnter ==
  LET s == FoldLeft(Accept, [open |-> open, table |-> table, n |-> n_clients], backlog)
  IN  /\ polls # <<>> => Inner.at = "command"
      /\ backlog # <<>> \/ n_clients > 0
      /\ open' = s.open /\ table' = s.table /\ n_clients' = s.n
      /\ backlog' = <<>>
      /\ polls' = Append(Noted(s.n > n_clients, {}),
                         [at |-> "loop", i |-> 0, asker |-> NoClient, newer |-> FALSE, left |-> {}])
      /\ UNCHANGED <<sent, waits, came, asks, leaves, wrong, astray>>

(* Mutant: the entries behind the gap move up. *)
close_client_shift(i) ==
  /\ table' = [k \in Index |-> IF k >= i /\ k < n_clients - 1 THEN table[k + 1] ELSE table[k]]
  /\ n_clients' = n_clients - 1
  /\ open' = [open EXCEPT ![table[i]] = NoClient]

(* Mutant: the last entry stays where it is. *)
close_client_gap(i) ==
  /\ n_clients' = n_clients - 1
  /\ open' = [open EXCEPT ![table[i]] = NoClient]
  /\ UNCHANGED table

close_client(i) ==
  /\ open' = [open EXCEPT ![table[i]] = NoClient]
  /\ table' = [table EXCEPT ![i] = table[n_clients - 1]]
  /\ n_clients' = n_clients - 1

InLoop == polls # <<>> /\ Inner.at = "loop" /\ Inner.i < n_clients
Current == open[table[Inner.i]]
Receives(what) == InLoop /\ sent[Current] # <<>> /\ Head(sent[Current]) = what
Received == sent' = [sent EXCEPT ![Current] = Tail(@)]

PollNothing ==
  /\ InLoop /\ sent[Current] = <<>>
  /\ SetInner([Inner EXCEPT !.i = @ + 1])
  /\ UNCHANGED <<backlog, table, n_clients, open, sent, waits, came, asks, leaves, wrong, astray>>

(* recv returns 0, or the client says quit. The next client is at i now.   *)
PollClose ==
  /\ Receives("gone") \/ Receives("quit")
  /\ close_client(Inner.i)
  /\ Received
  /\ waits' = waits \ {Current}
  /\ polls' = Noted(FALSE, {Current})
  /\ UNCHANGED <<backlog, came, asks, leaves, wrong, astray>>


(* The output and the end-of-response marker. *)
Answered(c) == waits \ {c}

PollCommand ==
  /\ Receives("command")
  /\ Received
  /\ waits' = Answered(Current)
  /\ SetInner([Inner EXCEPT !.i = @ + 1])
  /\ UNCHANGED <<backlog, table, n_clients, open, came, asks, leaves, wrong, astray>>

(* dispatch_fn runs a command that waits: others may be polled meanwhile,  *)
PollWait ==
  /\ Receives("wait")
  /\ Received
  /\ SetInner([Inner EXCEPT !.at = "command", !.asker = Current, !.newer = FALSE, !.left = {}])
  /\ UNCHANGED <<backlog, table, n_clients, open, waits, came, asks, leaves, wrong, astray>>

(* and the answer goes to g_client_fds[i], whoever that is by now.         *)
WaitOver ==
  LET to == IF table[Inner.i] = 0 THEN NoClient ELSE open[table[Inner.i]]
      ok == to = Inner.asker
  IN  /\ polls # <<>> /\ Inner.at = "command"
      /\ waits' = Answered(to)
      /\ astray' = (astray \/ ~ok)
      /\ wrong' = (wrong \/ ~(ok \/ Inner.asker \in Inner.left \/ (Inner.left # {} /\ Inner.newer)))
      /\ SetInner([Inner EXCEPT !.at = "loop", !.i = @ + 1])
      /\ UNCHANGED <<backlog, table, n_clients, open, sent, came, asks, leaves>>

PollReturns ==
  /\ polls # <<>> /\ Inner.at = "loop" /\ Inner.i >= n_clients
  /\ polls' = SubSeq(polls, 1, Len(polls) - 1)
  /\ UNCHANGED <<backlog, table, n_clients, open, sent, waits, came, asks, leaves, wrong, astray>>

PollSteps == PollNothing \/ PollClose \/ PollCommand \/ PollWait \/ PollReturns

-----------------------------------------------------------------------------
CNext ==
  \/ ClientConnects
  \/ \E c \in Clients : ClientLeaves(c)
  \/ \E c \in Clients : ClientAsks(c, "command") \/ ClientAsks(c, "wait") \/ ClientAsks(c, "quit")
  \/ PollEnter \/ PollSteps \/ WaitOver

CSpec == CInit /\ [][CNext]_cvars

(* The management thread goes on polling, and commands that wait have a    *)
(* time limit.                                                             *)
CFairness == WF_cvars(PollEnter \/ PollSteps) /\ SF_cvars(WaitOver)

-----------------------------------------------------------------------------
(* Properties.                                                             *)

(* The types; the table keeps its bound.                                   *)
CTypeOK ==
  /\ n_clients \in 0..Slots
  /\ \A i \in Index : table[i] \in Fds \cup {0}
  /\ waits \subseteq Clients

(* The live part of the table holds every open descriptor, each once: the  *)
(* swap in close_client, from whichever nested poll, loses no client and   *)
(* keeps no closed one.                                                    *)
TableIsOpen ==
  /\ CTypeOK
  /\ {table[i] : i \in 0..(n_clients - 1)} = {fd \in Fds : open[fd] # NoClient}
  /\ \A i, k \in 0..(n_clients - 1) : table[i] = table[k] => i = k

(* The answer to a command that waited goes to the client that gave it,    *)
(* unless that client left meanwhile, or another one left and a new one    *)
(* came (cli_server_poll indexes the table again after dispatch_fn).       *)
AnswerReachesAsker == ~wrong

=============================================================================
