----------------------------- MODULE Neighbours ------------------------------
(***************************************************************************)
(* Address resolution and ping on one port: ARP and ICMP (net/arp.c,       *)
(* net/icmp.c) or NDP and ICMPv6 (net/ndp.c, net/icmpv6.c). The workers    *)
(* put the frames they receive into bounded rings; the management thread   *)
(* empties them in its main loop and inside the commands that wait (ping,  *)
(* and start until the next hop is resolved).                              *)
(*                                                                         *)
(* With IPv6 neighbour messages and echo messages share one ring           *)
(* (ndp_input, which has a ring of its own, is called by nobody).          *)
(* Addresses and payloads are left out: a frame is its kind, the host it   *)
(* comes from and, for an echo reply, the request it answers. Frames for   *)
(* other hosts, which are ignored, and bad checksums are left out.         *)
(***************************************************************************)
EXTENDS Integers, Sequences, FiniteSets, SequencesExt

CONSTANTS
  Hosts,       \* the neighbours
  CacheSize,   \* TGEN_ARP_CACHE_SZ, TGEN_NDP_CACHE_SZ
  FrameSlots,  \* frames a ring to the management thread holds
  NScenes      \* what the environment may do, see NSceneType

ASSUME NeighboursAssumption ==
  /\ CacheSize \in Nat \ {0} /\ FrameSlots \in Nat \ {0}

(* v6: the family; pings: the numbers of echo requests of the commands     *)
(* given, one after the other (0 for a start, which only resolves); room:  *)
(* the entries of the cache that other addresses have left free;           *)
(* nested: a remote client may ping while a ping waits; asks: the frames   *)
(* hosts send of their own accord; ages: time passes in the cache.         *)
NSceneType ==
  [v6 : BOOLEAN, pings : Seq(Nat), room : 0..CacheSize, nested : BOOLEAN,
   asks : SUBSET ({"solicit", "echo", "other"} \X Hosts), ages : BOOLEAN]

ASSUME NSceneAssumption == NScenes \subseteq NSceneType

VARIABLES
  nscene,    \* what the environment does
  cache,     \* g_arp[].table and entries, g_ndp[].entries, by host
  frames,    \* g_arp_rings and g_icmp_rings, or g_icmpv6_rings
  batch,     \* frames icmp_mgmt_tick has dequeued and not put back yet
  out,       \* our requests that no host has answered
  wire,      \* frames on their way to us
  asked,     \* frames hosts have sent of their own accord
  answers,   \* what was answered to them
  pings,     \* the commands that wait, the innermost last
  npings,    \* commands given so far
  heard,     \* hosts whose answer was processed since they were last asked
  nhist      \* history, see NInit

nvars == <<nscene, cache, frames, batch, out, wire, asked, answers, pings, npings, heard, nhist>>

Entry(st) == [st |-> st, age |-> "fresh", fails |-> 0]
Free  == Entry("FREE")
Frame(kind, h) == [kind |-> kind, host |-> h, ping |-> 0, seq |-> 0]

NInit ==
  /\ nscene \in NScenes
  /\ cache = [h \in Hosts |-> Free]
  /\ frames = [r \in {"arp", "icmp"} |-> <<>>]
  /\ batch = <<>>
  /\ out = {} /\ wire = {} /\ asked = {} /\ answers = {}
  /\ pings = <<>> /\ npings = 0
  /\ heard = {}
  /\ nhist = [missed |-> FALSE,   \* a host was unreachable although it had answered
              full   |-> FALSE,   \* an address found no room in the cache
              taken  |-> {},      \* requests that a ping took for its reply
              wrong  |-> FALSE,   \* a frame was taken for the reply it is not
              mixed  |-> FALSE]   \* one that is not a reply, or is late, was there to be taken

-----------------------------------------------------------------------------
(* The cache.                                                              *)

Room(c, h) == c[h] # Free \/ Cardinality({g \in Hosts : c[g] # Free}) < nscene.room

(* arp_lookup, ndp_lookup. *)
arp_lookup(h) == cache[h].st = "RESOLVED"

(* ndp_lookup. *)
ndp_lookup(c, h) == c[h].st = "RESOLVED"

(* rte_hash_add_key and the assignments after it. *)
Learn(c, h) == IF Room(c, h) THEN [c EXCEPT ![h] = Entry("RESOLVED")] ELSE c

(* A neighbour that is not known yet is added if there is room. *)
ndp_cache_update(c, h) == IF Room(c, h) THEN [c EXCEPT ![h] = Entry("RESOLVED")] ELSE c

(* The entry arp_request puts in for the reply, *)
arp_request(c, h) ==
  IF Room(c, h) /\ c[h].st # "RESOLVED" THEN [c EXCEPT ![h] = Entry("PENDING")] ELSE c

(* and the one of ndp_solicit. *)
ndp_solicit(c, h) ==
  IF c[h].st = "RESOLVED" \/ ~Room(c, h) THEN c ELSE [c EXCEPT ![h] = Entry("PENDING")]

-----------------------------------------------------------------------------
(* Frames processed by the management thread: s is the cache and what was  *)
(* answered.                                                               *)

(* An answer to a host whose address is unknown is broadcast. *)
Answer(kind, h, known) ==
  [kind |-> kind, host |-> h, cast |-> IF known THEN "unicast" ELSE "broadcast"]

build_arp_reply(h)      == Answer("solicit", h, TRUE)
build_echo_reply(c, h)  == Answer("echo", h, c[h].st = "RESOLVED")
build_echo6_reply(c, h) == Answer("echo", h, ndp_lookup(c, h))

(* A request for our address is learned and answered; a reply is learned   *)
(* if its sender has an entry.                                             *)
arp_mgmt_process(s, f) ==
  CASE f.kind = "solicit" -> [cache   |-> Learn(s.cache, f.host),
                              answers |-> s.answers \cup {build_arp_reply(f.host)}]
    [] f.kind = "advert"  -> [s EXCEPT !.cache = IF @[f.host] # Free THEN Learn(@, f.host) ELSE @]

icmp_mgmt_process(s, f) ==
  [s EXCEPT !.answers = @ \cup {build_echo_reply(s.cache, f.host)}]

(* The sender of a solicitation is learned and answered, *)
ndp_process_ns(s, h) ==
  LET c == ndp_cache_update(s.cache, h)
  IN  [cache |-> c, answers |-> s.answers \cup {Answer("solicit", h, ndp_lookup(c, h))}]

(* an advertisement is learned, solicited or not. *)
ndp_process_na(s, h) == [s EXCEPT !.cache = ndp_cache_update(@, h)]

icmpv6_mgmt_process(s, f) ==
  CASE f.kind = "echo"    -> [s EXCEPT !.answers = @ \cup {build_echo6_reply(s.cache, f.host)}]
    [] f.kind = "solicit" -> ndp_process_ns(s, f.host)
    [] f.kind = "advert"  -> ndp_process_na(s, f.host)

(* The end of arp_mgmt_tick. A stale entry stays what it is. *)
AgeEntry(e) ==
  CASE e.st # "RESOLVED" \/ e.age = "fresh" -> e
    [] e.age = "probe" -> [e EXCEPT !.st = "STALE"]
    [] e.age = "old"   -> [e EXCEPT !.fails = @ + 1, !.st = IF e.fails >= 1 THEN "FAILED" ELSE @]

-----------------------------------------------------------------------------
(* The workers, and the hosts.                                             *)

IsReply(f) == f.kind = "reply"
IsArp(f) == f.kind \in {"solicit", "advert"} /\ ~nscene.v6

(* A frame that finds the ring full is dropped. *)
Enqueue(r, f) ==
  /\ f \in wire
  /\ wire' = wire \ {f}
  /\ frames' = IF Len(frames[r]) < FrameSlots THEN [frames EXCEPT ![r] = Append(@, f)] ELSE frames
  /\ nhist' = [nhist EXCEPT !.mixed = @ \/ (r = "icmp" /\ ~IsReply(f))]
  /\ UNCHANGED <<nscene, cache, batch, out, asked, answers, pings, npings, heard>>

arp_input(f)    == IsArp(f) /\ Enqueue("arp", f)
icmp_input(f)   == ~nscene.v6 /\ ~IsArp(f) /\ Enqueue("icmp", f)
icmpv6_input(f) == nscene.v6 /\ Enqueue("icmp", f)

(* A host answers one of our requests, *)
HostAnswers(f) ==
  /\ f \in out
  /\ out' = out \ {f}
  /\ wire' = wire \cup {[f EXCEPT !.kind = IF f.kind = "solicit" THEN "advert" ELSE "reply"]}
  /\ UNCHANGED <<nscene, cache, frames, batch, asked, answers, pings, npings, heard, nhist>>

(* or sends a request, or another ICMP message. *)
HostAsks(kind, h) ==
  /\ <<kind, h>> \in nscene.asks /\ Frame(kind, h) \notin asked
  /\ asked' = asked \cup {Frame(kind, h)}
  /\ wire' = wire \cup {Frame(kind, h)}
  /\ UNCHANGED <<nscene, cache, frames, batch, out, answers, pings, npings, heard, nhist>>

Time(h) ==
  /\ nscene.ages /\ cache[h].st = "RESOLVED" /\ cache[h].age # "old"
  /\ \A n \in DOMAIN pings : pings[n].phase # "resolve"     \* which takes 3 s at most
  /\ cache' = [cache EXCEPT ![h].age = IF @ = "fresh" THEN "probe" ELSE "old"]
  /\ UNCHANGED <<nscene, frames, batch, out, wire, asked, answers, pings, npings, heard, nhist>>

-----------------------------------------------------------------------------
(* The management thread.                                                  *)

Top == pings[Len(pings)]
Phase == IF pings = <<>> THEN "main" ELSE Top.phase

State == [cache |-> cache, answers |-> answers]
HeardIn(s) == heard \cup {s[n].host : n \in {m \in DOMAIN s : s[m].kind = "advert"}}
FullIn(s) == \E n \in DOMAIN s : s[n].kind \in {"solicit", "advert"} /\ ~Room(cache, s[n].host)

(* The ring is emptied and the entries age. *)
arp_mgmt_tick ==
  LET s == FoldLeft(arp_mgmt_process, State, frames["arp"])
  IN  /\ ~nscene.v6 /\ batch = <<>> /\ Phase \in {"main", "resolve", "wait"}
      /\ cache' = [h \in Hosts |-> AgeEntry(s.cache[h])]
      /\ answers' = s.answers
      /\ heard' = HeardIn(frames["arp"])
      /\ frames' = [frames EXCEPT !["arp"] = <<>>]
      /\ nhist' = [nhist EXCEPT !.full = @ \/ FullIn(frames["arp"])]
      /\ UNCHANGED <<nscene, batch, out, wire, asked, pings, npings>>

(* The burst that a tick has dequeued: what it does not handle goes back.  *)
Burst(process(_, _), handled) ==
  LET mine == SelectSeq(frames["icmp"], LAMBDA f : f.kind \in handled)
      s    == FoldLeft(process, State, mine)
  IN  /\ batch = <<>> /\ frames["icmp"] # <<>>
      /\ cache' = s.cache /\ answers' = s.answers
      /\ heard' = HeardIn(mine)
      /\ batch' = SelectSeq(frames["icmp"], LAMBDA f : f.kind \notin handled)
      /\ frames' = [frames EXCEPT !["icmp"] = <<>>]
      /\ nhist' = [nhist EXCEPT !.full = @ \/ FullIn(mine)]
      /\ UNCHANGED <<nscene, out, wire, asked, pings, npings>>


(* Requests are answered. *)
icmp_mgmt_tick == ~nscene.v6 /\ Phase = "main" /\ Burst(icmp_mgmt_process, {"echo"})

(* The same for IPv6, whose ping ticks as well. *)
icmpv6_mgmt_tick ==
  /\ nscene.v6 /\ Phase \in {"main", "resolve", "wait"}
  /\ Burst(icmpv6_mgmt_process, {"echo", "solicit", "advert"})

(* The rest is put back, as far as the workers have left room. *)
icmp_put_back ==
  /\ batch # <<>>
  /\ frames' = IF Len(frames["icmp"]) < FrameSlots
                 THEN [frames EXCEPT !["icmp"] = Append(@, Head(batch))] ELSE frames
  /\ batch' = Tail(batch)
  /\ UNCHANGED <<nscene, cache, out, wire, asked, answers, pings, npings, heard, nhist>>

-----------------------------------------------------------------------------
(* ping, and the resolution of the next hop in start.                      *)

BetweenTicks == batch = <<>>
Become(phase) == pings' = [pings EXCEPT ![Len(pings)].phase = phase]
Return == pings' = SubSeq(pings, 1, Len(pings) - 1)

(* An unknown host is asked for. *)
PingResolve(h, n) ==
  /\ cache' = IF arp_lookup(h) THEN cache
              ELSE IF nscene.v6 THEN ndp_solicit(cache, h) ELSE arp_request(cache, h)
  /\ pings' = Append(pings, [host |-> h, id |-> npings + 1, seq |-> 0, count |-> n,
                             phase |-> IF arp_lookup(h) THEN "send" ELSE "resolve"])

(* icmp_ping_start, icmpv6_ping_start, and cmd_start before it builds the  *)
(* flow. A remote client's command runs while a ping waits for a reply.    *)
PingStart(h) ==
  LET n == nscene.pings[npings + 1]
  IN  /\ npings < Len(nscene.pings) /\ BetweenTicks
      /\ Phase = "main" \/ (nscene.nested /\ Phase = "wait")
      /\ PingResolve(h, n)
      /\ npings' = npings + 1
      /\ out' = IF arp_lookup(h) THEN out ELSE out \cup {Frame("solicit", h)}
      /\ heard' = IF arp_lookup(h) THEN heard ELSE heard \ {h}
      /\ nhist' = [nhist EXCEPT !.full = @ \/ ~Room(cache, h), !.mixed = @ \/ Phase = "wait"]
      /\ UNCHANGED <<nscene, frames, batch, wire, asked, answers>>

PingResolved ==
  /\ Phase = "resolve" /\ BetweenTicks /\ arp_lookup(Top.host)
  /\ Become("send")
  /\ UNCHANGED <<nscene, cache, frames, batch, out, wire, asked, answers, npings, heard, nhist>>

(* 3 s have passed. *)
PingUnreachable ==
  /\ Phase = "resolve" /\ BetweenTicks /\ ~arp_lookup(Top.host)
  /\ Return
  /\ nhist' = [nhist EXCEPT !.missed = @ \/ Top.host \in heard]
  /\ UNCHANGED <<nscene, cache, frames, batch, out, wire, asked, answers, npings, heard>>

(* A request that cannot be sent is skipped; without memory for it the    *)
(* ping ends.                                                              *)
PingSend ==
  /\ Phase = "send" /\ Top.seq < Top.count
  /\ \/ /\ out' = out \cup {[kind |-> "echo", host |-> Top.host, ping |-> Top.id, seq |-> Top.seq]}
        /\ Become("wait")
     \/ pings' = [pings EXCEPT ![Len(pings)].seq = @ + 1] /\ UNCHANGED out
     \/ pings' = [pings EXCEPT ![Len(pings)].seq = Top.count] /\ UNCHANGED out
  /\ UNCHANGED <<nscene, cache, frames, batch, wire, asked, answers, npings, heard, nhist>>

(* Mutant: the frame stays in the ring. *)
Peeked(s) == s

(* icmp_mgmt_drain. *)
Drained(s) == Tail(s)

(* The first frame of the ring is taken for the reply, whatever it is.     *)
PingReply ==
  LET f == Head(frames["icmp"])
  IN  /\ Phase = "wait" /\ BetweenTicks /\ frames["icmp"] # <<>>
      /\ frames' = [frames EXCEPT !["icmp"] = Drained(@)]
      /\ nhist' = [nhist EXCEPT !.taken = IF f.kind \in {"solicit", "echo"} THEN @ \cup {f} ELSE @,
                                !.wrong = @ \/ ~(IsReply(f) /\ f.ping = Top.id /\ f.seq = Top.seq)]
      /\ Become("pace")
      /\ UNCHANGED <<nscene, cache, batch, out, wire, asked, answers, npings, heard>>

(* The interval is over without a reply: it may be late. *)
PingTimeout ==
  /\ Phase = "wait" /\ BetweenTicks
  /\ Become("pace")
  /\ nhist' = [nhist EXCEPT !.mixed = TRUE]
  /\ UNCHANGED <<nscene, cache, frames, batch, out, wire, asked, answers, npings, heard>>

PingNext ==
  /\ Phase = "pace"
  /\ pings' = [pings EXCEPT ![Len(pings)].seq = @ + 1, ![Len(pings)].phase = "send"]
  /\ UNCHANGED <<nscene, cache, frames, batch, out, wire, asked, answers, npings, heard, nhist>>

PingReturns ==
  /\ Phase = "send" /\ Top.seq >= Top.count
  /\ Return
  /\ UNCHANGED <<nscene, cache, frames, batch, out, wire, asked, answers, npings, heard, nhist>>

PingSteps ==
  PingResolved \/ PingUnreachable \/ PingSend \/ PingReply \/ PingTimeout \/ PingNext \/ PingReturns

-----------------------------------------------------------------------------
NNext ==
  \/ \E f \in wire : arp_input(f) \/ icmp_input(f) \/ icmpv6_input(f)
  \/ \E f \in out : HostAnswers(f)
  \/ \E h \in Hosts : HostAsks("solicit", h) \/ HostAsks("echo", h) \/ HostAsks("other", h)
  \/ \E h \in Hosts : Time(h) \/ PingStart(h)
  \/ arp_mgmt_tick \/ icmp_mgmt_tick \/ icmpv6_mgmt_tick \/ icmp_put_back
  \/ PingSteps

NSpec == NInit /\ [][NNext]_nvars

(* The main loop and the loops of ping call every tick in every iteration, *)
(* and their time limits pass. Nothing is assumed of hosts and workers.    *)
NFairness ==
  /\ SF_nvars(arp_mgmt_tick) /\ WF_nvars(icmp_mgmt_tick \/ icmpv6_mgmt_tick \/ icmp_put_back)
  /\ SF_nvars(PingSteps)

-----------------------------------------------------------------------------
(* Properties.                                                             *)

(* The types; the caches and rings keep their bounds.                      *)
NTypeOK ==
  /\ \A h \in Hosts :
       /\ cache[h].st \in {"FREE", "PENDING", "RESOLVED", "STALE", "FAILED"}
       /\ cache[h].fails \in 0..2
  /\ Cardinality({h \in Hosts : cache[h] # Free}) <= nscene.room
  /\ \A r \in {"arp", "icmp"} : Len(frames[r]) <= FrameSlots
  /\ \A n \in DOMAIN pings : pings[n].seq \in 0..pings[n].count

(* What ping reports is true. It, and start, report a host as unreachable  *)
(* only if no answer of it was processed since they asked, or the cache    *)
(* was full: no answer that comes in time is lost between arp_request, the *)
(* rings and arp_mgmt_process. And the reply it reports for a request is   *)
(* the reply to that request, as long as no ping has timed out or run      *)
(* inside another and nothing but echo replies has come in:                *)
(* icmp_mgmt_drain looks at no identifier, sequence number or type.        *)
PingTellsTruth ==
  /\ NTypeOK
  /\ nhist.missed => nhist.full
  /\ nhist.wrong => nhist.mixed


=============================================================================
