------------------------------ MODULE NetStack ------------------------------
(***************************************************************************)
(* ARP, IPv4, DHCP, ping and DNS (net.c, lines 65 to 387 and 671 to 750).  *)
(* There is one thread of control.  A call that waits polls the card       *)
(* itself: it takes the next frame, throws away what it does not want, and *)
(* ends when its deadline is past.  While ip_send waits for an ARP answer  *)
(* inside another call, that call's frames are thrown away too.            *)
(*                                                                         *)
(* The network is not part of the kernel: a frame that a host could have   *)
(* sent may arrive at any time, late, again, or never; and so may what the *)
(* DHCP servers broadcast to another machine that runs this kernel, whose  *)
(* transaction id is the same.                                             *)
(***************************************************************************)
EXTENDS Integers, Sequences, FiniteSets

CONSTANTS
    Lan, Far,       \* hosts on our subnet, and beyond the gateway
    Zero,           \* the address 0.0.0.0
    MacsOf,         \* host (or Zero, for probes) -> the hardware addresses it announces
    Bcast, NoMac,
    Servers,        \* the DHCP servers among Lan
    Lease, Other,   \* server -> the address it gives us, and another machine
    Gateway,        \* server -> the gateway it names; Zero when its offer names none
    ARP_CACHE,      \* entries of arp_cache
    PingTargets,    \* bound: hosts that are pinged
    Names           \* bound: hosts whose names are resolved

ASSUME NetAssumption ==
    /\ Servers \subseteq Lan /\ Zero \notin Lan \cup Far /\ Lan \cap Far = {}
    /\ DOMAIN Lease = Servers /\ DOMAIN Other = Servers
    /\ {Lease[s] : s \in Servers} \cap {Other[s] : s \in Servers} = {}
    /\ \A s \in Servers : {Lease[s], Other[s]} \cap (Lan \cup Far \cup {Zero}) = {}
    /\ Gateway \in [Servers -> Lan \cup {Zero}]
    /\ ARP_CACHE \in Nat \ {0} /\ Bcast # NoMac
    /\ PingTargets \cup Names \subseteq Lan \cup Far

Hosts    == Lan \cup Far
Leases   == {Lease[s] : s \in Servers} \cup {Other[s] : s \in Servers}
Speakers == Lan \cup {Zero}      \* sender addresses in ARP frames

VARIABLES
    nic,            \* the card was found
    my_ip, gw_ip,
    arp_cache,      \* the valid entries, in the order of their slots
    pc,             \* the call in progress: the loop the kernel is in
    back,           \* in arp_resolve: the loop to return to
    pkt,            \* the packet ip_send has in hand
    late,           \* the deadline of the call is past
    arpLate,        \* the deadline of arp_resolve is past
    result,         \* what the last call returned
    \* History, and what the network has seen of us:
    announced,      \* address -> the hardware address it announced last
    missed,         \* addresses whose last announcement a loop threw away
    astray,         \* a packet went to another card than its next hop's
    asked,          \* requests that went out: a host may answer them, and again
    offers,         \* servers whose offer was taken up
    foreign         \* an ACK meant for another machine was taken

net  == <<nic, my_ip, gw_ip, arp_cache>>
call == <<pc, back, pkt, late, arpLate, result>>
arp  == <<announced, missed>>
dhcp == <<offers, foreign>>
hist == <<arp, dhcp, astray, asked>>
vars == <<net, call, hist>>

NoPkt == [dst |-> Zero, body |-> <<>>]

(* What net_init returned; no host answered. *)
NetInit(code) == [body |-> <<"init", code>>, from |-> Zero]
Running       == [body |-> <<>>, from |-> Zero]

(* A call returns r. *)
Ends(r) ==
    /\ pc' = "idle" /\ result' = r
    /\ late' = FALSE /\ arpLate' = FALSE /\ back' = "idle" /\ pkt' = NoPkt

TypeOK ==
    /\ nic \in BOOLEAN
    /\ my_ip \in Leases \cup {Zero} /\ gw_ip \in Speakers
    /\ arp_cache \in Seq([ip : Speakers, mac : UNION {MacsOf[h] : h \in Speakers}])
    /\ Len(arp_cache) <= ARP_CACHE
    /\ pc \in {"off", "dhcp", "ping", "dns", "resolve", "idle"}
    /\ back \in {"dhcp", "ping", "dns", "idle"}
    /\ pc = "resolve" => back # "idle" /\ pkt.dst # Zero
    /\ late \in BOOLEAN /\ arpLate \in BOOLEAN
    /\ offers \subseteq Servers /\ foreign \in BOOLEAN
    /\ missed \subseteq Speakers

Init ==
    /\ nic = FALSE /\ my_ip = Zero /\ gw_ip = Zero /\ arp_cache = <<>>
    /\ pc = "off" /\ back = "idle" /\ pkt = NoPkt
    /\ late = FALSE /\ arpLate = FALSE /\ result = NetInit("not run")
    /\ announced = [h \in Speakers |-> NoMac] /\ missed = {} /\ astray = FALSE
    /\ asked = {} /\ offers = {} /\ foreign = FALSE

-----------------------------------------------------------------------------
(* arp_cache_set: the first slot that is free or has the address; else the
   first slot of all.  Slots are never freed, so the free ones come last. *)
SlotsOf(c, ip) == {k \in DOMAIN c : c[k].ip = ip}

(* slip: a free slot is taken before one with the address is looked for. *)
CacheSetFreeFirst(c, ip, mac) ==
    LET entry == [ip |-> ip, mac |-> mac]
    IN  IF Len(c) < ARP_CACHE THEN Append(c, entry)
        ELSE IF SlotsOf(c, ip) = {} THEN [c EXCEPT ![1] = entry]
        ELSE [k \in DOMAIN c |-> IF c[k].ip = ip THEN entry ELSE c[k]]

CacheSet(c, ip, mac) ==
    LET entry == [ip |-> ip, mac |-> mac]
    IN  IF SlotsOf(c, ip) # {}
        THEN [k \in DOMAIN c |-> IF c[k].ip = ip THEN entry ELSE c[k]]
        ELSE IF Len(c) < ARP_CACHE THEN Append(c, entry)
        ELSE [c EXCEPT ![1] = entry]

(* arp_cache_get: the first entry for the address. *)
CacheGet(c, ip) ==
    IF SlotsOf(c, ip) = {} THEN NoMac
    ELSE c[CHOOSE k \in SlotsOf(c, ip) : \A j \in SlotsOf(c, ip) : k <= j].mac

(* Where ip_send sends: to the host itself, or to the gateway. *)
NextHop(dst) == IF my_ip # Zero /\ dst \notin Lan THEN gw_ip ELSE dst

(* What a packet that leaves does outside: the request it carries is known,
   and a host may answer it.  It ought to go to the card its Route announced
   last, or at least to one of that host's when the last announcement was
   missed.  Beyond the subnet without a gateway there is no way, and no card is
   the wrong one. *)
Route(dst) == IF dst \in Far THEN gw_ip ELSE dst

CardsOf(h, latest, lost) ==
    IF h = Zero \/ h \in lost THEN MacsOf[h] ELSE {latest[h]}

Leaves(p, mac, latest, lost) ==
    /\ astray' = (astray \/ (mac # Bcast /\ mac \notin CardsOf(Route(p.dst), latest, lost)))
    /\ asked' = IF nic' THEN asked \cup {p.body} ELSE asked

(* ip_send up to the wait in arp_resolve, or to its end when the address is
   known. *)
IpSend(p, then) ==
    LET mac == IF p.dst = Zero THEN Bcast ELSE CacheGet(arp_cache, NextHop(p.dst))
    IN  /\ pkt' = p
        /\ \/ /\ mac # NoMac
              /\ Leaves(p, mac, announced, missed)
              /\ pc' = then /\ UNCHANGED back
           \/ /\ mac = NoMac
              /\ pc' = "resolve" /\ back' = then
              /\ UNCHANGED <<astray, asked>>

-----------------------------------------------------------------------------
(* Frames that a host may send us: an ARP frame, with which it tells its
   hardware address; what answers a request, as often and as late as it likes;
   what a DHCP server broadcasts, for us or not.  A server acknowledges to us
   what we requested of it. *)
ArpFrames == UNION {[spa : {h}, sha : MacsOf[h]] : h \in Speakers}

Asked(what) == {h \in Hosts : <<what, h>> \in asked}

OfferFrames == [from : Servers, to : {"us", "other"}, sid : BOOLEAN]
AckFrames   == [from : Servers \cap Asked("request"), to : {"us"}]
               \cup [from : Servers, to : {"other"}]
EchoFrames  == [from : Asked("echo"), type : {"reply"}] \cup [from : Hosts, type : {"request"}]
DnsFrames   == [from : Asked("query")]

-----------------------------------------------------------------------------
(* net_init. *)
NoNic ==
    /\ pc = "off"
    /\ Ends(NetInit("no nic"))
    /\ UNCHANGED <<net, hist>>

Discover ==
    /\ pc = "off"
    /\ nic' = TRUE
    /\ UNCHANGED <<my_ip, gw_ip, arp_cache, late, arpLate, result, arp, dhcp>>
    /\ IpSend([dst |-> Zero, body |-> <<"discover">>], "dhcp")

(* dhcp_run on an offer: the gateway is kept, and the address requested of the
   server, by broadcast when the offer does not name the server.  Whom the
   offer is for (chaddr) is not asked.  net_init runs once, so my_ip is 0
   throughout and dhcp_send's zeroing of it changes nothing. *)
OnOffer(f) ==
    /\ gw_ip' = IF Gateway[f.from] = Zero THEN gw_ip ELSE Gateway[f.from]
    /\ offers' = offers \cup {f.from}
    /\ UNCHANGED <<nic, my_ip, arp_cache, late, arpLate, result, arp, foreign>>
    /\ IpSend([dst |-> IF f.sid THEN f.from ELSE Zero, body |-> <<"request", f.from>>], "dhcp")

(* slip: any message of a server gives the lease. *)
LeaseFramesAny == AckFrames \cup OfferFrames

LeaseFrames == AckFrames

(* dhcp_run on an ACK, whose chaddr is not looked at either. *)
OnAck(f) ==
    /\ my_ip' = IF f.to = "us" THEN Lease[f.from] ELSE Other[f.from]
    /\ foreign' = (foreign \/ f.to # "us")
    /\ Ends(NetInit("up"))
    /\ UNCHANGED <<nic, gw_ip, arp_cache, arp, offers, astray, asked>>

DhcpOffer == pc = "dhcp" /\ ~late /\ \E f \in OfferFrames : OnOffer(f)
DhcpAck   == pc = "dhcp" /\ ~late /\ \E f \in LeaseFrames : OnAck(f)

DhcpTimeout ==
    /\ pc = "dhcp" /\ late
    /\ Ends(NetInit("timeout"))
    /\ UNCHANGED <<net, hist>>

-----------------------------------------------------------------------------
(* slip: arp_resolve waits without a deadline. *)
ArpDueNever == FALSE

ArpDue == arpLate

(* arp_handle remembers the sender, whoever it is (its answer, when our address
   is asked for, goes back to the asker and changes nothing here). *)
ArpHandle(f) ==
    /\ arp_cache' = CacheSet(arp_cache, f.spa, f.sha)
    /\ announced' = [announced EXCEPT ![f.spa] = f.sha]
    /\ missed' = missed \ {f.spa}

(* arp_resolve: one round of its loop that finds an ARP frame (other frames
   are lost), and its end: the packet goes if it can. *)
Resolve ==
    /\ pc = "resolve" /\ ~ArpDue /\ nic
    /\ UNCHANGED <<nic, my_ip, gw_ip, pkt, late, arpLate, result, dhcp>>
    /\ \E f \in ArpFrames :
        /\ ArpHandle(f)
        /\ LET mac == CacheGet(arp_cache', NextHop(pkt.dst))
           IN  \/ /\ mac # NoMac
                  /\ Leaves(pkt, mac, announced', missed')
                  /\ pc' = back /\ back' = "idle"
               \/ /\ mac = NoMac
                  /\ UNCHANGED <<astray, asked, pc, back>>

(* The other loops throw an ARP frame away like all they do not wait for. *)
Discard ==
    /\ pc \in {"dhcp", "ping", "dns"} /\ ~late /\ nic
    /\ \E f \in ArpFrames :
        /\ announced[f.spa] # f.sha
        /\ announced' = [announced EXCEPT ![f.spa] = f.sha]
        /\ missed' = missed \cup {f.spa}
    /\ UNCHANGED <<net, call, dhcp, astray, asked>>

(* net_poll takes one frame between calls. *)
NetPoll ==
    /\ pc = "idle" /\ nic
    /\ \E f \in ArpFrames : ArpHandle(f)
    /\ UNCHANGED <<nic, my_ip, gw_ip, call, dhcp, astray, asked>>

(* No answer in time: ip_send returns and its caller waits all the same. *)
ResolveTimeout ==
    /\ pc = "resolve" /\ ArpDue
    /\ pc' = back /\ back' = "idle" /\ arpLate' = FALSE
    /\ UNCHANGED <<net, pkt, late, result, hist>>

-----------------------------------------------------------------------------
(* net_ping and net_dns_resolve, which asks the gateway.  The id of a request
   is a constant, so any answer to an earlier one will do; result names the
   host asked for and the host the answer is from. *)
Ping(h) ==
    /\ pc = "idle"
    /\ result' = Running /\ UNCHANGED <<net, late, arpLate, arp, dhcp>>
    /\ IpSend([dst |-> h, body |-> <<"echo", h>>], "ping")

DnsResolve(h) ==
    /\ pc = "idle"
    /\ result' = Running /\ UNCHANGED <<net, late, arpLate, arp, dhcp>>
    /\ IpSend([dst |-> gw_ip, body |-> <<"query", h>>], "dns")

(* slip: the type of the message is not looked at. *)
IsEchoReplyAny(f) == TRUE

IsEchoReply(f) == f.type = "reply"

Return(f) ==
    /\ Ends([body |-> pkt.body, from |-> f.from])
    /\ UNCHANGED <<net, hist>>

PingReply == pc = "ping" /\ ~late /\ \E f \in EchoFrames : IsEchoReply(f) /\ Return(f)
DnsAnswer == pc = "dns" /\ ~late /\ \E f \in DnsFrames : Return(f)

GiveUp ==
    /\ pc \in {"ping", "dns"} /\ late
    /\ Ends([body |-> pkt.body, from |-> Zero])
    /\ UNCHANGED <<net, hist>>

-----------------------------------------------------------------------------
(* Time passes. *)
Clock ==
    /\ ~late
    /\ \/ pc \in {"dhcp", "ping", "dns"}
       \/ pc = "resolve" /\ back = "dhcp"
    /\ late' = TRUE
    /\ UNCHANGED <<net, pc, back, pkt, arpLate, result, hist>>

ArpClock ==
    /\ ~arpLate /\ pc = "resolve"
    /\ arpLate' = TRUE
    /\ UNCHANGED <<net, pc, back, pkt, late, result, hist>>

Next ==
    \/ NoNic \/ Discover \/ DhcpOffer \/ DhcpAck \/ DhcpTimeout
    \/ Resolve \/ ResolveTimeout \/ Discard \/ NetPoll
    \/ \E h \in PingTargets : Ping(h)
    \/ \E h \in Names : DnsResolve(h)
    \/ PingReply \/ DnsAnswer \/ GiveUp
    \/ Clock \/ ArpClock

(* The timer interrupt goes on, and a loop whose deadline is past ends.
   Nothing is assumed of the network. *)
Fairness ==
    /\ WF_vars(Clock) /\ WF_vars(ArpClock)
    /\ WF_vars(DhcpTimeout) /\ WF_vars(ResolveTimeout) /\ WF_vars(GiveUp)

Spec == Init /\ [][Next]_vars /\ Fairness

-----------------------------------------------------------------------------
(* A unicast packet goes to the card that its next hop, the host itself on the
   subnet and else the gateway, announced last, whatever was learnt and
   displaced in the full cache since; when the loop of another call threw the
   last announcement away, to a card that host did announce (arp_cache_set,
   ip_send).  Without a gateway, what is meant for beyond the subnet goes to
   whoever probed with address 0: of that nothing is claimed. *)
SentToNextHop == ~astray

(* Unless it took an ACK meant for another machine, the kernel uses an address
   that was leased to it by a server whose offer it took up, and with one such
   server the gateway is that server's own, whichever machine the offers were
   for (dhcp_run). *)
LeaseFits ==
    my_ip # Zero /\ ~foreign =>
        \E s \in offers : Lease[s] = my_ip /\ (offers = {s} => gw_ip = Gateway[s])

(* What a call takes for an answer does answer a request of its kind that this
   machine sent: in this call or, since the id is a constant, in any earlier
   one (net_ping, net_dns_resolve). *)
AnswersARequest ==
    result.from # Zero => <<result.body[1], result.from>> \in asked

(* Every call ends, however many frames keep coming (the deadlines of
   arp_resolve, dhcp_run, net_ping and net_dns_resolve). *)
CallEnds == pc \notin {"off", "idle"} ~> pc = "idle"
=============================================================================
