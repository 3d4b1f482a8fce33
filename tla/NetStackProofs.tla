--------------------------- MODULE NetStackProofs ---------------------------
(***************************************************************************)
(* ARP and DHCP for any hosts, servers, hardware addresses and size of the *)
(* ARP cache: packets go to the card of their next hop as far as the loops *)
(* let it be known, and a lease is of a server whose offer was taken up.   *)
(***************************************************************************)
EXTENDS NetStack, SequenceTheorems, TLAPS

(***************************************************************************)
(* The ARP cache                                                           *)
(***************************************************************************)

Macs    == UNION {MacsOf[h] : h \in Speakers}
Entries == [ip : Speakers, mac : Macs]
NoTwin(c) == \A j, k \in DOMAIN c : c[j].ip = c[k].ip => j = k

(* arp_cache_set puts the entry in, touches none of another address, and
   keeps the entries' addresses apart and within the cache. *)
LEMMA CacheSetFacts ==
    ASSUME NEW c \in Seq(Entries), Len(c) <= ARP_CACHE, NoTwin(c),
           NEW ip \in Speakers, NEW mac \in Macs,
           NEW d, d = CacheSet(c, ip, mac)
    PROVE  /\ d \in Seq(Entries) /\ Len(d) <= ARP_CACHE /\ NoTwin(d)
           /\ \A k \in DOMAIN d :
                \/ d[k] = [ip |-> ip, mac |-> mac]
                \/ k \in DOMAIN c /\ d[k] = c[k] /\ c[k].ip # ip
  <1> DEFINE e == [ip |-> ip, mac |-> mac]
  <1>0. /\ e \in Entries /\ e.ip = ip
        /\ DOMAIN c = 1 .. Len(c) /\ Len(c) \in Nat
        /\ c \in [1 .. Len(c) -> Entries]
        /\ ARP_CACHE \in Nat \ {0}
    <2>1. e \in Entries /\ e.ip = ip  BY DEF Entries
    <2>2. ARP_CACHE \in Nat \ {0}  BY NetAssumption DEF NetAssumption
    <2> HIDE DEF e
    <2> QED  BY <2>1, <2>2, LenProperties
  <1> HIDE DEF e
  <1>1. CASE SlotsOf(c, ip) # {}
    <2>1. d = [k \in DOMAIN c |-> IF c[k].ip = ip THEN e ELSE c[k]]
      BY <1>1 DEF CacheSet, e
    <2>2. d \in [1 .. Len(c) -> Entries]  BY <1>0, <2>1
    <2>3. d \in Seq(Entries) /\ Len(d) = Len(c)  BY <1>0, <2>2
    <2>4. \A k \in DOMAIN d : d[k].ip = c[k].ip  BY <1>0, <2>1
    <2> QED  BY <1>0, <2>1, <2>3, <2>4 DEF NoTwin, e
  <1>2. CASE SlotsOf(c, ip) = {} /\ Len(c) < ARP_CACHE
    <2>1. d = Append(c, e)  BY <1>2 DEF CacheSet, e
    <2>2. \A k \in DOMAIN c : c[k].ip # ip  BY <1>2 DEF SlotsOf
    <2>3. /\ d \in Seq(Entries) /\ Len(d) = Len(c) + 1
          /\ DOMAIN d = 1 .. Len(c) + 1 /\ d[Len(c) + 1] = e
          /\ \A k \in 1 .. Len(c) : d[k] = c[k]
      BY <1>0, <2>1, AppendProperties
    <2>4. NoTwin(d)
      <3> SUFFICES ASSUME NEW j \in DOMAIN d, NEW k \in DOMAIN d,
                          d[j].ip = d[k].ip
                   PROVE  j = k
        BY DEF NoTwin
      <3>1. j \in 1 .. Len(c) \/ j = Len(c) + 1  BY <1>0, <2>3
      <3>2. k \in 1 .. Len(c) \/ k = Len(c) + 1  BY <1>0, <2>3
      <3> QED  BY <3>1, <3>2, <1>0, <2>2, <2>3 DEF NoTwin
    <2>5. \A k \in DOMAIN d : k \in DOMAIN c \/ k = Len(c) + 1
      BY <1>0, <2>3
    <2> QED  BY <1>0, <1>2, <2>2, <2>3, <2>4, <2>5 DEF e
  <1>3. CASE SlotsOf(c, ip) = {} /\ ~(Len(c) < ARP_CACHE)
    <2>1. d = [c EXCEPT ![1] = e]  BY <1>3 DEF CacheSet, e
    <2>2. \A k \in DOMAIN c : c[k].ip # ip  BY <1>3 DEF SlotsOf
    <2>3. 1 \in DOMAIN c  BY <1>0, <1>3
    <2>4. /\ d \in Seq(Entries) /\ Len(d) = Len(c) /\ DOMAIN d = DOMAIN c
          /\ \A k \in DOMAIN c : d[k] = IF k = 1 THEN e ELSE c[k]
      BY <1>0, <2>1, <2>3
    <2> QED  BY <1>0, <2>2, <2>3, <2>4 DEF NoTwin, e
  <1> QED  BY <1>1, <1>2, <1>3

(* What arp_cache_get finds belongs to an entry for the address. *)
LEMMA CacheGetFacts ==
    ASSUME NEW c \in Seq(Entries), NoTwin(c), NEW ip, CacheGet(c, ip) # NoMac
    PROVE  \E k \in DOMAIN c : c[k].ip = ip /\ c[k].mac = CacheGet(c, ip)
  <1>1. SlotsOf(c, ip) # {}  BY DEF CacheGet
  <1>2. PICK k \in DOMAIN c : c[k].ip = ip  BY <1>1 DEF SlotsOf
  <1>3. SlotsOf(c, ip) = {k}  BY <1>2 DEF SlotsOf, NoTwin
  <1>4. CacheGet(c, ip)
          = c[CHOOSE i \in SlotsOf(c, ip) : \A j \in SlotsOf(c, ip) : i <= j].mac
    BY <1>1 DEF CacheGet
  <1>5. (CHOOSE i \in SlotsOf(c, ip) : \A j \in SlotsOf(c, ip) : i <= j) = k
    <2>1. k <= k
      <3>1. k \in Int  OBVIOUS
      <3> QED  BY <3>1
    <2> QED  BY <1>3, <2>1
  <1> QED  BY <1>2, <1>4, <1>5

(***************************************************************************)
(* The invariant                                                           *)
(***************************************************************************)

(* Every entry of the cache is the only one for its address and holds a card of
   that host: the one it announced last, or the announcement was missed. *)
CacheInv ==
    /\ arp_cache \in Seq(Entries) /\ Len(arp_cache) <= ARP_CACHE
    /\ NoTwin(arp_cache)
    /\ announced \in [Speakers -> Macs \cup {NoMac}] /\ missed \subseteq Speakers
    /\ \A k \in DOMAIN arp_cache :
          /\ arp_cache[k].mac \in MacsOf[arp_cache[k].ip]
          /\ arp_cache[k].mac \in CardsOf(arp_cache[k].ip, announced, missed)

CallInv ==
    /\ nic \in BOOLEAN /\ my_ip \in Leases \cup {Zero} /\ gw_ip \in Speakers
    /\ pc \in {"off", "dhcp", "ping", "dns", "resolve", "idle"}
    /\ back \in {"dhcp", "ping", "dns", "idle"}
    /\ late \in BOOLEAN /\ arpLate \in BOOLEAN
    /\ offers \subseteq Servers /\ foreign \in BOOLEAN
    /\ pc = "resolve" => back # "idle" /\ pkt.dst \in Hosts

(* A request, in hand or out, is of a server whose offer was taken up. *)
LeaseInv ==
    /\ \A s \in Servers : pkt.body = <<"request", s>> => s \in offers
    /\ \A s \in Servers : <<"request", s>> \in asked => s \in offers
    /\ offers = {} => gw_ip = Zero
    /\ \A s \in Servers : offers = {s} => gw_ip = Gateway[s]
    /\ my_ip # Zero /\ ~foreign => \E s \in offers : Lease[s] = my_ip

Inv == CacheInv /\ CallInv /\ LeaseInv /\ ~astray

(* What a cache whose entries are of the right cards gives for the next hop is
   a right card of the host the packet ought to go to. *)
LEMMA HopIsRoute ==
    ASSUME NEW c \in Seq(Entries), NoTwin(c), NEW latest, NEW lost,
           \A k \in DOMAIN c : c[k].mac \in CardsOf(c[k].ip, latest, lost),
           NEW dst \in Hosts, CacheGet(c, NextHop(dst)) # NoMac
    PROVE  CacheGet(c, NextHop(dst)) \in CardsOf(Route(dst), latest, lost)
  <1>1. PICK k \in DOMAIN c :
               c[k].ip = NextHop(dst) /\ c[k].mac = CacheGet(c, NextHop(dst))
    BY CacheGetFacts
  <1>2. NextHop(dst) \in Speakers
    <2>1. c[k] \in Entries  BY <1>1, ElementOfSeq, LenProperties
    <2> QED  BY <1>1, <2>1 DEF Entries
  <1>3. NextHop(dst) = Route(dst)
    BY <1>2, NetAssumption DEF NextHop, Route, Hosts, Speakers, NetAssumption
  <1> QED  BY <1>1, <1>3

(* ip_send: the packet leaves for its next hop, or waits for the address. *)
LEMMA IpSendFacts ==
    ASSUME CacheInv, ~astray, NEW p, NEW then, IpSend(p, then),
           p.dst \in Hosts \cup {Zero}
    PROVE  /\ pkt' = p /\ ~astray'
           /\ asked' = asked \/ asked' = asked \cup {p.body}
           /\ \/ pc' = then /\ back' = back
              \/ /\ pc' = "resolve" /\ back' = then /\ asked' = asked
                 /\ p.dst \in Hosts
  <1> DEFINE mac == IF p.dst = Zero THEN Bcast
                    ELSE CacheGet(arp_cache, NextHop(p.dst))
  <1>1. CASE mac # NoMac
    <2>1. /\ pkt' = p /\ Leaves(p, mac, announced, missed)
          /\ pc' = then /\ back' = back
      BY <1>1 DEF IpSend
    <2>2. mac = Bcast \/ mac \in CardsOf(Route(p.dst), announced, missed)
      <3>1. CASE p.dst = Zero  BY <3>1
      <3>2. CASE p.dst \in Hosts /\ p.dst # Zero
        BY <1>1, <3>2, HopIsRoute DEF CacheInv
      <3> QED  BY <3>1, <3>2
    <2> QED  BY <2>1, <2>2 DEF Leaves
  <1>2. CASE mac = NoMac
    <2>1. p.dst \in Hosts  BY <1>2, NetAssumption DEF NetAssumption
    <2> QED  BY <1>2, <2>1 DEF IpSend
  <1> QED  BY <1>1, <1>2

(* arp_handle keeps the cache right, and what it has put in is right. *)
LEMMA ArpHandleFacts ==
    ASSUME CacheInv, NEW f \in ArpFrames, ArpHandle(f)
    PROVE  CacheInv'
  <1>1. f.spa \in Speakers /\ f.sha \in MacsOf[f.spa] /\ f.sha \in Macs
    BY DEF ArpFrames, Macs
  <1>2. /\ arp_cache' = CacheSet(arp_cache, f.spa, f.sha)
        /\ announced' = [announced EXCEPT ![f.spa] = f.sha]
        /\ missed' = missed \ {f.spa}
    BY DEF ArpHandle
  <1>3. PICK d : d = arp_cache'  OBVIOUS
  <1>4. /\ d \in Seq(Entries) /\ Len(d) <= ARP_CACHE /\ NoTwin(d)
        /\ \A k \in DOMAIN d :
             \/ d[k] = [ip |-> f.spa, mac |-> f.sha]
             \/ /\ k \in DOMAIN arp_cache /\ d[k] = arp_cache[k]
                /\ arp_cache[k].ip # f.spa
    BY <1>1, <1>2, <1>3, CacheSetFacts DEF CacheInv
  <1>5. announced' \in [Speakers -> Macs \cup {NoMac}] /\ missed' \subseteq Speakers
    BY <1>1, <1>2 DEF CacheInv
  <1>6. ASSUME NEW k \in DOMAIN d
        PROVE  /\ d[k].mac \in MacsOf[d[k].ip]
               /\ d[k].mac \in CardsOf(d[k].ip, announced', missed')
    <2>1. CASE d[k] = [ip |-> f.spa, mac |-> f.sha]
      BY <1>1, <1>2, <2>1 DEF CacheInv, CardsOf
    <2>2. CASE k \in DOMAIN arp_cache /\ d[k] = arp_cache[k]
                 /\ arp_cache[k].ip # f.spa
      <3>1. arp_cache[k] \in Entries
        BY <2>2, ElementOfSeq, LenProperties DEF CacheInv
      <3> QED  BY <1>1, <1>2, <2>2, <3>1 DEF CacheInv, CardsOf, Entries
    <2> QED  BY <1>4, <2>1, <2>2
  <1> QED  BY <1>3, <1>4, <1>5, <1>6 DEF CacheInv, NoTwin, CardsOf

(* A new call of ping or DNS. *)
LEMMA NewCall ==
    ASSUME Inv, NEW what \in {"echo", "query"}, NEW loop \in {"ping", "dns"},
           NEW h, NEW dst \in Hosts \cup {Zero},
           IpSend([dst |-> dst, body |-> <<what, h>>], loop),
           UNCHANGED <<net, late, arpLate, arp, dhcp>>
    PROVE  Inv'
  <1> DEFINE p == [dst |-> dst, body |-> <<what, h>>]
  <1>1. p.dst = dst /\ p.body = <<what, h>> /\ IpSend(p, loop)  OBVIOUS
  <1> HIDE DEF p
  <1>2. /\ pkt' = p /\ ~astray'
        /\ asked' = asked \/ asked' = asked \cup {<<what, h>>}
        /\ \/ pc' = loop /\ back' = back
           \/ pc' = "resolve" /\ back' = loop /\ dst \in Hosts
    BY <1>1, IpSendFacts DEF Inv
  <1>3. CacheInv'  BY DEF Inv, CacheInv, net, arp
  <1>4. CallInv'  BY <1>1, <1>2 DEF Inv, CallInv, net, dhcp
  <1>5. \A s \in Servers : <<what, h>> # <<"request", s>>  OBVIOUS
  <1>6. LeaseInv'  BY <1>1, <1>2, <1>5 DEF Inv, LeaseInv, net, dhcp
  <1> QED  BY <1>2, <1>3, <1>4, <1>6 DEF Inv

(* A call that ends leaves no packet in hand. *)
LEMMA EndCall ==
    ASSUME Inv, NEW r, Ends(r), UNCHANGED <<nic, gw_ip, arp_cache, arp, offers,
                                            astray, asked>>,
           my_ip' \in Leases \cup {Zero}, foreign' \in BOOLEAN,
           my_ip' # Zero /\ ~foreign' => \E s \in offers : Lease[s] = my_ip'
    PROVE  Inv'
  <1>1. CacheInv'  BY DEF Inv, CacheInv, arp
  <1>2. CallInv'  BY DEF Inv, CallInv, Ends
  <1>3. \A s \in Servers : pkt'.body # <<"request", s>>  BY DEF Ends, NoPkt
  <1>4. LeaseInv'  BY <1>3 DEF Inv, LeaseInv
  <1> QED  BY <1>1, <1>2, <1>4 DEF Inv

(* A call that ends and learns nothing. *)
LEMMA EndQuietly ==
    ASSUME Inv, NEW r, Ends(r), UNCHANGED <<net, hist>>
    PROVE  Inv'
  <1>1. /\ my_ip' \in Leases \cup {Zero} /\ foreign' \in BOOLEAN
        /\ my_ip' # Zero /\ ~foreign' => \E s \in offers : Lease[s] = my_ip'
    BY DEF Inv, CallInv, LeaseInv, net, hist, dhcp
  <1>2. UNCHANGED <<nic, gw_ip, arp_cache, arp, offers, astray, asked>>
    BY DEF net, hist, dhcp
  <1> QED  BY <1>1, <1>2, EndCall

(* Time passes, or the wait for an address ends. *)
LEMMA SameCall ==
    ASSUME Inv, UNCHANGED <<net, hist, pkt>>,
           late' \in BOOLEAN, arpLate' \in BOOLEAN,
           (pc' = pc /\ back' = back) \/ (pc' = back /\ back' = "idle")
    PROVE  Inv'
  <1>1. CacheInv'  BY DEF Inv, CacheInv, net, hist, arp
  <1>2. CallInv'  BY DEF Inv, CallInv, net, hist, dhcp
  <1>3. LeaseInv'  BY DEF Inv, LeaseInv, net, hist, dhcp
  <1> QED  BY <1>1, <1>2, <1>3 DEF Inv, hist

LEMMA InvHolds == Spec => []Inv
  <1>1. Init => Inv
    <2> SUFFICES ASSUME Init PROVE Inv  OBVIOUS
    <2>1. CacheInv
      <3>1. /\ arp_cache = <<>> /\ missed = {}
            /\ announced = [h \in Speakers |-> NoMac]
        BY DEF Init
      <3>2. ARP_CACHE \in Nat  BY NetAssumption DEF NetAssumption
      <3> QED  BY <3>1, <3>2, EmptySeq DEF CacheInv, NoTwin
    <2>2. CallInv  BY DEF Init, CallInv, Speakers
    <2>3. LeaseInv  BY DEF Init, LeaseInv, NoPkt
    <2> QED  BY <2>1, <2>2, <2>3 DEF Init, Inv
  <1>2. Inv /\ [Next]_vars => Inv'
    <2> SUFFICES ASSUME Inv, [Next]_vars PROVE Inv'  OBVIOUS
    <2>1. CASE NoNic
      BY <2>1, EndQuietly DEF NoNic
    <2>2. CASE Discover
      <3> DEFINE p == [dst |-> Zero, body |-> <<"discover">>]
      <3>1. p.dst = Zero /\ p.body = <<"discover">> /\ IpSend(p, "dhcp")
        BY <2>2 DEF Discover
      <3> HIDE DEF p
      <3>2. /\ pkt' = p /\ ~astray'
            /\ asked' \in {asked, asked \cup {<<"discover">>}}
            /\ pc' = "dhcp" /\ back' = back
        BY <3>1, NetAssumption, IpSendFacts
           DEF Inv, Hosts, NetAssumption
      <3>3. CacheInv'  BY <2>2 DEF Discover, Inv, CacheInv, arp
      <3>4. CallInv'  BY <2>2, <3>1, <3>2 DEF Discover, Inv, CallInv, dhcp
      <3>5. LeaseInv'
        <4>1. \A s \in Servers : <<"discover">> # <<"request", s>>  OBVIOUS
        <4> QED  BY <2>2, <3>1, <3>2, <4>1 DEF Discover, Inv, LeaseInv, dhcp
      <3> QED  BY <3>2, <3>3, <3>4, <3>5 DEF Inv
    <2>3. CASE DhcpOffer
      <3>1. PICK f \in OfferFrames : OnOffer(f)  BY <2>3 DEF DhcpOffer
      <3>2. f.from \in Servers /\ f.from \in Lan
        BY NetAssumption DEF OfferFrames, NetAssumption
      <3> DEFINE p == [dst |-> IF f.sid THEN f.from ELSE Zero,
                       body |-> <<"request", f.from>>]
      <3>3. /\ p.dst \in Hosts \cup {Zero} /\ p.body = <<"request", f.from>>
            /\ IpSend(p, "dhcp") /\ pc = "dhcp"
        BY <2>3, <3>1, <3>2 DEF OnOffer, DhcpOffer, Hosts
      <3> HIDE DEF p
      <3>4. /\ pkt' = p /\ ~astray'
            /\ asked' \in {asked, asked \cup {<<"request", f.from>>}}
            /\ \/ pc' = "dhcp" /\ back' = back
               \/ pc' = "resolve" /\ back' = "dhcp" /\ p.dst \in Hosts
        BY <3>3, IpSendFacts DEF Inv
      <3>5. CacheInv'  BY <3>1 DEF OnOffer, Inv, CacheInv, arp
      <3>6. CallInv'
        <4>1. gw_ip' \in Speakers
          BY <3>1, <3>2, NetAssumption
             DEF OnOffer, NetAssumption, Inv, CallInv, Speakers
        <4> QED  BY <3>1, <3>2, <3>4, <4>1 DEF OnOffer, Inv, CallInv
      <3>7. LeaseInv'
        <4>1. /\ gw_ip' = IF Gateway[f.from] = Zero THEN gw_ip ELSE Gateway[f.from]
              /\ offers' = offers \cup {f.from} /\ my_ip' = my_ip
              /\ foreign' = foreign
          BY <3>1 DEF OnOffer
        <4>2. ASSUME NEW s \in Servers, offers' = {s}
              PROVE  gw_ip' = Gateway[s]
          <5>1. s = f.from /\ (offers = {} \/ offers = {s})  BY <4>1, <4>2
          <5> QED  BY <4>1, <5>1 DEF Inv, LeaseInv
        <4>3. ASSUME NEW s \in Servers,
                     pkt'.body = <<"request", s>> \/ <<"request", s>> \in asked'
              PROVE  s \in offers'
          <5>1. s = f.from \/ <<"request", s>> \in asked  BY <3>3, <3>4, <4>3
          <5> QED  BY <4>1, <5>1 DEF Inv, LeaseInv
        <4> QED  BY <4>1, <4>2, <4>3 DEF Inv, LeaseInv
      <3> QED  BY <3>4, <3>5, <3>6, <3>7 DEF Inv
    <2>4. CASE DhcpAck
      <3>1. PICK f \in AckFrames : OnAck(f)  BY <2>4 DEF DhcpAck, LeaseFrames
      <3>2. /\ f.from \in Servers
            /\ f.to = "us" => <<"request", f.from>> \in asked
        BY DEF AckFrames, Asked
      <3>3. /\ my_ip' \in Leases
            /\ foreign' \in BOOLEAN
            /\ ~foreign' => f.to = "us" /\ my_ip' = Lease[f.from]
        BY <3>1, <3>2 DEF OnAck, Leases, Inv, CallInv
      <3>4. ~foreign' => \E s \in offers : Lease[s] = my_ip'
        BY <3>2, <3>3 DEF Inv, LeaseInv
      <3> QED
        BY <3>1, <3>3, <3>4, EndCall DEF OnAck
    <2>5. CASE DhcpTimeout
      BY <2>5, EndQuietly DEF DhcpTimeout
    <2>6. CASE Resolve
      <3>1. PICK f \in ArpFrames :
              /\ ArpHandle(f)
              /\ LET mac == CacheGet(arp_cache', NextHop(pkt.dst))
                 IN  \/ /\ mac # NoMac
                        /\ Leaves(pkt, mac, announced', missed')
                        /\ pc' = back /\ back' = "idle"
                     \/ /\ mac = NoMac
                        /\ UNCHANGED <<astray, asked, pc, back>>
        BY <2>6 DEF Resolve
      <3>2. /\ UNCHANGED <<nic, my_ip, gw_ip, pkt, late, arpLate, result, dhcp>>
            /\ pc = "resolve"
        BY <2>6 DEF Resolve
      <3>3. CacheInv'  BY <3>1, ArpHandleFacts DEF Inv
      <3>4. PICK d, latest, lost :
              d = arp_cache' /\ latest = announced' /\ lost = missed'
        OBVIOUS
      <3> DEFINE mac == CacheGet(d, NextHop(pkt.dst))
      <3>5. \/ /\ mac # NoMac /\ Leaves(pkt, mac, latest, lost)
               /\ pc' = back /\ back' = "idle"
            \/ mac = NoMac /\ UNCHANGED <<astray, asked, pc, back>>
        BY <3>1, <3>4
      <3>6. ~astray' /\ asked' \in {asked, asked \cup {pkt.body}}
        <4>1. CASE mac # NoMac /\ Leaves(pkt, mac, latest, lost)
          <5>1. pkt.dst \in Hosts  BY <3>2 DEF Inv, CallInv
          <5>2. /\ d \in Seq(Entries) /\ NoTwin(d)
                /\ \A k \in DOMAIN d : d[k].mac \in CardsOf(d[k].ip, latest, lost)
            BY <3>3, <3>4 DEF CacheInv, NoTwin, CardsOf
          <5>3. mac \in CardsOf(Route(pkt.dst), latest, lost)
            BY <4>1, <5>1, <5>2, HopIsRoute
          <5> QED  BY <4>1, <5>3 DEF Leaves, Inv
        <4> QED  BY <3>5, <4>1 DEF Inv
      <3>7. CallInv'  BY <3>2, <3>5 DEF Inv, CallInv, dhcp
      <3>8. LeaseInv'  BY <3>2, <3>6 DEF Inv, LeaseInv, dhcp
      <3> QED  BY <3>3, <3>6, <3>7, <3>8 DEF Inv
    <2>7. CASE ResolveTimeout
      BY <2>7, SameCall DEF ResolveTimeout, Inv, CallInv
    <2>8. CASE Discard
      <3>1. PICK f \in ArpFrames :
              /\ announced' = [announced EXCEPT ![f.spa] = f.sha]
              /\ missed' = missed \cup {f.spa}
        BY <2>8 DEF Discard
      <3>2. /\ f.spa \in Speakers /\ f.sha \in Macs
            /\ UNCHANGED <<net, call, dhcp, astray, asked>>
        BY <2>8 DEF Discard, ArpFrames, Macs
      <3>3. CacheInv'
        <4>1. ASSUME NEW k \in DOMAIN arp_cache
              PROVE  arp_cache[k].mac \in CardsOf(arp_cache[k].ip, announced', missed')
          <5>1. arp_cache[k] \in Entries
            BY ElementOfSeq, LenProperties DEF Inv, CacheInv
          <5> QED  BY <3>1, <3>2, <5>1 DEF Inv, CacheInv, CardsOf, Entries
        <4> QED  BY <3>1, <3>2, <4>1 DEF Inv, CacheInv, net, NoTwin, CardsOf
      <3>4. CallInv'  BY <3>2 DEF Inv, CallInv, net, call, dhcp
      <3>5. LeaseInv'  BY <3>2 DEF Inv, LeaseInv, net, call, dhcp
      <3> QED  BY <3>2, <3>3, <3>4, <3>5 DEF Inv
    <2>9. CASE NetPoll
      <3>1. CacheInv'  BY <2>9, ArpHandleFacts DEF NetPoll, Inv
      <3>2. UNCHANGED <<nic, my_ip, gw_ip, call, dhcp, astray, asked>>
        BY <2>9 DEF NetPoll
      <3>3. CallInv'  BY <3>2 DEF Inv, CallInv, call, dhcp
      <3>4. LeaseInv'  BY <3>2 DEF Inv, LeaseInv, call, dhcp
      <3> QED  BY <3>1, <3>2, <3>3, <3>4 DEF Inv
    <2>10. CASE \E h \in PingTargets : Ping(h)
      <3>1. PICK h \in PingTargets : Ping(h)  BY <2>10
      <3>2. h \in Hosts  BY NetAssumption DEF NetAssumption, Hosts
      <3> QED  BY <3>1, <3>2, NewCall DEF Ping
    <2>11. CASE \E h \in Names : DnsResolve(h)
      <3>1. PICK h \in Names : DnsResolve(h)  BY <2>11
      <3>2. gw_ip \in Hosts \cup {Zero}  BY DEF Hosts, Inv, CallInv, Speakers
      <3> QED  BY <3>1, <3>2, NewCall DEF DnsResolve
    <2>12. CASE PingReply
      BY <2>12, EndQuietly DEF PingReply, Return
    <2>13. CASE DnsAnswer
      BY <2>13, EndQuietly DEF DnsAnswer, Return
    <2>14. CASE GiveUp
      BY <2>14, EndQuietly DEF GiveUp
    <2>15. CASE Clock \/ ArpClock
      BY <2>15, SameCall DEF Clock, ArpClock, Inv, CallInv
    <2>16. CASE UNCHANGED vars
      BY <2>16, SameCall DEF vars, call, Inv, CallInv
    <2> QED
      BY <2>1, <2>2, <2>3, <2>4, <2>5, <2>6, <2>7, <2>8, <2>9, <2>10, <2>11,
         <2>12, <2>13, <2>14, <2>15, <2>16 DEF Next
  <1> QED  BY <1>1, <1>2, PTL DEF Spec

(***************************************************************************)
(* What the stack promises                                                 *)
(***************************************************************************)

(* Every variable keeps its type (net.c). *)
THEOREM TypeCorrect == Spec => []TypeOK
  <1>1. Inv => TypeOK
    BY NetAssumption
       DEF Inv, CacheInv, CallInv, TypeOK, Entries, Macs, NetAssumption, Hosts
  <1> QED  BY <1>1, InvHolds, PTL

(* No unicast packet goes to another card than the one its next hop announced
   last, or one it announced before if a waiting loop threw that announcement
   away, for any size of the ARP cache and any order of announcements. *)
THEOREM PacketsReachNextHop == Spec => []SentToNextHop
  <1>1. Inv => SentToNextHop  BY DEF Inv, SentToNextHop
  <1> QED  BY <1>1, InvHolds, PTL

(* Unless an ACK for another machine was taken, the address in use is leased by
   a server whose offer was taken up, and with one such server the gateway is
   its own: for any servers, and any offers for any machine. *)
THEOREM LeaseIsGranted == Spec => []LeaseFits
  <1>1. Inv => LeaseFits
    <2> SUFFICES ASSUME Inv, my_ip # Zero, ~foreign
                 PROVE  \E s \in offers : /\ Lease[s] = my_ip
                                          /\ offers = {s} => gw_ip = Gateway[s]
      BY DEF LeaseFits
    <2>1. PICK s \in offers : Lease[s] = my_ip  BY DEF Inv, LeaseInv
    <2>2. s \in Servers  BY DEF Inv, CallInv
    <2> QED  BY <2>1, <2>2 DEF Inv, LeaseInv
  <1> QED  BY <1>1, InvHolds, PTL

(* The ARP cache holds at most one entry for an address, of a card of that host:
   the one announced last, or the announcement was thrown away by a loop that
   waited for something else.  A full cache, which overwrites its first slot,
   changes nothing about it. *)
THEOREM CacheFollowsAnnouncements == Spec => []CacheInv
  <1>1. Inv => CacheInv  BY DEF Inv
  <1> QED  BY <1>1, InvHolds, PTL

=============================================================================
