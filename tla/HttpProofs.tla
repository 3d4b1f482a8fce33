---------------------------- MODULE HttpProofs -----------------------------
(***************************************************************************)
(* The TCP client and http_get for every size of the ring, every length of *)
(* the stream and every number of connections.                             *)
(***************************************************************************)
EXTENDS Http, SequenceTheorems, TLAPS

LEMMA Wrap ==
    \A n \in Nat \ {0} : \A a \in 0 .. 2 * n - 1 :
        a % n = IF a < n THEN a ELSE a - n
  OBVIOUS

LEMMA Bounds ==
    /\ N \in Nat /\ Mss \in Nat /\ First \in 1 .. Mss /\ First <= N
    /\ RingSize \in Nat \ {0, 1} /\ Mss < RingSize
    /\ NetCap \in Nat \ {0} /\ MaxConns \in Nat \ {0} /\ Ports \subseteq 0 .. MaxConns
    /\ HeaderLen \in 1 .. N /\ HdrCap \in Nat \ {0} /\ RespCap \in Nat /\ Mss <= RespCap
  BY TcpAssumption, HttpAssumption DEF TcpAssumption, HttpAssumption, Ports

Units == (0 .. MaxConns) \X (0 .. N)

-----------------------------------------------------------------------------
(***************************************************************************)
(* The ring, for any place h of its head and t of its tail                 *)
(***************************************************************************)
Places == 0 .. RingSize - 1

AvailOf(h, t)   == (t - h + RingSize) % RingSize
RingOf(b, h, t) == [k \in 1 .. AvailOf(h, t) |-> b[(h + k) % RingSize]]

LEMMA RingNow == Avail = AvailOf(rx_head, rx_tail) /\ InRing = RingOf(rx_buf, rx_head, rx_tail)
  BY DEF Avail, InRing, AvailOf, RingOf

LEMMA AvailIs ==
    ASSUME NEW h \in Places, NEW t \in Places
    PROVE  /\ AvailOf(h, t) = IF t < h THEN t - h + RingSize ELSE t - h
           /\ AvailOf(h, t) \in Places
  <1> DEFINE a == t - h + RingSize
  <1>0. RingSize \in Nat \ {0} /\ h \in 0 .. RingSize - 1 /\ t \in 0 .. RingSize - 1
    BY Bounds DEF Places
  <1>1. a \in 0 .. 2 * RingSize - 1  BY <1>0
  <1>2. AvailOf(h, t) = a % RingSize  BY DEF AvailOf
  <1> HIDE DEF a
  <1>3. AvailOf(h, t) = IF a < RingSize THEN a ELSE a - RingSize
    BY ONLY <1>0, <1>1, <1>2, Wrap
  <1> QED  BY <1>0, <1>3 DEF a, Places

(* The place k behind h *)
LEMMA BehindIs ==
    ASSUME NEW h \in Places, NEW k \in 0 .. RingSize
    PROVE  /\ (h + k) % RingSize \in Places
           /\ (h + k) % RingSize = IF h + k < RingSize THEN h + k ELSE h + k - RingSize
  <1> DEFINE a == h + k
  <1>0. RingSize \in Nat \ {0} /\ h \in 0 .. RingSize - 1
    BY Bounds DEF Places
  <1>1. a \in 0 .. 2 * RingSize - 1  BY <1>0
  <1> HIDE DEF a
  <1>2. a % RingSize = IF a < RingSize THEN a ELSE a - RingSize
    BY ONLY <1>0, <1>1, Wrap
  <1>3. a % RingSize \in Places  BY <1>0, <1>1, <1>2 DEF Places
  <1>4. a = h + k  BY DEF a
  <1>5. (h + k) % RingSize \in Places  BY ONLY <1>3, <1>4
  <1>6. ASSUME h + k < RingSize PROVE (h + k) % RingSize = h + k
    <2>1. a % RingSize = a  BY <1>2, <1>4, <1>6
    <2> QED  BY ONLY <1>4, <2>1
  <1>7. ASSUME ~(h + k < RingSize) PROVE (h + k) % RingSize = h + k - RingSize
    <2>1. a % RingSize = a - RingSize  BY <1>2, <1>4, <1>7
    <2> QED  BY ONLY <1>0, <1>4, <2>1, k \in 0 .. RingSize
  <1> QED  BY <1>5, <1>6, <1>7

LEMMA RingIs ==
    ASSUME NEW b \in [Places -> Units], NEW h \in Places, NEW t \in Places
    PROVE  /\ RingOf(b, h, t) \in Seq(Units)
           /\ Len(RingOf(b, h, t)) = AvailOf(h, t)
           /\ \A k \in 1 .. AvailOf(h, t) :
                RingOf(b, h, t)[k] = b[(h + k) % RingSize]
  <1> DEFINE n == AvailOf(h, t)
             s == [k \in 1 .. n |-> b[(h + k) % RingSize]]
  <1>0. n \in Places /\ RingSize \in Nat  BY AvailIs, Bounds
  <1>1. n \in Nat /\ n <= RingSize  BY ONLY <1>0 DEF Places
  <1>2. ASSUME NEW k \in 1 .. n PROVE b[(h + k) % RingSize] \in Units
    <2>1. k \in 0 .. RingSize  BY ONLY <1>0, <1>1, k \in 1 .. n
    <2> QED  BY <2>1, BehindIs
  <1>3. s \in [1 .. n -> Units]  BY <1>2
  <1>4. RingOf(b, h, t) = s  BY DEF RingOf
  <1>5. \A k \in 1 .. n : s[k] = b[(h + k) % RingSize]  OBVIOUS
  <1> HIDE DEF s, n
  <1>6. s \in Seq(Units) /\ Len(s) = n  BY <1>1, <1>3
  <1> QED  BY <1>4, <1>5, <1>6 DEF n

(* c is the ring's buffer b with put stored behind t (Written). *)
IsPushed(b, t, put, c) ==
    c = [i \in DOMAIN b |-> LET k == (i - t + RingSize) % RingSize
                            IN  IF k \in DOMAIN put THEN put[k] ELSE b[i]]

(* What is put behind the ring's contents is found there. *)
LEMMA Pushed ==
    ASSUME NEW b \in [Places -> Units], NEW h \in Places, NEW t \in Places,
           NEW put \in Seq(Units), AvailOf(h, t) + Len(put) <= RingSize - 1,
           NEW t2, t2 = (t + Len(put)) % RingSize,
           NEW c, IsPushed(b, t, put, c)
    PROVE  /\ c \in [Places -> Units] /\ t2 \in Places
           /\ AvailOf(h, t2) = AvailOf(h, t) + Len(put)
           /\ \A k \in 1 .. AvailOf(h, t) + Len(put) :
                RingOf(c, h, t2)[k] = IF k <= AvailOf(h, t) THEN RingOf(b, h, t)[k]
                                      ELSE put[k - AvailOf(h, t)]
  <1> DEFINE n == Len(put)
             A == AvailOf(h, t)
             P(i) == (i - t + RingSize) % RingSize
  <1>0. /\ RingSize \in Nat \ {0} /\ h \in 0 .. RingSize - 1 /\ t \in 0 .. RingSize - 1
        /\ n \in Nat /\ DOMAIN put = 1 .. n /\ DOMAIN b = Places
    BY Bounds, LenProperties DEF Places
  <1>1. /\ A = IF t < h THEN t - h + RingSize ELSE t - h
        /\ A \in 0 .. RingSize - 1 /\ A + n <= RingSize - 1
    BY <1>0, AvailIs DEF Places
  <1>2. t2 \in Places /\ t2 = IF t + n < RingSize THEN t + n ELSE t + n - RingSize
    <2>1. n \in 0 .. RingSize  BY <1>0, <1>1
    <2> HIDE DEF n
    <2>2. t2 = (t + n) % RingSize  BY DEF n
    <2> QED  BY <2>1, <2>2, BehindIs
  <1>3. AvailOf(h, t2) = A + n
    <2>1. AvailOf(h, t2) = IF t2 < h THEN t2 - h + RingSize ELSE t2 - h
      BY <1>2, AvailIs
    <2>2. t2 \in 0 .. RingSize - 1  BY <1>2 DEF Places
    <2> HIDE DEF n, A
    <2> QED  BY ONLY <1>0, <1>1, <1>2, <2>1, <2>2
  <1>4. ASSUME NEW i \in Places
        PROVE  /\ P(i) = IF i < t THEN i - t + RingSize ELSE i - t
               /\ c[i] = IF P(i) \in 1 .. n THEN put[P(i)] ELSE b[i]
    <2>1. P(i) = AvailOf(t, i)  BY DEF AvailOf
    <2>2. P(i) = IF i < t THEN i - t + RingSize ELSE i - t
      BY <2>1, AvailIs
    <2>3. c[i] = IF P(i) \in 1 .. n THEN put[P(i)] ELSE b[i]
      BY <1>0 DEF IsPushed
    <2> QED  BY <2>2, <2>3
  <1>5. c \in [Places -> Units]
    <2>1. ASSUME NEW i \in Places PROVE c[i] \in Units
      <3>1. \A j \in 1 .. n : put[j] \in Units  BY ElementOfSeq
      <3>2. b[i] \in Units  OBVIOUS
      <3> QED  BY <1>4, <3>1, <3>2
    <2>2. c = [i \in Places |-> c[i]]  BY <1>0 DEF IsPushed
    <2> QED  BY <2>1, <2>2
  <1>6. ASSUME NEW k \in 1 .. A + n
        PROVE  RingOf(c, h, t2)[k] = IF k <= A THEN RingOf(b, h, t)[k] ELSE put[k - A]
    <2> DEFINE x == (h + k) % RingSize
    <2>1. /\ k \in 0 .. RingSize /\ k \in 1 .. AvailOf(h, t2)
      <3>1. k \in 1 .. A + n  OBVIOUS
      <3> HIDE DEF A, n
      <3> QED  BY ONLY <1>0, <1>1, <1>3, <3>1
    <2>2. RingOf(c, h, t2)[k] = c[x]
      <3>1. \A j \in 1 .. AvailOf(h, t2) : RingOf(c, h, t2)[j] = c[(h + j) % RingSize]
        BY ONLY <1>2, <1>5, h \in Places, RingIs
      <3> QED  BY <2>1, <3>1
    <2>3. x \in Places /\ x = IF h + k < RingSize THEN h + k ELSE h + k - RingSize
      BY <2>1, BehindIs
    <2>4. k <= A => RingOf(b, h, t)[k] = b[x]
      <3>1. ASSUME k <= A PROVE k \in 1 .. AvailOf(h, t)
        BY <1>0, <1>1, <3>1
      <3> QED  BY <3>1, RingIs
    <2>5. c[x] = IF P(x) \in 1 .. n THEN put[P(x)] ELSE b[x]
      BY <1>4, <2>3
    <2>6. P(x) = IF x < t THEN x - t + RingSize ELSE x - t
      BY <1>4, <2>3
    <2>7. IF k <= A THEN P(x) \notin 1 .. n ELSE P(x) = k - A /\ P(x) \in 1 .. n
      <3> HIDE DEF x, A, n, P
      <3> QED  BY <1>0, <1>1, <2>1, <2>3, <2>6
    <2> HIDE DEF x, A, n, P
    <2> QED  BY <2>2, <2>4, <2>5, <2>7
  <1> QED  BY <1>2, <1>3, <1>5, <1>6

LEMMA AllTaken ==
    ASSUME NEW h \in Places, NEW t \in Places
    PROVE  /\ (h + AvailOf(h, t)) % RingSize \in Places
           /\ AvailOf((h + AvailOf(h, t)) % RingSize, t) = 0
  <1> DEFINE A == AvailOf(h, t)
             g == (h + A) % RingSize
  <1>0. RingSize \in Nat \ {0} /\ h \in 0 .. RingSize - 1 /\ t \in 0 .. RingSize - 1
    BY Bounds DEF Places
  <1>1. /\ A = IF t < h THEN t - h + RingSize ELSE t - h
        /\ A \in 0 .. RingSize
    BY <1>0, AvailIs DEF Places
  <1>2. g \in Places /\ g = IF h + A < RingSize THEN h + A ELSE h + A - RingSize
    <2> HIDE DEF A
    <2> QED  BY <1>1, BehindIs
  <1>3. AvailOf(g, t) = IF t < g THEN t - g + RingSize ELSE t - g
    BY <1>2, AvailIs
  <1> HIDE DEF A, g
  <1>4. AvailOf(g, t) = 0  BY <1>0, <1>1, <1>2, <1>3
  <1> QED  BY <1>2, <1>4 DEF g, A

-----------------------------------------------------------------------------
(***************************************************************************)
(* The frames on the way and the peer                                      *)
(***************************************************************************)
SynAck  == {"syn", "ack"}
DataFin == {"ack", "fin"}
Reset   == {"rst"}
Data    == {"ack"}

In(n)  == [port : 1 .. n, flags : {SynAck, Reset, Data, DataFin},
           seq : 0 .. N + 1, ack : {0}, data : Seq(Units)]
Out(n) == [port : 1 .. n, flags : SUBSET {"syn", "ack", "psh", "fin"},
           seq : Nat, ack : Nat, data : {<<>>, <<"get">>}]
Sides  == [st : {"listen", "open", "serve", "closed", "gone"},
           nxt : 0 .. N + 2, again : BOOLEAN]

(* The units of a frame to us are those of its connection, from its sequence
   number on. *)
Carries(m) ==
    /\ m.seq >= 1 /\ Len(m.data) <= Mss /\ m.seq + Len(m.data) <= N + 1
    /\ \A k \in 1 .. Len(m.data) : m.data[k] = <<m.port, m.seq + k - 1>>
    /\ m.seq = 1 /\ Len(m.data) > 0 => Len(m.data) >= First

FrameOK(m, side) ==
    /\ m.flags = SynAck => m.seq = 0 /\ m.data = <<>>
    /\ m.flags = Reset => m.data = <<>> /\ side.st = "gone"
    /\ m.flags \in {Data, DataFin} => Carries(m)
    /\ m.flags = DataFin => m.seq + Len(m.data) = N + 1

(* The frames q, with the peer's sides pr *)
FramesOK(q, pr) == \A i \in 1 .. Len(q) : FrameOK(q[i], pr[q[i].port])

GoneStays(n, pr, pr2) == \A p \in 1 .. n : pr[p].st = "gone" => pr2[p].st = "gone"

SideOK(side) ==
    /\ side.st = "listen" => side.nxt = 0
    /\ side.st = "open" => side.nxt = 1
    /\ side.st = "serve" => side.nxt \in 1 .. N + 1
    /\ side.st = "closed" => side.nxt = N + 2

NetInv ==
    /\ port \in 0 .. MaxConns /\ sound \in BOOLEAN
    /\ seq \in Nat /\ ack \in Nat /\ (state # 0 => port >= 1)
    /\ toUs \in Seq(In(port)) /\ toPeer \in Seq(Out(port))
    /\ peer \in [Ports -> Sides]
    /\ FramesOK(toUs, peer)
    /\ \A p \in Ports : SideOK(peer[p]) /\ (p > port => peer[p] = NoPeer)

LEMMA Kinds ==
    /\ SynAck # Reset /\ SynAck # Data /\ SynAck # DataFin
    /\ Reset # Data /\ Reset # DataFin /\ Data # DataFin
    /\ "rst" \in Reset /\ "rst" \notin SynAck \cup Data \cup DataFin
    /\ "fin" \in DataFin /\ "fin" \notin SynAck \cup Data \cup Reset
    /\ {"syn", "ack"} \subseteq SynAck
    /\ "syn" \notin Reset \cup Data \cup DataFin
  BY DEF SynAck, Reset, Data, DataFin

(* A part of the peer's stream *)
LEMMA StreamPart ==
    ASSUME NEW p \in 0 .. MaxConns, NEW a \in 1 .. N + 1, NEW z \in 0 .. N, a <= z + 1
    PROVE  /\ SubSeq(Stream(p), a, z) \in Seq(Units)
           /\ Len(SubSeq(Stream(p), a, z)) = z - a + 1
           /\ \A k \in 1 .. z - a + 1 : SubSeq(Stream(p), a, z)[k] = <<p, a + k - 1>>
  <1>1. N \in Nat /\ MaxConns \in Nat  BY Bounds
  <1> DEFINE s == Stream(p)
  <1>2. \A i \in a .. z : s[i] = <<p, i>> /\ s[i] \in Units
    BY <1>1 DEF Stream, Units
  <1>3. a \in Int /\ z \in Int  BY <1>1
  <1> HIDE DEF s
  <1>4. /\ SubSeq(s, a, z) \in Seq(Units)
        /\ Len(SubSeq(s, a, z)) = IF a <= z THEN z - a + 1 ELSE 0
        /\ \A k \in 1 .. z - a + 1 : SubSeq(s, a, z)[k] = s[a + k - 1]
    BY <1>2, <1>3, SubSeqProperties
  <1>5. Len(SubSeq(s, a, z)) = z - a + 1  BY <1>1, <1>4
  <1>6. ASSUME NEW k \in 1 .. z - a + 1
        PROVE  SubSeq(s, a, z)[k] = <<p, a + k - 1>>
    <2>1. a + k - 1 \in a .. z  BY <1>1
    <2> QED  BY <1>2, <1>4, <2>1
  <1> QED  BY <1>4, <1>5, <1>6 DEF s

(* The first frame is taken. *)
LEMMA FrameTaken ==
    ASSUME NEW n \in Nat, NEW q \in Seq(In(n)), q # <<>>, NEW pr,
           FramesOK(q, pr)
    PROVE  /\ Head(q) \in In(n) /\ Head(q) = q[1] /\ FrameOK(Head(q), pr[Head(q).port])
           /\ Len(q) \in Nat \ {0} /\ Tail(q) \in Seq(In(n)) /\ Len(Tail(q)) = Len(q) - 1
           /\ \A i \in 1 .. Len(q) - 1 : Tail(q)[i] = q[i + 1]
           /\ FramesOK(Tail(q), pr)
  <1>1. /\ Head(q) \in In(n) /\ Head(q) = q[1] /\ Len(q) \in Nat \ {0}
        /\ Tail(q) \in Seq(In(n)) /\ Len(Tail(q)) = Len(q) - 1
        /\ \A i \in 1 .. Len(q) - 1 : Tail(q)[i] = q[i + 1]
    BY HeadTailProperties, EmptySeq
  <1>2. FrameOK(Head(q), pr[Head(q).port])  BY <1>1 DEF FramesOK
  <1>3. ASSUME NEW i \in 1 .. Len(Tail(q))
        PROVE  FrameOK(Tail(q)[i], pr[Tail(q)[i].port])
    <2>1. i + 1 \in 1 .. Len(q) /\ Tail(q)[i] = q[i + 1]  BY <1>1
    <2> QED  BY <2>1 DEF FramesOK
  <1> QED  BY <1>1, <1>2, <1>3 DEF FramesOK

(* A frame is sent to us, and no side of the peer that was gone comes back. *)
LEMMA FrameAdded ==
    ASSUME NEW n \in Nat, NEW q \in Seq(In(n)),
           NEW pr, NEW pr2, NEW m \in In(n),
           FramesOK(q, pr), GoneStays(n, pr, pr2),
           FrameOK(m, pr2[m.port])
    PROVE  /\ Append(q, m) \in Seq(In(n)) /\ Len(Append(q, m)) = Len(q) + 1
           /\ \A i \in 1 .. Len(q) : Append(q, m)[i] = q[i]
           /\ Append(q, m)[Len(q) + 1] = m
           /\ FramesOK(Append(q, m), pr2)
  <1>1. /\ Append(q, m) \in Seq(In(n)) /\ Len(Append(q, m)) = Len(q) + 1
        /\ \A i \in 1 .. Len(q) : Append(q, m)[i] = q[i]
        /\ Append(q, m)[Len(q) + 1] = m /\ Len(q) \in Nat
    BY AppendProperties, LenProperties
  <1>2. ASSUME NEW i \in 1 .. Len(q) PROVE FrameOK(q[i], pr2[q[i].port])
    <2>1. q[i] \in In(n)  BY ElementOfSeq
    <2>2. q[i].port \in 1 .. n  BY <2>1 DEF In
    <2> QED  BY <2>2 DEF FrameOK, FramesOK, GoneStays
  <1>3. ASSUME NEW i \in 1 .. Len(q) + 1
        PROVE  FrameOK(Append(q, m)[i], pr2[Append(q, m)[i].port])
    <2>1. CASE i \in 1 .. Len(q)  BY <1>1, <1>2, <2>1
    <2>2. CASE i = Len(q) + 1  BY <1>1, <2>2
    <2> QED  BY <1>1, <2>1, <2>2
  <1> QED  BY <1>1, <1>3 DEF FramesOK

(* The frames stay as they are. *)
LEMMA FramesKept ==
    ASSUME NEW n \in Nat, NEW q \in Seq(In(n)),
           NEW pr, NEW pr2, FramesOK(q, pr), GoneStays(n, pr, pr2)
    PROVE  FramesOK(q, pr2)
  <1> SUFFICES ASSUME NEW i \in 1 .. Len(q) PROVE FrameOK(q[i], pr2[q[i].port])
    BY DEF FramesOK
  <1>1. q[i] \in In(n)  BY ElementOfSeq
  <1>2. q[i].port \in 1 .. n  BY <1>1 DEF In
  <1> QED  BY <1>2 DEF FrameOK, FramesOK, GoneStays

(* A step of the client: it takes a frame or none, and sends some. *)
LEMMA NetClient ==
    ASSUME NetInv, UNCHANGED <<port, env>>, seq' \in Nat, ack' \in Nat,
           state' # 0 => port >= 1,
           toUs' = toUs \/ (toUs # <<>> /\ toUs' = Tail(toUs)),
           toPeer' \in Seq(Out(port))
    PROVE  NetInv'
  <1>1. port \in Nat /\ port' = port /\ peer' = peer /\ sound' = sound
    BY Bounds DEF NetInv, env
  <1>2. /\ toUs' \in Seq(In(port))
        /\ FramesOK(toUs', peer)
    <2>1. CASE toUs' = toUs  BY <2>1 DEF NetInv
    <2>2. CASE toUs # <<>> /\ toUs' = Tail(toUs)
      <3>1. /\ toUs \in Seq(In(port))
            /\ FramesOK(toUs, peer)
        BY DEF NetInv
      <3>2. /\ Tail(toUs) \in Seq(In(port))
            /\ FramesOK(Tail(toUs), peer)
        BY ONLY <1>1, <2>2, <3>1, FrameTaken
      <3> QED  BY <2>2, <3>2
    <2> QED  BY <2>1, <2>2
  <1> QED  BY <1>1, <1>2 DEF NetInv

LEMMA SegIs ==
    ASSUME NetInv, port >= 1, NEW f \in SUBSET {"syn", "ack", "psh", "fin"},
           NEW s \in Nat, NEW a \in Nat, NEW d \in {<<>>, <<"get">>}
    PROVE  /\ Seg(f, s, a, d) \in Out(port)
           /\ Append(toPeer, Seg(f, s, a, d)) \in Seq(Out(port))
  <1>1. Seg(f, s, a, d) \in Out(port)  BY Bounds DEF NetInv, Seg, Out
  <1>2. toPeer \in Seq(Out(port))  BY DEF NetInv
  <1> QED  BY <1>1, <1>2, AppendProperties

LEMMA HeadOfUs ==
    ASSUME NetInv, toUs # <<>>
    PROVE  /\ Head(toUs) \in In(port) /\ Head(toUs) = toUs[1]
           /\ FrameOK(Head(toUs), peer[Head(toUs).port])
           /\ Len(Head(toUs).data) \in Nat
  <1>1. /\ Head(toUs) \in In(port) /\ Head(toUs) = toUs[1]
        /\ FrameOK(Head(toUs), peer[Head(toUs).port])
    BY Bounds, FrameTaken DEF NetInv
  <1>2. Head(toUs).data \in Seq(Units)  BY <1>1 DEF In
  <1> QED  BY <1>1, <1>2, LenProperties

LEMMA NetReceives ==
    ASSUME NetInv, TcpRxOnce
    PROVE  NetInv'
  <1>0. /\ toUs' = toUs \/ (toUs # <<>> /\ toUs' = Tail(toUs))
        /\ UNCHANGED <<port, env>>
    BY DEF TcpRxOnce, Ignore, conn, net, env, RxSynSent, RxEstab
  <1>1. seq \in Nat /\ ack \in Nat /\ toPeer \in Seq(Out(port)) /\ (state # 0 => port >= 1)
    BY DEF NetInv
  <1>2. CASE UNCHANGED <<conn, toPeer>>
    <2>1. state' = state /\ seq' = seq /\ ack' = ack /\ toPeer' = toPeer
      BY <1>2 DEF conn
    <2>2. /\ seq' \in Nat /\ ack' \in Nat /\ (state' # 0 => port >= 1)
          /\ toPeer' \in Seq(Out(port))
      BY <1>1, <2>1
    <2> QED  BY ONLY NetInv, <1>0, <2>2, NetClient
  <1>3. ASSUME NEW m, m = Head(toUs), toUs # <<>>, state = 1, RxSynSent(m)
        PROVE  NetInv'
    <2>1. CASE Ignore  BY <2>1, <1>2 DEF Ignore
    <2>2. CASE ~Ignore
      <3>1. /\ ack' = m.seq + 1 /\ state' = 2 /\ seq' = seq
            /\ toPeer' = Append(toPeer, Seg({"ack"}, seq, m.seq + 1, <<>>))
        BY <1>3, <2>2 DEF RxSynSent
      <3>2. m.seq \in Nat  BY <1>3, HeadOfUs, Bounds DEF In
      <3>3. toPeer' \in Seq(Out(port))
        BY <1>1, <1>3, <3>1, <3>2, SegIs
      <3> QED  BY <1>0, <1>1, <1>3, <3>1, <3>2, <3>3, NetClient
    <2> QED  BY <2>1, <2>2
  <1>4. ASSUME NEW m, m = Head(toUs), toUs # <<>>, state = 2, RxEstab(m)
        PROVE  NetInv'
    <2>1. m.seq \in Nat /\ Len(m.data) \in Nat  BY <1>4, HeadOfUs, Bounds DEF In
    <2>2. CASE "rst" \in m.flags
      BY <1>0, <1>1, <1>4, <2>2, NetClient DEF RxEstab
    <2>3. CASE "rst" \notin m.flags
      <3> DEFINE end  == IF m.data = <<>> THEN ack ELSE m.seq + Len(m.data)
                 acks == IF m.data = <<>> THEN <<>>
                         ELSE <<Seg({"ack"}, seq, end, <<>>)>>
                 fins == IF "fin" \notin m.flags THEN <<>>
                         ELSE <<Seg({"ack", "fin"}, seq, end + 1, <<>>)>>
      <3>1. /\ toPeer' = toPeer \o acks \o fins
            /\ ack' = end + Len(fins) /\ seq' = seq + Len(fins)
        BY <1>4, <2>3 DEF RxEstab
      <3>2. end \in Nat  BY <1>1, <2>1
      <3> HIDE DEF end
      <3>3. /\ Seg({"ack"}, seq, end, <<>>) \in Out(port)
            /\ Seg({"ack", "fin"}, seq, end + 1, <<>>) \in Out(port)
        BY <1>1, <1>4, <3>2, SegIs
      <3>4. acks \in Seq(Out(port)) /\ fins \in Seq(Out(port)) /\ Len(fins) \in Nat
        BY <3>3
      <3> HIDE DEF acks, fins
      <3>5. toPeer' \in Seq(Out(port))
        BY <1>1, <3>1, <3>4, ConcatProperties
      <3>6. ack' \in Nat /\ seq' \in Nat  BY <1>1, <3>1, <3>2, <3>4
      <3> QED  BY <1>0, <1>1, <1>4, <3>5, <3>6, NetClient
    <2> QED  BY <2>2, <2>3
  <1> QED  BY <1>2, <1>3, <1>4 DEF TcpRxOnce, Ignore, net

(* A side of the peer that is not gone moves. *)
LEMMA PeerMoves ==
    ASSUME NetInv, NEW p \in Ports, peer[p].st # "gone", p <= port,
           NEW s \in Sides, SideOK(s), peer' = [peer EXCEPT ![p] = s]
    PROVE  /\ peer' \in [Ports -> Sides]
           /\ peer'[p] = s /\ \A q \in Ports \ {p} : peer'[q] = peer[q]
           /\ \A q \in Ports : SideOK(peer'[q]) /\ (q > port => peer'[q] = NoPeer)
           /\ GoneStays(port, peer, peer')
  <1>1. peer \in [Ports -> Sides] /\ port \in 0 .. MaxConns  BY DEF NetInv
  <1>2. /\ peer' \in [Ports -> Sides]
        /\ peer'[p] = s /\ \A q \in Ports \ {p} : peer'[q] = peer[q]
    BY <1>1
  <1>3. ASSUME NEW q \in Ports
        PROVE  SideOK(peer'[q]) /\ (q > port => peer'[q] = NoPeer)
    <2>1. CASE q = p  BY <1>1, <1>2, <2>1, Bounds DEF Ports
    <2>2. CASE q # p  BY <1>2, <2>2 DEF NetInv
    <2> QED  BY <2>1, <2>2
  <1>4. GoneStays(port, peer, peer')
    BY <1>1, <1>2, Bounds DEF Ports, GoneStays
  <1> QED  BY <1>2, <1>3, <1>4

LEMMA PeerIsSide ==
    ASSUME NetInv, NEW p \in Ports, NEW s \in {"open", "serve", "closed", "gone"},
           NEW n \in 0 .. N + 2, PeerIs(p, s, n)
    PROVE  LET t == [st |-> s, nxt |-> n, again |-> peer[p].again]
           IN  t \in Sides /\ peer' = [peer EXCEPT ![p] = t]
  <1> DEFINE t == [st |-> s, nxt |-> n, again |-> peer[p].again]
  <1>1. peer \in [Ports -> Sides]  BY DEF NetInv
  <1>2. peer[p] \in Sides  BY <1>1
  <1>3. t \in Sides  BY <1>2 DEF Sides
  <1>4. [peer[p] EXCEPT !.st = s, !.nxt = n] = t
    <2> DEFINE u == peer[p]
    <2>1. u = [st |-> u.st, nxt |-> u.nxt, again |-> u.again]  BY <1>2 DEF Sides
    <2> HIDE DEF u
    <2>2. [u EXCEPT !.st = s, !.nxt = n] = [st |-> s, nxt |-> n, again |-> u.again]
      <3> DEFINE v == [u EXCEPT !.st = s]
      <3>1. v = [st |-> s, nxt |-> u.nxt, again |-> u.again]  BY <2>1
      <3>2. [u EXCEPT !.st = s, !.nxt = n] = [v EXCEPT !.nxt = n]  OBVIOUS
      <3> HIDE DEF v
      <3>3. [v EXCEPT !.nxt = n] = [st |-> s, nxt |-> n, again |-> u.again]  BY <3>1
      <3> QED  BY <3>2, <3>3
    <2> QED  BY <2>2 DEF u
  <1>5. peer' = [peer EXCEPT ![p] = [peer[p] EXCEPT !.st = s, !.nxt = n]]
    BY <1>1 DEF PeerIs
  <1> QED  BY <1>3, <1>4, <1>5

(* A step of the peer and the link, put together from what it does to the
   frames and to the peer. *)
LEMMA NetOutside ==
    ASSUME NetInv, UNCHANGED conn, sound' \in BOOLEAN,
           toPeer' \in Seq(Out(port)),
           peer' \in [Ports -> Sides],
           \A q \in Ports : SideOK(peer'[q]) /\ (q > port => peer'[q] = NoPeer),
           toUs' \in Seq(In(port)),
           FramesOK(toUs', peer')
    PROVE  NetInv'
  <1>1. port' = port /\ seq' = seq /\ ack' = ack /\ state' = state  BY DEF conn
  <1> QED  BY <1>1 DEF NetInv

(* What a side of the peer sends *)
Sends(p, f, s, d) == [port |-> p, flags |-> f, seq |-> s, ack |-> 0, data |-> d]

LEMMA PeerAnswers ==
    ASSUME NetInv, UNCHANGED <<conn, sound>>, toPeer' \in Seq(Out(port)),
           NEW p \in Ports, p <= port, peer[p].st # "gone",
           NEW f \in {SynAck, Reset, Data, DataFin}, NEW s \in 0 .. N + 1,
           NEW d \in Seq(Units), ToUs(p, f, s, d),
           NEW st \in {"open", "serve", "closed", "gone"}, NEW n \in 0 .. N + 2,
           PeerIs(p, st, n), SideOK([st |-> st, nxt |-> n, again |-> peer[p].again]),
           FrameOK(Sends(p, f, s, d), [st |-> st, nxt |-> n, again |-> peer[p].again])
    PROVE  NetInv'
  <1> DEFINE t == [st |-> st, nxt |-> n, again |-> peer[p].again]
             m == Sends(p, f, s, d)
  <1>1. t \in Sides /\ peer' = [peer EXCEPT ![p] = t]  BY PeerIsSide
  <1> HIDE DEF t
  <1>2. /\ peer' \in [Ports -> Sides] /\ peer'[p] = t
        /\ \A q \in Ports : SideOK(peer'[q]) /\ (q > port => peer'[q] = NoPeer)
        /\ GoneStays(port, peer, peer')
    <2>1. SideOK(t)  BY DEF t
    <2> QED  BY ONLY NetInv, p \in Ports, p <= port, peer[p].st # "gone", <1>1, <2>1, PeerMoves
  <1>3. port \in Nat /\ p \in 1 .. port  BY Bounds DEF NetInv, Ports
  <1>4. m \in In(port) /\ m.port = p  BY <1>3 DEF In, Sends
  <1>5. toUs' = Append(toUs, m)  BY DEF ToUs, Sends
  <1>6. FrameOK(m, peer'[m.port])  BY <1>2, <1>4 DEF t
  <1> HIDE DEF m
  <1>7. toUs \in Seq(In(port)) /\ FramesOK(toUs, peer)
    BY DEF NetInv
  <1>8. /\ toUs' \in Seq(In(port))
        /\ FramesOK(toUs', peer')
    <2> DEFINE pr == peer  pr2 == peer'
    <2> HIDE DEF pr, pr2
    <2>1. /\ pr \in [Ports -> Sides] /\ pr2 \in [Ports -> Sides]
          /\ FramesOK(toUs, pr)
          /\ GoneStays(port, pr, pr2)
          /\ FrameOK(m, pr2[m.port])
      BY <1>2, <1>6, <1>7 DEF pr, pr2, NetInv
    <2>2. /\ Append(toUs, m) \in Seq(In(port))
          /\ FramesOK(Append(toUs, m), pr2)
      BY ONLY <1>3, <1>4, <1>7, <2>1, FrameAdded
    <2> QED  BY <1>5, <2>2 DEF pr2
  <1>9. sound' \in BOOLEAN /\ UNCHANGED conn  BY DEF NetInv
  <1> QED  BY <1>2, <1>8, <1>9, NetOutside

(* A side of the peer moves and sends nothing. *)
LEMMA PeerTurns ==
    ASSUME NetInv, UNCHANGED conn, sound' \in BOOLEAN, toPeer' \in Seq(Out(port)),
           toUs' = toUs, NEW p \in Ports, p <= port, peer[p].st # "gone",
           NEW s \in Sides, SideOK(s), peer' = [peer EXCEPT ![p] = s]
    PROVE  NetInv'
  <1>1. port \in Nat /\ toUs \in Seq(In(port)) /\ FramesOK(toUs, peer)
    BY Bounds DEF NetInv
  <1>2. /\ peer' \in [Ports -> Sides]
        /\ \A q \in Ports : SideOK(peer'[q]) /\ (q > port => peer'[q] = NoPeer)
        /\ GoneStays(port, peer, peer')
    BY PeerMoves
  <1>3. FramesOK(toUs, peer')
    <2> DEFINE pr2 == peer'
    <2> HIDE DEF pr2
    <2>1. GoneStays(port, peer, pr2)  BY <1>2 DEF pr2
    <2>2. FramesOK(toUs, pr2)  BY ONLY <1>1, <2>1, FramesKept
    <2> QED  BY <2>2 DEF pr2
  <1>4. toUs' \in Seq(In(port)) /\ FramesOK(toUs', peer')  BY <1>1, <1>3
  <1> QED  BY <1>2, <1>4, NetOutside

LEMMA SideIs ==
    ASSUME NetInv, NEW p \in Ports
    PROVE  /\ peer[p] \in Sides /\ SideOK(peer[p])
           /\ peer[p].st # "listen" => p <= port
           /\ peer[p].st \in {"listen", "open", "serve", "closed", "gone"}
           /\ peer[p].nxt \in 0 .. N + 2 /\ peer[p].again \in BOOLEAN
           /\ port \in 0 .. MaxConns
  <1>1. peer[p] \in Sides /\ SideOK(peer[p]) /\ (p > port => peer[p] = NoPeer)
    BY DEF NetInv
  <1>2. port \in 0 .. MaxConns  BY DEF NetInv
  <1>3. peer[p].st # "listen" => p <= port
    BY <1>1, <1>2, Bounds DEF NoPeer, Ports
  <1> QED  BY <1>1, <1>2, <1>3 DEF Sides

LEMMA NetPeerRx ==
    ASSUME NetInv, PeerRx
    PROVE  NetInv'
  <1> DEFINE m == Head(toPeer)
             p == m.port
  <1>1. /\ toPeer # <<>> /\ toPeer' = Tail(toPeer) /\ UNCHANGED <<conn, sound>>
        /\ toPeer \in Seq(Out(port)) /\ port \in 0 .. MaxConns
    BY DEF PeerRx, NetInv
  <1>2. m \in Out(port) /\ toPeer' \in Seq(Out(port))
    BY <1>1, HeadTailProperties
  <1>3. p \in Ports /\ p <= port  BY <1>1, <1>2, Bounds DEF Out, Ports
  <1>4. N \in Nat /\ sound' \in BOOLEAN  BY <1>1, Bounds DEF NetInv
  <1>5. peer[p].again \in BOOLEAN /\ SideOK(peer[p])  BY <1>3, SideIs
  <1>6. \/ peer[p].st = "listen" /\ PeerIs(p, "open", 1) /\ ToUs(p, SynAck, 0, <<>>)
        \/ peer[p].st = "listen" /\ PeerIs(p, "gone", 0) /\ ToUs(p, Reset, 0, <<>>)
        \/ peer[p].st = "open" /\ PeerIs(p, "serve", 1) /\ UNCHANGED toUs
        \/ UNCHANGED <<toUs, peer>>
    BY DEF PeerRx, SynAck, Reset
  <1> HIDE DEF m, p
  <1>7. CASE peer[p].st = "listen" /\ PeerIs(p, "open", 1) /\ ToUs(p, SynAck, 0, <<>>)
    <2>1. SideOK([st |-> "open", nxt |-> 1, again |-> peer[p].again])
      BY DEF SideOK
    <2>2. FrameOK(Sends(p, SynAck, 0, <<>>), [st |-> "open", nxt |-> 1, again |-> peer[p].again])
      BY Kinds DEF FrameOK, Sends
    <2>3. 0 \in 0 .. N + 1 /\ 1 \in 0 .. N + 2 /\ <<>> \in Seq(Units)  BY <1>4
    <2> QED  BY <1>1, <1>2, <1>3, <1>7, <2>1, <2>2, <2>3, PeerAnswers
  <1>8. CASE peer[p].st = "listen" /\ PeerIs(p, "gone", 0) /\ ToUs(p, Reset, 0, <<>>)
    <2>1. SideOK([st |-> "gone", nxt |-> 0, again |-> peer[p].again])
      BY DEF SideOK
    <2>2. FrameOK(Sends(p, Reset, 0, <<>>), [st |-> "gone", nxt |-> 0, again |-> peer[p].again])
      BY Kinds DEF FrameOK, Sends
    <2>3. 0 \in 0 .. N + 1 /\ 0 \in 0 .. N + 2 /\ <<>> \in Seq(Units)  BY <1>4
    <2> QED  BY <1>1, <1>2, <1>3, <1>8, <2>1, <2>2, <2>3, PeerAnswers
  <1>9. CASE peer[p].st = "open" /\ PeerIs(p, "serve", 1) /\ UNCHANGED toUs
    <2> DEFINE t == [st |-> "serve", nxt |-> 1, again |-> peer[p].again]
    <2>1. SideOK(t)  BY <1>4 DEF SideOK
    <2>2. t \in Sides /\ peer' = [peer EXCEPT ![p] = t]
      BY <1>3, <1>4, <1>9, PeerIsSide
    <2> HIDE DEF t
    <2> QED  BY <1>1, <1>2, <1>3, <1>4, <1>9, <2>1, <2>2, PeerTurns
  <1>10. CASE UNCHANGED <<toUs, peer>>
    <2>1. /\ peer' \in [Ports -> Sides] /\ toUs' \in Seq(In(port))
          /\ \A q \in Ports : SideOK(peer'[q]) /\ (q > port => peer'[q] = NoPeer)
          /\ FramesOK(toUs', peer')
      BY <1>10 DEF NetInv
    <2> QED  BY <1>1, <1>2, <1>4, <2>1, NetOutside
  <1> QED  BY <1>6, <1>7, <1>8, <1>9, <1>10

LEMMA NetPeerSend ==
    ASSUME NetInv, NEW p \in Ports, PeerSend(p)
    PROVE  NetInv'
  <1> DEFINE s == peer[p].nxt
  <1>1. /\ peer[p].st = "serve" /\ p <= port /\ s \in 1 .. N + 1
        /\ peer[p].again \in BOOLEAN
    BY SideIs DEF PeerSend, SideOK
  <1>2. /\ UNCHANGED <<conn, sound>> /\ toPeer' \in Seq(Out(port))
    BY DEF PeerSend, NetInv
  <1>3. \/ \E k \in (IF s = 1 THEN First ELSE 1) .. Mss :
              /\ s + k <= N + 1 /\ PeerIs(p, "serve", s + k)
              /\ ToUs(p, Data, s, SubSeq(Stream(p), s, s + k - 1))
        \/ /\ s + Mss > N /\ PeerIs(p, "closed", N + 2)
           /\ ToUs(p, DataFin, s, SubSeq(Stream(p), s, N))
    BY DEF PeerSend, Data, DataFin
  <1>4. N \in Nat /\ First \in 1 .. Mss /\ Mss \in Nat /\ First <= N  BY Bounds
  <1> HIDE DEF s
  <1>5. ASSUME NEW k \in (IF s = 1 THEN First ELSE 1) .. Mss,
               s + k <= N + 1, PeerIs(p, "serve", s + k),
               ToUs(p, Data, s, SubSeq(Stream(p), s, s + k - 1))
        PROVE  NetInv'
    <2> DEFINE d == SubSeq(Stream(p), s, s + k - 1)
               t == [st |-> "serve", nxt |-> s + k, again |-> peer[p].again]
    <2>1. /\ s \in 1 .. N + 1 /\ s + k - 1 \in 0 .. N /\ s <= s + k - 1 + 1
          /\ (s + k - 1) - s + 1 = k /\ k \in 1 .. Mss /\ (s = 1 => k >= First)
          /\ s + k \in 1 .. N + 1 /\ s + k \in 0 .. N + 2 /\ s \in 0 .. N + 1
      BY <1>1, <1>4, <1>5
    <2>2. /\ d \in Seq(Units) /\ Len(d) = k
          /\ \A j \in 1 .. k : d[j] = <<p, s + j - 1>>
      <3>1. PICK z \in 0 .. N : z = s + k - 1  BY <2>1
      <3>2. /\ d \in Seq(Units) /\ Len(d) = z - s + 1
            /\ \A j \in 1 .. z - s + 1 : d[j] = <<p, s + j - 1>>
        BY <2>1, <3>1, StreamPart, Bounds
      <3> QED  BY <2>1, <3>1, <3>2
    <2>3. SideOK(t)  BY <2>1 DEF SideOK
    <2> HIDE DEF d
    <2>4. FrameOK(Sends(p, Data, s, d), t)
      <3> DEFINE m == Sends(p, Data, s, d)
      <3>1. m.port = p /\ m.seq = s /\ m.data = d /\ m.flags = Data  BY DEF Sends
      <3>2. Data # SynAck /\ Data # Reset /\ Data # DataFin
        BY Kinds
      <3> HIDE DEF m
      <3>3. Carries(m)  BY <1>1, <1>4, <1>5, <2>1, <2>2, <3>1 DEF Carries
      <3>4. FrameOK(m, t)  BY <3>1, <3>2, <3>3 DEF FrameOK
      <3> QED  BY <3>4 DEF m
    <2> QED  BY <1>1, <1>2, <1>5, <2>1, <2>2, <2>3, <2>4, PeerAnswers DEF d
  <1>6. ASSUME s + Mss > N, PeerIs(p, "closed", N + 2),
               ToUs(p, DataFin, s, SubSeq(Stream(p), s, N))
        PROVE  NetInv'
    <2> DEFINE d == SubSeq(Stream(p), s, N)
               t == [st |-> "closed", nxt |-> N + 2, again |-> peer[p].again]
    <2>1. /\ N \in 0 .. N /\ s <= N + 1 /\ N + 2 \in 0 .. N + 2 /\ s \in 0 .. N + 1
          /\ N - s + 1 <= Mss /\ s + (N - s + 1) = N + 1 /\ (s = 1 => N - s + 1 >= First)
      BY <1>1, <1>4, <1>6
    <2>2. /\ d \in Seq(Units) /\ Len(d) = N - s + 1
          /\ \A j \in 1 .. N - s + 1 : d[j] = <<p, s + j - 1>>
      BY <1>1, <2>1, StreamPart, Bounds
    <2>3. SideOK(t)  BY DEF SideOK
    <2> HIDE DEF d
    <2>4. FrameOK(Sends(p, DataFin, s, d), t)
      <3> DEFINE m == Sends(p, DataFin, s, d)
      <3>1. m.port = p /\ m.seq = s /\ m.data = d /\ m.flags = DataFin  BY DEF Sends
      <3>2. DataFin # SynAck /\ DataFin # Reset
        BY Kinds
      <3> HIDE DEF m
      <3>3. Carries(m) /\ m.seq + Len(m.data) = N + 1
        BY <1>1, <1>4, <2>1, <2>2, <3>1 DEF Carries
      <3>4. FrameOK(m, t)  BY <3>1, <3>2, <3>3 DEF FrameOK
      <3> QED  BY <3>4 DEF m
    <2> QED  BY <1>1, <1>2, <1>6, <2>1, <2>2, <2>3, <2>4, PeerAnswers DEF d
  <1> QED  BY <1>3, <1>5, <1>6

LEMMA NetInvHolds == Spec => []NetInv
  <1>1. ASSUME Init PROVE NetInv
    <2>1. /\ port = 0 /\ sound = TRUE /\ seq = 0 /\ ack = 0 /\ state = 0
          /\ toUs = <<>> /\ toPeer = <<>> /\ peer = [p \in Ports |-> NoPeer]
      BY <1>1 DEF Init, TcpInit
    <2>2. NoPeer \in Sides /\ SideOK(NoPeer)  BY Bounds DEF NoPeer, Sides, SideOK
    <2>3. toUs \in Seq(In(port)) /\ toPeer \in Seq(Out(port)) /\ FramesOK(toUs, peer)
      BY <2>1 DEF FramesOK
    <2> QED  BY <2>1, <2>2, <2>3, Bounds DEF NetInv
  <1>2. ASSUME NetInv, [Next]_vars PROVE NetInv'
    <2>0. /\ seq \in Nat /\ ack \in Nat /\ toPeer \in Seq(Out(port))
          /\ toUs \in Seq(In(port)) /\ FramesOK(toUs, peer) /\ (state # 0 => port >= 1)
          /\ port \in 0 .. MaxConns /\ sound \in BOOLEAN /\ peer \in [Ports -> Sides]
          /\ \A q \in Ports : SideOK(peer[q]) /\ (q > port => peer[q] = NoPeer)
      BY <1>2 DEF NetInv
    <2>1. CASE Get
      <3>1. /\ port' = port + 1 /\ state' = 1 /\ seq' = 1 /\ ack' = 0 /\ port < MaxConns
            /\ toUs' = toUs /\ peer' = peer /\ sound' = sound
            /\ toPeer' = Append(toPeer, [Seg({"syn"}, 0, 0, <<>>) EXCEPT !.port = port + 1])
        BY <2>1 DEF Get, TcpOpen, env
      <3>2. port' \in 0 .. MaxConns /\ port' >= 1 /\ port \in Nat  BY <2>0, <3>1, Bounds
      <3>3. /\ In(port) \subseteq In(port') /\ Out(port) \subseteq Out(port')
        BY <3>1, <3>2 DEF In, Out
      <3>4. toUs \in Seq(In(port')) /\ toPeer \in Seq(Out(port'))
        BY <2>0, <3>3, SeqMonotonic
      <3>5. [Seg({"syn"}, 0, 0, <<>>) EXCEPT !.port = port + 1] \in Out(port')
        BY <3>1, <3>2 DEF Seg, Out
      <3>6. toPeer' \in Seq(Out(port'))  BY <3>1, <3>4, <3>5, AppendProperties
      <3>7. \A q \in Ports : SideOK(peer'[q]) /\ (q > port' => peer'[q] = NoPeer)
        BY <2>0, <3>1, Bounds DEF Ports
      <3> QED  BY <2>0, <3>1, <3>2, <3>4, <3>6, <3>7 DEF NetInv
    <2>2. CASE ConnectRx \/ Recv
      BY <1>2, <2>2, NetReceives DEF ConnectRx, Recv
    <2>3. CASE ConnectTimeout
      BY <1>2, <2>0, <2>3, NetClient DEF ConnectTimeout, GiveUp, net
    <2>4. CASE SendRequest
      <3>1. /\ state = 2 /\ state' = 2 /\ UNCHANGED <<port, env>> /\ toUs' = toUs /\ ack' = ack
            /\ seq' = seq + 1
            /\ toPeer' = Append(toPeer, Seg({"ack", "psh"}, seq, ack, <<"get">>))
        BY <2>4 DEF SendRequest, TcpSend
      <3>2. /\ {"ack", "psh"} \in SUBSET {"syn", "ack", "psh", "fin"}
            /\ <<"get">> \in {<<>>, <<"get">>} /\ port >= 1
        BY <2>0, <3>1
      <3>3. toPeer' \in Seq(Out(port))
        BY ONLY NetInv, <2>0, <3>1, <3>2, SegIs
      <3> QED  BY <1>2, <2>0, <3>1, <3>2, <3>3, NetClient
    <2>5. CASE RecvAgain \/ Chunk
      BY <1>2, <2>0, <2>5, NetClient DEF RecvAgain, Chunk, TcpTake, conn, net
    <2>6. CASE Finish
      BY <1>2, <2>0, <2>6, NetClient DEF Finish, TcpClose
    <2>7. CASE Outside
      <3>1. CASE PeerRx  BY <1>2, <3>1, NetPeerRx
      <3>2. CASE Lose
        <4>1. UNCHANGED <<conn, peer>> /\ sound' \in BOOLEAN  BY <3>2 DEF Lose
        <4>2. toUs' \in Seq(In(port)) /\ FramesOK(toUs', peer) /\ toPeer' \in Seq(Out(port))
          <5>1. CASE toUs # <<>> /\ toUs' = Tail(toUs) /\ UNCHANGED toPeer
            <6>1. port \in Nat  BY <2>0, Bounds
            <6>2. Tail(toUs) \in Seq(In(port)) /\ FramesOK(Tail(toUs), peer)
              BY <2>0, <5>1, <6>1, FrameTaken
            <6> QED  BY <2>0, <5>1, <6>2
          <5>2. CASE toPeer # <<>> /\ toPeer' = Tail(toPeer) /\ UNCHANGED toUs
            BY <2>0, <5>2, HeadTailProperties
          <5> QED  BY <3>2, <5>1, <5>2 DEF Lose
        <4> QED  BY <1>2, <2>0, <4>1, <4>2, NetOutside
      <3>3. ASSUME NEW p \in Ports, PeerSend(p) PROVE NetInv'
        BY <1>2, <3>3, NetPeerSend
      <3>4. ASSUME NEW p \in Ports, PeerReset(p) PROVE NetInv'
        <4> DEFINE n == peer[p].nxt
                   t == [st |-> "gone", nxt |-> n, again |-> peer[p].again]
        <4>1. /\ peer[p].st \in {"open", "serve"} /\ PeerIs(p, "gone", n)
              /\ ToUs(p, Reset, n, <<>>) /\ UNCHANGED <<conn, sound>> /\ toPeer' = toPeer
          BY <3>4 DEF PeerReset, Reset
        <4>2. p <= port /\ n \in 0 .. N + 1 /\ n \in 0 .. N + 2
          BY <1>2, <4>1, SideIs, Bounds DEF SideOK
        <4> HIDE DEF n
        <4>3. SideOK(t)  BY DEF SideOK
        <4>4. FrameOK(Sends(p, Reset, n, <<>>), t)  BY Kinds DEF FrameOK, Sends
        <4>5. <<>> \in Seq(Units) /\ toPeer' \in Seq(Out(port)) /\ peer[p].st # "gone"
          BY <2>0, <4>1
        <4> QED  BY <1>2, <4>1, <4>2, <4>3, <4>4, <4>5, PeerAnswers
      <3>5. ASSUME NEW p \in Ports, PeerSilent(p) PROVE NetInv'
        <4> DEFINE n == peer[p].nxt
                   t == [st |-> "gone", nxt |-> n, again |-> peer[p].again]
        <4>1. /\ peer[p].st \in {"open", "serve"} /\ PeerIs(p, "gone", n)
              /\ UNCHANGED conn /\ sound' = FALSE /\ toPeer' = toPeer /\ toUs' = toUs
          BY <3>5 DEF PeerSilent, net
        <4>2. p <= port /\ n \in 0 .. N + 2 /\ peer[p].st # "gone"
          BY <1>2, <4>1, SideIs
        <4> HIDE DEF n
        <4>3. SideOK(t)  BY DEF SideOK
        <4>4. t \in Sides /\ peer' = [peer EXCEPT ![p] = t]
          BY <1>2, <4>1, <4>2, PeerIsSide
        <4> HIDE DEF t
        <4> QED  BY <1>2, <2>0, <4>1, <4>2, <4>3, <4>4, PeerTurns
      <3>6. ASSUME NEW p \in Ports, PeerResend(p) PROVE NetInv'
        <4>1. PICK s \in 1 .. peer[p].nxt - 1 :
                 peer' = [peer EXCEPT ![p].st = "serve", ![p].nxt = s, ![p].again = TRUE]
          BY <3>6 DEF PeerResend
        <4> DEFINE t == [st |-> "serve", nxt |-> s, again |-> TRUE]
        <4>2. /\ UNCHANGED conn /\ sound' = sound /\ toPeer' = toPeer /\ toUs' = toUs
              /\ peer[p].st \in {"serve", "closed"}
          BY <3>6 DEF PeerResend, net
        <4>3. p <= port /\ s \in 1 .. N + 1 /\ s \in 0 .. N + 2
          BY <1>2, <4>1, <4>2, SideIs, Bounds
        <4>4. t \in Sides /\ SideOK(t)  BY <4>3 DEF Sides, SideOK
        <4>5. peer' = [peer EXCEPT ![p] = t]
          <5> DEFINE u == peer[p]
                     v == [u EXCEPT !.st = "serve"]
                     w == [v EXCEPT !.nxt = s]
          <5>1. u = [st |-> u.st, nxt |-> u.nxt, again |-> u.again]
            BY <1>2, SideIs DEF Sides
          <5>2. peer' = [peer EXCEPT ![p] = [w EXCEPT !.again = TRUE]]
            BY <2>0, <4>1
          <5> HIDE DEF u
          <5>3. v = [st |-> "serve", nxt |-> u.nxt, again |-> u.again]  BY <5>1
          <5> HIDE DEF v
          <5>4. w = [st |-> "serve", nxt |-> s, again |-> u.again]  BY <5>3
          <5> HIDE DEF w
          <5> DEFINE b == TRUE
                     x == [w EXCEPT !.again = b]
          <5> HIDE DEF b
          <5>5. x = [st |-> "serve", nxt |-> s, again |-> b]  BY <5>4
          <5>6. x = t  BY <5>5 DEF b
          <5> QED  BY <5>2, <5>6 DEF b
        <4> HIDE DEF t
        <4> QED  BY <1>2, <2>0, <4>2, <4>3, <4>4, <4>5, PeerTurns
      <3> QED  BY <2>7, <3>1, <3>2, <3>3, <3>4, <3>5, <3>6 DEF Outside
    <2>8. CASE UNCHANGED vars
      BY <1>2, <2>8 DEF vars, conn, net, env, NetInv
    <2> QED  BY <1>2, <2>1, <2>2, <2>3, <2>4, <2>5, <2>6, <2>7, <2>8 DEF Next, Client
  <1> QED  BY <1>1, <1>2, PTL DEF Spec

-----------------------------------------------------------------------------
(***************************************************************************)
(* The client                                                              *)
(***************************************************************************)
RingOK ==
    /\ rx_buf \in [Places -> Units] /\ rx_head \in Places /\ rx_tail \in Places

(* The steps of a call, and a ring that is empty except after a receipt, when
   it holds a segment at most. *)
ClientInv ==
    /\ RingOK /\ got \in Seq(Units)
    /\ state \in 0 .. 3 /\ seq \in 0 .. 3 /\ ack \in 0 .. N + 2
    /\ pc \in {"idle", "connect", "read", "take"}
    /\ pc = "idle" => state = 0
    /\ pc = "connect" => state \in {1, 2} /\ seq = 1 /\ got = <<>>
    /\ pc \in {"read", "take"} => state \in {0, 2, 3}
    /\ pc # "connect" /\ state = 2 => seq = 2
    /\ state = 1 => ack = 0
    /\ state = 2 => ack \in 1 .. N + 1
    /\ pc # "take" => Avail = 0
    /\ Avail <= Mss

(* All the client has is its own connection's. *)
OwnInv ==
    /\ \A k \in 1 .. Len(got) : got[k][1] = port
    /\ \A k \in 1 .. Avail : InRing[k][1] = port

LEMMA UptoIs ==
    ASSUME NEW S, NEW s \in Seq(S), NEW n \in Nat
    PROVE  /\ Upto(s, n) \in Seq(S) /\ Len(Upto(s, n)) <= n
           /\ Len(Upto(s, n)) = IF Len(s) < n THEN Len(s) ELSE n
           /\ \A k \in 1 .. Len(Upto(s, n)) : Upto(s, n)[k] = s[k]
           /\ Len(s) <= n => Upto(s, n) = s
  <1>1. PICK m \in Nat : m = IF Len(s) < n THEN Len(s) ELSE n
    BY LenProperties
  <1>2. Upto(s, n) = SubSeq(s, 1, m)  BY <1>1 DEF Upto
  <1>3. m <= Len(s) /\ m <= n /\ Len(s) \in Nat  BY <1>1, LenProperties
  <1>4. \A i \in 1 .. m : s[i] \in S  BY <1>3, ElementOfSeq
  <1>5. /\ SubSeq(s, 1, m) \in Seq(S)
        /\ Len(SubSeq(s, 1, m)) = IF 1 <= m THEN m - 1 + 1 ELSE 0
        /\ \A i \in 1 .. m - 1 + 1 : SubSeq(s, 1, m)[i] = s[1 + i - 1]
    BY <1>4, SubSeqProperties
  <1>6. Len(SubSeq(s, 1, m)) = m  BY <1>5
  <1>7. \A i \in 1 .. m : SubSeq(s, 1, m)[i] = s[i]  BY <1>5
  <1>8. Len(s) <= n => Upto(s, n) = s  BY <1>1, <1>2, <1>3, SubSeqFull
  <1> QED  BY <1>1, <1>2, <1>3, <1>5, <1>6, <1>7, <1>8

LEMMA RingHolds ==
    ASSUME RingOK
    PROVE  /\ Avail \in Places /\ Avail \in Nat /\ Avail < RingSize
           /\ InRing \in Seq(Units) /\ Len(InRing) = Avail
  <1>1. Avail \in Places  BY RingNow, AvailIs DEF RingOK
  <1>2. InRing \in Seq(Units) /\ Len(InRing) = Avail  BY RingNow, RingIs DEF RingOK
  <1> QED  BY <1>1, <1>2, Bounds DEF Places

LEMMA RingKept ==
    ASSUME UNCHANGED <<rx_buf, rx_head, rx_tail>>
    PROVE  RingOK' = RingOK /\ Avail' = Avail /\ InRing' = InRing
  BY DEF RingOK, Avail, InRing

LEMMA RingCleared ==
    ASSUME RingOK, TcpOpen
    PROVE  RingOK' /\ Avail' = 0
  <1>1. /\ rx_buf' = [i \in Places |-> Zeroed] /\ rx_head' = 0 /\ rx_tail' = 0
    BY DEF TcpOpen, RingOK
  <1>2. Zeroed \in Units /\ 0 \in Places  BY Bounds DEF Zeroed, Units, Places
  <1>3. AvailOf(0, 0) = 0  BY <1>2, AvailIs, Bounds
  <1> QED  BY <1>1, <1>2, <1>3 DEF RingOK, Avail, AvailOf

(* A segment goes to an empty ring and is all it holds then. *)
LEMMA RingFilled ==
    ASSUME RingOK, Avail = 0, NEW d \in Seq(Units), Len(d) <= Mss,
           Push(d), rx_head' = rx_head
    PROVE  /\ RingOK' /\ Avail' = Len(d) /\ InRing' \in Seq(Units)
           /\ \A k \in 1 .. Len(d) : InRing'[k] = d[k]
  <1>1. /\ Len(d) \in Nat /\ RingSize \in Nat /\ Mss \in Nat /\ Mss < RingSize
    BY Bounds, LenProperties
  <1>2. Room = RingSize - 1 /\ Room \in Nat /\ Len(d) <= Room
    BY <1>1, Bounds DEF Room
  <1>3. Upto(d, Room) = d  BY <1>1, <1>2, UptoIs
  <1>4. /\ rx_tail' = (rx_tail + Len(d)) % RingSize /\ rx_buf' = Written(d)
    BY <1>3 DEF Push
  <1>5. AvailOf(rx_head, rx_tail) = 0  BY RingNow
  <1> DEFINE c == rx_buf'  t2 == rx_tail'
  <1>6. IsPushed(rx_buf, rx_tail, d, c)
    BY <1>4 DEF Written, IsPushed
  <1>7. t2 = (rx_tail + Len(d)) % RingSize  BY <1>4
  <1> HIDE DEF c, t2
  <1>8. AvailOf(rx_head, rx_tail) + Len(d) <= RingSize - 1  BY <1>1, <1>5
  <1>9. /\ c \in [Places -> Units] /\ t2 \in Places
        /\ AvailOf(rx_head, t2) = AvailOf(rx_head, rx_tail) + Len(d)
        /\ \A k \in 1 .. AvailOf(rx_head, rx_tail) + Len(d) :
                RingOf(c, rx_head, t2)[k]
                  = IF k <= AvailOf(rx_head, rx_tail) THEN RingOf(rx_buf, rx_head, rx_tail)[k]
                    ELSE d[k - AvailOf(rx_head, rx_tail)]
    BY <1>6, <1>7, <1>8, Pushed DEF RingOK
  <1>10. /\ AvailOf(rx_head, t2) = Len(d)
         /\ \A k \in 1 .. Len(d) : RingOf(c, rx_head, t2)[k] = d[k]
    BY <1>1, <1>5, <1>9
  <1>11. Avail' = AvailOf(rx_head, t2) /\ InRing' = RingOf(c, rx_head, t2)
    BY DEF Avail, InRing, AvailOf, RingOf, c, t2
  <1>12. RingOK'  BY <1>9 DEF RingOK, c, t2
  <1>13. InRing' \in Seq(Units)  BY <1>9, <1>11, RingIs DEF RingOK
  <1> QED  BY <1>10, <1>11, <1>12, <1>13

(* tcp_recv returns all that is in the ring. *)
LEMMA RingEmptied ==
    ASSUME RingOK, Avail <= Mss, TcpTake(RespCap)
    PROVE  RingOK' /\ Avail' = 0 /\ Taken(RespCap) = InRing
  <1>1. Taken(RespCap) = InRing /\ Len(InRing) = Avail
    <2>1. InRing \in Seq(Units) /\ Len(InRing) = Avail /\ Avail \in Nat  BY RingHolds
    <2>2. Len(InRing) <= RespCap /\ RespCap \in Nat  BY <2>1, Bounds
    <2> QED  BY <2>1, <2>2, UptoIs DEF Taken
  <1> DEFINE A == AvailOf(rx_head, rx_tail)
             g == (rx_head + A) % RingSize
  <1>2. rx_head' = g /\ rx_tail' = rx_tail /\ rx_buf' = rx_buf
    BY <1>1, RingNow DEF TcpTake
  <1>3. g \in Places /\ AvailOf(g, rx_tail) = 0  BY AllTaken DEF RingOK
  <1> HIDE DEF g
  <1>4. Avail' = 0  BY <1>2, <1>3 DEF Avail, AvailOf
  <1> QED  BY <1>1, <1>2, <1>3, <1>4 DEF RingOK

(* What a receipt does to the connection *)
Ignores == UNCHANGED conn

Connects(m) ==
    /\ state = 1 /\ m.flags = SynAck /\ m.seq = 0
    /\ state' = 2 /\ ack' = 1 /\ seq' = seq
    /\ UNCHANGED <<rx_buf, rx_head, rx_tail>>

Resets(m) ==
    /\ state = 2 /\ m.flags = Reset /\ peer[m.port].st = "gone"
    /\ state' = 0 /\ UNCHANGED <<seq, ack, rx_buf, rx_head, rx_tail>>

Fin(m) == IF m.flags = DataFin THEN 1 ELSE 0

Fills(m) ==
    /\ state = 2 /\ m.flags # Reset /\ Push(m.data) /\ rx_head' = rx_head
    /\ m.data \in Seq(Units) /\ Len(m.data) \in 0 .. Mss
    /\ m.data = <<>> \/ m.flags \in {Data, DataFin}
    /\ m.flags \in {Data, DataFin} => Carries(m)
    /\ m.flags = DataFin => m.seq + Len(m.data) = N + 1
    /\ ack' = (IF m.data = <<>> THEN ack ELSE m.seq + Len(m.data)) + Fin(m)
    /\ seq' = seq + Fin(m) /\ state' = 2 + Fin(m)

Arrives(m) ==
    /\ toUs # <<>> /\ m = Head(toUs) /\ m = toUs[1] /\ m \in In(port)
    /\ toUs' = Tail(toUs)
    /\ \/ m.port # port /\ Ignores
       \/ m.port = port /\ m.flags # SynAck /\ state = 1 /\ Ignores
       \/ m.port = port /\ state \notin {1, 2} /\ Ignores
       \/ m.port = port /\ (Connects(m) \/ Resets(m) \/ Fills(m))

LEMMA Receives ==
    ASSUME NetInv, TcpRxOnce
    PROVE  /\ UNCHANGED <<port, env>>
           /\ \/ UNCHANGED <<conn, toUs>>
              \/ \E m \in In(port) : Arrives(m)
  <1>1. UNCHANGED <<port, env>>
    BY DEF TcpRxOnce, Ignore, conn, RxSynSent, RxEstab
  <1>2. CASE toUs = <<>>  BY <1>1, <1>2 DEF TcpRxOnce, net
  <1>3. CASE toUs # <<>>
    <2> DEFINE m == Head(toUs)
    <2>1. /\ toUs' = Tail(toUs)
          /\ \/ m.port # port /\ Ignore
             \/ m.port = port /\ state = 1 /\ RxSynSent(m)
             \/ m.port = port /\ state = 2 /\ RxEstab(m)
             \/ m.port = port /\ state \notin {1, 2} /\ Ignore
      BY <1>3 DEF TcpRxOnce
    <2>2. /\ m \in In(port) /\ m = toUs[1] /\ FrameOK(m, peer[m.port])
          /\ Len(m.data) \in Nat
      BY <1>3, HeadOfUs
    <2>3. m = Head(toUs)  OBVIOUS
    <2> HIDE DEF m
    <2>4. m.flags \in {SynAck, Reset, Data, DataFin} /\ m.data \in Seq(Units) /\ m.seq \in Nat
      BY <2>2, Bounds DEF In
    <2>5. ASSUME m.port = port, state = 1, RxSynSent(m)
          PROVE  Connects(m) \/ (m.flags # SynAck /\ Ignores)
      <3>1. CASE {"syn", "ack"} \subseteq m.flags
        <4>1. m.flags = SynAck  BY <2>4, <3>1, Kinds
        <4>2. m.seq = 0  BY <2>2, <4>1 DEF FrameOK
        <4>3. /\ ack' = m.seq + 1 /\ state' = 2
              /\ UNCHANGED <<seq, rx_buf, rx_head, rx_tail>>
          BY <2>5, <3>1 DEF RxSynSent
        <4> QED  BY <2>5, <4>1, <4>2, <4>3 DEF Connects
      <3>2. CASE ~({"syn", "ack"} \subseteq m.flags)
        BY <2>5, <3>2, Kinds DEF RxSynSent, Ignore, Ignores
      <3> QED  BY <3>1, <3>2
    <2>6. ASSUME m.port = port, state = 2, RxEstab(m)
          PROVE  Resets(m) \/ Fills(m)
      <3>1. CASE m.flags = Reset
        BY <2>2, <2>6, <3>1, Kinds DEF RxEstab, Resets, FrameOK
      <3>2. CASE m.flags # Reset
        <4>1. "rst" \notin m.flags /\ ("fin" \in m.flags <=> m.flags = DataFin)
          BY <2>4, <3>2, Kinds
        <4> DEFINE end  == IF m.data = <<>> THEN ack ELSE m.seq + Len(m.data)
                   fins == IF "fin" \notin m.flags THEN <<>>
                           ELSE <<Seg({"ack", "fin"}, seq, end + 1, <<>>)>>
        <4>2. /\ Push(m.data) /\ ack' = end + Len(fins) /\ seq' = seq + Len(fins)
              /\ state' = (IF fins = <<>> THEN 2 ELSE 3) /\ rx_head' = rx_head
          BY <2>6, <4>1 DEF RxEstab
        <4>3. Len(fins) = Fin(m) /\ (IF fins = <<>> THEN 2 ELSE 3) = 2 + Fin(m)
          BY <4>1 DEF Fin
        <4>4. /\ m.flags \in {Data, DataFin} => Carries(m)
              /\ m.flags = DataFin => m.seq + Len(m.data) = N + 1
              /\ m.data = <<>> \/ m.flags \in {Data, DataFin}
          BY <2>2, <2>4, <3>2 DEF FrameOK
        <4>5. Len(m.data) \in 0 .. Mss  BY <2>2, <4>4, Bounds DEF Carries
        <4> QED  BY <2>4, <2>6, <3>2, <4>2, <4>3, <4>4, <4>5 DEF Fills
      <3> QED  BY <3>1, <3>2
    <2>7. Ignore => Ignores  BY DEF Ignore, Ignores
    <2> QED  BY <1>1, <1>3, <2>1, <2>2, <2>3, <2>5, <2>6, <2>7 DEF Arrives
  <1> QED  BY <1>2, <1>3

(* The client after the receipt of a frame *)
AfterReceipt ==
    /\ RingOK' /\ Avail' \in 0 .. Mss
    /\ state' \in 0 .. 3 /\ ack' \in 0 .. N + 2
    /\ state' = 1 => ack' = 0
    /\ state' = 2 => ack' \in 1 .. N + 1
    /\ \/ state' = state /\ seq' = seq
       \/ state = 1 /\ state' = 2 /\ seq' = seq
       \/ state = 2 /\ state' = 0 /\ seq' = seq
       \/ state = 2 /\ state' = 3 /\ seq' = seq + 1
    /\ state = 1 => Avail' = 0
    /\ \A k \in 1 .. Avail' : InRing'[k][1] = port

LEMMA Received ==
    ASSUME NetInv, ClientInv, pc # "take", TcpRxOnce
    PROVE  AfterReceipt
  <1>0. /\ RingOK /\ Avail = 0 /\ state \in 0 .. 3 /\ seq \in 0 .. 3 /\ ack \in 0 .. N + 2
        /\ state = 1 => ack = 0
        /\ state = 2 => ack \in 1 .. N + 1
        /\ N \in Nat /\ Mss \in Nat
    BY Bounds DEF ClientInv
  <1>1. CASE UNCHANGED conn
    BY <1>0, <1>1, RingKept DEF conn, AfterReceipt
  <1>2. ASSUME NEW m \in In(port), m.port = port, Connects(m) PROVE AfterReceipt
    BY <1>0, <1>2, RingKept DEF Connects, AfterReceipt
  <1>3. ASSUME NEW m \in In(port), m.port = port, Resets(m) PROVE AfterReceipt
    BY <1>0, <1>3, RingKept DEF Resets, AfterReceipt
  <1>4. ASSUME NEW m \in In(port), m.port = port, Fills(m) PROVE AfterReceipt
    <2>1. /\ state = 2 /\ m.data \in Seq(Units) /\ Len(m.data) \in 0 .. Mss /\ m.seq \in Nat
          /\ m.data = <<>> \/ m.flags \in {Data, DataFin}
          /\ m.flags \in {Data, DataFin} => Carries(m)
          /\ m.flags = DataFin => m.seq + Len(m.data) = N + 1
          /\ ack' = (IF m.data = <<>> THEN ack ELSE m.seq + Len(m.data)) + Fin(m)
          /\ seq' = seq + Fin(m) /\ state' = 2 + Fin(m)
      BY <1>4, <1>0 DEF Fills, In
    <2>2. /\ RingOK' /\ Avail' = Len(m.data)
          /\ \A k \in 1 .. Len(m.data) : InRing'[k] = m.data[k]
      BY <1>0, <1>4, <2>1, RingFilled DEF Fills
    <2>3. \A k \in 1 .. Len(m.data) : m.data[k][1] = port
      <3>1. CASE m.data = <<>>  BY <3>1
      <3>2. CASE Carries(m)  BY <1>4, <3>2 DEF Carries
      <3> QED  BY <2>1, <3>1, <3>2
    <2>4. state' \in {2, 3} /\ (state' = 3 => seq' = seq + 1) /\ (state' = 2 => seq' = seq)
      BY <1>0, <2>1 DEF Fin
    <2>5. ack' \in 0 .. N + 2 /\ (state' = 2 => ack' \in 1 .. N + 1)
      <3>1. CASE m.flags = DataFin  BY <1>0, <2>1, <3>1 DEF Fin, Carries
      <3>2. CASE m.flags # DataFin  BY <1>0, <2>1, <3>2 DEF Fin, Carries
      <3> QED  BY <3>1, <3>2
    <2> QED  BY <1>0, <2>1, <2>2, <2>3, <2>4, <2>5 DEF AfterReceipt
  <1> QED
    <2>1. CASE UNCHANGED conn  BY <1>1, <2>1
    <2>2. CASE ~UNCHANGED conn
      <3>1. PICK m \in In(port) : Arrives(m)  BY <2>2, Receives
      <3>2. m.port = port /\ (Connects(m) \/ Resets(m) \/ Fills(m))
        BY <2>2, <3>1 DEF Arrives, Ignores
      <3> QED  BY <1>2, <1>3, <1>4, <3>2
    <2> QED  BY <2>1, <2>2

(* One turn of http_get's loop takes all there is. *)
LEMMA ChunkTakes ==
    ASSUME ClientInv, Chunk
    PROVE  /\ Taken(RespCap) = InRing /\ got' = got \o InRing
           /\ got' \in Seq(Units) /\ Len(got') = Len(got) + Avail
           /\ \A k \in 1 .. Len(got) + Avail :
                got'[k] = IF k <= Len(got) THEN got[k] ELSE InRing[k - Len(got)]
           /\ RingOK' /\ Avail' = 0 /\ pc = "take" /\ pc' = "read"
           /\ UNCHANGED <<state, port, seq, ack, net, env>>
  <1>1. /\ RingOK /\ Avail <= Mss /\ TcpTake(RespCap) /\ got \in Seq(Units)
        /\ got' = got \o Taken(RespCap) /\ pc = "take" /\ pc' = "read"
    BY DEF Chunk, ClientInv
  <1>2. Taken(RespCap) = InRing /\ RingOK' /\ Avail' = 0  BY <1>1, RingEmptied
  <1>3. InRing \in Seq(Units) /\ Len(InRing) = Avail  BY <1>1, RingHolds
  <1>4. /\ got' = got \o InRing /\ got' \in Seq(Units)
        /\ Len(got') = Len(got) + Avail
        /\ \A k \in 1 .. Len(got) + Avail :
                got'[k] = IF k <= Len(got) THEN got[k] ELSE InRing[k - Len(got)]
    BY <1>1, <1>2, <1>3, ConcatProperties
  <1>5. UNCHANGED <<state, port, seq, ack, net, env>>  BY <1>1 DEF TcpTake
  <1> QED  BY <1>1, <1>2, <1>4, <1>5

LEMMA ClientInvHolds == Spec => [](ClientInv /\ OwnInv)
  <1>1. ASSUME Init PROVE ClientInv /\ OwnInv
    <2>1. /\ state = 0 /\ seq = 0 /\ ack = 0 /\ rx_head = 0 /\ rx_tail = 0
          /\ rx_buf = [i \in Places |-> Zeroed] /\ pc = "idle" /\ got = <<>>
      BY <1>1 DEF Init, TcpInit, Places
    <2>2. Zeroed \in Units /\ 0 \in Places  BY Bounds DEF Zeroed, Units, Places
    <2>3. RingOK  BY <2>1, <2>2 DEF RingOK
    <2>4. Avail = 0  BY <2>1, <2>2, RingNow, AvailIs, Bounds
    <2>5. got \in Seq(Units) /\ Len(got) = 0  BY <2>1, EmptySeq
    <2> QED  BY <2>1, <2>3, <2>4, <2>5, Bounds DEF ClientInv, OwnInv
  <1>2. ASSUME NetInv, ClientInv, OwnInv, [Next]_vars PROVE ClientInv' /\ OwnInv'
    <2>0. /\ RingOK /\ got \in Seq(Units)
          /\ state \in 0 .. 3 /\ seq \in 0 .. 3 /\ ack \in 0 .. N + 2
          /\ pc \in {"idle", "connect", "read", "take"}
          /\ N \in Nat /\ Mss \in Nat /\ Avail \in Nat
      BY <1>2, RingHolds, Bounds DEF ClientInv
    <2>1. CASE Get
      <3>1. /\ RingOK' /\ Avail' = 0 /\ got' = <<>> /\ pc' = "connect"
            /\ state' = 1 /\ seq' = 1 /\ ack' = 0
        BY <2>0, <2>1, RingCleared DEF Get, TcpOpen
      <3>2. got' \in Seq(Units) /\ Len(got') = 0  BY <3>1, EmptySeq
      <3> QED  BY <2>0, <3>1, <3>2 DEF ClientInv, OwnInv
    <2>2. CASE ConnectRx
      <3>1. pc = "connect" /\ state = 1 /\ TcpRxOnce /\ UNCHANGED http
        BY <2>2 DEF ConnectRx
      <3>2. AfterReceipt /\ port' = port /\ pc' = pc /\ got' = got
        BY <1>2, <3>1, Received, Receives DEF http
      <3>3. seq = 1 /\ got = <<>>  BY <1>2, <3>1 DEF ClientInv
      <3>4. OwnInv'  BY <1>2, <3>2 DEF OwnInv, AfterReceipt
      <3> QED  BY <2>0, <3>1, <3>2, <3>3, <3>4 DEF ClientInv, AfterReceipt
    <2>3. CASE Recv
      <3>1. pc = "read" /\ pc' = "take" /\ TcpRxOnce /\ got' = got
        BY <2>3 DEF Recv
      <3>2. AfterReceipt /\ port' = port
        BY <1>2, <3>1, Received, Receives
      <3>3. state \in {0, 2, 3} /\ (state = 2 => seq = 2)
        BY <1>2, <3>1 DEF ClientInv
      <3>4. OwnInv'  BY <1>2, <3>1, <3>2 DEF OwnInv, AfterReceipt
      <3>5. RingOK' /\ Avail' \in 0 .. Mss /\ state' \in {0, 2, 3} /\ seq' \in 0 .. 3
        BY <2>0, <3>2, <3>3 DEF AfterReceipt
      <3> QED  BY <2>0, <3>1, <3>2, <3>3, <3>4, <3>5 DEF ClientInv, AfterReceipt
    <2>4. CASE ConnectTimeout
      <3>1. /\ state = 1 /\ state' = 0 /\ pc = "connect" /\ pc' = "idle"
            /\ UNCHANGED <<port, seq, ack, rx_buf, rx_head, rx_tail, got>>
        BY <2>4 DEF ConnectTimeout, GiveUp
      <3>2. RingOK' /\ Avail' = Avail /\ InRing' = InRing  BY <2>0, <3>1, RingKept
      <3> QED  BY <1>2, <3>1, <3>2 DEF ClientInv, OwnInv
    <2>5. CASE SendRequest
      <3>1. /\ state = 2 /\ pc = "connect" /\ pc' = "read" /\ seq' = seq + 1
            /\ UNCHANGED <<state, port, ack, rx_buf, rx_head, rx_tail, got>>
        BY <2>5 DEF SendRequest, TcpSend
      <3>2. RingOK' /\ Avail' = Avail /\ InRing' = InRing  BY <2>0, <3>1, RingKept
      <3> QED  BY <1>2, <3>1, <3>2 DEF ClientInv, OwnInv
    <2>6. CASE RecvAgain
      <3>1. /\ pc = "take" /\ pc' = "read" /\ Avail = 0
            /\ UNCHANGED <<state, port, seq, ack, rx_buf, rx_head, rx_tail, got>>
        BY <2>6 DEF RecvAgain, conn
      <3>2. RingOK' /\ Avail' = Avail /\ InRing' = InRing  BY <2>0, <3>1, RingKept
      <3> QED  BY <1>2, <3>1, <3>2 DEF ClientInv, OwnInv
    <2>7. CASE Chunk
      <3>1. /\ got' \in Seq(Units) /\ Len(got') = Len(got) + Avail
            /\ \A k \in 1 .. Len(got) + Avail :
                 got'[k] = IF k <= Len(got) THEN got[k] ELSE InRing[k - Len(got)]
            /\ RingOK' /\ Avail' = 0 /\ pc = "take" /\ pc' = "read"
            /\ UNCHANGED <<state, port, seq, ack>>
        BY <1>2, <2>7, ChunkTakes
      <3>2. ClientInv'  BY <1>2, <2>0, <3>1 DEF ClientInv
      <3>3. ASSUME NEW k \in 1 .. Len(got) + Avail PROVE got'[k][1] = port
        <4>1. Len(got) \in Nat  BY <2>0, LenProperties
        <4>2. CASE k <= Len(got)  BY <1>2, <3>1, <4>1, <4>2 DEF OwnInv
        <4>3. CASE k > Len(got)
          <5>1. k - Len(got) \in 1 .. Avail  BY <2>0, <4>1, <4>3
          <5> QED  BY <1>2, <3>1, <4>1, <4>3, <5>1 DEF OwnInv
        <4> QED  BY <4>1, <4>2, <4>3
      <3>4. OwnInv'  BY <3>1, <3>3 DEF OwnInv
      <3> QED  BY <3>2, <3>4
    <2>8. CASE Finish
      <3>1. /\ pc = "take" /\ pc' = "idle" /\ Avail = 0 /\ state' = 0 /\ seq' = seq
            /\ UNCHANGED <<port, ack, rx_buf, rx_head, rx_tail, got>>
        BY <2>8 DEF Finish, TcpClose
      <3>2. RingOK' /\ Avail' = Avail /\ InRing' = InRing  BY <2>0, <3>1, RingKept
      <3> QED  BY <1>2, <3>1, <3>2 DEF ClientInv, OwnInv
    <2>9. CASE (Outside /\ UNCHANGED http) \/ UNCHANGED vars
      <3>1. UNCHANGED <<conn, http>>
        BY <2>9 DEF Outside, PeerRx, Lose, PeerSend, PeerReset, PeerSilent, PeerResend, vars
      <3>2. UNCHANGED <<state, port, seq, ack, rx_buf, rx_head, rx_tail, pc, got>>
        BY <3>1 DEF conn, http
      <3>3. RingOK' /\ Avail' = Avail /\ InRing' = InRing  BY <2>0, <3>2, RingKept
      <3> QED  BY <1>2, <3>2, <3>3 DEF ClientInv, OwnInv
    <2> QED
      BY <1>2, <2>1, <2>2, <2>3, <2>4, <2>5, <2>6, <2>7, <2>8, <2>9 DEF Next, Client
  <1> QED  BY <1>1, <1>2, NetInvHolds, PTL DEF Spec

(* A frame of an earlier connection that arrives late, or is sent again, adds
   nothing to the present one (tcp_rx_once compares the port). *)
THEOREM LateFramesAddNothing == Spec => []OwnDataOnly
  <1>1. ASSUME ClientInv, OwnInv PROVE OwnDataOnly
    <2>1. /\ got \in Seq(Units) /\ InRing \in Seq(Units) /\ Len(InRing) = Avail
          /\ Avail \in Nat /\ Len(got) \in Nat
      BY <1>1, RingHolds, LenProperties DEF ClientInv
    <2> DEFINE s == got \o InRing
    <2>2. /\ DOMAIN s = 1 .. Len(got) + Avail
          /\ \A k \in 1 .. Len(got) + Avail :
               s[k] = IF k <= Len(got) THEN got[k] ELSE InRing[k - Len(got)]
      <3>1. s \in Seq(Units) /\ Len(s) = Len(got) + Avail  BY <2>1, ConcatProperties
      <3>2. DOMAIN s = 1 .. Len(got) + Avail  BY <3>1, LenProperties
      <3> QED  BY <2>1, <3>2, ConcatProperties
    <2> HIDE DEF s
    <2>3. ASSUME NEW k \in DOMAIN s PROVE s[k][1] = port
      <3>1. CASE k <= Len(got)  BY <1>1, <2>1, <2>2, <3>1 DEF OwnInv
      <3>2. CASE k > Len(got)
        <4>1. k - Len(got) \in 1 .. Avail  BY <2>1, <2>2, <3>2
        <4> QED  BY <1>1, <2>1, <2>2, <3>2, <4>1 DEF OwnInv
      <3> QED  BY <2>1, <2>2, <3>1, <3>2
    <2> QED  BY <2>3 DEF s, OwnDataOnly
  <1> QED  BY <1>1, ClientInvHolds, PTL

-----------------------------------------------------------------------------
(***************************************************************************)
(* The frames of the connection follow one another                         *)
(***************************************************************************)

(* The number after the last unit of a frame; a SYN and a FIN count as one. *)
End(m) == m.seq + Len(m.data) + (IF m.flags \in {SynAck, DataFin} THEN 1 ELSE 0)

(* The frame m moves what the client of port p expects from x to y. *)
Follows(m, p, x, y) ==
    IF m.port # p THEN y = x
    ELSE m.seq = x /\ y = (IF m.flags = Reset THEN x ELSE End(m))

(* e[i] is what the client expects when it has taken i of the frames q. *)
Chain(e, q, p, a, z) ==
    /\ e[0] = a /\ e[Len(q)] = z
    /\ \A i \in 1 .. Len(q) : Follows(q[i], p, e[i - 1], e[i])

Ordered(q, p, a, z) == \E e \in [0 .. Len(q) -> Nat] : Chain(e, q, p, a, z)

(* As long as no frame is lost, the frames on the way lead from what the
   client has acknowledged to what the peer sends next. *)
OrderInv ==
    sound /\ state \in {1, 2} => Ordered(toUs, port, ack, peer[port].nxt)

LEMMA OrderedTail ==
    ASSUME NEW n \in Nat, NEW q \in Seq(In(n)), q # <<>>, NEW p, NEW a, NEW z,
           Ordered(q, p, a, z)
    PROVE  \E y \in Nat : Follows(Head(q), p, a, y) /\ Ordered(Tail(q), p, y, z)
  <1>1. PICK e \in [0 .. Len(q) -> Nat] : Chain(e, q, p, a, z)  BY DEF Ordered
  <1>2. /\ Head(q) = q[1] /\ Len(q) \in Nat \ {0} /\ Len(Tail(q)) = Len(q) - 1
        /\ \A i \in 1 .. Len(q) - 1 : Tail(q)[i] = q[i + 1]
    BY HeadTailProperties, EmptySeq
  <1> DEFINE f == [i \in 0 .. Len(q) - 1 |-> e[i + 1]]
  <1>3. e[1] \in Nat  BY <1>2
  <1>4. Follows(Head(q), p, a, e[1])
    <2>1. 1 \in 1 .. Len(q) /\ 1 - 1 = 0  BY <1>2
    <2>2. Follows(q[1], p, e[1 - 1], e[1])  BY <1>1, <2>1 DEF Chain
    <2> QED  BY <1>1, <1>2, <2>1, <2>2 DEF Chain
  <1>5. f \in [0 .. Len(Tail(q)) -> Nat]  BY <1>2
  <1>6. Chain(f, Tail(q), p, e[1], z)
    <2>1. f[0] = e[1] /\ f[Len(Tail(q))] = z  BY <1>1, <1>2 DEF Chain
    <2>2. ASSUME NEW i \in 1 .. Len(Tail(q))
          PROVE  Follows(Tail(q)[i], p, f[i - 1], f[i])
      <3>1. /\ i + 1 \in 1 .. Len(q) /\ Tail(q)[i] = q[i + 1]
            /\ f[i - 1] = e[i] /\ f[i] = e[i + 1]
        BY <1>2
      <3>2. PICK j \in 1 .. Len(q) : j = i + 1  BY <3>1
      <3>3. Follows(q[j], p, e[j - 1], e[j])  BY <1>1 DEF Chain
      <3>4. j - 1 = i  BY <3>2
      <3> QED  BY <3>1, <3>2, <3>3, <3>4
    <2> QED  BY <2>1, <2>2 DEF Chain
  <1> HIDE DEF f
  <1>7. Ordered(Tail(q), p, e[1], z)  BY <1>5, <1>6 DEF Ordered
  <1> QED  BY <1>3, <1>4, <1>7

LEMMA OrderedAppend ==
    ASSUME NEW n \in Nat, NEW q \in Seq(In(n)), NEW m \in In(n), NEW p, NEW a, NEW z,
           NEW y \in Nat, Ordered(q, p, a, z), Follows(m, p, z, y)
    PROVE  Ordered(Append(q, m), p, a, y)
  <1>1. PICK e \in [0 .. Len(q) -> Nat] : Chain(e, q, p, a, z)  BY DEF Ordered
  <1>2. /\ Len(Append(q, m)) = Len(q) + 1 /\ Len(q) \in Nat
        /\ \A i \in 1 .. Len(q) : Append(q, m)[i] = q[i]
        /\ Append(q, m)[Len(q) + 1] = m
    BY AppendProperties, LenProperties
  <1> DEFINE f == [i \in 0 .. Len(q) + 1 |-> IF i <= Len(q) THEN e[i] ELSE y]
  <1>3. f \in [0 .. Len(Append(q, m)) -> Nat]  BY <1>2
  <1>4. Chain(f, Append(q, m), p, a, y)
    <2>1. f[0] = a /\ f[Len(Append(q, m))] = y  BY <1>1, <1>2 DEF Chain
    <2>2. ASSUME NEW i \in 1 .. Len(Append(q, m))
          PROVE  Follows(Append(q, m)[i], p, f[i - 1], f[i])
      <3>1. CASE i \in 1 .. Len(q)
        <4>1. f[i] = e[i] /\ f[i - 1] = e[i - 1]  BY <1>2, <3>1
        <4>2. Follows(q[i], p, e[i - 1], e[i])  BY <1>1, <3>1 DEF Chain
        <4> QED  BY <1>2, <3>1, <4>1, <4>2
      <3>2. CASE i = Len(q) + 1
        <4>1. f[i] = y /\ f[i - 1] = e[Len(q)] /\ e[Len(q)] = z
          BY <1>1, <1>2, <3>2 DEF Chain
        <4>2. Append(q, m)[i] = m  BY <1>2, <3>2
        <4> QED  BY <4>1, <4>2
      <3> QED  BY <1>2, <3>1, <3>2
    <2> QED  BY <2>1, <2>2 DEF Chain
  <1> QED  BY <1>3, <1>4 DEF Ordered

(* The next frame of the connection begins where the last one ended. *)
LEMMA InSequence ==
    ASSUME NetInv, ClientInv, OrderInv, sound, state \in {1, 2},
           NEW m, Arrives(m)
    PROVE  /\ \E y \in Nat : Follows(m, port, ack, y) /\ Ordered(Tail(toUs), port, y, peer[port].nxt)
           /\ m.port = port => m.seq = ack
           /\ m.port = port /\ m.flags # Reset => (m.flags = SynAck <=> state = 1)
  <1>1. /\ toUs # <<>> /\ m = Head(toUs) /\ m \in In(port) /\ toUs \in Seq(In(port))
        /\ port \in Nat
    BY Bounds DEF Arrives, NetInv
  <1>2. Ordered(toUs, port, ack, peer[port].nxt)  BY DEF OrderInv
  <1>3. PICK y \in Nat : /\ Follows(m, port, ack, y)
                         /\ Ordered(Tail(toUs), port, y, peer[port].nxt)
    BY ONLY <1>1, <1>2, OrderedTail
  <1>4. m.port = port => m.seq = ack  BY <1>3 DEF Follows
  <1>5. ASSUME m.port = port, m.flags # Reset PROVE m.flags = SynAck <=> state = 1
    <2>1. /\ m.flags \in {SynAck, Reset, Data, DataFin} /\ FrameOK(m, peer[m.port])
      BY <1>1, HeadOfUs DEF In
    <2>2. (state = 1 => ack = 0) /\ (state = 2 => ack >= 1) /\ ack \in Nat
      BY Bounds DEF ClientInv
    <2>3. m.flags = SynAck => m.seq = 0  BY <2>1 DEF FrameOK
    <2>4. m.flags # SynAck => m.seq >= 1  BY <1>5, <2>1 DEF FrameOK, Carries
    <2> QED  BY <1>4, <1>5, <2>2, <2>3, <2>4
  <1> QED  BY <1>3, <1>4, <1>5

(* What the peer sends continues the frames on the way. *)
LEMMA OrderAnswers ==
    ASSUME NetInv, OrderInv, UNCHANGED <<conn, sound>>, NEW p \in Ports,
           NEW f \in {SynAck, Reset, Data, DataFin}, NEW s \in 0 .. N + 1,
           NEW d \in Seq(Units), p <= port, ToUs(p, f, s, d),
           NEW st \in {"open", "serve", "closed", "gone"}, NEW n \in 0 .. N + 2,
           PeerIs(p, st, n), s = peer[p].nxt,
           n = IF f = Reset THEN s
               ELSE s + Len(d) + (IF f \in {SynAck, DataFin} THEN 1 ELSE 0)
    PROVE  OrderInv'
  <1> DEFINE m == Sends(p, f, s, d)
             t == [st |-> st, nxt |-> n, again |-> peer[p].again]
             z == peer[port].nxt
             y == peer'[port].nxt
  <1>1. /\ port \in Nat /\ toUs \in Seq(In(port)) /\ peer \in [Ports -> Sides]
        /\ (state # 0 => port >= 1) /\ port \in 0 .. MaxConns
        /\ state' = state /\ port' = port /\ ack' = ack /\ sound' = sound
    BY Bounds DEF NetInv, conn
  <1> SUFFICES ASSUME sound, state \in {1, 2}
               PROVE  Ordered(toUs', port, ack, y)
    BY <1>1 DEF OrderInv
  <1>2. port \in Ports  BY <1>1, Bounds DEF Ports
  <1>3. t \in Sides /\ peer' = [peer EXCEPT ![p] = t]
    BY ONLY NetInv, p \in Ports, st \in {"open", "serve", "closed", "gone"},
            n \in 0 .. N + 2, PeerIs(p, st, n), PeerIsSide
  <1>4. IF p = port THEN z = s /\ y = n ELSE y = z  BY <1>1, <1>2, <1>3
  <1>5. m.port = p /\ m.seq = s /\ m.data = d /\ m.flags = f  BY DEF Sends
  <1>6. m \in In(port) /\ toUs' = Append(toUs, m)
    BY <1>1, Bounds DEF In, Sends, Ports, ToUs
  <1>7. peer[port] \in Sides  BY <1>1, <1>2
  <1>8. z \in Nat /\ n \in Nat  BY <1>7, Bounds DEF Sides
  <1>9. y \in Nat  BY <1>4, <1>8
  <1>10. Ordered(toUs, port, ack, z)  BY DEF OrderInv
  <1> HIDE DEF m, z, y
  <1>11. Follows(m, port, z, y)  BY <1>4, <1>5 DEF Follows, End
  <1>12. Ordered(Append(toUs, m), port, ack, y)
    BY ONLY <1>1, <1>6, <1>8, <1>9, <1>10, <1>11, OrderedAppend
  <1> QED  BY <1>6, <1>12

(* A step that adds no frame and leaves the number of the peer's next unit *)
LEMMA OrderKept ==
    ASSUME NetInv, OrderInv, UNCHANGED <<conn, toUs>>, sound' => sound,
           sound => peer'[port].nxt = peer[port].nxt \/ state \notin {1, 2}
    PROVE  OrderInv'
  <1>1. state' = state /\ port' = port /\ ack' = ack  BY DEF conn
  <1> QED  BY <1>1 DEF OrderInv

LEMMA OrderReceives ==
    ASSUME NetInv, ClientInv, OrderInv, TcpRxOnce
    PROVE  OrderInv'
  <1>1. port' = port /\ peer' = peer /\ sound' = sound  BY Receives DEF env
  <1>2. CASE UNCHANGED <<conn, toUs>>  BY <1>1, <1>2, OrderKept
  <1>3. ASSUME NEW m \in In(port), Arrives(m) PROVE OrderInv'
    <2> SUFFICES ASSUME sound, state' \in {1, 2}
                 PROVE  Ordered(toUs', port, ack', peer[port].nxt)
      BY <1>1 DEF OrderInv
    <2>1. state \in {1, 2}
      BY <1>3 DEF Arrives, Ignores, conn, Connects, Resets, Fills
    <2>2. PICK y \in Nat : /\ Follows(m, port, ack, y)
                           /\ Ordered(Tail(toUs), port, y, peer[port].nxt)
      BY <1>3, <2>1, InSequence
    <2>3. toUs' = Tail(toUs)  BY <1>3 DEF Arrives
    <2>4. /\ m.port = port => m.seq = ack
          /\ m.port = port /\ m.flags # Reset => (m.flags = SynAck <=> state = 1)
      BY <1>3, <2>1, InSequence
    <2>5. m.flags \in {SynAck, Reset, Data, DataFin} /\ ack \in Nat /\ m.seq \in Nat
      BY Bounds DEF In, ClientInv
    <2>6. ack' = y
      <3>1. CASE m.port # port  BY <1>3, <2>2, <3>1 DEF Arrives, Ignores, conn, Follows
      <3>2. CASE m.port = port /\ state = 1 /\ m.flags # SynAck
        BY <1>3, <2>2, <2>4, <3>2 DEF Arrives, Ignores, conn, Follows, Connects, Resets, Fills
      <3>3. CASE m.port = port /\ state = 1 /\ m.flags = SynAck
        <4>1. Connects(m) /\ m.data = <<>>
          <5>1. FrameOK(m, peer[m.port])  BY <1>3, HeadOfUs DEF Arrives
          <5> QED  BY <1>3, <3>3, <5>1 DEF Arrives, Resets, Fills, FrameOK
        <4> QED  BY <2>2, <3>3, <4>1, Kinds DEF Connects, Follows, End
      <3>4. CASE m.port = port /\ state = 2
        <4>1. Fills(m) /\ m.flags # SynAck
          BY <1>3, <2>4, <3>4 DEF Arrives, Connects, Resets, Fills
        <4>2. m.flags # DataFin
          BY <4>1 DEF Fills, Fin
        <4>3. ack' = (IF m.data = <<>> THEN ack ELSE m.seq + Len(m.data)) /\ m.flags = Data
          BY <2>5, <4>1, <4>2 DEF Fills, Fin
        <4>4. y = m.seq + Len(m.data)
          BY <2>2, <2>5, <3>4, <4>3, Kinds DEF Follows, End
        <4> QED  BY <2>4, <2>5, <3>4, <4>3, <4>4
      <3> QED  BY <2>1, <3>1, <3>2, <3>3, <3>4
    <2> QED  BY <2>2, <2>3, <2>6
  <1> QED  BY <1>2, <1>3, Receives

LEMMA OrderOutside ==
    ASSUME NetInv, OrderInv, Outside
    PROVE  OrderInv'
  <1>0. /\ sound \in BOOLEAN /\ N \in Nat /\ peer \in [Ports -> Sides]
        /\ (state # 0 => port \in Ports)
    BY Bounds DEF NetInv, Ports
  <1>1. CASE Lose \/ \E p \in Ports : PeerSilent(p)
    BY <1>1 DEF Lose, PeerSilent, OrderInv
  <1>2. ASSUME NEW p \in Ports, PeerResend(p) PROVE OrderInv'
    BY <1>2 DEF PeerResend, OrderInv
  <1>3. ASSUME NEW p \in Ports, PeerReset(p) PROVE OrderInv'
    <2> DEFINE n == peer[p].nxt
    <2>1. /\ peer[p].st \in {"open", "serve"} /\ PeerIs(p, "gone", n)
          /\ ToUs(p, Reset, n, <<>>) /\ UNCHANGED <<conn, sound>>
      BY <1>3 DEF PeerReset, Reset
    <2>2. p <= port /\ n \in 0 .. N + 1 /\ n \in 0 .. N + 2 /\ <<>> \in Seq(Units)
      BY <1>0, <2>1, SideIs DEF SideOK
    <2> QED  BY <2>1, <2>2, OrderAnswers
  <1>4. ASSUME NEW p \in Ports, PeerSend(p) PROVE OrderInv'
    <2> DEFINE s == peer[p].nxt
    <2>1. peer[p].st = "serve" /\ p <= port /\ s \in 1 .. N + 1 /\ UNCHANGED <<conn, sound>>
      BY <1>4, SideIs DEF PeerSend, SideOK
    <2>2. \/ \E k \in (IF s = 1 THEN First ELSE 1) .. Mss :
                /\ s + k <= N + 1 /\ PeerIs(p, "serve", s + k)
                /\ ToUs(p, Data, s, SubSeq(Stream(p), s, s + k - 1))
          \/ /\ s + Mss > N /\ PeerIs(p, "closed", N + 2)
             /\ ToUs(p, DataFin, s, SubSeq(Stream(p), s, N))
      BY <1>4 DEF PeerSend, Data, DataFin
    <2>3. First \in 1 .. Mss /\ Mss \in Nat  BY Bounds
    <2>4. s = peer[p].nxt  OBVIOUS
    <2> HIDE DEF s
    <2>5. ASSUME NEW k \in (IF s = 1 THEN First ELSE 1) .. Mss,
                 s + k <= N + 1, PeerIs(p, "serve", s + k),
                 ToUs(p, Data, s, SubSeq(Stream(p), s, s + k - 1))
          PROVE  OrderInv'
      <3>1. PICK z \in 0 .. N : z = s + k - 1  BY <1>0, <2>1, <2>3, <2>5
      <3>2. /\ s \in 0 .. N + 1 /\ s + k \in 0 .. N + 2 /\ s <= z + 1 /\ z - s + 1 = k
            /\ k \in Nat
        BY <1>0, <2>1, <2>3, <2>5, <3>1
      <3> DEFINE d == SubSeq(Stream(p), s, z)
      <3>3. d \in Seq(Units) /\ Len(d) = k  BY <2>1, <3>2, StreamPart, Bounds
      <3>4. ToUs(p, Data, s, d)  BY <2>5, <3>1
      <3> HIDE DEF d
      <3>5. s + k = IF Data = Reset THEN s
                    ELSE s + Len(d) + (IF Data \in {SynAck, DataFin} THEN 1 ELSE 0)
        BY <3>2, <3>3, <2>1, Kinds
      <3> QED  BY <2>1, <2>4, <2>5, <3>2, <3>3, <3>4, <3>5, OrderAnswers
    <2>6. ASSUME s + Mss > N, PeerIs(p, "closed", N + 2),
                 ToUs(p, DataFin, s, SubSeq(Stream(p), s, N))
          PROVE  OrderInv'
      <3>1. s \in 0 .. N + 1 /\ N + 2 \in 0 .. N + 2 /\ s <= N + 1 /\ N \in 0 .. N
        BY <1>0, <2>1
      <3> DEFINE d == SubSeq(Stream(p), s, N)
      <3>2. d \in Seq(Units) /\ Len(d) = N - s + 1  BY <2>1, <3>1, StreamPart, Bounds
      <3> HIDE DEF d
      <3>3. N + 2 = IF DataFin = Reset THEN s
                    ELSE s + Len(d) + (IF DataFin \in {SynAck, DataFin} THEN 1 ELSE 0)
        BY <1>0, <2>1, <3>2, Kinds
      <3> QED  BY <2>1, <2>4, <2>6, <3>1, <3>2, <3>3, OrderAnswers DEF d
    <2> QED  BY <2>2, <2>5, <2>6
  <1>5. CASE PeerRx
    <2> DEFINE p == Head(toPeer).port
    <2>1. /\ toPeer # <<>> /\ UNCHANGED <<conn, sound>>
          /\ toPeer \in Seq(Out(port)) /\ port \in 0 .. MaxConns
      BY <1>5 DEF PeerRx, NetInv
    <2>2. Head(toPeer) \in Out(port)  BY <2>1, HeadTailProperties
    <2>3. p \in Ports /\ p <= port  BY <2>1, <2>2, Bounds DEF Out, Ports
    <2>4. SideOK(peer[p])  BY <2>3, SideIs
    <2>5. \/ peer[p].st = "listen" /\ PeerIs(p, "open", 1) /\ ToUs(p, SynAck, 0, <<>>)
          \/ peer[p].st = "listen" /\ PeerIs(p, "gone", 0) /\ ToUs(p, Reset, 0, <<>>)
          \/ peer[p].st = "open" /\ PeerIs(p, "serve", 1) /\ UNCHANGED toUs
          \/ UNCHANGED <<toUs, peer>>
      BY <1>5 DEF PeerRx, SynAck, Reset
    <2> HIDE DEF p
    <2>6. 0 \in 0 .. N + 1 /\ 0 \in 0 .. N + 2 /\ 1 \in 0 .. N + 2 /\ <<>> \in Seq(Units)
          /\ Len(<<>>) = 0
      BY <1>0
    <2>7. CASE peer[p].st = "listen" /\ PeerIs(p, "open", 1) /\ ToUs(p, SynAck, 0, <<>>)
      <3>1. 0 = peer[p].nxt  BY <2>4, <2>7 DEF SideOK
      <3>2. 1 = IF SynAck = Reset THEN 0
                ELSE 0 + Len(<<>>) + (IF SynAck \in {SynAck, DataFin} THEN 1 ELSE 0)
        BY <2>6, Kinds
      <3> QED  BY <2>1, <2>3, <2>6, <2>7, <3>1, <3>2, OrderAnswers
    <2>8. CASE peer[p].st = "listen" /\ PeerIs(p, "gone", 0) /\ ToUs(p, Reset, 0, <<>>)
      <3>1. 0 = peer[p].nxt  BY <2>4, <2>8 DEF SideOK
      <3> QED  BY <2>1, <2>3, <2>6, <2>8, <3>1, OrderAnswers
    <2>9. CASE peer[p].st = "open" /\ PeerIs(p, "serve", 1) /\ UNCHANGED toUs
      <3>1. peer[p].nxt = 1  BY <2>4, <2>9 DEF SideOK
      <3> DEFINE t == [st |-> "serve", nxt |-> 1, again |-> peer[p].again]
      <3>2. t.nxt = 1  OBVIOUS
      <3>3. peer' = [peer EXCEPT ![p] = t]
        <4>1. PeerIs(p, "serve", 1)  BY <2>9
        <4> QED  BY ONLY NetInv, <2>3, <2>6, <4>1, PeerIsSide
      <3> HIDE DEF t
      <3>4. state \in {1, 2} => peer'[port].nxt = peer[port].nxt
        BY <1>0, <2>3, <3>1, <3>2, <3>3
      <3> QED  BY <2>1, <2>9, <3>4, OrderKept
    <2>10. CASE UNCHANGED <<toUs, peer>>
      BY <2>1, <2>10, OrderKept
    <2> QED  BY <2>5, <2>7, <2>8, <2>9, <2>10
  <1> QED  BY <1>1, <1>2, <1>3, <1>4, <1>5 DEF Outside

(* A connection begins with no frame of its own on the way. *)
LEMMA OrderOpens ==
    ASSUME NetInv, TcpOpen
    PROVE  OrderInv'
  <1>1. /\ port' = port + 1 /\ ack' = 0 /\ toUs' = toUs /\ peer' = peer
        /\ port < MaxConns /\ port \in Nat /\ toUs \in Seq(In(port))
        /\ \A q \in Ports : q > port => peer[q] = NoPeer
    BY Bounds DEF TcpOpen, env, NetInv
  <1>2. peer[port + 1].nxt = 0  BY <1>1, Bounds DEF Ports, NoPeer
  <1> DEFINE e == [i \in 0 .. Len(toUs) |-> 0]
             p == port + 1
  <1>3. Len(toUs) \in Nat  BY <1>1, LenProperties
  <1>4. \A i \in 1 .. Len(toUs) : toUs[i].port # p
    <2> SUFFICES ASSUME NEW i \in 1 .. Len(toUs) PROVE toUs[i].port # p  OBVIOUS
    <2>1. toUs[i] \in In(port)  BY <1>1, ElementOfSeq
    <2>2. toUs[i].port \in 1 .. port  BY <2>1 DEF In
    <2> QED  BY <1>1, <2>2
  <1>5. Chain(e, toUs, p, 0, 0)
    <2>1. e[0] = 0 /\ e[Len(toUs)] = 0  BY <1>3
    <2>2. ASSUME NEW i \in 1 .. Len(toUs) PROVE Follows(toUs[i], p, e[i - 1], e[i])
      BY <1>3, <1>4 DEF Follows
    <2> QED  BY <2>1, <2>2 DEF Chain
  <1>6. e \in [0 .. Len(toUs) -> Nat]  OBVIOUS
  <1> HIDE DEF e
  <1>7. Ordered(toUs, port + 1, 0, 0)  BY <1>5, <1>6 DEF Ordered
  <1> QED  BY <1>1, <1>2, <1>7 DEF OrderInv

LEMMA OrderInvHolds == Spec => []OrderInv
  <1>1. ASSUME Init PROVE OrderInv
    BY <1>1 DEF Init, TcpInit, OrderInv
  <1>2. ASSUME NetInv, ClientInv, OrderInv, [Next]_vars PROVE OrderInv'
    <2>1. CASE Get  BY <1>2, <2>1, OrderOpens DEF Get
    <2>2. CASE ConnectRx \/ Recv
      BY <1>2, <2>2, OrderReceives DEF ConnectRx, Recv
    <2>3. CASE ConnectTimeout
      BY <2>3 DEF ConnectTimeout, GiveUp, OrderInv
    <2>4. CASE SendRequest
      BY <1>2, <2>4 DEF SendRequest, TcpSend, env, OrderInv
    <2>5. CASE RecvAgain \/ Chunk
      BY <1>2, <2>5 DEF RecvAgain, Chunk, TcpTake, conn, net, env, OrderInv
    <2>6. CASE Finish
      BY <2>6 DEF Finish, TcpClose, OrderInv
    <2>7. CASE Outside  BY <1>2, <2>7, OrderOutside
    <2>8. CASE UNCHANGED vars
      BY <1>2, <2>8 DEF vars, conn, net, env, OrderInv
    <2> QED  BY <1>2, <2>1, <2>2, <2>3, <2>4, <2>5, <2>6, <2>7, <2>8 DEF Next, Client
  <1> QED  BY <1>1, <1>2, NetInvHolds, ClientInvHolds, PTL DEF Spec

-----------------------------------------------------------------------------
(***************************************************************************)
(* What the client has is the beginning of the peer's stream               *)
(***************************************************************************)
StreamInv ==
    sound =>
      /\ \A k \in 1 .. Len(got) : got[k] = <<port, k>>
      /\ \A k \in 1 .. Avail : InRing[k] = <<port, Len(got) + k>>
      /\ Len(got) = 0 /\ Avail > 0 => Avail >= First
      /\ state = 2 => ack = Len(got) + Avail + 1
      /\ state = 3 => Len(got) + Avail = N /\ ack = N + 2

LEMMA StreamReceives ==
    ASSUME NetInv, ClientInv, OrderInv, StreamInv, pc # "take", TcpRxOnce, got' = got
    PROVE  StreamInv'
  <1>1. port' = port /\ peer' = peer /\ sound' = sound  BY Receives DEF env
  <1> SUFFICES ASSUME sound PROVE StreamInv'
    BY <1>1 DEF StreamInv
  <1>2. /\ RingOK /\ Avail = 0 /\ Len(got) \in Nat /\ N \in Nat /\ Mss \in Nat
        /\ ack \in Nat /\ (state = 1 => got = <<>>) /\ First \in Nat
        /\ \A k \in 1 .. Len(got) : got[k] = <<port, k>>
        /\ state = 2 => ack = Len(got) + 1
    BY Bounds, LenProperties DEF ClientInv, StreamInv
  <1>3. CASE UNCHANGED conn
    <2>1. /\ state' = state /\ ack' = ack /\ Avail' = Avail /\ InRing' = InRing
      BY <1>2, <1>3, RingKept DEF conn
    <2> QED  BY <1>1, <2>1 DEF StreamInv
  <1>4. ASSUME NEW m \in In(port), Arrives(m), m.port = port, Connects(m) PROVE StreamInv'
    <2>1. Avail' = 0 /\ state' = 2 /\ ack' = 1 /\ state = 1
      BY <1>2, <1>4, RingKept DEF Connects
    <2>2. Len(got) = 0  BY <1>2, <2>1
    <2> QED  BY <1>1, <1>2, <2>1, <2>2 DEF StreamInv
  <1>5. ASSUME NEW m \in In(port), Resets(m) PROVE StreamInv'
    <2>1. Avail' = 0 /\ state' = 0  BY <1>2, <1>5, RingKept DEF Resets
    <2> QED  BY <1>1, <1>2, <2>1 DEF StreamInv
  <1>6. ASSUME NEW m \in In(port), Arrives(m), m.port = port, Fills(m) PROVE StreamInv'
    <2>1. /\ state = 2 /\ m.data \in Seq(Units) /\ Len(m.data) \in 0 .. Mss /\ m.seq \in Nat
          /\ m.flags \in {Data, DataFin} => Carries(m)
          /\ m.flags = DataFin => m.seq + Len(m.data) = N + 1
          /\ ack' = (IF m.data = <<>> THEN ack ELSE m.seq + Len(m.data)) + Fin(m)
          /\ state' = 2 + Fin(m) /\ m.flags # Reset
      BY <1>2, <1>6 DEF Fills, In
    <2>2. m.seq = ack /\ m.flags # SynAck  BY <1>6, <2>1, InSequence
    <2>3. m.flags \in {Data, DataFin}  BY <2>1, <2>2 DEF In
    <2>4. /\ Avail' = Len(m.data)
          /\ \A k \in 1 .. Len(m.data) : InRing'[k] = m.data[k]
      BY <1>2, <1>6, <2>1, RingFilled DEF Fills
    <2>5. ASSUME NEW k \in 1 .. Avail' PROVE InRing'[k] = <<port, Len(got) + k>>
      <3>1. m.data[k] = <<port, m.seq + k - 1>>
        BY <1>6, <2>1, <2>3, <2>4 DEF Carries
      <3>2. m.seq + k - 1 = Len(got) + k  BY <1>2, <2>1, <2>2
      <3> QED  BY <2>4, <3>1, <3>2
    <2>6. Len(got) = 0 /\ Avail' > 0 => Avail' >= First
      BY <1>2, <2>1, <2>2, <2>3, <2>4 DEF Carries
    <2>9. m.data = <<>> => Len(m.data) = 0  OBVIOUS
    <2>7. state' = 2 => ack' = Len(got) + Avail' + 1
      <3> SUFFICES ASSUME state' = 2 PROVE ack' = Len(got) + Avail' + 1
        OBVIOUS
      <3>1. Fin(m) = 0  BY <2>1 DEF Fin
      <3> QED  BY <1>2, <2>1, <2>2, <2>4, <2>9, <3>1
    <2>8. state' = 3 => Len(got) + Avail' = N /\ ack' = N + 2
      <3> SUFFICES ASSUME state' = 3 PROVE Len(got) + Avail' = N /\ ack' = N + 2
        OBVIOUS
      <3>1. Fin(m) = 1 /\ m.flags = DataFin  BY <2>1 DEF Fin
      <3>2. m.seq + Len(m.data) = N + 1 /\ m.seq = Len(got) + 1
        BY <1>2, <2>1, <2>2, <3>1
      <3>3. PICK l \in Nat : l = Len(m.data)  BY <2>1
      <3>4. PICK g \in Nat : g = Len(got)  BY <1>2
      <3>5. PICK x \in Nat : x = m.seq  BY <2>1
      <3>6. x + l = N + 1 /\ x = g + 1  BY ONLY <3>2, <3>3, <3>4, <3>5
      <3>7. g + l = N /\ x + l + 1 = N + 2 /\ (l = 0 => x + 1 = N + 2)
        BY ONLY <1>2, <3>6
      <3>8. ack' = N + 2
        <4>1. CASE m.data = <<>>
          <5>1. ack' = x + 1 /\ l = 0  BY <2>1, <2>2, <2>9, <3>1, <3>3, <3>5, <4>1
          <5> QED  BY ONLY <3>7, <5>1
        <4>2. CASE m.data # <<>>
          <5>1. ack' = x + l + 1  BY <2>1, <3>1, <3>3, <3>5, <4>2
          <5> QED  BY ONLY <3>7, <5>1
        <4> QED  BY <4>1, <4>2
      <3> QED  BY <2>4, <3>3, <3>4, <3>7, <3>8
    <2> QED  BY <1>1, <1>2, <2>5, <2>6, <2>7, <2>8 DEF StreamInv
  <1> QED
    <2>1. CASE UNCHANGED conn  BY <1>3, <2>1
    <2>2. CASE ~UNCHANGED conn
      <3>1. PICK m \in In(port) : Arrives(m)  BY <2>2, Receives
      <3>2. m.port = port /\ (Connects(m) \/ Resets(m) \/ Fills(m))
        BY <2>2, <3>1 DEF Arrives, Ignores
      <3> QED  BY <1>4, <1>5, <1>6, <3>1, <3>2
    <2> QED  BY <2>1, <2>2

LEMMA StreamInvHolds == Spec => []StreamInv
  <1>1. ASSUME Init, ClientInv PROVE StreamInv
    <2>1. /\ state = 0 /\ pc = "idle" /\ got = <<>>  BY <1>1 DEF Init, TcpInit
    <2>2. Avail = 0 /\ Len(got) = 0  BY <1>1, <2>1 DEF ClientInv
    <2> QED  BY <2>1, <2>2 DEF StreamInv
  <1>2. ASSUME NetInv, ClientInv, OrderInv, StreamInv, [Next]_vars PROVE StreamInv'
    <2>0. RingOK /\ got \in Seq(Units) /\ Avail \in Nat /\ Len(got) \in Nat
      BY <1>2, RingHolds, LenProperties DEF ClientInv
    <2>1. CASE Get
      <3>1. /\ Avail' = 0 /\ got' = <<>> /\ state' = 1
        BY <2>0, <2>1, RingCleared DEF Get, TcpOpen
      <3>2. Len(got') = 0  BY <3>1
      <3> QED  BY <3>1, <3>2 DEF StreamInv
    <2>2. CASE ConnectRx
      <3>1. pc = "connect" /\ TcpRxOnce /\ got' = got  BY <2>2 DEF ConnectRx, http
      <3> QED  BY <1>2, <3>1, StreamReceives
    <2>3. CASE Recv
      <3>1. pc = "read" /\ TcpRxOnce /\ got' = got  BY <2>3 DEF Recv
      <3> QED  BY <1>2, <3>1, StreamReceives
    <2>4. CASE ConnectTimeout \/ Finish
      <3>1. /\ state' = 0 /\ sound' = sound
            /\ UNCHANGED <<port, rx_buf, rx_head, rx_tail, got>>
        BY <2>4 DEF ConnectTimeout, GiveUp, Finish, TcpClose, env
      <3>2. Avail' = Avail /\ InRing' = InRing  BY <3>1, RingKept
      <3> QED  BY <1>2, <3>1, <3>2 DEF StreamInv
    <2>5. CASE SendRequest \/ RecvAgain
      <3>1. /\ sound' = sound
            /\ UNCHANGED <<state, port, ack, rx_buf, rx_head, rx_tail, got>>
        BY <2>5 DEF SendRequest, TcpSend, RecvAgain, conn, env
      <3>2. Avail' = Avail /\ InRing' = InRing  BY <3>1, RingKept
      <3> QED  BY <1>2, <3>1, <3>2 DEF StreamInv
    <2>6. CASE Chunk
      <3>1. /\ Len(got') = Len(got) + Avail
            /\ \A k \in 1 .. Len(got) + Avail :
                 got'[k] = IF k <= Len(got) THEN got[k] ELSE InRing[k - Len(got)]
            /\ Avail' = 0 /\ UNCHANGED <<state, port, ack, sound>>
        BY <1>2, <2>6, ChunkTakes DEF env
      <3> SUFFICES ASSUME sound PROVE StreamInv'
        BY <3>1 DEF StreamInv
      <3>2. ASSUME NEW k \in 1 .. Len(got') PROVE got'[k] = <<port, k>>
        <4>1. CASE k <= Len(got)
          BY <1>2, <2>0, <3>1, <4>1 DEF StreamInv
        <4>2. CASE k > Len(got)
          <5>1. PICK j \in 1 .. Avail : j = k - Len(got)  BY <2>0, <3>1, <4>2
          <5>2. InRing[j] = <<port, Len(got) + j>>  BY <1>2 DEF StreamInv
          <5>3. Len(got) + j = k  BY <2>0, <3>1, <5>1
          <5> QED  BY <2>0, <3>1, <4>2, <5>1, <5>2, <5>3
        <4> QED  BY <2>0, <3>1, <4>1, <4>2
      <3>3. /\ state' = 2 => ack' = Len(got') + Avail' + 1
            /\ state' = 3 => Len(got') + Avail' = N /\ ack' = N + 2
        BY <1>2, <2>0, <3>1 DEF StreamInv
      <3> QED  BY <3>1, <3>2, <3>3 DEF StreamInv
    <2>7. CASE (Outside /\ UNCHANGED http) \/ UNCHANGED vars
      <3>1. UNCHANGED <<conn, http>>
        BY <2>7 DEF Outside, PeerRx, Lose, PeerSend, PeerReset, PeerSilent, PeerResend, vars
      <3>0. sound' = sound \/ sound' = FALSE
        BY <2>7 DEF Outside, PeerRx, Lose, PeerSend, PeerReset, PeerSilent, PeerResend, vars, env
      <3>2. UNCHANGED <<state, port, ack, rx_buf, rx_head, rx_tail, got>>
        BY <3>1 DEF conn, http
      <3>3. Avail' = Avail /\ InRing' = InRing  BY <3>2, RingKept
      <3> QED  BY <1>2, <3>0, <3>2, <3>3 DEF StreamInv
    <2> QED  BY <1>2, <2>1, <2>2, <2>3, <2>4, <2>5, <2>6, <2>7 DEF Next, Client
  <1> QED
    BY <1>1, <1>2, NetInvHolds, ClientInvHolds, OrderInvHolds, PTL DEF Spec

(* Everything the client has acknowledged has been handed to http_get or waits
   in the ring, as long as the link loses nothing: tcp_rx_once acknowledges
   more than the ring takes only if the ring is too small for one segment. *)
THEOREM AcknowledgedIsKept == Spec => []AckedIsKept
  <1>1. ASSUME NetInv, ClientInv, StreamInv PROVE AckedIsKept
    <2> SUFFICES ASSUME sound, state \in {2, 3}
                 PROVE  got \o InRing
                          = SubSeq(Stream(port), 1, ack - (IF state = 3 THEN 2 ELSE 1))
      BY DEF AckedIsKept
    <2>1. /\ got \in Seq(Units) /\ InRing \in Seq(Units) /\ Len(InRing) = Avail
          /\ Avail \in Nat /\ Len(got) \in Nat /\ N \in Nat /\ port \in 0 .. MaxConns
          /\ ack \in Nat
      BY <1>1, RingHolds, LenProperties, Bounds DEF ClientInv, NetInv
    <2>2. PICK g \in Nat : g = Len(got)  BY <2>1
    <2>3. PICK z \in 0 .. N : z = g + Avail /\ z = ack - (IF state = 3 THEN 2 ELSE 1)
      <3>1. CASE state = 2
        <4>1. ack = g + Avail + 1 /\ ack \in 1 .. N + 1
          BY <1>1, <2>2, <3>1 DEF StreamInv, ClientInv
        <4> QED  BY <2>1, <3>1, <4>1
      <3>2. CASE state = 3
        <4>1. g + Avail = N /\ ack = N + 2  BY <1>1, <2>2, <3>2 DEF StreamInv
        <4> QED  BY <2>1, <3>2, <4>1
      <3> QED  BY <3>1, <3>2
    <2> DEFINE s == got \o InRing
               t == SubSeq(Stream(port), 1, z)
    <2>4. /\ s \in Seq(Units) /\ Len(s) = z
          /\ \A k \in 1 .. z : s[k] = IF k <= g THEN got[k] ELSE InRing[k - g]
      BY <2>1, <2>2, <2>3, ConcatProperties
    <2>5. t \in Seq(Units) /\ Len(t) = z /\ \A k \in 1 .. z : t[k] = <<port, k>>
      <3>1. 1 \in 1 .. N + 1 /\ 1 <= z + 1 /\ z - 1 + 1 = z  BY <2>1
      <3>2. /\ t \in Seq(Units) /\ Len(t) = z - 1 + 1
            /\ \A k \in 1 .. z - 1 + 1 : t[k] = <<port, 1 + k - 1>>
        BY <2>1, <3>1, StreamPart
      <3>3. \A k \in 1 .. z : 1 + k - 1 = k  OBVIOUS
      <3> QED  BY <3>1, <3>2, <3>3
    <2> HIDE DEF s, t
    <2>6. ASSUME NEW k \in 1 .. z PROVE s[k] = <<port, k>>
      <3>1. CASE k <= g  BY <1>1, <2>2, <2>4, <3>1 DEF StreamInv
      <3>2. CASE k > g
        <4>0. k \in Nat /\ z \in Nat /\ k <= z /\ Avail \in Nat /\ z = g + Avail
          BY <2>1, <2>3
        <4>1. PICK j \in 1 .. Avail : j = k - g  BY ONLY g \in Nat, <4>0, <3>2
        <4>2. InRing[j] = <<port, g + j>>  BY <1>1, <2>2 DEF StreamInv
        <4>3. g + j = k  BY <2>2, <4>1
        <4>4. ~(k <= g)  BY ONLY g \in Nat, <4>0, <3>2
        <4>5. s[k] = InRing[k - g]  BY <2>4, <4>4
        <4> QED  BY <4>1, <4>2, <4>3, <4>5
      <3> QED  BY <2>1, <2>2, <3>1, <3>2
    <2>7. s = t  BY <2>4, <2>5, <2>6, SeqEqual
    <2> QED  BY <2>3, <2>7 DEF s, t
  <1> QED  BY <1>1, NetInvHolds, ClientInvHolds, StreamInvHolds, PTL

-----------------------------------------------------------------------------
(***************************************************************************)
(* What http_get makes of it                                               *)
(***************************************************************************)
TypeInv ==
    /\ hdr_buf \in Seq(Units) /\ Len(hdr_buf) <= HdrCap
    /\ header_done \in BOOLEAN /\ status \in {-1, 0, 200}

LEMMA TypeInvHolds == Spec => []TypeInv
  <1>1. ASSUME Init PROVE TypeInv
    <2>1. hdr_buf = <<>> /\ header_done = FALSE /\ status = -1  BY <1>1 DEF Init
    <2>2. hdr_buf \in Seq(Units) /\ Len(hdr_buf) <= HdrCap
      BY <2>1, EmptySeq, Bounds
    <2> QED  BY <2>1, <2>2 DEF TypeInv
  <1>2. ASSUME ClientInv, TypeInv, [Next]_vars PROVE TypeInv'
    <2>1. CASE Get
      <3>1. hdr_buf' = <<>> /\ header_done' = FALSE /\ status' = -1  BY <2>1 DEF Get
      <3>2. hdr_buf' \in Seq(Units) /\ Len(hdr_buf') <= HdrCap
        BY <3>1, EmptySeq, Bounds
      <3> QED  BY <3>1, <3>2 DEF TypeInv
    <2>2. CASE Chunk
      <3> DEFINE h == Upto(hdr_buf \o Taken(RespCap), HdrCap)
      <3>1. Taken(RespCap) \in Seq(Units)
        BY <1>2, <2>2, ChunkTakes, RingHolds DEF ClientInv
      <3>2. hdr_buf \o Taken(RespCap) \in Seq(Units)
        BY <1>2, <3>1, ConcatProperties DEF TypeInv
      <3>3. h \in Seq(Units) /\ Len(h) <= HdrCap  BY <3>2, Bounds, UptoIs
      <3>4. /\ hdr_buf' \in {hdr_buf, h} /\ header_done' \in BOOLEAN
            /\ status' \in {status, StatusOf(h)}
        BY <1>2, <2>2 DEF Chunk, TypeInv
      <3>5. StatusOf(h) \in {0, 200}  BY DEF StatusOf
      <3> HIDE DEF h
      <3> QED  BY <1>2, <3>3, <3>4, <3>5 DEF TypeInv
    <2>3. CASE UNCHANGED <<hdr_buf, header_done, status>>
      BY <1>2, <2>3 DEF TypeInv
    <2> QED
      BY <1>2, <2>1, <2>2, <2>3
         DEF Next, Client, ConnectRx, ConnectTimeout, GiveUp, SendRequest, Recv, RecvAgain,
             Finish, http, vars
  <1> QED  BY <1>1, <1>2, ClientInvHolds, PTL DEF Spec

(* The variables have their types (struct net_tcp, http_get's buffers); the
   ring's indices stay inside it and the header inside hdr_buf. *)
THEOREM TypeCorrect == Spec => []TypeOK
  <1>1. ASSUME NetInv, ClientInv, TypeInv PROVE TypeOK
    BY <1>1 DEF NetInv, ClientInv, RingOK, Places, TypeInv, TypeOK
  <1> QED  BY <1>1, NetInvHolds, ClientInvHolds, TypeInvHolds, PTL

(* The header comes in the first segment and fits in hdr_buf. *)
HeaderWhole == HeaderLen <= First /\ HeaderLen <= HdrCap

BodyInv ==
    /\ pc # "idle" \/ header_done => port \in Ports
    /\ sound =>
         /\ ~header_done => Len(got) = 0 /\ hdr_buf = <<>> /\ body = <<>> /\ status = -1
         /\ header_done =>
              /\ status = 200 /\ body \in Seq(Units)
              /\ Len(got) >= HeaderLen /\ Len(body) = Len(got) - HeaderLen
              /\ \A k \in 1 .. Len(body) : body[k] = <<port, HeaderLen + k>>
         /\ pc \in {"read", "take"} /\ state = 0 => peer[port].st = "gone"
         /\ pc = "idle" /\ header_done => peer[port].st = "gone" \/ Len(got) = N

LEMMA GoneForGood ==
    ASSUME NetInv, Outside, NEW q \in Ports, peer[q].st = "gone"
    PROVE  peer'[q].st = "gone"
  <1>1. peer \in [Ports -> Sides]  BY DEF NetInv
  <1>2. ASSUME NEW p \in Ports, peer[p].st # "gone", NEW s, NEW n, PeerIs(p, s, n)
        PROVE  peer'[q] = peer[q]
    BY <1>1, <1>2 DEF PeerIs
  <1>3. CASE PeerRx
    <2> DEFINE p == Head(toPeer).port
    <2>1. p \in Ports
      <3>1. toPeer \in Seq(Out(port)) /\ toPeer # <<>> /\ port \in 0 .. MaxConns
        BY <1>3 DEF NetInv, PeerRx
      <3>2. Head(toPeer) \in Out(port)  BY <3>1, HeadTailProperties
      <3> QED  BY <3>1, <3>2, Bounds DEF Out, Ports
    <2>2. \/ peer[p].st = "listen" /\ PeerIs(p, "open", 1)
          \/ peer[p].st = "listen" /\ PeerIs(p, "gone", 0)
          \/ peer[p].st = "open" /\ PeerIs(p, "serve", 1)
          \/ peer' = peer
      BY <1>3 DEF PeerRx
    <2> HIDE DEF p
    <2> QED  BY <1>2, <2>1, <2>2
  <1>4. CASE Lose  BY <1>4 DEF Lose
  <1>5. ASSUME NEW p \in Ports, PeerSend(p) \/ PeerReset(p) \/ PeerSilent(p)
        PROVE  peer'[q].st = "gone"
    <2>1. peer[p].st # "gone" /\ \E s, n : PeerIs(p, s, n)
      BY <1>5 DEF PeerSend, PeerReset, PeerSilent
    <2> QED  BY <1>2, <2>1
  <1>6. ASSUME NEW p \in Ports, PeerResend(p) PROVE peer'[q].st = "gone"
    BY <1>1, <1>6 DEF PeerResend
  <1> QED  BY <1>3, <1>4, <1>5, <1>6 DEF Outside

(* The first chunk holds the header, and ends it at its place HeaderLen. *)
LEMMA HeaderFound ==
    ASSUME HeaderWhole, NEW t \in Seq(Units), NEW p, Len(t) >= First,
           \A k \in 1 .. Len(t) : t[k] = <<p, k>>
    PROVE  LET h == Upto(<<>> \o t, HdrCap)
           IN  BodyStart(h) = HeaderLen /\ StatusOf(h) = 200
  <1> DEFINE h == Upto(<<>> \o t, HdrCap)
             E == {i \in DOMAIN h : h[i][2] = HeaderLen}
  <1>1. /\ HeaderLen \in Nat \ {0} /\ HdrCap \in Nat /\ HeaderLen <= HdrCap
        /\ HeaderLen <= Len(t) /\ Len(t) \in Nat
    BY Bounds, LenProperties DEF HeaderWhole
  <1>2. h = Upto(t, HdrCap)  BY ConcatEmptySeq
  <1>3. /\ h \in Seq(Units) /\ Len(h) = (IF Len(t) < HdrCap THEN Len(t) ELSE HdrCap)
        /\ \A k \in 1 .. Len(h) : h[k] = t[k]
    BY <1>1, <1>2, UptoIs
  <1> HIDE DEF h
  <1>4. DOMAIN h = 1 .. Len(h) /\ HeaderLen \in 1 .. Len(h) /\ 1 \in 1 .. Len(h)
    BY <1>1, <1>3, LenProperties
  <1>5. \A k \in 1 .. Len(h) : h[k][2] = k  BY <1>1, <1>3
  <1>6. E = {HeaderLen}  BY <1>4, <1>5
  <1>7. BodyStart(h) = HeaderLen
    <2> HIDE DEF E
    <2>1. BodyStart(h) = IF E = {} THEN 0 ELSE CHOOSE i \in E : \A j \in E : i <= j
      BY DEF BodyStart, E
    <2>2. HeaderLen <= HeaderLen  BY <1>1
    <2>3. (CHOOSE i \in E : \A j \in E : i <= j) = HeaderLen  BY <1>6, <2>2
    <2> QED  BY <1>6, <2>1, <2>3
  <1>8. StatusOf(h) = 200  BY <1>4, <1>5 DEF StatusOf
  <1> QED  BY <1>7, <1>8 DEF h

LEMMA BodyChunk ==
    ASSUME HeaderWhole, NetInv, ClientInv, StreamInv, BodyInv, Chunk, sound
    PROVE  /\ header_done' /\ status' = 200 /\ body' \in Seq(Units)
           /\ Len(got') >= HeaderLen /\ Len(body') = Len(got') - HeaderLen
           /\ \A k \in 1 .. Len(body') : body'[k] = <<port, HeaderLen + k>>
  <1> DEFINE t == Taken(RespCap)
             h == Upto(hdr_buf \o t, HdrCap)
             s == BodyStart(h)
  <1>1. /\ t = InRing /\ Len(got') = Len(got) + Avail /\ Avail > 0
        /\ \/ header_done /\ body' = body \o t /\ UNCHANGED <<hdr_buf, header_done, status>>
           \/ /\ ~header_done /\ s > 0 /\ header_done' = TRUE /\ status' = StatusOf(h)
              /\ body' = body \o SubSeq(t, s + 1, Len(t))
           \/ ~header_done /\ s = 0
    BY ChunkTakes DEF Chunk
  <1>2. /\ t \in Seq(Units) /\ Len(t) = Avail /\ Avail \in Nat /\ got \in Seq(Units)
        /\ Len(got) \in Nat /\ HeaderLen \in Nat \ {0}
    BY <1>1, RingHolds, LenProperties, Bounds DEF ClientInv
  <1>3. PICK g \in Nat : g = Len(got)  BY <1>2
  <1>4. PICK A \in Nat : A = Avail  BY <1>2
  <1>5. \A k \in 1 .. A : t[k] = <<port, g + k>>  BY <1>1, <1>3, <1>4 DEF StreamInv
  <1> HIDE DEF t
  <1>6. CASE header_done
    <2>1. /\ status = 200 /\ body \in Seq(Units) /\ g >= HeaderLen /\ Len(body) = g - HeaderLen
          /\ \A k \in 1 .. Len(body) : body[k] = <<port, HeaderLen + k>>
      BY <1>3, <1>6 DEF BodyInv
    <2>2. body' = body \o t /\ header_done' = header_done /\ status' = status
      BY <1>1, <1>6
    <2>3. PICK b \in Nat : b = Len(body) /\ HeaderLen + b = g  BY <1>2, <2>1
    <2>4. /\ body' \in Seq(Units) /\ Len(body') = b + A
          /\ \A k \in 1 .. b + A : body'[k] = IF k <= b THEN body[k] ELSE t[k - b]
      BY <1>2, <1>4, <2>1, <2>2, <2>3, ConcatProperties
    <2>5. ASSUME NEW k \in 1 .. b + A PROVE body'[k] = <<port, HeaderLen + k>>
      <3>1. CASE k <= b  BY <2>1, <2>3, <2>4, <3>1
      <3>2. CASE ~(k <= b)
        <4>1. PICK j \in 1 .. A : j = k - b  BY ONLY k \in 1 .. b + A, b \in Nat, A \in Nat, <3>2
        <4>2. body'[k] = t[j]  BY <2>4, <3>2, <4>1
        <4>3. t[j] = <<port, g + j>>  BY <1>5
        <4>4. g + j = HeaderLen + k
          BY ONLY <1>2, <2>3, <4>1, k \in 1 .. b + A, b \in Nat, A \in Nat, g \in Nat
        <4> QED  BY <4>2, <4>3, <4>4
      <3> QED  BY <3>1, <3>2
    <2>10. PICK y \in Nat : y = g + A  OBVIOUS
    <2>11. y >= HeaderLen /\ b + A = y - HeaderLen
      BY ONLY <1>2, <2>3, <2>10, g \in Nat, A \in Nat
    <2>6. Len(got') = y  BY <1>1, <1>3, <1>4, <2>10
    <2>7. header_done' /\ status' = 200  BY <1>6, <2>1, <2>2
    <2>8. /\ Len(got') >= HeaderLen /\ Len(body') = Len(got') - HeaderLen
          /\ body' \in Seq(Units)
      BY <2>4, <2>6, <2>11
    <2>9. \A k \in 1 .. Len(body') : body'[k] = <<port, HeaderLen + k>>
      BY <2>4, <2>5
    <2> QED  BY <2>7, <2>8, <2>9
  <1>7. CASE ~header_done
    <2>1. g = 0 /\ hdr_buf = <<>> /\ body = <<>>  BY <1>3, <1>7 DEF BodyInv
    <2>2. A >= First /\ A >= HeaderLen /\ First \in Nat
      <3>1. A >= First /\ First \in Nat
        BY <1>1, <1>3, <1>4, <2>1, Bounds DEF StreamInv
      <3> QED  BY <1>2, <3>1 DEF HeaderWhole
    <2>3. \A k \in 1 .. A : t[k] = <<port, k>>  BY <1>5, <2>1
    <2>4. s = HeaderLen /\ StatusOf(h) = 200
      <3>1. Len(t) >= First /\ \A k \in 1 .. Len(t) : t[k] = <<port, k>>
        BY <1>2, <1>4, <2>2, <2>3
      <3> HIDE DEF h
      <3>2. h = Upto(<<>> \o t, HdrCap)  BY <2>1 DEF h
      <3> QED  BY <1>2, <3>1, <3>2, HeaderFound
    <2> HIDE DEF s, h
    <2>5. /\ header_done' = TRUE /\ status' = 200
          /\ body' = <<>> \o SubSeq(t, HeaderLen + 1, A)
      BY <1>1, <1>2, <1>4, <1>7, <2>1, <2>4
    <2> DEFINE d == SubSeq(t, HeaderLen + 1, A)
    <2>6. PICK x \in Nat : x = HeaderLen + 1  BY <1>2
    <2>7. /\ d \in Seq(Units) /\ Len(d) = (IF x <= A THEN A - x + 1 ELSE 0)
          /\ \A i \in 1 .. A - x + 1 : d[i] = t[x + i - 1]
      <3>1. \A i \in x .. A : t[i] \in Units  BY <1>2, <1>4, <2>6, ElementOfSeq
      <3> QED  BY <2>6, <3>1, SubSeqProperties
    <2>8. Len(d) = A - HeaderLen /\ A - x + 1 = A - HeaderLen
      BY <1>2, <2>2, <2>6, <2>7
    <2> HIDE DEF d
    <2>9. body' = d  BY <2>5, <2>7, ConcatEmptySeq DEF d
    <2>10. ASSUME NEW k \in 1 .. A - HeaderLen PROVE d[k] = <<port, HeaderLen + k>>
      <3>1. PICK i \in 1 .. A : i = HeaderLen + k
        BY ONLY <1>2, <2>2, A \in Nat, k \in 1 .. A - HeaderLen
      <3>2. x + k - 1 = i  BY ONLY <1>2, <2>6, <3>1, k \in 1 .. A - HeaderLen, A \in Nat
      <3>3. d[k] = t[i]  BY <2>7, <2>8, <3>2
      <3>4. t[i] = <<port, i>>  BY <2>3
      <3> QED  BY <3>1, <3>3, <3>4
    <2>11. Len(got') = A  BY <1>1, <1>3, <1>4, <2>1
    <2> QED  BY <2>2, <2>5, <2>7, <2>8, <2>9, <2>10, <2>11
  <1> QED  BY <1>6, <1>7

LEMMA BodyInvHolds ==
    ASSUME HeaderWhole
    PROVE  Spec => []BodyInv
  <1>1. ASSUME Init PROVE BodyInv
    <2>1. /\ pc = "idle" /\ header_done = FALSE /\ got = <<>> /\ hdr_buf = <<>>
          /\ body = <<>> /\ status = -1
      BY <1>1 DEF Init
    <2>2. Len(got) = 0  BY <2>1
    <2> QED  BY <2>1, <2>2 DEF BodyInv
  <1>2. ASSUME NetInv, ClientInv, StreamInv, BodyInv, [Next]_vars PROVE BodyInv'
    <2>0. /\ port \in 0 .. MaxConns /\ N \in Nat /\ Len(got) \in Nat
          /\ HeaderLen \in Nat \ {0}
      BY <1>2, LenProperties, Bounds DEF NetInv, ClientInv
    <2>1. CASE Get
      <3>1. /\ port' = port + 1 /\ port < MaxConns /\ pc' = "connect"
            /\ header_done' = FALSE /\ got' = <<>> /\ hdr_buf' = <<>>
            /\ body' = <<>> /\ status' = -1
        BY <2>1 DEF Get, TcpOpen
      <3>2. port' \in Ports  BY <2>0, <3>1, Bounds DEF Ports
      <3>3. Len(got') = 0  BY <3>1
      <3> QED  BY <3>1, <3>2, <3>3 DEF BodyInv
    <2>2. CASE ConnectRx
      <3>1. /\ pc = "connect" /\ TcpRxOnce /\ UNCHANGED http  BY <2>2 DEF ConnectRx
      <3>2. UNCHANGED <<port, env>>  BY <1>2, <3>1, Receives
      <3>3. /\ pc' = "connect" /\ pc = "connect" /\ port' = port /\ sound' = sound
            /\ UNCHANGED <<got, header_done, hdr_buf, body, status>>
        BY <3>1, <3>2 DEF http, env
      <3> QED  BY <1>2, <3>3 DEF BodyInv
    <2>3. CASE ConnectTimeout
      <3>1. /\ pc = "connect" /\ pc' = "idle" /\ port' = port /\ sound' = sound
            /\ peer' = peer /\ UNCHANGED <<got, header_done, hdr_buf, body, status>>
        BY <2>3 DEF ConnectTimeout, GiveUp, env
      <3>2. got = <<>>  BY <1>2, <3>1 DEF ClientInv
      <3>3. sound => ~header_done  BY <1>2, <2>0, <3>2 DEF BodyInv
      <3> QED  BY <1>2, <3>1, <3>3 DEF BodyInv
    <2>4. CASE SendRequest
      <3>1. /\ pc = "connect" /\ pc' = "read" /\ state' = state /\ state = 2
            /\ port' = port /\ sound' = sound
            /\ UNCHANGED <<got, header_done, hdr_buf, body, status>>
        BY <2>4 DEF SendRequest, TcpSend, env
      <3> QED  BY <1>2, <3>1 DEF BodyInv
    <2>5. CASE Recv
      <3>1. /\ pc = "read" /\ pc' = "take" /\ TcpRxOnce
            /\ UNCHANGED <<got, header_done, hdr_buf, body, status>>
        BY <2>5 DEF Recv
      <3>2. port' = port /\ sound' = sound /\ peer' = peer
        BY <1>2, <3>1, Receives DEF env
      <3>3. ASSUME sound, state' = 0 PROVE peer[port].st = "gone"
        <4>1. CASE state = 0  BY <1>2, <3>1, <3>3, <4>1 DEF BodyInv
        <4>2. CASE state # 0
          <5>1. state \in {2, 3}  BY <1>2, <3>1, <4>2 DEF ClientInv
          <5>2. ~UNCHANGED conn  BY <3>3, <4>2 DEF conn
          <5>3. PICK m \in In(port) : Arrives(m)  BY <1>2, <3>1, <5>2, Receives
          <5>4. m.port = port /\ Resets(m)
            BY <3>3, <5>1, <5>2, <5>3 DEF Arrives, Ignores, Connects, Fills, Fin
          <5> QED  BY <5>4 DEF Resets
        <4> QED  BY <4>1, <4>2
      <3> QED  BY <1>2, <3>1, <3>2, <3>3 DEF BodyInv
    <2>6. CASE RecvAgain
      <3>1. /\ pc = "take" /\ pc' = "read"
            /\ UNCHANGED <<state, port, sound, peer, got, header_done, hdr_buf, body, status>>
        BY <2>6 DEF RecvAgain, conn, env
      <3> QED  BY <1>2, <3>1 DEF BodyInv
    <2>7. CASE Chunk
      <3>1. /\ pc = "take" /\ pc' = "read" /\ UNCHANGED <<state, port, sound, peer>>
        BY <1>2, <2>7, ChunkTakes DEF env
      <3>2. port \in Ports  BY <1>2, <3>1 DEF BodyInv
      <3>3. ASSUME sound
            PROVE  /\ header_done' /\ status' = 200 /\ body' \in Seq(Units)
                   /\ Len(got') >= HeaderLen /\ Len(body') = Len(got') - HeaderLen
                   /\ \A k \in 1 .. Len(body') : body'[k] = <<port, HeaderLen + k>>
        BY <1>2, <2>7, <3>3, BodyChunk
      <3> QED  BY <1>2, <3>1, <3>2, <3>3 DEF BodyInv
    <2>8. CASE Finish
      <3>1. /\ pc = "take" /\ pc' = "idle" /\ Avail = 0 /\ state # 2
            /\ UNCHANGED <<port, sound, peer, got, header_done, hdr_buf, body, status>>
        BY <2>8 DEF Finish, TcpClose, env
      <3>2. ASSUME sound PROVE peer[port].st = "gone" \/ Len(got) = N
        <4>1. state \in {0, 3}  BY <1>2, <3>1 DEF ClientInv
        <4>2. CASE state = 0  BY <1>2, <3>1, <3>2, <4>2 DEF BodyInv
        <4>3. CASE state = 3  BY <1>2, <2>0, <3>1, <3>2, <4>3 DEF StreamInv
        <4> QED  BY <4>1, <4>2, <4>3
      <3> QED  BY <1>2, <3>1, <3>2 DEF BodyInv
    <2>9. CASE Outside /\ UNCHANGED http
      <3>1. /\ UNCHANGED <<conn, http>> /\ (sound' = sound \/ sound' = FALSE)
        BY <2>9 DEF Outside, PeerRx, Lose, PeerSend, PeerReset, PeerSilent, PeerResend
      <3>2. UNCHANGED <<state, port, pc, got, header_done, hdr_buf, body, status>>
        BY <3>1 DEF conn, http
      <3>3. port \in Ports /\ peer[port].st = "gone" => peer'[port].st = "gone"
        BY <1>2, <2>9, GoneForGood
      <3> QED  BY <1>2, <3>1, <3>2, <3>3 DEF BodyInv
    <2>10. CASE UNCHANGED vars
      BY <1>2, <2>10 DEF vars, conn, env, http, BodyInv
    <2> QED
      BY <1>2, <2>1, <2>2, <2>3, <2>4, <2>5, <2>6, <2>7, <2>8, <2>9, <2>10
         DEF Next, Client
  <1> QED
    BY <1>1, <1>2, NetInvHolds, ClientInvHolds, StreamInvHolds, PTL DEF Spec

(* What the callback gets is the beginning of the body, and all of it when the
   call returns 200 after the peer has closed: true of every response whose
   header comes whole in the first segment and fits in hdr_buf.  The run
   http_split shows that it is not true of the others. *)
THEOREM CallbackGetsBody ==
    ASSUME HeaderWhole
    PROVE  Spec => []BodyExact
  <1>1. ASSUME NetInv, ClientInv, StreamInv, BodyInv PROVE BodyExact
    <2> SUFFICES ASSUME sound
                 PROVE  /\ Len(body) <= Len(Body) /\ body = SubSeq(Body, 1, Len(body))
                        /\ pc = "idle" /\ status = 200 /\ peer[port].st = "closed"
                             => body = Body
      BY DEF BodyExact
    <2>1. /\ N \in Nat /\ HeaderLen \in 1 .. N /\ got \in Seq(Units) /\ Len(got) \in Nat
          /\ port \in 0 .. MaxConns
      BY <1>1, LenProperties, Bounds DEF ClientInv, NetInv
    <2>2. PICK L \in Nat : L = N - HeaderLen  BY <2>1
    <2>3. /\ Body \in Seq(Units) /\ Len(Body) = L
          /\ \A k \in 1 .. L : Body[k] = <<port, HeaderLen + k>>
      <3>1. PICK a \in 1 .. N + 1 : a = HeaderLen + 1  BY <2>1
      <3>2. N \in 0 .. N /\ a <= N + 1 /\ N - a + 1 = L  BY <2>1, <2>2, <3>1
      <3>3. /\ Body \in Seq(Units) /\ Len(Body) = N - a + 1
            /\ \A k \in 1 .. N - a + 1 : Body[k] = <<port, a + k - 1>>
        BY <2>1, <3>1, <3>2, StreamPart DEF Body
      <3>4. \A k \in 1 .. L : a + k - 1 = HeaderLen + k  BY <2>1, <3>1
      <3> QED  BY <3>2, <3>3, <3>4
    <2>4. Len(got) <= N
      <3>1. CASE Len(got) = 0  BY <2>1, <3>1
      <3>2. CASE Len(got) > 0
        <4>1. Len(got) \in 1 .. Len(got)  BY <2>1, <3>2
        <4>2. got[Len(got)] = <<port, Len(got)>>  BY <1>1, <4>1 DEF StreamInv
        <4>3. got[Len(got)] \in Units  BY <2>1, <4>1, ElementOfSeq
        <4> QED  BY <2>1, <4>2, <4>3 DEF Units
      <3> QED  BY <2>1, <3>1, <3>2
    <2>5. /\ body \in Seq(Units) /\ Len(body) \in 0 .. L
          /\ \A k \in 1 .. Len(body) : body[k] = <<port, HeaderLen + k>>
      <3>1. CASE ~header_done
        <4>1. body = <<>>  BY <1>1, <3>1 DEF BodyInv
        <4> QED  BY <4>1, <2>2
      <3>2. CASE header_done
        BY <1>1, <2>1, <2>2, <2>4, <3>2 DEF BodyInv
      <3> QED  BY <3>1, <3>2
    <2>6. body = SubSeq(Body, 1, Len(body))
      <3>1. PICK n \in 0 .. L : n = Len(body)  BY <2>5
      <3> DEFINE d == SubSeq(Body, 1, n)
      <3>2. \A i \in 1 .. n : Body[i] \in Units  BY <2>2, <2>3, <3>1, ElementOfSeq
      <3>3. /\ d \in Seq(Units) /\ Len(d) = (IF 1 <= n THEN n - 1 + 1 ELSE 0)
            /\ \A i \in 1 .. n - 1 + 1 : d[i] = Body[1 + i - 1]
        BY <2>2, <3>2, SubSeqProperties
      <3> HIDE DEF d
      <3>4. Len(d) = n /\ \A i \in 1 .. n : d[i] = Body[i]  BY <2>2, <3>3
      <3>5. ASSUME NEW i \in 1 .. n PROVE d[i] = body[i]
        <4>1. i \in 1 .. L  BY ONLY <2>2, n \in 0 .. L, i \in 1 .. n
        <4>2. i \in 1 .. Len(body)  BY ONLY <3>1, i \in 1 .. n
        <4>3. d[i] = Body[i]  BY <3>4
        <4>4. Body[i] = <<port, HeaderLen + i>>  BY <2>3, <4>1
        <4>5. body[i] = <<port, HeaderLen + i>>  BY <2>5, <4>2
        <4> QED  BY <4>3, <4>4, <4>5
      <3>6. body = d  BY <2>5, <3>1, <3>3, <3>4, <3>5, SeqEqual
      <3> QED  BY <3>1, <3>6 DEF d
    <2>7. ASSUME pc = "idle", status = 200, peer[port].st = "closed" PROVE body = Body
      <3>1. header_done  BY <1>1, <2>7 DEF BodyInv
      <3>2. Len(got) = N /\ Len(body) = Len(got) - HeaderLen
        BY <1>1, <2>7, <3>1 DEF BodyInv
      <3>3. Len(body) = Len(Body)  BY <2>2, <2>3, <3>2
      <3> QED  BY <2>3, <2>5, <3>3, SeqEqual
    <2> QED  BY <2>2, <2>3, <2>5, <2>6, <2>7
  <1> QED
    BY <1>1, NetInvHolds, ClientInvHolds, StreamInvHolds, BodyInvHolds, PTL
=============================================================================
