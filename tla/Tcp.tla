-------------------------------- MODULE Tcp --------------------------------
(***************************************************************************)
(* The TCP client of src/src/net/net.c (one connection at a time, no       *)
(* retransmission, no sequence check) over a network to one peer.          *)
(*                                                                         *)
(* Data is counted in units.  Sequence numbers start at 0 with the SYN of  *)
(* either side; unit i of the peer's stream has number i and carries the   *)
(* port of its connection, so that connections cannot be mistaken.         *)
(*                                                                         *)
(* The network and the peer are not part of the kernel.  They are modelled *)
(* as the code uses them: a link that keeps frames in order but may lose   *)
(* them, and a TCP peer that answers a SYN, sends its stream once the      *)
(* request is in, sends again what was lost, and closes.                   *)
(***************************************************************************)
EXTENDS Integers, Sequences, FiniteSets

CONSTANTS
    N,          \* length of the stream the peer sends on a connection
    First,      \* least length of the peer's first segment
    Mss,        \* greatest length of a segment
    RingSize,   \* sizeof(rx_buf)
    MaxConns,   \* bound: connections opened
    NetCap,     \* bound: frames on the way to us
    Faults      \* TRUE: frames may be lost, the peer may reset or fall silent

Ports     == 1 .. MaxConns      \* tcp_port_counter counts up
Stream(p) == [i \in 1 .. N |-> <<p, i>>]

ASSUME TcpAssumption ==
    /\ N \in Nat /\ Mss \in Nat /\ First \in 1 .. Mss /\ First <= N
    /\ Mss < RingSize               \* a frame of 1514 bytes, a ring of 8192
    /\ RingSize \in Nat \ {0, 1} /\ NetCap \in Nat \ {0}
    /\ MaxConns \in Nat \ {0} /\ Faults \in BOOLEAN

VARIABLES
    state,      \* 0 closed, 1 SYN sent, 2 established, 3 FIN sent
    port,       \* local_port of tcp_slot
    seq, ack,   \* as in struct net_tcp
    rx_buf, rx_head, rx_tail,
    toPeer, toUs,       \* frames on the way
    peer,       \* [Ports -> the peer's side of the connection]
    sound       \* history: no frame was lost and no peer fell silent

conn == <<state, port, seq, ack, rx_buf, rx_head, rx_tail>>
net  == <<toPeer, toUs>>
env  == <<peer, sound>>

Seg(f, s, a, d) == [port |-> port, flags |-> f, seq |-> s, ack |-> a, data |-> d]

Zeroed == <<0, 0>>      \* a unit of a zeroed rx_buf
NoPeer == [st |-> "listen", nxt |-> 0, again |-> FALSE]

TcpInit ==
    /\ state = 0 /\ port = 0 /\ seq = 0 /\ ack = 0
    /\ rx_buf = [i \in 0 .. RingSize - 1 |-> Zeroed] /\ rx_head = 0 /\ rx_tail = 0
    /\ toPeer = <<>> /\ toUs = <<>>
    /\ peer = [p \in Ports |-> NoPeer] /\ sound = TRUE

Upto(s, n) == SubSeq(s, 1, IF Len(s) < n THEN Len(s) ELSE n)

(***************************************************************************)
(* The ring                                                                *)
(***************************************************************************)
Avail == (rx_tail - rx_head + RingSize) % RingSize

(* The units in the ring, oldest first: both indices are moved first and
   used then. *)
InRing == [k \in 1 .. Avail |-> rx_buf[(rx_head + k) % RingSize]]

(* The loop of tcp_rx_once: a unit that finds the ring full is dropped. *)
Room_OneLess == RingSize - 2 - Avail    \* slip: keeps two places empty
Room == RingSize - 1 - Avail

Written(put) == [i \in DOMAIN rx_buf |->
                   LET k == (i - rx_tail + RingSize) % RingSize
                   IN  IF k \in DOMAIN put THEN put[k] ELSE rx_buf[i]]

Push(d) ==
    LET put == Upto(d, Room)
    IN  rx_tail' = (rx_tail + Len(put)) % RingSize /\ rx_buf' = Written(put)

(***************************************************************************)
(* The client                                                              *)
(***************************************************************************)

(* tcp_connect up to its wait loop: the slot is zeroed, a SYN sent. *)
TcpOpen ==
    /\ port < MaxConns
    /\ port' = port + 1 /\ state' = 1 /\ seq' = 1 /\ ack' = 0
    /\ rx_buf' = [i \in DOMAIN rx_buf |-> Zeroed] /\ rx_head' = 0 /\ rx_tail' = 0
    /\ toPeer' = Append(toPeer, [Seg({"syn"}, 0, 0, <<>>) EXCEPT !.port = port + 1])
    /\ UNCHANGED <<toUs, env>>

(* tcp_send of one segment *)
TcpSend(d) ==
    /\ state = 2
    /\ toPeer' = Append(toPeer, Seg({"ack", "psh"}, seq, ack, d))
    /\ seq' = seq + Len(d)
    /\ UNCHANGED <<state, port, ack, rx_buf, rx_head, rx_tail, toUs, env>>

Ignore == UNCHANGED <<conn, toPeer>>

RxSynSent(m) ==
    \/ /\ {"syn", "ack"} \subseteq m.flags
       /\ ack' = m.seq + 1 /\ state' = 2
       /\ toPeer' = Append(toPeer, Seg({"ack"}, seq, m.seq + 1, <<>>))
       /\ UNCHANGED <<port, seq, rx_buf, rx_head, rx_tail>>
    \/ ~({"syn", "ack"} \subseteq m.flags) /\ Ignore     \* a reset, too

RxEstab_DataOrFin(m) ==     \* slip: the FIN of a segment with data is missed
    /\ m.data # <<>> /\ Push(m.data) /\ ack' = m.seq + Len(m.data)
    /\ toPeer' = Append(toPeer, Seg({"ack"}, seq, m.seq + Len(m.data), <<>>))
    /\ UNCHANGED <<state, port, seq, rx_head>>

(* Established: data goes to the ring and is acknowledged whatever its
   sequence number and however much of it the ring took; then the FIN. *)
RxEstab(m) ==
    LET end  == IF m.data = <<>> THEN ack ELSE m.seq + Len(m.data)
        acks == IF m.data = <<>> THEN <<>>
                ELSE <<Seg({"ack"}, seq, end, <<>>)>>
        fins == IF "fin" \notin m.flags THEN <<>>
                ELSE <<Seg({"ack", "fin"}, seq, end + 1, <<>>)>>
    IN  \/ "rst" \in m.flags /\ state' = 0
           /\ UNCHANGED <<port, seq, ack, rx_buf, rx_head, rx_tail, toPeer>>
        \/ /\ "rst" \notin m.flags
           /\ Push(m.data) /\ toPeer' = toPeer \o acks \o fins
           /\ ack' = end + Len(fins) /\ seq' = seq + Len(fins)
           /\ state' = IF fins = <<>> THEN 2 ELSE 3
           /\ UNCHANGED <<port, rx_head>>

TcpRxOnce_AnyPort ==    \* slip: dst_port is not compared
    /\ toUs # <<>> /\ toUs' = Tail(toUs) /\ UNCHANGED env
    /\ LET m == Head(toUs) IN \/ state = 1 /\ RxSynSent(m)
                              \/ state = 2 /\ RxEstab(m)

(* tcp_rx_once: nothing, or the next frame if it is for this connection. *)
TcpRxOnce ==
    \/ toUs = <<>> /\ UNCHANGED <<conn, net, env>>
    \/ /\ toUs # <<>> /\ toUs' = Tail(toUs) /\ UNCHANGED env
       /\ LET m == Head(toUs)
          IN  \/ m.port # port /\ Ignore
              \/ m.port = port /\ state = 1 /\ RxSynSent(m)
              \/ m.port = port /\ state = 2 /\ RxEstab(m)
              \/ m.port = port /\ state \notin {1, 2} /\ Ignore

(* The copy at the end of tcp_recv *)
Taken(max) == Upto(InRing, max)
TcpTake(max) ==
    /\ rx_head' = (rx_head + Len(Taken(max))) % RingSize
    /\ UNCHANGED <<state, port, seq, ack, rx_buf, rx_tail, net, env>>

(* tcp_close *)
TcpClose ==
    /\ state' = 0
    /\ IF state = 2
       THEN /\ toPeer' = Append(toPeer, Seg({"ack", "fin"}, seq, ack, <<>>))
            /\ seq' = seq + 1
       ELSE UNCHANGED <<toPeer, seq>>
    /\ UNCHANGED <<port, ack, rx_buf, rx_head, rx_tail, toUs, env>>

(***************************************************************************)
(* The peer and the network                                                *)
(***************************************************************************)
ToUs(p, f, s, d) ==
    /\ Len(toUs) < NetCap
    /\ toUs' = Append(toUs, [port |-> p, flags |-> f, seq |-> s, ack |-> 0,
                             data |-> d])

\* bound: one loss or silence in a behaviour, and no reset after it
CanFail == Faults /\ sound

PeerIs(p, st, nxt) == peer' = [peer EXCEPT ![p].st = st, ![p].nxt = nxt]

(* The peer takes the next frame.  Data is the request. *)
PeerRx ==
    /\ toPeer # <<>> /\ toPeer' = Tail(toPeer) /\ UNCHANGED <<conn, sound>>
    /\ LET m   == Head(toPeer)
           p   == m.port
           syn == "syn" \in m.flags /\ peer[p].st = "listen"
           req == m.data # <<>> /\ peer[p].st = "open"
       IN  \/ syn /\ PeerIs(p, "open", 1) /\ ToUs(p, {"syn", "ack"}, 0, <<>>)
           \/ syn /\ CanFail /\ PeerIs(p, "gone", 0) /\ ToUs(p, {"rst"}, 0, <<>>)
           \/ req /\ PeerIs(p, "serve", 1) /\ UNCHANGED toUs
           \/ ~syn /\ ~req /\ UNCHANGED <<toUs, peer>>

(* A segment of any length, the last one with or without the FIN. *)
PeerSend(p) ==
    /\ peer[p].st = "serve" /\ UNCHANGED <<conn, toPeer, sound>>
    /\ LET s == peer[p].nxt
       IN  \/ \E k \in (IF s = 1 THEN First ELSE 1) .. Mss :
                /\ s + k <= N + 1 /\ PeerIs(p, "serve", s + k)
                /\ ToUs(p, {"ack"}, s, SubSeq(Stream(p), s, s + k - 1))
           \/ /\ s + Mss > N /\ PeerIs(p, "closed", N + 2)
              /\ ToUs(p, {"ack", "fin"}, s, SubSeq(Stream(p), s, N))

PeerReset(p) ==
    /\ CanFail /\ peer[p].st \in {"open", "serve"}
    /\ ToUs(p, {"rst"}, peer[p].nxt, <<>>) /\ PeerIs(p, "gone", peer[p].nxt)
    /\ UNCHANGED <<conn, toPeer, sound>>

PeerSilent(p) ==
    /\ CanFail /\ peer[p].st \in {"open", "serve"}
    /\ PeerIs(p, "gone", peer[p].nxt) /\ sound' = FALSE
    /\ UNCHANGED <<conn, net>>

Lose ==
    /\ CanFail /\ sound' = FALSE /\ UNCHANGED <<conn, peer>>
    /\ \/ toUs # <<>> /\ toUs' = Tail(toUs) /\ UNCHANGED toPeer
       \/ toPeer # <<>> /\ toPeer' = Tail(toPeer) /\ UNCHANGED toUs

(* After a loss the peer goes back to any unit: to what was lost, or, when an
   acknowledgement was lost or is late, to what did arrive.  Bound: once on a
   connection. *)
PeerResend(p) ==
    /\ ~sound /\ peer[p].st \in {"serve", "closed"} /\ ~peer[p].again
    /\ \E s \in 1 .. peer[p].nxt - 1 :
          peer' = [peer EXCEPT ![p].st = "serve", ![p].nxt = s, ![p].again = TRUE]
    /\ UNCHANGED <<conn, net, sound>>

Outside == \/ PeerRx \/ Lose
           \/ \E p \in Ports : PeerSend(p) \/ PeerReset(p) \/ PeerSilent(p)
                               \/ PeerResend(p)
=============================================================================
