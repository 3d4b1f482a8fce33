-------------------------------- MODULE Http --------------------------------
(***************************************************************************)
(* http_get of src/src/net/net.c and its buffer callback, on top of the    *)
(* TCP client of module Tcp.  The kernel runs one call at a time and polls *)
(* the card itself; between two frames the peer and the network move.      *)
(***************************************************************************)
EXTENDS Tcp

CONSTANTS
    HeaderLen,  \* units of the response up to and with the empty line
    HdrCap,     \* 511: what hdr_buf takes of a header
    RespCap     \* sizeof(resp): the most one tcp_recv returns

Body == SubSeq(Stream(port), HeaderLen + 1, N)

ASSUME HttpAssumption ==
    /\ HeaderLen \in 1 .. N /\ HdrCap \in Nat \ {0} /\ RespCap \in Nat
    /\ Mss <= RespCap               \* 4096

VARIABLES
    pc,         \* "idle", "connect", "read": before tcp_rx_once, "take": after
    hdr_buf,    \* what was put there
    header_done,
    status,     \* -1, or the number read from the status line
    body,       \* what the callback got
    got         \* history: what tcp_recv returned

http == <<pc, hdr_buf, header_done, status, body, got>>
vars == <<conn, net, env, http>>

Init ==
    /\ TcpInit
    /\ pc = "idle" /\ hdr_buf = <<>> /\ header_done = FALSE
    /\ status = -1 /\ body = <<>> /\ got = <<>>

Get ==
    /\ pc = "idle" /\ TcpOpen
    /\ pc' = "connect" /\ hdr_buf' = <<>> /\ header_done' = FALSE
    /\ status' = -1 /\ body' = <<>> /\ got' = <<>>

(* The wait loop of tcp_connect *)
ConnectRx ==
    /\ pc = "connect" /\ state = 1 /\ toUs # <<>> /\ TcpRxOnce
    /\ UNCHANGED http

GiveUp ==
    /\ pc = "connect" /\ state = 1 /\ state' = 0 /\ pc' = "idle"
    /\ UNCHANGED <<port, seq, ack, rx_buf, rx_head, rx_tail, net, env,
                   hdr_buf, header_done, status, body, got>>
ConnectTimeout_OnFrame == toUs # <<>> /\ GiveUp    \* slip: looks after a frame
ConnectTimeout == GiveUp

SendRequest ==
    /\ pc = "connect" /\ TcpSend(<<"get">>) /\ pc' = "read"
    /\ UNCHANGED <<hdr_buf, header_done, status, body, got>>

(* tcp_recv: one frame at a time, until there is data or no connection.  Its
   timeout returns 0, on which http_get calls it again. *)
Recv ==
    /\ pc = "read" /\ (toUs # <<>> \/ state # 2 \/ Avail > 0)
    /\ TcpRxOnce /\ pc' = "take"
    /\ UNCHANGED <<hdr_buf, header_done, status, body, got>>

RecvAgain ==
    /\ pc = "take" /\ Avail = 0 /\ state = 2 /\ pc' = "read"
    /\ UNCHANGED <<conn, net, env, hdr_buf, header_done, status, body, got>>

(* The place behind the empty line in hdr_buf, 0 if it is not there. *)
BodyStart_Next(h) ==    \* slip: one unit further
    LET E == {i \in DOMAIN h : h[i][2] = HeaderLen}
    IN  IF E = {} THEN 0 ELSE 1 + CHOOSE i \in E : \A j \in E : i <= j
BodyStart(h) ==
    LET E == {i \in DOMAIN h : h[i][2] = HeaderLen}
    IN  IF E = {} THEN 0 ELSE CHOOSE i \in E : \A j \in E : i <= j

(* The status line is the first unit; anything else there is no number. *)
StatusOf(h) == IF h[1][2] = 1 THEN 200 ELSE 0

(* One turn of http_get's loop.  body_start is a place in hdr_buf; the code
   uses it as a place in the chunk just received. *)
Chunk ==
    LET t == Taken(RespCap)
        h == Upto(hdr_buf \o t, HdrCap)
        s == BodyStart(h)
    IN  /\ pc = "take" /\ Avail > 0 /\ TcpTake(RespCap)
        /\ got' = got \o t /\ pc' = "read"
        /\ \/ header_done /\ body' = body \o t
              /\ UNCHANGED <<hdr_buf, header_done, status>>
           \/ /\ ~header_done /\ s > 0
              /\ hdr_buf' = h /\ header_done' = TRUE /\ status' = StatusOf(h)
              /\ body' = body \o SubSeq(t, s + 1, Len(t))
           \/ /\ ~header_done /\ s = 0
              /\ hdr_buf' = h /\ UNCHANGED <<header_done, status, body>>

(* tcp_recv returns -1: the connection is closed and http_get returns. *)
Finish ==
    /\ pc = "take" /\ Avail = 0 /\ state # 2 /\ TcpClose /\ pc' = "idle"
    /\ UNCHANGED <<hdr_buf, header_done, status, body, got>>

Client == Get \/ ConnectRx \/ ConnectTimeout \/ SendRequest \/ Recv
          \/ RecvAgain \/ Chunk \/ Finish

Next == (Client \/ (Outside /\ UNCHANGED http))

Spec == Init /\ [][Next]_vars

(* The kernel keeps polling and its clock advances; the peer and the link do
   what they can. *)
FairSpec ==
    /\ Spec
    /\ WF_vars(Client /\ pc # "idle") /\ WF_vars(ConnectTimeout)
    /\ WF_vars(PeerRx /\ UNCHANGED http)
    /\ \A p \in Ports : WF_vars(PeerSend(p) /\ UNCHANGED http)

(***************************************************************************)
(* Properties                                                              *)
(***************************************************************************)
TypeOK ==
    /\ state \in 0 .. 3 /\ port \in 0 .. MaxConns
    /\ seq \in 0 .. 3 /\ ack \in 0 .. N + 2
    /\ rx_head \in 0 .. RingSize - 1 /\ rx_tail \in 0 .. RingSize - 1
    /\ pc \in {"idle", "connect", "read", "take"}
    /\ Len(hdr_buf) <= HdrCap /\ header_done \in BOOLEAN
    /\ status \in {-1, 0, 200}

(* Everything the client has acknowledged has been handed to http_get or
   waits in the ring, in the peer's order and without a gap, as long as the
   link loses nothing: an acknowledged unit that the full ring dropped would
   never be sent again. *)
AckedIsKept ==
    sound /\ state \in {2, 3} =>
      got \o InRing = SubSeq(Stream(port), 1, ack - (IF state = 3 THEN 2 ELSE 1))

(* A frame of an earlier connection that arrives late, or is sent again,
   adds nothing to the present one, whatever the link loses. *)
OwnDataOnly ==
    \A k \in DOMAIN (got \o InRing) : (got \o InRing)[k][1] = port

(* http_get "calls cb(data, len, ud) for each chunk of body": what the
   callback got is the beginning of the body, and all of it when the call
   returns 200 after the peer has closed. *)
BodyExact ==
    sound =>
      /\ Len(body) <= Len(Body) /\ body = SubSeq(Body, 1, Len(body))
      /\ pc = "idle" /\ status = 200 /\ peer[port].st = "closed" => body = Body

(* A connection attempt ends within its deadline, whatever gets lost. *)
ConnectEnds == (pc = "connect") ~> (pc # "connect")

(* The call returns if the peer answers and the link loses nothing. *)
GetReturns == (pc # "idle") ~> (pc = "idle" \/ ~sound)

=============================================================================
