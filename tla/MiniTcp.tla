------------------------------ MODULE MiniTcp ------------------------------
(***************************************************************************)
(* The TCP client of devices/mini-ip.c behind /net (rpi2/dev_ethernet.c):  *)
(* opening a path connects, a write sends, and a read takes one frame off  *)
(* the wire and handles it (eth_task).  The client has no timers and no    *)
(* connection state but my_seqnum, their_seqnum and my_tcp_port.           *)
(*                                                                         *)
(* The server it talks to is an ordinary TCP (external): it acknowledges,  *)
(* takes data in order only, and retransmits its oldest segment after a    *)
(* timeout.  The wires keep order; they may lose and duplicate frames.     *)
(*                                                                         *)
(* A byte of a stream is its number in that stream.                        *)
(***************************************************************************)
EXTENDS Naturals, Sequences, SequencesExt

CONSTANTS
  Modulus,      \* 2^32 in the code
  ISN,          \* the server's initial sequence number
  ServerBytes,  \* model bound: bytes the server has to send
  ClientBytes,  \* model bound: bytes the program sends
  MaxLen,       \* model bound: bytes of a segment
  Window,       \* segments the server keeps in flight
  Faults,       \* what may happen: "loss" and "duplication" on the wires,
                \* server "timeout"s that strike early
  MaxFaults,    \* model bound: faults of a behaviour
  OtherFrames   \* what else arrives: subset of {"ARP", "ICMP", "UDP"}

ASSUME TcpAssumption ==
  /\ Modulus \in Nat \ {0} /\ ISN \in 0 .. Modulus - 1
  /\ ServerBytes \in Nat /\ ClientBytes \in Nat
  /\ MaxLen \in Nat \ {0} /\ Window \in Nat \ {0} /\ MaxFaults \in Nat
  /\ Faults \subseteq {"loss", "duplication", "timeout"}
  /\ OtherFrames \subseteq {"ARP", "ICMP", "UDP"}

VARIABLES
  my_seqnum, their_seqnum, my_tcp_port, their_mac,
  delivered,   \* cells that reads have returned to the program, if not empty
  written,     \* bytes the program has written
  answered,    \* a SYN|ACK has been handled
  server,      \* the server's end of the connection
  out,         \* frames on their way to the server
  in,          \* frames on their way to the client
  faults       \* faults so far

clientVars == <<my_seqnum, their_seqnum, my_tcp_port, their_mac>>
progVars   == <<delivered, written, answered>>
vars == <<clientVars, progVars, server, out, in, faults>>

Plus(n, m) == (n + m) % Modulus

\* Bytes n .. m of a stream.
Bytes(n, m) == [b \in 1 .. m - n + 1 |-> n + b - 1]

Frame(flags, port, seq, ack, data) ==
  [flags |-> flags, port |-> port, seq |-> seq, ack |-> ack, data |-> data]

-----------------------------------------------------------------------------
(* The client: ethfs_open, ethfs_write, ethfs_read *)

Init ==
  /\ my_seqnum = 23 % Modulus /\ their_seqnum = 0 /\ my_tcp_port = 5000
  /\ their_mac = "broadcast"
  /\ delivered = <<>> /\ written = 0 /\ answered = FALSE
  /\ server = [state |-> "LISTEN", port |-> 0, rcv |-> 0,
               unacked |-> <<>>, sent |-> 0, received |-> <<>>]
  /\ out = <<>> /\ in = <<>> /\ faults = 0

\* connect_tcp: a RST for the last port, then a SYN from the next one.
Connect ==
  LET rst == Plus(my_seqnum, 1)
      syn == Plus(rst, 10) IN
  /\ my_tcp_port = 5000
  /\ my_seqnum' = syn
  /\ my_tcp_port' = my_tcp_port + 1
  /\ out' = out \o <<Frame("RST", my_tcp_port, rst, 0, <<>>),
                     Frame("SYN", my_tcp_port', syn, 0, <<>>)>>
  /\ their_mac' = "router"
  /\ UNCHANGED <<their_seqnum, progVars, server, in, faults>>

\* send_tcp.  The program waits until the connection is there: nothing in
\* send_tcp would stop it from writing earlier.
SendTcp(n) ==
  /\ answered
  /\ written + n <= ClientBytes
  /\ out' = Append(out, Frame("PSH", my_tcp_port, my_seqnum, their_seqnum,
                              Bytes(written + 1, written + n)))
  /\ my_seqnum' = Plus(my_seqnum, n)
  /\ written' = written + n
  /\ their_mac' = "router"
  /\ UNCHANGED <<their_seqnum, my_tcp_port, delivered, answered, server, in,
                 faults>>

\* eth_task takes a frame.
Receive(f) ==
  /\ in # <<>>
  /\ f = Head(in)
  /\ in' = Tail(in)

\* The reply of eth_task, sent by send_tcp_packet.
Reply(f, flags, seq, ack) ==
  /\ out' = Append(out, Frame(flags, f.port, seq, ack, <<>>))
  /\ their_mac' = "router"

RxSynAck(f) ==
  /\ Receive(f)
  /\ f.flags = "SYN|ACK"
  /\ my_seqnum' = Plus(my_seqnum, 1)
  /\ their_seqnum' = Plus(f.seq, 1)
  /\ Reply(f, "ACK", my_seqnum', their_seqnum')
  /\ answered' = TRUE
  /\ UNCHANGED <<my_tcp_port, delivered, written, server, faults>>

\* A FIN is answered by a RST.
RxFin(f) ==
  /\ Receive(f)
  /\ f.flags = "FIN"
  /\ Reply(f, "RST", my_seqnum, their_seqnum)
  /\ my_seqnum' = Plus(my_seqnum, 1)
  /\ UNCHANGED <<their_seqnum, my_tcp_port, progVars, server, faults>>

\* "receive and reply to data": the acknowledgement follows the segment
\* whatever came before it, and the data is returned to the program unless
\* the segment ends where the last one did.
SameSeq(f) == f.seq
WideSeq(f) == f.seq + Len(f.data)
NextSeq(f) == Plus(f.seq, Len(f.data))

\* The cell returned: the data and a zero byte, which counts.
Packet(f) == [proto |-> "TCP", data |-> Append(f.data, 0)]
Returned(f, old, new) == IF old # new THEN <<Packet(f)>> ELSE <<>>

RxData(f) ==
  /\ Receive(f)
  /\ f.flags \notin {"SYN|ACK", "FIN"} /\ f.data # <<>>
  /\ their_seqnum' = NextSeq(f)
  /\ Reply(f, "ACK", my_seqnum, their_seqnum')
  /\ delivered' = delivered \o Returned(f, their_seqnum, their_seqnum')
  /\ UNCHANGED <<my_seqnum, my_tcp_port, written, answered, server, faults>>

\* A datagram is returned to whoever reads.
RxUdp(f) ==
  /\ Receive(f)
  /\ f.flags = "UDP"
  /\ their_mac' = "sender"
  /\ delivered' = Append(delivered, [proto |-> "UDP", data |-> <<>>])
  /\ UNCHANGED <<my_seqnum, their_seqnum, my_tcp_port, written, answered,
                 server, out, faults>>

\* An ARP request for my_ip is answered, and its sender's address taken for
\* the router's; ICMP and TCP frames without data change nothing.
RxOther(f) ==
  /\ Receive(f)
  /\ f.flags \notin {"SYN|ACK", "FIN", "UDP"} /\ f.data = <<>>
  /\ IF f.flags = "ARP"
     THEN /\ out' = Append(out, Frame("ARP", 0, 0, 0, <<>>))
          /\ their_mac' = "sender"
     ELSE UNCHANGED <<out, their_mac>>
  /\ UNCHANGED <<my_seqnum, their_seqnum, my_tcp_port, progVars, server, faults>>

EthTask ==
  \E f \in ToSet(in) :
    RxSynAck(f) \/ RxFin(f) \/ RxData(f) \/ RxUdp(f) \/ RxOther(f)

Client ==
  \/ Connect
  \/ \E n \in 1 .. MaxLen : SendTcp(n)
  \/ EthTask

-----------------------------------------------------------------------------
(* The server (external) *)

\* The sequence number of byte n of the server's stream.
SeqNum(n) == Plus(ISN, n)

Segment(data) == Frame("PSH", server.port, SeqNum(data[1]), server.rcv, data)

Established(f) == f.ack = SeqNum(1) \/ server.state = "ESTABLISHED"

\* The segments of the server that acknowledgement ack leaves unacked.
Left(ack) ==
  LET done == {n \in 1 .. Len(server.unacked) :
                 SeqNum(Last(server.unacked[n]) + 1) = ack} IN
  IF done = {} THEN server.unacked
  ELSE SubSeq(server.unacked, (CHOOSE n \in done : TRUE) + 1, Len(server.unacked))

ServerListen(f) ==
  /\ f.flags = "SYN" /\ server.state = "LISTEN"
  /\ server' = [server EXCEPT !.state = "SYN_RCVD", !.port = f.port,
                              !.rcv = Plus(f.seq, 1)]
  /\ in' = Append(in, Frame("SYN|ACK", f.port, ISN, Plus(f.seq, 1), <<>>))

\* An acknowledgement, with or without data.
ServerAck(f) ==
  /\ f.flags \in {"ACK", "PSH"} /\ f.port = server.port
  /\ server.state \in {"SYN_RCVD", "ESTABLISHED"} /\ Established(f)
  /\ LET inOrder == f.data # <<>> /\ f.seq = server.rcv IN
     /\ server' = [server EXCEPT
          !.state = "ESTABLISHED",
          !.unacked = Left(f.ack),
          !.rcv = IF inOrder THEN Plus(@, Len(f.data)) ELSE @,
          !.received = IF inOrder THEN @ \o f.data ELSE @]
     /\ in' = IF f.data = <<>> THEN in
              ELSE Append(in, Frame("ACK", f.port, SeqNum(server.sent + 1),
                                    server'.rcv, <<>>))

\* A RST for the connection ends it; the rest is none of the server's.
ServerIgnore(f) ==
  /\ f.flags # "SYN" \/ server.state # "LISTEN"
  /\ f.flags \notin {"ACK", "PSH"} \/ f.port # server.port
       \/ server.state \notin {"SYN_RCVD", "ESTABLISHED"} \/ ~Established(f)
  /\ server' = IF f.flags = "RST" /\ f.port = server.port
               THEN [server EXCEPT !.state = "CLOSED"] ELSE server
  /\ UNCHANGED in

ServerReceive ==
  /\ out # <<>>
  /\ ServerListen(Head(out)) \/ ServerAck(Head(out)) \/ ServerIgnore(Head(out))
  /\ out' = Tail(out)
  /\ UNCHANGED <<clientVars, progVars, faults>>

ServerSend(n) ==
  /\ server.state = "ESTABLISHED"
  /\ Len(server.unacked) < Window /\ server.sent + n <= ServerBytes
  /\ LET data == Bytes(server.sent + 1, server.sent + n) IN
     /\ in' = Append(in, Segment(data))
     /\ server' = [server EXCEPT !.sent = @ + n,
                                 !.unacked = Append(@, data)]
  /\ UNCHANGED <<clientVars, progVars, out, faults>>

\* All data is acknowledged: the server closes.
ServerFin ==
  /\ server.state = "ESTABLISHED"
  /\ server.sent = ServerBytes /\ server.unacked = <<>>
  /\ in' = Append(in, Frame("FIN", server.port, SeqNum(ServerBytes + 1),
                            server.rcv, <<>>))
  /\ server' = [server EXCEPT !.state = "FIN_WAIT"]
  /\ UNCHANGED <<clientVars, progVars, out, faults>>

\* The retransmission timer: the oldest unacknowledged segment goes out again.
\* It fires when both wires are empty, or early ("timeout").
Disturbance == faults < MaxFaults /\ faults' = faults + 1
Fault(kind) == kind \in Faults /\ Disturbance

ServerTimeout ==
  /\ server.state = "ESTABLISHED" /\ server.unacked # <<>>
  /\ \/ in = <<>> /\ out = <<>> /\ UNCHANGED faults
     \/ in \o out # <<>> /\ Fault("timeout")
  /\ in' = Append(in, Segment(Head(server.unacked)))
  /\ UNCHANGED <<clientVars, progVars, server, out>>

-----------------------------------------------------------------------------
(* The wires (external).  Faults start once the connection is established. *)

Wire(w) ==
  \/ Fault("loss") /\ w' = Tail(w)
  \/ Fault("duplication") /\ w' = <<Head(w)>> \o w

WireFault ==
  /\ server.state = "ESTABLISHED"
  /\ \/ in # <<>> /\ Head(in).flags = "PSH" /\ Wire(in) /\ UNCHANGED out
     \/ out # <<>> /\ Head(out).flags = "ACK" /\ Wire(out) /\ UNCHANGED in
  /\ UNCHANGED <<clientVars, progVars, server>>

OtherFrame(kind) ==
  /\ Disturbance
  /\ in' = Append(in, Frame(kind, 0, 0, 0, <<>>))
  /\ UNCHANGED <<clientVars, progVars, server, out>>

Next ==
  \/ Client
  \/ ServerReceive \/ ServerFin \/ ServerTimeout
  \/ \E n \in 1 .. MaxLen : ServerSend(n)
  \/ WireFault
  \/ \E kind \in OtherFrames : OtherFrame(kind)

Spec == Init /\ [][Next]_vars

\* The program keeps reading, and the server keeps at it.
FairSpec ==
  /\ Spec
  /\ WF_vars(EthTask)
  /\ WF_vars(ServerReceive)
  /\ WF_vars(\E n \in 1 .. MaxLen : ServerSend(n))
  /\ WF_vars(ServerTimeout)

-----------------------------------------------------------------------------
(* Properties *)

\* Sequence numbers stay below the modulus, and no byte is made up.
TypeOK ==
  /\ my_seqnum \in 0 .. Modulus - 1 /\ their_seqnum \in 0 .. Modulus - 1
  /\ my_tcp_port \in 5000 .. 5001
  /\ their_mac \in {"broadcast", "router", "sender"}
  /\ delivered \in Seq([proto : {"TCP", "UDP"}, data : Seq(0 .. ServerBytes)])
  /\ written \in 0 .. ClientBytes
  /\ answered \in BOOLEAN
  /\ server.received \in Seq(1 .. ClientBytes)
  /\ faults \in 0 .. MaxFaults

\* The bytes of the connection that reads have returned, less the zeros.
Stream ==
  LET packets == SelectSeq(delivered, LAMBDA p : p.proto = "TCP") IN
  FlattenSeq([k \in DOMAIN packets |-> Front(packets[k].data)])




\* With a server that keeps one segment in flight, the program gets the whole
\* stream, sequence number wrap included.
WholeStreamDelivered == answered ~> Len(Stream) = ServerBytes
=============================================================================
