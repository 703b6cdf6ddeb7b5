--------------------------------- MODULE Tcp ---------------------------------
(***************************************************************************)
(* TCP connections between two machines that run this kernel: the control  *)
(* block and its states (kernel/tcp.c), the sockets and their hash table   *)
(* (kernel/sysnet.c), the processes asleep in connect, accept, read and    *)
(* close, and a network that may lose, duplicate, delay and reset.         *)
(*                                                                         *)
(* One action is one critical section of tcplock, together with the table  *)
(* lookup of net_rx_tcp before it.  The two machines' tables are one list: *)
(* their ports tell the entries apart.  Sequence numbers start below 2^31  *)
(* (rand.c) and do not wrap around here; windows have their 16 bits.       *)
(*                                                                         *)
(* Definitions such as Acceptable_Any are the faulty forms of the          *)
(* definition next to them with which the properties are put to the test.  *)
(***************************************************************************)
EXTENDS Integers, Sequences, SequencesExt

CONSTANTS Clients,   \* client sockets, each with a port of its own
          Accepters, \* the sockets accept makes for the listening socket
          Port,      \* the port of the listening socket and its Accepters
          None,      \* no socket; also raddr = 0
          Iss,       \* the value of rand() for each socket
          Sizes,     \* the sizes of writes and reads
          MaxWrites, \* bound: the writes to all sockets
          MaxFaults  \* bound: faults of the network and calls of kill

ASSUME TcpAssumption ==
  /\ Iss \in [Clients \union Accepters -> Nat] /\ Sizes \subseteq Nat \ {0}
  /\ MaxWrites \in Nat /\ MaxFaults \in Nat
  /\ Clients \intersect Accepters = {}
  /\ {Port, None} \intersect (Clients \union Accepters) = {} /\ Port # None

Socks == Clients \union Accepters
Addrs == Clients \union {Port}
Local(x) == IF x \in Clients THEN x ELSE Port

VARIABLES
  cb,       \* the control blocks
  raddr,    \* the other end's address
  rxq,      \* the bytes received and not yet read
  sockets,  \* the hash table: the sockets in it, newest first
  net,      \* the segments on their way to each address
  pc,       \* where the process that holds the socket is
  chan,     \* what it sleeps on, if it does
  killed,   \* the sockets whose process has been killed
  sent, got, \* the bytes written, by number, and the bytes read
  writes, faults,
  missed    \* what went wrong by the code alone

sock == <<cb, raddr, rxq, sockets>>
proc == <<pc, chan, killed>>
history == <<sent, got>>
bounds == <<writes, faults>>
vars == <<sock, net, proc, history, bounds, missed>>

Cleared == [state |-> "CLOSED", iss |-> 0, una |-> 0, nxt |-> 0, rcvnxt |-> 0, wnd |-> 0]

Init ==
  /\ cb = [x \in Socks |-> Cleared]
  /\ raddr = [x \in Socks |-> None]
  /\ rxq = [x \in Socks |-> <<>>]
  /\ sockets = <<>>
  /\ net = [a \in Addrs |-> <<>>]
  /\ pc = [x \in Socks |-> "new"]
  /\ chan = [x \in Socks |-> "none"]
  /\ killed = {}
  /\ sent = [x \in Socks |-> 0] /\ got = [x \in Socks |-> <<>>]
  /\ writes = 0 /\ faults = 0
  /\ missed = {}

-----------------------------------------------------------------------------
(* Segments *)

\* net_tx_tcp_content(): a segment from socket x, of control block s, to dst.
\* The window goes out in the machine's byte order.
Segment(x, s, dst, seq, ack, flags, data) ==
  [src |-> Local(x), dst |-> dst, seq |-> seq, ack |-> ack, flags |-> flags,
   win |-> s.wnd, data |-> data]

\* ntohs() of a number in the machine's byte order.
Swap(w) == (w % 256) * 256 + (w \div 256)

Transmit(n, segs) ==
  [a \in Addrs |-> n[a] \o SelectSeq(segs, LAMBDA g : g.dst = a)]

\* sock_hashtable_get(): the socket of this connection, or one that waits in
\* accept.  The listening socket, which comes last, takes no segment.
Lookup(g) ==
  LET exact == SelectSeq(sockets, LAMBDA x : Local(x) = g.dst /\ raddr[x] = g.src)
      open == SelectSeq(sockets, LAMBDA x : Local(x) = g.dst /\ raddr[x] = None)
  IN IF exact # <<>> THEN Head(exact)
     ELSE IF open # <<>> THEN Head(open) ELSE None

-----------------------------------------------------------------------------
(* Processes *)

Awake(x, l) == pc[x] = l /\ chan[x] = "none"
Goto(x, l) == pc' = [pc EXCEPT ![x] = l]
Sleep(x, l, c) == Goto(x, l) /\ chan' = [chan EXCEPT ![x] = c]

Wakeup(x, chans) == [chan EXCEPT ![x] = IF @ \in chans THEN "none" ELSE @]

\* sockalloc() and tcp_init_client(), up to the sleep.  The entry in the table
\* and the SYN are one step: before its SYN is out nobody writes to this port.
Connect(x) ==
  /\ x \in Clients /\ Awake(x, "new")
  /\ LET i == Iss[x]
         s == [state |-> "SYN_SENT", iss |-> i, una |-> i, nxt |-> i + 1,
               rcvnxt |-> 0, wnd |-> 2048]
     IN /\ cb' = [cb EXCEPT ![x] = s]
        /\ net' = Transmit(net, <<Segment(x, s, Port, i, 0, {"SYN"}, <<>>)>>)
  /\ raddr' = [raddr EXCEPT ![x] = Port]
  /\ sockets' = <<x>> \o sockets
  /\ Sleep(x, "connect", "tcpcb")
  /\ UNCHANGED <<rxq, killed, history, bounds, missed>>

\* The rest of tcp_init_client(); its result is lost to connect.
ConnectReturns(x) ==
  /\ Awake(x, "connect")
  /\ IF cb[x].state = "SYN_SENT" /\ x \notin killed
     THEN Sleep(x, "connect", "tcpcb")
     ELSE Goto(x, "open") /\ UNCHANGED chan
  /\ UNCHANGED <<sock, net, killed, history, bounds, missed>>

\* sockaccept(), up to tcp_api_accept().
Accept(x) ==
  /\ x \in Accepters /\ Awake(x, "new")
  /\ cb' = [cb EXCEPT ![x].state = "LISTEN"]
  /\ sockets' = <<x>> \o sockets
  /\ Goto(x, "listen")
  /\ UNCHANGED <<raddr, rxq, net, chan, killed, history, bounds, missed>>

\* tcp_api_accept().  A SYN that comes before it makes it fail; the socket
\* stays in the table and no process holds it.
AcceptWaits(x) ==
  /\ Awake(x, "listen")
  /\ IF cb[x].state = "LISTEN" /\ x \notin killed
     THEN Sleep(x, "accept", "tcpcb") /\ UNCHANGED missed
     ELSE Goto(x, "failed") /\ UNCHANGED chan /\ missed' = missed \union {"accept"}
  /\ UNCHANGED <<sock, net, killed, history, bounds>>

AcceptReturns(x) ==
  /\ Awake(x, "accept")
  /\ IF x \in killed THEN Goto(x, "failed") /\ UNCHANGED chan
     ELSE IF cb[x].state = "LISTEN" THEN Sleep(x, "accept", "tcpcb")
     ELSE Goto(x, "open") /\ UNCHANGED chan
  /\ UNCHANGED <<sock, net, killed, history, bounds, missed>>

\* tcp_api_send().  Another process than the one in read may write.
Write(x) ==
  /\ pc[x] \in {"open", "read"} /\ x \notin killed
  /\ cb[x].state = "ESTABLISHED"
  /\ writes < MaxWrites
  /\ \E len \in Sizes :
       LET data == [i \in 1..len |-> <<x, sent[x] + i>>]
       IN /\ net' = Transmit(net, <<Segment(x, cb[x], raddr[x], cb[x].nxt, cb[x].rcvnxt,
                                           {"PSH", "ACK"}, data)>>)
          /\ cb' = [cb EXCEPT ![x].nxt = @ + len]
          /\ sent' = [sent EXCEPT ![x] = @ + len]
  /\ writes' = writes + 1
  /\ UNCHANGED <<raddr, rxq, sockets, proc, got, faults, missed>>

\* The copying loop of tcp_api_receive(), for a read of n bytes.
Take(x) ==
  \E n \in Sizes :
    LET k == IF n < Len(rxq[x]) THEN n ELSE Len(rxq[x])
    IN /\ got' = [got EXCEPT ![x] = @ \o SubSeq(rxq[x], 1, k)]
       /\ rxq' = [rxq EXCEPT ![x] = SubSeq(@, k + 1, Len(@))]
       /\ cb' = [cb EXCEPT ![x].wnd = (@ + k) % 65536]

\* tcp_api_receive().  At the end of the stream it returns 0 at once, which
\* changes nothing.
Read(x) ==
  /\ Awake(x, "open") /\ x \notin killed
  /\ \/ rxq[x] # <<>> /\ Take(x) /\ UNCHANGED <<pc, chan>>
     \/ /\ rxq[x] = <<>> /\ cb[x].state # "CLOSE_WAIT"
        /\ Sleep(x, "read", "rxq") /\ UNCHANGED <<cb, rxq, got>>
  /\ UNCHANGED <<raddr, sockets, net, killed, sent, bounds, missed>>

\* The rest of tcp_api_receive() once awake: in CLOSE_WAIT it returns 0,
\* even with bytes in the queue.
ReadReturns(x) ==
  /\ Awake(x, "read")
  /\ LET done == cb[x].state = "CLOSE_WAIT" \/ x \in killed
     IN \/ done /\ Goto(x, "open") /\ UNCHANGED <<cb, rxq, got, chan>>
        \/ ~done /\ rxq[x] = <<>> /\ Sleep(x, "read", "rxq") /\ UNCHANGED <<cb, rxq, got>>
        \/ ~done /\ rxq[x] # <<>> /\ Take(x) /\ Goto(x, "open") /\ UNCHANGED chan
  /\ UNCHANGED <<raddr, sockets, net, killed, sent, bounds, missed>>

\* The state in which tcp_api_close() leaves a connection it sends a FIN for.
Closing(state) ==
  CASE state \in {"SYN_RCVD", "ESTABLISHED"} -> "FIN_WAIT1"
    [] state = "CLOSE_WAIT" -> "LAST_ACK"
    [] OTHER -> None

\* tcp_api_close(), up to the sleep.
Close(x) ==
  /\ Awake(x, "open")
  /\ LET s == cb[x] IN
     IF Closing(s.state) = None
     THEN Goto(x, "free") /\ UNCHANGED <<cb, net, chan>>
     ELSE /\ net' = Transmit(net, <<Segment(x, s, raddr[x], s.nxt, s.rcvnxt,
                                           {"FIN", "ACK"}, <<>>)>>)
          /\ cb' = [cb EXCEPT ![x].state = Closing(s.state), ![x].nxt = @ + 1]
          /\ Sleep(x, "close", "tcpcb")
  /\ UNCHANGED <<raddr, rxq, sockets, killed, history, bounds, missed>>

\* The rest of tcp_api_close(): whatever wakes it, it does not look again.
CloseReturns(x) ==
  /\ Awake(x, "close")
  /\ Goto(x, "free")
  /\ UNCHANGED <<sock, net, chan, killed, history, bounds, missed>>

\* The rest of sockclose().
Free(x) ==
  /\ Awake(x, "free")
  /\ sockets' = SelectSeq(sockets, LAMBDA y : y # x)
  /\ cb' = [cb EXCEPT ![x] = Cleared]
  /\ raddr' = [raddr EXCEPT ![x] = None]
  /\ rxq' = [rxq EXCEPT ![x] = <<>>]
  /\ Goto(x, "done")
  /\ UNCHANGED <<net, chan, killed, history, bounds, missed>>

-----------------------------------------------------------------------------
(* tcp_segments_arrives() *)

Has(g, flag) == flag \in g.flags

\* The outcome of a segment for socket x so far: the control block, the
\* answers, the channels of wakeup, whether the bytes go to rxq, and whether
\* the handler has returned.
Outcome(s) == [s |-> s, out |-> <<>>, wake |-> {}, text |-> FALSE, done |-> FALSE]
Answer(r, x, g, seq, ack, flags) ==
  [r EXCEPT !.out = Append(@, Segment(x, r.s, g.src, seq, ack, flags, <<>>))]
AckNow(r, x, g) == Answer(r, x, g, r.s.nxt, r.s.rcvnxt, {"ACK"})
Reset(r, x, g) == Answer(r, x, g, g.ack, 0, {"RST"})
Enter(r, state) == [r EXCEPT !.s.state = state]
Wake(r, c) == [r EXCEPT !.wake = @ \union {c}]
Return(r) == [r EXCEPT !.done = TRUE]

\* CLOSED, which falls through into LISTEN.
Closed(x, g, s) ==
  LET r == Outcome(s)
  IN IF s.state # "CLOSED" \/ Has(g, "RST") THEN r
     ELSE IF Has(g, "ACK") THEN Reset(r, x, g)
     ELSE Answer(r, x, g, 0, g.seq + Len(g.data), {"RST", "ACK"})
Listening(x, g, s) ==
  LET r == Closed(x, g, s)
      i == Iss[x]
      t == [r EXCEPT !.s.state = "SYN_RCVD", !.s.rcvnxt = g.seq + 1,
                     !.s.iss = i, !.s.nxt = i + 1, !.s.una = i]
  IN IF Has(g, "RST") THEN r
     ELSE IF Has(g, "ACK") THEN Reset(r, x, g)
     ELSE IF Has(g, "SYN") THEN Answer(t, x, g, i, t.s.rcvnxt, {"SYN", "ACK"})
     ELSE r

SynSent(x, g, s) ==
  LET r == Outcome(s)
      t == [r EXCEPT !.s.rcvnxt = g.seq + 1, !.s.una = IF Has(g, "ACK") THEN g.ack ELSE @]
  IN IF Has(g, "ACK") /\ (g.ack <= s.iss \/ g.ack > s.nxt)
     THEN IF Has(g, "RST") THEN r ELSE Reset(r, x, g)
     ELSE IF Has(g, "RST") THEN IF Has(g, "ACK") THEN Enter(r, "CLOSED") ELSE r
     ELSE IF ~Has(g, "SYN") THEN r
     ELSE IF t.s.una > t.s.iss
     THEN Wake(AckNow(Enter(t, "ESTABLISHED"), x, g), "tcpcb")
     ELSE Answer(Enter(t, "SYN_RCVD"), x, g, s.iss, t.s.rcvnxt, {"SYN", "ACK"})

\* First, whether any of it lies in the receive window.
InWindow_OffByOne(s, seq) == s.rcvnxt <= seq + 1 /\ seq < s.rcvnxt + s.wnd
InWindow(s, seq) == s.rcvnxt <= seq /\ seq < s.rcvnxt + s.wnd

Acceptable_Any(s, g) == TRUE
Acceptable(s, g) ==
  IF g.data = <<>> THEN IF s.wnd = 0 THEN g.seq = s.rcvnxt ELSE InWindow(s, g.seq)
  ELSE InWindow(s, g.seq) \/ InWindow(s, g.seq + Len(g.data) - 1)

\* Fifth, the acknowledgment.
Acknowledge_NoWake(r, x, g) ==
  LET s == r.s
      t == IF s.una < g.ack /\ g.ack <= s.nxt THEN [r EXCEPT !.s.una = g.ack] ELSE r
  IN IF g.ack > s.nxt THEN Return(AckNow(r, x, g))
     ELSE IF s.state = "FIN_WAIT1" /\ g.ack = s.nxt THEN Enter(t, "FIN_WAIT2")
     ELSE IF s.state # "CLOSING" THEN t
     ELSE Return(IF g.ack = s.nxt THEN Enter(t, "TIME_WAIT") ELSE t)
Acknowledge(r, x, g) ==
  LET s == r.s
      t == IF s.una < g.ack /\ g.ack <= s.nxt THEN [r EXCEPT !.s.una = g.ack] ELSE r
  IN IF g.ack > s.nxt THEN Return(AckNow(r, x, g))
     ELSE IF s.state = "FIN_WAIT1" /\ g.ack = s.nxt THEN Enter(t, "FIN_WAIT2")
     ELSE IF s.state # "CLOSING" THEN t
     ELSE IF g.ack = s.nxt THEN Return(Wake(Enter(t, "TIME_WAIT"), "tcpcb"))
     ELSE Return(t)

AckField(x, g, s) ==
  LET r == Outcome(s)
  IN CASE s.state = "SYN_RCVD" ->
            IF s.una <= g.ack /\ g.ack <= s.nxt
            THEN Acknowledge(Wake(Enter(r, "ESTABLISHED"), "tcpcb"), x, g)
            ELSE Reset(r, x, g)
       [] s.state = "LAST_ACK" ->
            LET t == Return(Wake(r, "tcpcb"))
            IN IF g.ack = s.nxt THEN Enter(t, "CLOSED") ELSE t
       [] s.state = "TIME_WAIT" -> r
       [] OTHER -> Acknowledge(r, x, g)

\* Seventh, the text.  What is missing before it is skipped.
TextIn(r, x, g, states) ==
  IF r.done \/ g.data = <<>> \/ r.s.state \notin states THEN r
  ELSE LET t == [r EXCEPT !.text = TRUE, !.s.rcvnxt = g.seq + Len(g.data),
                          !.s.wnd = (@ - Len(g.data)) % 65536]
       IN AckNow(IF Has(g, "PSH") THEN Wake(t, "rxq") ELSE t, x, g)
Text_NotClosing(r, x, g) == TextIn(r, x, g, {"ESTABLISHED"})
Text(r, x, g) == TextIn(r, x, g, {"ESTABLISHED", "FIN_WAIT1", "FIN_WAIT2"})

\* Eighth, the FIN.
Fin_NoWake(r, x, g) ==
  IF r.done \/ ~Has(g, "FIN") THEN r
  ELSE LET t == AckNow([r EXCEPT !.s.rcvnxt = @ + 1], x, g)
       IN CASE r.s.state \in {"SYN_RCVD", "ESTABLISHED"} -> Enter(t, "CLOSE_WAIT")
            [] r.s.state = "FIN_WAIT1" -> Enter(t, "CLOSING")
            [] r.s.state = "FIN_WAIT2" -> Wake(Enter(t, "TIME_WAIT"), "tcpcb")
            [] OTHER -> t
Fin(r, x, g) ==
  IF r.done \/ ~Has(g, "FIN") THEN r
  ELSE LET t == AckNow([r EXCEPT !.s.rcvnxt = @ + 1], x, g)
       IN CASE r.s.state \in {"SYN_RCVD", "ESTABLISHED"} -> Wake(Enter(t, "CLOSE_WAIT"), "rxq")
            [] r.s.state = "FIN_WAIT1" -> Enter(t, "CLOSING")
            [] r.s.state = "FIN_WAIT2" -> Wake(Enter(t, "TIME_WAIT"), "tcpcb")
            [] OTHER -> t

\* The segment reaches no socket that takes it.
NoSocket(a) ==
  /\ net[a] # <<>>
  /\ LET g == Head(net[a])
     IN /\ Lookup(g) = None
        /\ missed' = IF Has(g, "SYN") THEN missed \union {"listen"} ELSE missed
  /\ net' = [net EXCEPT ![a] = Tail(@)]
  /\ UNCHANGED <<sock, proc, history, bounds>>

\* Where the handler goes with segment g for a control block s.
Part(s, g) ==
  CASE s.state \in {"CLOSED", "LISTEN"} -> "listening"
    [] s.state = "SYN_SENT" -> "syn_sent"
    [] OTHER -> IF ~Acceptable(s, g) THEN "unacceptable"
                ELSE IF Has(g, "RST") \/ Has(g, "SYN") THEN "abort" ELSE "segment"

\* The answer goes out to a RST as well.
Unacceptable(x, g, s) == AckNow(Outcome(s), x, g)

\* Second and fourth, a RST or a SYN.  No process is woken.
Abort(x, g, s) ==
  LET r == Enter(Outcome(s), "CLOSED") IN IF Has(g, "RST") THEN r ELSE Reset(r, x, g)

Fields(x, g, s) ==
  IF Has(g, "ACK") THEN Fin(Text(AckField(x, g, s), x, g), x, g) ELSE Outcome(s)

\* net_rx_tcp(): the first segment for address a is for a socket x, and the
\* handler goes to part with it.  The sender's window becomes the socket's
\* own, and a socket in accept is bound to the sender.
Handle(a, part) ==
  /\ net[a] # <<>>
  /\ LET g == Head(net[a])
         x == Lookup(g)
         s == [cb[x] EXCEPT !.wnd = Swap(g.win)]
         r == CASE part = "listening" -> Listening(x, g, s)
                [] part = "syn_sent" -> SynSent(x, g, s)
                [] part = "unacceptable" -> Unacceptable(x, g, s)
                [] part = "abort" -> Abort(x, g, s)
                [] part = "segment" -> Fields(x, g, s)
     IN /\ x # None
        /\ part = Part(s, g)
        /\ cb' = [cb EXCEPT ![x] = r.s]
        /\ raddr' = [raddr EXCEPT ![x] = g.src]
        /\ rxq' = [rxq EXCEPT ![x] = IF r.text THEN @ \o g.data ELSE @]
        /\ net' = Transmit([net EXCEPT ![a] = Tail(@)], r.out)
        /\ chan' = Wakeup(x, r.wake)
        /\ missed' = missed
             \union (IF s.wnd = 0 /\ g.data # <<>> THEN {"window"} ELSE {})
             \union (IF cb[x].state = "CLOSED" /\ r.s.state = "SYN_RCVD"
                     THEN {"reopened"} ELSE {})
  /\ UNCHANGED <<sockets, pc, killed, history, bounds>>

ReceiveListening(a) == Handle(a, "listening")
ReceiveSynSent(a) == Handle(a, "syn_sent")
ReceiveUnacceptable(a) == Handle(a, "unacceptable")
ReceiveAbort(a) == Handle(a, "abort")
ReceiveSegment(a) == Handle(a, "segment")

Receive(a) ==
  \/ NoSocket(a) \/ ReceiveListening(a) \/ ReceiveSynSent(a)
  \/ ReceiveUnacceptable(a) \/ ReceiveAbort(a) \/ ReceiveSegment(a)

-----------------------------------------------------------------------------
(* The network and kill() *)

Fault ==
  /\ faults < MaxFaults
  /\ faults' = faults + 1
  /\ UNCHANGED <<sock, pc, history, writes, missed>>

Lose(a) ==
  /\ \E i \in DOMAIN net[a] : net' = [net EXCEPT ![a] = RemoveAt(@, i)]
  /\ Fault /\ UNCHANGED <<chan, killed>>

\* A second copy comes after what is on its way.
Duplicate(a) ==
  /\ \E i \in DOMAIN net[a] : net' = [net EXCEPT ![a] = Append(@, net[a][i])]
  /\ Fault /\ UNCHANGED <<chan, killed>>

Delay(a) ==
  /\ \E i \in 1..(Len(net[a]) - 1) : net' = [net EXCEPT ![a] = Append(RemoveAt(@, i), net[a][i])]
  /\ Fault /\ UNCHANGED <<chan, killed>>

\* A segment is answered with a RST, as by a machine that has lost the
\* connection or refuses it.
Refuse(a) ==
  /\ \E i \in DOMAIN net[a] :
       LET g == net[a][i]
           rst == [src |-> g.dst, dst |-> g.src, win |-> 0, data |-> <<>>,
                   seq |-> IF Has(g, "ACK") THEN g.ack ELSE 0,
                   ack |-> IF Has(g, "ACK") THEN 0 ELSE g.seq + 1,
                   flags |-> IF Has(g, "ACK") THEN {"RST"} ELSE {"RST", "ACK"}]
       IN /\ ~Has(g, "RST")
          /\ net' = Transmit([net EXCEPT ![a] = RemoveAt(@, i)], <<rst>>)
  /\ Fault /\ UNCHANGED <<chan, killed>>

Kill(x) ==
  /\ pc[x] \in {"connect", "listen", "accept", "open", "read", "close"} /\ x \notin killed
  /\ killed' = killed \union {x}
  /\ chan' = [chan EXCEPT ![x] = "none"]
  /\ Fault /\ UNCHANGED net

-----------------------------------------------------------------------------

Proceed(x) ==
  \/ ConnectReturns(x) \/ AcceptWaits(x) \/ AcceptReturns(x)
  \/ ReadReturns(x) \/ CloseReturns(x) \/ Free(x)

Next ==
  \/ \E x \in Socks :
       Connect(x) \/ Accept(x) \/ Write(x) \/ Read(x) \/ Close(x) \/ Proceed(x) \/ Kill(x)
  \/ \E a \in Addrs : Receive(a) \/ Lose(a) \/ Duplicate(a) \/ Delay(a) \/ Refuse(a)

Spec == Init /\ [][Next]_vars

\* Interrupts are taken, runnable processes run, and programs close their
\* sockets in the end: exit does it for them.  The machines as a whole go on
\* while they can: WF_vars(Step), with Busy for ENABLED <<Step>>_vars.
Step == (\E a \in Addrs : Receive(a)) \/ (\E x \in Socks : Proceed(x) \/ Close(x))
Busy ==
  \/ \E a \in Addrs : net[a] # <<>>
  \/ \E x \in Socks : chan[x] = "none" /\ pc[x] \notin {"new", "failed", "done"}
FairSpec == Spec /\ ([]<>(~Busy) \/ []<><<Step>>_vars)

-----------------------------------------------------------------------------
(* Properties *)

\* What a process reads and has queued comes from one sender, in the order it
\* was written and without repetition, whatever the network does.
Received(y) == got[y] \o rxq[y]
InOrder ==
  \A y \in Socks : \A i, j \in DOMAIN Received(y) :
    i < j => /\ Received(y)[i][1] = Received(y)[j][1]
             /\ Received(y)[i][2] < Received(y)[j][2]

Registered(x) == \E i \in DOMAIN sockets : sockets[i] = x
Linked(x, y) == Registered(y) /\ raddr[y] = Local(x) /\ raddr[x] \in {Local(y), None}

\* Without faults and with room in the windows, every byte written is in the
\* reader's hands, in its queue or on its way, until the reader closes.
InFlight(x, y) ==
  FoldLeft(\o, <<>>, [i \in DOMAIN net[Local(y)] |->
    IF net[Local(y)][i].src = Local(x) THEN net[Local(y)][i].data ELSE <<>>])
Complete ==
  faults = 0 /\ missed = {} =>
    \A x, y \in Socks :
      Linked(x, y) => Received(y) \o InFlight(x, y) = [i \in 1..sent[x] |-> <<x, i>>]

Synchronized(s) == s.state \notin {"CLOSED", "LISTEN", "SYN_SENT"}

\* Neither end expects what the other has not sent, or takes for acknowledged
\* what the other has not received -- until a SYN reopens a connection that was
\* closed: tcp_segments_arrives' case for CLOSED runs on into the one for LISTEN.
AcksAreHonest ==
  "reopened" \notin missed =>
    \A x, y \in Socks :
      Registered(x) /\ Linked(x, y) /\ Synchronized(cb[x]) /\ Synchronized(cb[y]) =>
        cb[x].una <= cb[y].rcvnxt /\ cb[y].rcvnxt <= cb[x].nxt

\* Who sleeps has something to wait for, unless the connection was reset.
SleepersWait ==
  \A x \in Socks :
    /\ chan[x] = "rxq" => rxq[x] = <<>> /\ cb[x].state # "CLOSE_WAIT"
    /\ chan[x] = "tcpcb" =>
         cb[x].state \in (CASE pc[x] = "connect" -> {"SYN_SENT", "SYN_RCVD"}
                            [] pc[x] = "accept" -> {"LISTEN", "SYN_RCVD"}
                            [] OTHER -> {"FIN_WAIT1", "FIN_WAIT2", "CLOSING", "LAST_ACK"})
                         \union (IF faults = 0 THEN {} ELSE {"CLOSED"})

\* Without faults, connect returns, and close does once both ends close.
ConnectAndCloseReturn ==
  [](faults = 0 /\ missed = {}) =>
    \A x \in Socks : pc[x] \in {"connect", "close"} ~> pc[x] \notin {"connect", "close"}
=============================================================================
