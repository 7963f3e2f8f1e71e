---------------------------- MODULE PcapWriter ----------------------------
(***************************************************************************)
(* The packets of a session (world/pcap.py).  The capture kept no packets: *)
(* they are written from what its row says, a conversation of segments     *)
(* with sequence numbers, acknowledgements and times, of which at most the *)
(* first MaxPackets are kept.  A segment that finds the writer full is     *)
(* refused and changes nothing.                                            *)
(*                                                                         *)
(* What the protocols say to each other is a constant: for each row the    *)
(* messages of its exchange, by direction and length.                      *)
(***************************************************************************)
EXTENDS Integers, Sequences, FiniteSetsExt

CONSTANTS
    MaxPackets, \* MAX_PACKETS
    Mss,        \* MSS
    SeqSpan,    \* 2^32: sequence numbers are counted modulo it
    StepLimit,  \* the longest step between packets
    Sessions    \* [start, end, up, down, transport, isn, exchange]

UP   == 1
DOWN == 2
Directions == {UP, DOWN}
Other(direction) == IF direction = UP THEN DOWN ELSE UP

\* A message of an exchange.
Message == [dir: Directions, len: Nat]

\* The code keeps 256 packets.  No more than 1000 may be kept, because a row
\* lasts at least a millisecond and a step takes at least a microsecond.
ASSUME PcapAssumption ==
    /\ MaxPackets \in 1 .. 1000
    /\ {Mss, SeqSpan, StepLimit} \subseteq Nat \ {0}
    /\ \A s \in Sessions : /\ {s.start, s.end, s.up, s.down, s.isn[UP], s.isn[DOWN]} \subseteq Nat
                           /\ s.transport \in {"tcp", "udp"}
                           /\ s.exchange \in Seq(Message)

VARIABLES
    session, \* the row the packets are written for
    stage,   \* "handshake", "exchange", "fill" or "written"
    ahead,   \* the messages of the exchange that are still to be said
    flow,    \* [packets, clock, next, sent]: the writer and the conversation
    left     \* the bytes of each direction that are still to be filled in

pvars == <<session, stage, ahead, flow, left>>

-----------------------------------------------------------------------------
\* The time between two packets, so that MaxPackets of them fit the session.
StepOfMillis(row) ==
    Max({1000, Min({(Max({1, row.end - row.start}) * 1000) \div MaxPackets, StepLimit})})

StepOf(row) ==
    LET span == Max({1, row.end - row.start}) * 1000
    IN  Max({1, Min({span \div MaxPackets, StepLimit})})

NewFlow(row) ==
    [packets |-> <<>>, clock |-> row.start * 1000,
     next |-> [d \in Directions |-> row.isn[d] % SeqSpan], sent |-> [d \in Directions |-> 0]]

Full(f) == Len(f.packets) >= MaxPackets

\* A packet is kept and the clock goes on, unless the writer is full.
Add(f, packet) ==
    IF Full(f) THEN f
    ELSE [f EXCEPT !.packets = Append(@, packet),
                   !.clock   = @ + StepOf(session),
                   !.sent[packet.dir] = @ + packet.len]

Datagram(f, direction, size) == Add(f, [dir |-> direction, len |-> size, time |-> f.clock])

\* SYN and FIN take a sequence number each, as every byte does.
SegmentWithoutFin(f, direction, flags, size) ==
    LET taken == size + (IF "SYN" \in flags THEN 1 ELSE 0)
        added == Add(f, [dir |-> direction, flags |-> flags, len |-> size, time |-> f.clock,
                         seq |-> f.next[direction],
                         ack |-> IF "ACK" \in flags THEN f.next[Other(direction)] ELSE 0])
    IN  IF Full(f) THEN f ELSE [added EXCEPT !.next[direction] = (@ + taken) % SeqSpan]

Segment(f, direction, flags, size) ==
    LET taken == size + (IF flags \cap {"SYN", "FIN"} # {} THEN 1 ELSE 0)
        added == Add(f, [dir |-> direction, flags |-> flags, len |-> size, time |-> f.clock,
                         seq |-> f.next[direction],
                         ack |-> IF "ACK" \in flags THEN f.next[Other(direction)] ELSE 0])
    IN  IF Full(f) THEN f ELSE [added EXCEPT !.next[direction] = (@ + taken) % SeqSpan]

Shaken(f) ==
    Segment(Segment(Segment(f, UP, {"SYN"}, 0), DOWN, {"SYN", "ACK"}, 0), UP, {"ACK"}, 0)

\* A message is cut into segments of at most Mss, the last one pushed, and
\* each is acknowledged.
Chunks(size) ==
    [i \in 1 .. (size + Mss - 1) \div Mss |-> Min({Mss, size - (i - 1) * Mss})]

Said(f, direction, size) ==
    LET chunks == Chunks(size)
        flags(i) == IF i = Len(chunks) THEN {"PSH", "ACK"} ELSE {"ACK"}
        after[i \in 0 .. Len(chunks)] ==
          IF i = 0 THEN f
          ELSE Segment(Segment(after[i - 1], direction, flags(i), chunks[i]), Other(direction), {"ACK"}, 0)
    IN  after[Len(chunks)]

\* Bytes the row has and the exchange did not say.
UnsaidAll(f, row) ==
    [d \in Directions |-> IF d = UP THEN row.up ELSE row.down]

Unsaid(f, row) ==
    [d \in Directions |-> Max({0, (IF d = UP THEN row.up ELSE row.down) - f.sent[d]})]

Heavier == IF left[UP] >= left[DOWN] /\ left[UP] > 0 THEN UP ELSE DOWN

-----------------------------------------------------------------------------
PcapInit ==
    /\ session \in Sessions
    /\ stage = IF session.transport = "udp" THEN "exchange" ELSE "handshake"
    /\ ahead = session.exchange
    /\ flow = NewFlow(session)
    /\ left = [d \in Directions |-> 0]

\* A handshake that does not fit ends the writing.
Handshake ==
    /\ stage = "handshake"
    /\ flow' = Shaken(flow)
    /\ stage' = IF MaxPackets < 3 THEN "written" ELSE "exchange"
    /\ UNCHANGED <<session, ahead, left>>

Exchange ==
    /\ stage = "exchange" /\ ahead # <<>>
    /\ flow' = LET said == Head(ahead) IN
               IF session.transport = "udp" THEN Datagram(flow, said.dir, said.len)
               ELSE Said(flow, said.dir, said.len)
    /\ ahead' = Tail(ahead)
    /\ UNCHANGED <<session, stage, left>>

\* A conversation of datagrams ends here.
EndExchange ==
    /\ stage = "exchange" /\ ahead = <<>>
    /\ IF session.transport = "udp" THEN stage' = "written" /\ UNCHANGED left
       ELSE stage' = "fill" /\ left' = Unsaid(flow, session)
    /\ UNCHANGED <<session, ahead, flow>>

FillOne ==
    /\ stage = "fill" /\ ~ Full(flow) /\ (left[UP] > 0 \/ left[DOWN] > 0)
    /\ LET d    == Heavier
           size == Min({Mss, left[d]})
       IN  /\ left' = [left EXCEPT ![d] = @ - size]
           /\ flow' = Segment(Segment(flow, d, {"PSH", "ACK"}, size), Other(d), {"ACK"}, 0)
    /\ UNCHANGED <<session, stage, ahead>>

Finish ==
    /\ stage = "fill" /\ (Full(flow) \/ (left[UP] = 0 /\ left[DOWN] = 0))
    /\ flow' = Segment(Segment(Segment(flow, UP, {"FIN", "ACK"}, 0), DOWN, {"FIN", "ACK"}, 0),
                       UP, {"ACK"}, 0)
    /\ stage' = "written"
    /\ UNCHANGED <<session, ahead, left>>

PcapNext == Handshake \/ Exchange \/ EndExchange \/ FillOne \/ Finish

PcapSpec == PcapInit /\ [][PcapNext]_pvars
-----------------------------------------------------------------------------
(* What a reader of the packets may rely on.                               *)

TotalOf(s) ==
    LET upTo[k \in 0 .. Len(s)] == IF k = 0 THEN 0 ELSE upTo[k - 1] + s[k]
    IN  upTo[Len(s)]

BytesIn(packets, d) ==
    TotalOf([k \in 1 .. Len(packets) |-> IF packets[k].dir = d THEN packets[k].len ELSE 0])

\* What a packet takes of the sequence numbers of its side.
Took(packet) ==
    packet.len + (IF "SYN" \in packet.flags THEN 1 ELSE 0) + (IF "FIN" \in packet.flags THEN 1 ELSE 0)

\* The sequence number that follows what a side was seen to send.
Expected(row, packets, d) ==
    (row.isn[d] + TotalOf([k \in 1 .. Len(packets) |-> IF packets[k].dir = d THEN Took(packets[k]) ELSE 0]))
      % SeqSpan

\* Read packet by packet, a written conversation (Conversation.segment) has no
\* gap, nothing twice, and every acknowledgement is of all the other side sent
\* so far and of nothing more, also when the numbers wrap around or the writer
\* fills up in the middle of a message.
StreamsReassemble ==
    session.transport = "tcp" =>
        \A k \in DOMAIN flow.packets :
            LET p == flow.packets[k]
                seen == SubSeq(flow.packets, 1, k - 1)
            IN  /\ p.seq = Expected(session, seen, p.dir)
                /\ "ACK" \in p.flags => p.ack = Expected(session, seen, Other(p.dir))

\* The packets of a session (build_pcap) carry as many bytes each way as its
\* row says, or as its exchange takes if that is more; a capture cut at the
\* limit carries no more than that, and one that is not ends with both sides
\* closed.
BytesAsListed ==
    stage = "written" =>
        /\ \A d \in Directions :
              LET asked == BytesIn(session.exchange, d)
                  row   == IF d = UP THEN session.up ELSE session.down
                  goal  == IF session.transport = "udp" THEN asked ELSE Max({asked, row})
              IN  /\ BytesIn(flow.packets, d) <= goal
                  /\ Full(flow) \/ BytesIn(flow.packets, d) = goal
        /\ session.transport = "tcp" /\ ~ Full(flow) =>
              \A d \in Directions : \E i \in DOMAIN flow.packets :
                  /\ flow.packets[i].dir = d /\ "FIN" \in flow.packets[i].flags
                  /\ \E k \in i + 1 .. Len(flow.packets) :
                         /\ flow.packets[k].dir = Other(d)
                         /\ flow.packets[k].ack = (flow.packets[i].seq + 1) % SeqSpan

\* There are never more packets than the limit, and their times (PacketWriter,
\* _step_us) go up and stay within the session, however short it is.
PacketsFitTheSession ==
    /\ Len(flow.packets) <= MaxPackets
    /\ \A k \in DOMAIN flow.packets :
          LET time == flow.packets[k].time IN
          /\ k > 1 => flow.packets[k - 1].time < time
          /\ session.start * 1000 <= time
          /\ time < Max({session.end, session.start + 1}) * 1000

(* What the packets of a session are together: what its row lists, within  *)
(* its time, and a conversation that can be put together again.            *)
PacketsAsListed ==
    /\ StreamsReassemble
    /\ BytesAsListed
    /\ PacketsFitTheSession
=============================================================================
