------------------------------ MODULE WireHeader -----------------------------
(***************************************************************************)
(* What the transport's messages are on the wire: the 64-byte headers and   *)
(* the 128-byte request descriptors (chunk/header_flatbuf.cc, chunk/        *)
(* header.h) and how Transfer::Recv finds them again (transfer/transfer.cc):*)
(* in a stream, where every length must be right for the next header to be  *)
(* found, and in datagrams, which the receiver's buffer may cut short.  A   *)
(* buffer is a sequence of 4-byte words, and lengths count words.  A byte   *)
(* holds 0 .. Radix - 1.                                                    *)
(***************************************************************************)
EXTENDS Integers, Sequences, FiniteSets, SequencesExt

CONSTANTS
    Radix,       \* values of a byte
    Packets,     \* what the sender may send: a header and its payload
    Foreign,     \* what a program of another kind or version may send
    TmpWords,    \* kTmpBufSize
    MaxPackets   \* bound on the packets sent, and on those received

VARIABLES
    linkKind,   \* "stream" or "message"
    peerSent,   \* packets sent, in order
    inFlight,   \* the words of the stream
    datagrams,  \* the datagrams in the network
    parser,     \* the receive thread of the stream
    arrived,    \* packets received, in order; `kept` unless their payload was drained
    interfered  \* the link broke, another program sent something, or a chunk was refused

wireVars == <<linkKind, peerSent, inFlight, datagrams, parser, arrived, interfered>>

kSize == 16
kRequestInfoSize == 32
kMagic == 5
kVer == 1
kPostInfo == 1
kData == 2
kContiguous == 1
kRead == 1
kWrite == 2

ASSUME WireAssumption ==
    /\ Radix \in Nat /\ Radix % 2 = 0 /\ kMagic < Radix * Radix
    /\ TmpWords \in Nat /\ TmpWords > kSize

----------------------------------------------------------------------------
(* Fields of a word, and words of a 64-bit field, low end first *)

Half == Radix * Radix
Whole == Half * Half
Word(low16, byte2, byte3) == low16 + Half * (byte2 + Radix * byte3)
Low16(w) == w % Half
Byte2(w) == (w \div Half) % Radix
Byte3(w) == w \div (Half * Radix)
U64(n) == <<n % Whole, n \div Whole>>
FromU64(buf, k) == buf[k] + Whole * buf[k + 1]
I8(n) == n % Radix
FromI8(b) == IF b < Radix \div 2 THEN b ELSE b - Radix
Zeros(n) == [k \in 1 .. n |-> 0]
WordsAt(buf, first, n) == SubSeq(buf, first, first + n - 1)

IsPostInfo(h) == h.opcode = kPostInfo /\ h.len > 0 /\ h.len % kRequestInfoSize = 0
HasData(h) == h.opcode = kData /\ h.len > 0
HasAck(h) == h.opcode = kData /\ h.len = 0
IsValidRequest(r) == r.op \in {kRead, kWrite} /\ r.total_len > 0 /\ r.nchunks > 0 /\ r.recipe = kContiguous

----------------------------------------------------------------------------
(* HeaderUtil::Serialize *)

SerializeBase(h) == <<Word(kMagic, kVer, h.opcode), h.handle, h.len>>

\* An IPv4 address takes the first of the four words.
SerializePostInfo(h) ==
    SerializeBase(h) \o h.peer.ip \o Zeros(4 - Len(h.peer.ip))
    \o <<Word(h.peer.port, IF Len(h.peer.ip) = 4 THEN 1 ELSE 0, 0)>> \o h.metadata

SerializeData(h) ==
    SerializeBase(h) \o <<h.reqid, h.index, 0>> \o U64(h.byte_offset) \o U64(h.raddr)
    \o U64(h.tx_send_us)
    \o <<h.rx_payload_us, Word(h.rx_acquire_us, I8(h.rx_worker_id), h.rx_chunk_status)>> \o Zeros(2)

SerializeRequest(r) ==
    <<r.reqid, r.nchunks>> \o U64(r.raddr) \o U64(r.total_len) \o <<r.op, 0>>
    \o <<r.recipe, 0>> \o r.params \o r.metadata \o Zeros(6)

\* SendInfo, SendChunk and sendAck write the header and the payload together.
Serialize(p) ==
    IF IsPostInfo(p.header)
    THEN SerializePostInfo(p.header) \o FlattenSeq([k \in DOMAIN p.payload |-> SerializeRequest(p.payload[k])])
    ELSE SerializeData(p.header) \o p.payload

----------------------------------------------------------------------------
(* HeaderUtil::Deserialize: the set of the header read, empty on failure *)

Ours(buf) == Len(buf) = kSize /\ Low16(buf[1]) = kMagic /\ Byte2(buf[1]) = kVer

ReadPostInfo(buf) ==
    [opcode |-> Byte3(buf[1]), handle |-> buf[2], len |-> buf[3],
     peer |-> [ip |-> WordsAt(buf, 4, IF Byte2(buf[8]) = 1 THEN 4 ELSE 1), port |-> Low16(buf[8])],
     metadata |-> WordsAt(buf, 9, 8)]

DeserializePostInfo(buf) ==
    {h \in {ReadPostInfo(b) : b \in {x \in {buf} : Ours(x)}} : IsPostInfo(h)}

ReadData(buf) ==
    [opcode |-> Byte3(buf[1]), handle |-> buf[2], len |-> buf[3], reqid |-> buf[4], index |-> buf[5],
     byte_offset |-> FromU64(buf, 7), raddr |-> FromU64(buf, 9), tx_send_us |-> FromU64(buf, 11),
     rx_payload_us |-> buf[13], rx_acquire_us |-> Low16(buf[14]),
     rx_worker_id |-> FromI8(Byte2(buf[14])), rx_chunk_status |-> Byte3(buf[14])]

DeserializeData(buf) ==
    {h \in {ReadData(b) : b \in {x \in {buf} : Ours(x)}} : HasData(h) \/ HasAck(h)}

ReadRequest(buf) ==
    [reqid |-> buf[1], nchunks |-> buf[2], raddr |-> FromU64(buf, 3), total_len |-> FromU64(buf, 5),
     op |-> buf[7] % Radix, recipe |-> buf[9] % Radix,
     params |-> WordsAt(buf, 11, 8), metadata |-> WordsAt(buf, 19, 8)]

\* The payload of a post info: whole descriptors, all of them valid.
DeserializeRequests(buf) ==
    LET n == Len(buf) \div kRequestInfoSize
        reqs == [k \in 1 .. n |-> ReadRequest(WordsAt(buf, (k - 1) * kRequestInfoSize + 1, kRequestInfoSize))]
    IN {rs \in {reqs} : /\ Len(buf) > 0 /\ Len(buf) % kRequestInfoSize = 0
                        /\ \A k \in 1 .. n : IsValidRequest(rs[k])}

\* Transfer::deserialize
deserialize(buf) == IF DeserializeData(buf) # {} THEN DeserializeData(buf) ELSE DeserializePostInfo(buf)

----------------------------------------------------------------------------
(* The sender and the network *)

NoHeader == [opcode |-> 0, len |-> 0]
AtHeader == [at |-> "header", header |-> NoHeader, left |-> 0]
Stopped == [AtHeader EXCEPT !.at = "stopped"]

WireInit ==
    /\ linkKind \in {"stream", "message"}
    /\ peerSent = <<>> /\ inFlight = <<>> /\ datagrams = {}
    /\ parser = AtHeader /\ arrived = <<>> /\ interfered = FALSE

\* Nothing more is sent on a link that has failed.
SendPacket(p) ==
    /\ Len(peerSent) < MaxPackets /\ ~interfered
    /\ peerSent' = Append(peerSent, p)
    /\ inFlight' = IF linkKind = "stream" THEN inFlight \o Serialize(p) ELSE inFlight
    /\ datagrams' = datagrams \cup {buf \in {Serialize(p)} : linkKind = "message"}
    /\ UNCHANGED <<linkKind, parser, arrived, interfered>>

SendForeign(buf) ==
    /\ ~interfered /\ interfered' = TRUE
    /\ inFlight' = IF linkKind = "stream" THEN inFlight \o buf ELSE inFlight
    /\ datagrams' = datagrams \cup {b \in {buf} : linkKind = "message"}
    /\ UNCHANGED <<linkKind, peerSent, parser, arrived>>

\* The connection ends anywhere in what has been sent.
BreakStream(n) ==
    /\ linkKind = "stream" /\ ~interfered /\ interfered' = TRUE
    /\ inFlight' = SubSeq(inFlight, 1, n)
    /\ UNCHANGED <<linkKind, peerSent, datagrams, parser, arrived>>

\* In the network, or in recvMsg because the datagram is not valid.
LoseDatagram(buf) ==
    /\ datagrams' = datagrams \ {buf}
    /\ UNCHANGED <<linkKind, peerSent, inFlight, parser, arrived, interfered>>

----------------------------------------------------------------------------
(* recvStream: reads of exactly n words *)

Reads(n) == Len(inFlight) >= n /\ inFlight' = SubSeq(inFlight, n + 1, Len(inFlight))

Got(header, payload, kept) ==
    arrived' = Append(arrived, [packet |-> [header |-> header, payload |-> payload], kept |-> kept])

\* A chunk is read into its buffer; it is drained when it is done or busy, and when its
\* handle or address is unknown, which ends the loop.
recvStream ==
    /\ linkKind = "stream" /\ parser.at = "header" /\ Reads(kSize)
    /\ LET headers == deserialize(SubSeq(inFlight, 1, kSize))
       IN \/ headers = {} /\ parser' = Stopped /\ UNCHANGED <<arrived, interfered>>
          \/ \E h \in headers :
               \/ HasAck(h) /\ Got(h, <<>>, TRUE) /\ UNCHANGED <<parser, interfered>>
               \/ /\ ~HasAck(h) /\ UNCHANGED arrived
                  /\ \E at \in IF IsPostInfo(h) THEN {"infos"} ELSE {"payload", "drain", "refuse"} :
                       /\ parser' = [at |-> at, header |-> h, left |-> h.len]
                       /\ interfered' = (interfered \/ at = "refuse")
    /\ UNCHANGED <<linkKind, peerSent, datagrams>>

ReadPayload ==
    /\ parser.at = "payload" /\ Reads(parser.left)
    /\ Got(parser.header, SubSeq(inFlight, 1, parser.left), TRUE)
    /\ parser' = AtHeader
    /\ UNCHANGED <<linkKind, peerSent, datagrams, interfered>>

recvPostInfoStream ==
    /\ parser.at = "infos" /\ Reads(parser.left)
    /\ LET reqs == DeserializeRequests(SubSeq(inFlight, 1, parser.left))
       IN \/ reqs = {} /\ parser' = Stopped /\ UNCHANGED arrived
          \/ \E rs \in reqs : Got(parser.header, rs, TRUE) /\ parser' = AtHeader
    /\ UNCHANGED <<linkKind, peerSent, datagrams, interfered>>

drainStream_once ==
    /\ parser.at \in {"drain", "refuse"}
    /\ LET size == IF parser.left < TmpWords THEN parser.left ELSE TmpWords
       IN /\ Reads(size)
          /\ Got(parser.header, <<>>, FALSE)
          /\ parser' = IF parser.at = "drain" THEN AtHeader ELSE Stopped
    /\ UNCHANGED <<linkKind, peerSent, datagrams, interfered>>

\* In pieces of at most the size of the buffer.
drainStream ==
    /\ parser.at \in {"drain", "refuse"}
    /\ LET size == IF parser.left < TmpWords THEN parser.left ELSE TmpWords
       IN /\ Reads(size)
          /\ IF size < parser.left
             THEN parser' = [parser EXCEPT !.left = @ - size] /\ UNCHANGED arrived
             ELSE /\ Got(parser.header, <<>>, FALSE)
                  /\ parser' = IF parser.at = "drain" THEN AtHeader ELSE Stopped
    /\ UNCHANGED <<linkKind, peerSent, datagrams, interfered>>

\* The stream has ended and holds less than the read asks for.
ShortRead ==
    /\ linkKind = "stream" /\ interfered /\ parser.at # "stopped"
    /\ Len(inFlight) < (IF parser.at = "header" THEN kSize
                        ELSE IF parser.at \in {"drain", "refuse"} /\ parser.left > TmpWords THEN TmpWords
                        ELSE parser.left)
    /\ parser' = Stopped /\ inFlight' = <<>>
    /\ UNCHANGED <<linkKind, peerSent, datagrams, arrived, interfered>>

----------------------------------------------------------------------------
(* recvMsg: one datagram, cut to the size of the buffer *)

IsMatch(header, buf) == header.len = Len(buf) - kSize

Payloads(h, buf) ==
    LET words == SubSeq(buf, kSize + 1, Len(buf))
    IN IF IsPostInfo(h) THEN DeserializeRequests(words) ELSE {words}

\* The datagram may come again.
recvMsg(datagram) ==
    /\ Len(arrived) < MaxPackets
    /\ LET buf == SubSeq(datagram, 1, IF Len(datagram) < TmpWords THEN Len(datagram) ELSE TmpWords)
       IN /\ Len(buf) >= kSize
          /\ \E h \in deserialize(SubSeq(buf, 1, kSize)) :
               /\ IsMatch(h, buf)
               /\ \E payload \in Payloads(h, buf) : Got(h, payload, TRUE)
    /\ \E again \in BOOLEAN : datagrams' = IF again THEN datagrams ELSE datagrams \ {datagram}
    /\ UNCHANGED <<linkKind, peerSent, inFlight, parser, interfered>>

WireNext ==
    \/ \E p \in Packets : SendPacket(p)
    \/ \E buf \in Foreign : SendForeign(buf)
    \/ \E n \in 0 .. Len(inFlight) : BreakStream(n)
    \/ recvStream \/ ReadPayload \/ recvPostInfoStream \/ drainStream \/ ShortRead
    \/ \E datagram \in datagrams : recvMsg(datagram) \/ LoseDatagram(datagram)

----------------------------------------------------------------------------
SameAs(got, p) == got.packet.header = p.header /\ (got.kept => got.packet.payload = p.payload)

\* What a receiver makes of the words is what the sender sent, field by field: of a stream
\* a prefix, wherever it ends and whatever else was written into it; of datagrams any of
\* them, none of those cut short.  A stream nobody disturbs is never given up, and before
\* each header it holds exactly the packets not received yet, although payloads were
\* drained piece by piece.
StaysInStep ==
    IF linkKind = "stream"
    THEN /\ Len(arrived) <= Len(peerSent)
         /\ \A k \in DOMAIN arrived : SameAs(arrived[k], peerSent[k])
         /\ ~interfered =>
              /\ parser.at # "stopped"
              /\ parser.at = "header" =>
                   inFlight = FlattenSeq([k \in 1 .. Len(peerSent) - Len(arrived) |->
                                            Serialize(peerSent[Len(arrived) + k])])
    ELSE \A k \in DOMAIN arrived : \E p \in ToSet(peerSent) : arrived[k].kept /\ SameAs(arrived[k], p)

=============================================================================
