---------------------------- MODULE PacketStream ----------------------------
(***************************************************************************)
(* The packets a client sends as a stream of bytes, the buffers in which a *)
(* slot takes the stream apart again, and what must be true of them.       *)
(* PacketFraming has the steps.                                            *)
(***************************************************************************)
EXTENDS Naturals, Sequences, SequencesExt

CONSTANTS
    PacketSize,        \* the sizes of the packets clients send
    MAX_BUF_SIZE,      \* of io_buf
    MAX_PACKET_SIZE,   \* of mPacketBuf
    BYTE,              \* the values of a byte
    Streams            \* bound: the packets a client may send, as their sizes

(***************************************************************************)
(* The largest packet a client sends has 29 bytes: the high byte of a size *)
(* is 0.                                                                   *)
(***************************************************************************)
ASSUME FramingAssumption ==
    /\ PacketSize \subseteq 3..MAX_PACKET_SIZE
    /\ MAX_PACKET_SIZE \in Nat /\ MAX_BUF_SIZE \in Nat \ {0}
    /\ BYTE \in Nat /\ \A n \in PacketSize : n < BYTE
    /\ Streams \subseteq Seq(PacketSize)

VARIABLES
    sent,         \* the sizes of the packets this client sends
    taken,        \* how many bytes of them have been received
    io_buf, p, restByte,        \* the receive; the place and rest of it
    packetSize,                 \* 0: not read yet
    mPacketBuf, mPrevSize,      \* the rest of the last receive
    handled       \* the packets ProcessPacket was called with

\* A byte: its value, and which byte of which packet it is.
Byte(k, i, v) == [packet |-> k, index |-> i, value |-> v]

Packet(k) == [i \in 1..sent[k] |->
                Byte(k, i, CASE i = 1 -> sent[k] % BYTE
                             [] i = 2 -> sent[k] \div BYTE
                             [] OTHER -> 1)]

Stream == FlattenSeq([k \in DOMAIN sent |-> Packet(k)])

-----------------------------------------------------------------------------
(***************************************************************************)
(* Every place and length points into its buffer, or just behind it.       *)
(***************************************************************************)
WithinBuffers ==
    /\ sent \in Streams
    /\ taken \in 0..Len(Stream)
    /\ DOMAIN io_buf = 1..MAX_BUF_SIZE /\ DOMAIN mPacketBuf = 1..MAX_PACKET_SIZE
    /\ p \in 1..MAX_BUF_SIZE + 1
    /\ restByte \in 0..MAX_BUF_SIZE /\ p + restByte <= MAX_BUF_SIZE + 1
    /\ packetSize \in PacketSize \cup {0}
    /\ mPrevSize \in 0..MAX_PACKET_SIZE

(***************************************************************************)
(* However the stream is cut, even within the two bytes of a size, the     *)
(* packets handled are those the client sent, whole, each once, in order.  *)
(***************************************************************************)
HandledAsSent ==
    \A k \in DOMAIN handled : k \in DOMAIN sent /\ handled[k] = Packet(k)

(***************************************************************************)
(* Between two receives everything received has been handled, but for the  *)
(* part of one packet, which is what mPacketBuf keeps: no packet that has  *)
(* come waits for the next receive.  Nothing is copied past a buffer.      *)
(***************************************************************************)
RestIsKept ==
    /\ WithinBuffers
    /\ restByte = 0 =>
          /\ FlattenSeq(handled) \o SubSeq(mPacketBuf, 1, mPrevSize)
               = SubSeq(Stream, 1, taken)
          /\ mPrevSize > 0 => mPrevSize < sent[Len(handled) + 1]
=============================================================================
