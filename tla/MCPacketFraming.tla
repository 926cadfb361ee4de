-------------------------- MODULE MCPacketFraming --------------------------
(***************************************************************************)
(* PacketFraming with packets of 3 and 5 bytes, up to three of them a      *)
(* client, and receives of up to 6 bytes: a receive may hold the end of    *)
(* one packet, another one and the beginning of a third, or a packet come  *)
(* in five receives.  Values of a byte are below 8, so that a size fits    *)
(* into one byte as it does in the code.                                   *)
(*                                                                         *)
(* The bit streams of the library are functions, checked along with it on  *)
(* up to three writes of 1 to 13 bits into a buffer of 16: writes that end *)
(* with a byte, in the middle of one, in the next, and past the buffer.    *)
(***************************************************************************)
EXTENDS PacketFraming, MemoryBitStream

MCStreams == BoundedSeq(PacketSize, 3)

\* A write: how many bits, and the bytes they are in.
BitWrites ==
    {<<1, <<1>>>>, <<3, <<5>>>>, <<5, <<17>>>>, <<8, <<0>>>>, <<8, <<255>>>>, <<8, <<166>>>>,
     <<11, <<129, 6>>>>, <<13, <<255, 31>>>>, <<13, <<90, 9>>>>}

BitCount(writes) == FoldLeft(LAMBDA sum, w : sum + w[1], 0, writes)

BitsWritten(writes) ==
    FoldLeft(LAMBDA s, w : WriteBits(s, w[2], w[1]), OutputMemoryBitStream, writes)

\* What is read, in order, from a stream with what was written.
BitsRead(writes) ==
    LET out == BitsWritten(writes)
        start == [in |-> InputMemoryBitStream(out.mBuffer, out.mBitHead), read |-> <<>>]
    IN FoldLeft(LAMBDA r, w : LET in == ReadBits(r.in, w[1])
                              IN [in |-> in, read |-> Append(r.read, in.outData)],
                start, writes)

(***************************************************************************)
(* Whatever is written into a bit stream comes out of it in the same       *)
(* pieces, wherever in a byte a piece begins and however often the buffer  *)
(* has to grow (MemoryBitStream.cpp:3-48), and the length it says has room *)
(* for all bits and no byte more.                                          *)
(***************************************************************************)
ASSUME BitsAreReadBack ==
    \A writes \in BoundedSeq(BitWrites, 3) :
        LET out == BitsWritten(writes)
        IN /\ BitsRead(writes).read = [i \in DOMAIN writes |-> writes[i][2]]
           /\ GetByteLength(out) * 8 \in BitCount(writes)..BitCount(writes) + 7
           /\ out.mBitCapacity >= out.mBitHead
=============================================================================
