-------------------------- MODULE MemoryBitStream --------------------------
(***************************************************************************)
(* OutputMemoryBitStream and InputMemoryBitStream of the Server-Library: a *)
(* buffer of bytes that is written and read some bits at a time, the       *)
(* lowest first.  Shifts and masks of bytes are given by what they do to   *)
(* the numbers: << and >> multiply and divide, & keeps the lowest bits, |  *)
(* adds, for the bits it joins never overlap.                              *)
(***************************************************************************)
EXTENDS Naturals, Sequences, SequencesExt, FiniteSetsExt, TLC

CONSTANT FIRST_BIT_CAPACITY   \* 1500 * 8 in the source

ASSUME MemoryBitStreamAssumption ==
    FIRST_BIT_CAPACITY \in {8 * bytes : bytes \in 1..1500}

Zeros(bitCapacity) == [i \in 0..(bitCapacity \div 8) - 1 |-> 0]

OutputMemoryBitStream ==
    [mBuffer |-> Zeros(FIRST_BIT_CAPACITY), mBitHead |-> 0,
     mBitCapacity |-> FIRST_BIT_CAPACITY]

ReallocBits(stream, newLength) ==
    [stream EXCEPT !.mBuffer = stream.mBuffer @@ Zeros(newLength),
                   !.mBitCapacity = newLength]

GetByteLength(stream) == (stream.mBitHead + 7) \div 8

\* WriteBits of up to eight bits.
WriteByte(stream, inData, inBitCount) ==
    LET nextBitHead == stream.mBitHead + inBitCount
        grown == IF nextBitHead > stream.mBitCapacity
                 THEN ReallocBits(stream, Max({stream.mBitCapacity * 2, nextBitHead}))
                 ELSE stream
        byteOffset == stream.mBitHead \div 8
        bitOffset == stream.mBitHead % 8
        bitsFreeThisByte == 8 - bitOffset
        written == [grown.mBuffer EXCEPT
                      ![byteOffset] = ((@ % 2^bitOffset) + inData * 2^bitOffset) % 256]
    IN [grown EXCEPT
          !.mBitHead = nextBitHead,
          !.mBuffer = IF bitsFreeThisByte < inBitCount
                      THEN [written EXCEPT
                              ![byteOffset + 1] = inData \div 2^bitsFreeThisByte]
                      ELSE written]

\* The loops of WriteBits and ReadBits: eight bits at a time, then what is left.
BitsOfBytes(inBitCount) ==
    LET last == (inBitCount + 7) \div 8
    IN [i \in 1..last |-> IF i < last THEN 8 ELSE inBitCount - 8 * (last - 1)]

\* WriteBits of any number of bits; inData is a sequence of bytes.
WriteBits(stream, inData, inBitCount) ==
    LET bits == BitsOfBytes(inBitCount)
    IN FoldLeft(LAMBDA s, i : WriteByte(s, inData[i], bits[i]), stream,
                [i \in DOMAIN bits |-> i])

InputMemoryBitStream(inBuffer, inBitCount) ==
    [mBuffer |-> inBuffer, mBitHead |-> 0, mBitCapacity |-> inBitCount, outData |-> <<>>]

\* ReadBits of up to eight bits: the next byte of outData.
ReadByte(stream, inBitCount) ==
    LET byteOffset == stream.mBitHead \div 8
        bitOffset == stream.mBitHead % 8
        bitsFreeThisByte == 8 - bitOffset
        low == stream.mBuffer[byteOffset] \div 2^bitOffset
        high == IF bitsFreeThisByte < inBitCount
                THEN (stream.mBuffer[byteOffset + 1] * 2^bitsFreeThisByte) % 256
                ELSE 0
    IN [stream EXCEPT !.mBitHead = @ + inBitCount,
                      !.outData = Append(@, (low + high) % 2^inBitCount)]

ReadBits(stream, inBitCount) ==
    FoldLeft(LAMBDA s, bits : ReadByte(s, bits), [stream EXCEPT !.outData = <<>>],
             BitsOfBytes(inBitCount))
=============================================================================
