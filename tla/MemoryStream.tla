---------------------------- MODULE MemoryStream ----------------------------
(***************************************************************************)
(* OutputMemoryStream and InputMemoryStream of the Server-Library, by      *)
(* their places: how far the buffer has been written or read, and how long *)
(* it is.  (The server includes reoul/MemoryStream.h, a later copy of the  *)
(* class that is outside the repository; what it calls is the same.)       *)
(***************************************************************************)
EXTENDS Integers, FiniteSetsExt

OutputMemoryStream(capacity) == [mHead |-> 0, mCapacity |-> capacity]

ReallocBuffer(stream, newLength) == [stream EXCEPT !.mCapacity = newLength]

\* Write of n bytes: the buffer doubles, or grows to what is needed.
Write(stream, n) ==
    LET resultHead == stream.mHead + n
        grown == IF resultHead > stream.mCapacity
                 THEN ReallocBuffer(stream, Max({stream.mCapacity * 2, resultHead}))
                 ELSE stream
    IN [grown EXCEPT !.mHead = resultHead]

GetLength(stream) == stream.mHead

InputMemoryStream(inByteCount) == [mHead |-> 0, mCapacity |-> inByteCount]

\* Read of n bytes.  For a read past the end there is a branch, and nothing in it: the
\* bytes that lie there are read, and the rest is less than nothing (in the code,
\* where it has no sign, a number near 2^32).
Read(stream, n) == [stream EXCEPT !.mHead = stream.mHead + n]
GetRemainingDataSize(stream) == stream.mCapacity - stream.mHead
=============================================================================
