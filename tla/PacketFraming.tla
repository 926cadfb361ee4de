--------------------------- MODULE PacketFraming ---------------------------
(***************************************************************************)
(* Server::PacketConstruct: packets out of the bytes a slot receives.      *)
(*                                                                         *)
(* A client sends packets, each beginning with its size in two bytes, the  *)
(* low one first.  A receive brings the next bytes of the stream, cut      *)
(* anywhere; what is left of a packet is kept in mPacketBuf until the next *)
(* receive.  The size is read whether or not both its bytes have come: the *)
(* other one is then whatever an earlier receive, or an earlier packet,    *)
(* left at that place.                                                     *)
(*                                                                         *)
(* A receive is handled by one worker before the next one is posted        *)
(* (OneReceive of Server), so nothing runs concurrently here.  The slot    *)
(* may get another client at any time between two receives.                *)
(*                                                                         *)
(* The stream, the buffers and the properties are in PacketStream.         *)
(***************************************************************************)
EXTENDS PacketStream

vars == <<sent, taken, io_buf, p, restByte, packetSize, mPacketBuf, mPrevSize,
          handled>>

\* A byte a buffer still holds from before is no byte of a packet any more.
Zero == Byte(0, 0, 0)
Old(buf) == [i \in DOMAIN buf |-> Byte(0, 0, buf[i].value)]

Init ==
    /\ sent \in Streams
    /\ taken = 0
    /\ io_buf = [i \in 1..MAX_BUF_SIZE |-> Zero] /\ p = 1 /\ restByte = 0
    /\ packetSize = 0
    /\ mPacketBuf = [i \in 1..MAX_PACKET_SIZE |-> Zero] /\ mPrevSize = 0
    /\ handled = <<>>
-----------------------------------------------------------------------------
(***************************************************************************)
(* The uint16_t at place i of a buffer.  Behind io_buf comes the length of *)
(* the WSABUF, which is not 0.                                             *)
(***************************************************************************)
Uint16(buf, i) ==
    LET high == IF i + 1 \in DOMAIN buf THEN buf[i + 1].value ELSE 1 IN
    buf[i].value + BYTE * high

\* memcpy(mPacketBuf + mPrevSize, p, n)
Copied(n) == [i \in DOMAIN mPacketBuf |->
                IF i \in mPrevSize + 1 .. mPrevSize + n
                THEN io_buf[p + i - mPrevSize - 1] ELSE mPacketBuf[i]]

\* A receive completes with the next n bytes; PacketConstruct begins.
Receive(n) ==
    /\ restByte = 0
    /\ taken + n <= Len(Stream)
    /\ io_buf' = [i \in DOMAIN io_buf |->
                    IF i <= n THEN Stream[taken + i] ELSE io_buf[i]]
    /\ taken' = taken + n
    /\ p' = 1 /\ restByte' = n
    /\ packetSize' = IF mPrevSize # 0 THEN Uint16(mPacketBuf, 1) ELSE 0
    /\ UNCHANGED <<sent, mPacketBuf, mPrevSize, handled>>

\* One turn of the loop, which knows or reads the size first; the locals are
\* gone when there is no rest.
CurrentSize == IF packetSize = 0 THEN Uint16(io_buf, p) ELSE packetSize

\* What is left of the receive, from where, and no size known of it; the
\* call returns when nothing is left.
Rest(n, from) ==
    /\ restByte' = n /\ packetSize' = 0
    /\ p' = IF n = 0 THEN 1 ELSE from
    /\ io_buf' = IF n = 0 THEN Old(io_buf) ELSE io_buf

\* Mutant: a packet that ends with the receive is taken for a part of one.
IsWhole_Strictly == CurrentSize < restByte + mPrevSize

IsWhole == CurrentSize <= restByte + mPrevSize

ConstructPacket ==
    LET n == CurrentSize - mPrevSize IN
    /\ restByte > 0 /\ IsWhole
    /\ handled' = Append(handled, SubSeq(Copied(n), 1, CurrentSize))
    /\ mPacketBuf' = Old(Copied(n)) /\ mPrevSize' = 0
    /\ Rest(restByte - n, p + n)
    /\ UNCHANGED <<sent, taken>>

\* The packet is not complete: its part is kept, the call returns.
KeepRest ==
    /\ restByte > 0 /\ ~IsWhole
    /\ mPacketBuf' = Copied(restByte)
    /\ mPrevSize' = mPrevSize + restByte
    /\ Rest(0, p)
    /\ UNCHANGED <<sent, taken, handled>>

PacketConstruct == ConstructPacket \/ KeepRest

\* Mutant: the rest of the last client's packet is kept for the next one.
NextClient_KeepsRest ==
    /\ restByte = 0
    /\ sent' \in Streams /\ taken' = 0 /\ handled' = <<>>
    /\ UNCHANGED <<io_buf, p, restByte, packetSize, mPacketBuf, mPrevSize>>

(***************************************************************************)
(* The client goes and the slot gets another one: Client::Init clears what *)
(* was kept; io_buf stays as it is.                                        *)
(***************************************************************************)
NextClient ==
    /\ restByte = 0
    /\ sent' \in Streams /\ taken' = 0 /\ handled' = <<>>
    /\ mPacketBuf' = [i \in 1..MAX_PACKET_SIZE |-> Zero] /\ mPrevSize' = 0
    /\ UNCHANGED <<io_buf, p, restByte, packetSize>>

Next == \/ \E n \in 1..MAX_BUF_SIZE : Receive(n)
        \/ PacketConstruct
        \/ NextClient

Spec == Init /\ [][Next]_vars
=============================================================================
