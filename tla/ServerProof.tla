---------------------------- MODULE ServerProof -----------------------------
(***************************************************************************)
(* For every number of slots, workers and sockets, and with every fault:   *)
(* the variables keep their types, one worker at a time is in the          *)
(* accepting code, and a slot that is ALLOCATED is in some thread's hands  *)
(* unless its registration failed (SlotInv).                               *)
(*                                                                         *)
(* As long as nothing but the end of a receive makes a thread disconnect a *)
(* client, a session is also in one pair of hands, of a thread or of its   *)
(* outstanding receive, and these find the slot as they left it            *)
(* (SessionInv); that the slot is not reused early, has one receive, that  *)
(* the queue holds who is there and has no room, and that no socket is     *)
(* lost follow from it.                                                    *)
(*                                                                         *)
(* Last, what PacketConstruct makes of the receives of one slot: the       *)
(* packets the client sent, however they were cut (FramingInv).            *)
(***************************************************************************)
EXTENDS Server, PacketStream, QueueLemmas, FiniteSetTheorems

(***************************************************************************)
(* Whatever a completion can arrive for has a slot: a socket with a        *)
(* receive outstanding, the socket of a slot, the socket the accepting     *)
(* worker has registered.  A new socket has no slot yet, and is none of    *)
(* these because a handle still referred to is not given out again.        *)
(***************************************************************************)
KeyKnown ==
    /\ \A s \in Socket : receives[s] > 0 => keyOf[s] \in Slot
    /\ \A c \in Slot : mSocket[c] \in Socket => keyOf[mSocket[c]] \in Slot
    /\ \A t \in Thread : thread[t].pc = "receive" \/ thread[t].pc = "activate" =>
          (thread[t].socket \in Socket => keyOf[thread[t].socket] \in Slot)

SlotInv == TypeOK /\ KeyKnown /\ OneAcceptor /\ AllocatedIsOwned

Records == [pc : Pc, slot : Slot, socket : Socket \cup {INVALID_SOCKET}]

USE DEF Slot, INVALID_SOCKET

LEMMA InitSlots == Init => SlotInv
<1> SUFFICES ASSUME Init PROVE SlotInv
  OBVIOUS
<1>1. TypeOK
  <2>1. 1 \in Slot /\ Idle \in Records
    BY ServerAssumption DEF Idle, Records, Pc
  <2>2. << >> \in Seq(Slot)
    OBVIOUS
  <2> QED BY <2>1, <2>2 DEF Init, TypeOK, Records, ESocketStatus, NoThread
<1>2. KeyKnown
  BY ServerAssumption DEF Init, KeyKnown, Idle
<1>3. OneAcceptor /\ AllocatedIsOwned
  BY DEF Init, OneAcceptor, AllocatedIsOwned, Acceptors, Idle
<1> QED BY <1>1, <1>2, <1>3 DEF SlotInv
-----------------------------------------------------------------------------
LEMMA IdleIsRecord == Idle \in Records /\ Idle.pc = "idle"
BY ServerAssumption DEF Idle, Records, Pc

\* WSARecv, on any handle that a slot is known for.
LEMMA WSARecvIsTyped ==
    ASSUME TypeOK, NEW s \in Socket \cup {INVALID_SOCKET},
           s \in Socket => keyOf[s] \in Slot,
           \A r \in Socket : receives[r] > 0 => keyOf[r] \in Slot,
           WSARecv(s)
    PROVE  /\ receives' \in [Socket -> Nat]
           /\ \A r \in Socket : receives'[r] > 0 => keyOf[r] \in Slot
<1>1. receives \in [Socket -> Nat]
  BY DEF TypeOK
<1>2. CASE UNCHANGED receives
  BY <1>1, <1>2
<1>3. CASE ~UNCHANGED receives
  <2>1. LinkOf(s) \in {"open", "gone"} /\ receives' = [receives EXCEPT ![s] = @ + 1]
    BY <1>3 DEF WSARecv
  <2>2. s \in Socket
    BY <2>1 DEF LinkOf
  <2> QED BY <1>1, <2>1, <2>2
<1> QED BY <1>2, <1>3

LEMMA CloseIsTyped ==
    ASSUME TypeOK, NEW s \in Socket \cup {INVALID_SOCKET}, Close(s)
    PROVE  link' \in [Socket -> {"unused", "open", "gone", "closed"}]
BY DEF TypeOK, Close
-----------------------------------------------------------------------------
(***************************************************************************)
(* What a step of one thread does to OneAcceptor and AllocatedIsOwned.     *)
(***************************************************************************)
AcceptorPc == {"scan", "register", "activate", "receive"}
OwnerPc == {"register", "activate", "init"}

\* Nobody enters the accepting code, or the one who was in it stays.
LEMMA AcceptorStays ==
    ASSUME SlotInv, NEW t \in Thread, NEW r, thread' = [thread EXCEPT ![t] = r],
           r.pc \in AcceptorPc => thread[t].pc \in AcceptorPc,
           UNCHANGED acceptPosted
    PROVE  OneAcceptor'
<1>1. /\ \A u \in Thread \ {t} : thread'[u] = thread[u]
      /\ thread'[t] = r
  BY DEF SlotInv, TypeOK
<1>2. Acceptors' \subseteq Acceptors
  BY <1>1 DEF Acceptors, AcceptorPc
<1> QED BY <1>2 DEF SlotInv, OneAcceptor

\* The one who was in the accepting code leaves it, with AcceptEx.
LEMMA AcceptorLeaves ==
    ASSUME SlotInv, NEW t \in Thread, thread[t].pc \in AcceptorPc, AcceptAgain(t)
    PROVE  /\ OneAcceptor'
           /\ thread' = [thread EXCEPT ![t] = Idle]
<1>1. thread' = [thread EXCEPT ![t] = Idle]
  BY DEF AcceptAgain, Return
<1>2. /\ \A u \in Thread \ {t} : thread'[u] = thread[u]
      /\ thread'[t] = Idle
  BY <1>1 DEF SlotInv, TypeOK
<1>3. \A u \in Thread \ {t} : u \notin Acceptors
  BY DEF SlotInv, OneAcceptor, Acceptors, AcceptorPc
<1>4. Acceptors' = {}
  BY <1>2, <1>3, IdleIsRecord DEF Acceptors
<1> QED BY <1>1, <1>4 DEF OneAcceptor

\* No slot becomes ALLOCATED but t's, and t keeps or takes what is.
LEMMA OwnerStays ==
    ASSUME SlotInv, NEW t \in Thread, NEW r, thread' = [thread EXCEPT ![t] = r],
           \A c \in Slot : mStatus'[c] = "ALLOCATED" /\ c \notin lost' =>
               \/ r.slot = c /\ r.pc \in OwnerPc
               \/ /\ mStatus[c] = "ALLOCATED" /\ c \notin lost
                  /\ thread[t].slot # c \/ thread[t].pc \notin OwnerPc
    PROVE  AllocatedIsOwned'
<1>1. /\ \A u \in Thread \ {t} : thread'[u] = thread[u]
      /\ thread'[t] = r
  BY DEF SlotInv, TypeOK
<1> SUFFICES ASSUME NEW c \in Slot, c \notin lost', mStatus'[c] = "ALLOCATED"
             PROVE  \E u \in Thread : thread'[u].slot = c /\ thread'[u].pc \in OwnerPc
  BY DEF AllocatedIsOwned, OwnerPc
<1>2. CASE r.slot = c /\ r.pc \in OwnerPc
  BY <1>1, <1>2
<1>3. CASE /\ mStatus[c] = "ALLOCATED" /\ c \notin lost
           /\ thread[t].slot # c \/ thread[t].pc \notin OwnerPc
  <2>1. PICK u \in Thread : thread[u].slot = c /\ thread[u].pc \in OwnerPc
    BY <1>3 DEF SlotInv, AllocatedIsOwned, OwnerPc
  <2> QED BY <1>1, <1>3, <2>1
<1> QED BY <1>2, <1>3

\* The types and the keys, when only t's record and the named parts change.
LEMMA KeysStay ==
    ASSUME SlotInv, NEW t \in Thread, NEW r, thread' = [thread EXCEPT ![t] = r],
           r.pc \in {"activate", "receive"} =>
               thread[t].pc = "activate" /\ r.socket = thread[t].socket,
           UNCHANGED keyOf,
           \A s \in Socket : receives'[s] > 0 => keyOf[s] \in Slot,
           \A c \in Slot : mSocket'[c] \in {mSocket[c], INVALID_SOCKET}
    PROVE  KeyKnown'
<1>1. /\ \A u \in Thread \ {t} : thread'[u] = thread[u]
      /\ thread'[t] = r
  BY DEF SlotInv, TypeOK
<1>2. \A c \in Slot : mSocket'[c] \in Socket => keyOf'[mSocket'[c]] \in Slot
  BY ServerAssumption DEF SlotInv, KeyKnown
<1>3. \A u \in Thread : thread'[u].pc = "receive" \/ thread'[u].pc = "activate" =>
        (thread'[u].socket \in Socket => keyOf'[thread'[u].socket] \in Slot)
  <2> SUFFICES ASSUME NEW u \in Thread,
                      thread'[u].pc = "receive" \/ thread'[u].pc = "activate"
               PROVE  thread'[u].socket \in Socket => keyOf'[thread'[u].socket] \in Slot
    OBVIOUS
  <2>1. CASE u # t
    BY <1>1, <2>1 DEF SlotInv, KeyKnown
  <2>2. CASE u = t
    <3>1. thread[t].pc = "activate" /\ r.socket = thread[t].socket
      BY <1>1, <2>2
    <3> QED BY <1>1, <2>2, <3>1 DEF SlotInv, KeyKnown
  <2> QED BY <2>1, <2>2
<1> QED BY <1>2, <1>3 DEF KeyKnown

LEMMA ThreadIsTyped ==
    ASSUME SlotInv, NEW t \in Thread
    PROVE  /\ thread \in [Thread -> Records]
           /\ thread[t] \in Records
           /\ \A pc \in Pc :
                 /\ [thread EXCEPT ![t].pc = pc]
                       = [thread EXCEPT ![t] = [thread[t] EXCEPT !.pc = pc]]
                 /\ [thread[t] EXCEPT !.pc = pc] \in Records
                 /\ [thread[t] EXCEPT !.pc = pc].pc = pc
                 /\ [thread[t] EXCEPT !.pc = pc].slot = thread[t].slot
                 /\ [thread[t] EXCEPT !.pc = pc].socket = thread[t].socket
BY DEF SlotInv, TypeOK, Records
-----------------------------------------------------------------------------
(***************************************************************************)
(* The accepting code.                                                     *)
(***************************************************************************)
LEMMA AcceptSlots ==
    ASSUME SlotInv, NEW t \in Thread, NEW s \in Socket, Accept(t, s)
    PROVE  SlotInv'
<1> DEFINE r == [pc |-> "scan", slot |-> 1, socket |-> s]
<1>1. /\ thread' = [thread EXCEPT ![t] = r] /\ acceptPosted /\ acceptPosted' = FALSE
      /\ link' = [link EXCEPT ![s] = "open"] /\ keyOf' = [keyOf EXCEPT ![s] = 0]
      /\ UNCHANGED <<mStatus, mSocket, mRoomPtr, mLock, waiting, receives, lost,
                     hurried>>
  BY DEF Accept, clientVars, ghostVars, At, SlotInv, TypeOK
<1>2. r \in Records
  BY ServerAssumption DEF Records, Pc
<1>3. /\ \A u \in Thread \ {t} : thread'[u] = thread[u]
      /\ thread'[t] = r
  BY <1>1 DEF SlotInv, TypeOK
<1>4. TypeOK'
  <2>1. thread' \in [Thread -> Records]
    BY <1>1, <1>2, ThreadIsTyped
  <2>2. /\ link' \in [Socket -> {"unused", "open", "gone", "closed"}]
        /\ keyOf' \in [Socket -> Slot \cup {0}]
    BY <1>1 DEF SlotInv, TypeOK
  <2>3. acceptPosted' \in BOOLEAN
    BY <1>1
  <2> QED BY <1>1, <2>1, <2>2, <2>3 DEF SlotInv, TypeOK, Records
<1>5. KeyKnown'
  <2>1. /\ receives[s] = 0 /\ \A c \in Slot : mSocket[c] # s
        /\ \A u \in Thread : thread[u].socket # s
    BY DEF Accept, Unreferenced
  <2>2. \A q \in Socket : q # s => keyOf'[q] = keyOf[q]
    BY <1>1 DEF SlotInv, TypeOK
  <2> QED BY <1>1, <1>3, <2>1, <2>2 DEF SlotInv, KeyKnown
<1>6. OneAcceptor'
  BY <1>1, <1>3 DEF SlotInv, OneAcceptor, Acceptors
<1>7. AllocatedIsOwned'
  <2>1. thread[t].pc \notin OwnerPc
    BY DEF Accept, At, OwnerPc
  <2> QED BY <1>1, <2>1, OwnerStays
<1> QED BY <1>4, <1>5, <1>6, <1>7 DEF SlotInv

LEMMA ScanFoundSlots ==
    ASSUME SlotInv, NEW t \in Thread, ScanFound(t)
    PROVE  SlotInv'
<1> DEFINE r == [thread[t] EXCEPT !.pc = "register"]
<1>1. /\ thread' = [thread EXCEPT ![t] = r] /\ r \in Records
      /\ r.pc = "register" /\ r.slot = thread[t].slot
  BY ThreadIsTyped DEF ScanFound, Goto, Pc
<1>2. /\ mStatus' = [mStatus EXCEPT ![thread[t].slot] = "ALLOCATED"]
      /\ thread[t].pc = "scan"
      /\ UNCHANGED <<mSocket, mRoomPtr, mLock, waiting, acceptPosted, link, keyOf,
                     receives, lost, hurried>>
  BY DEF ScanFound, At, ioVars, ghostVars
<1> HIDE DEF r
<1>3. TypeOK'
  <2>1. mStatus' \in [Slot -> ESocketStatus]
    BY <1>2 DEF SlotInv, TypeOK, ESocketStatus
  <2>2. thread' \in [Thread -> Records]
    BY <1>1, ThreadIsTyped
  <2> QED BY <1>2, <2>1, <2>2 DEF SlotInv, TypeOK, Records
<1>4. KeyKnown'
  <2>1. \A q \in Socket : receives'[q] > 0 => keyOf[q] \in Slot
    BY <1>2 DEF SlotInv, KeyKnown
  <2> QED BY <1>1, <1>2, <2>1, KeysStay
<1>5. OneAcceptor'
  BY <1>1, <1>2, AcceptorStays DEF AcceptorPc
<1>6. AllocatedIsOwned'
  <2>1. \A c \in Slot : c # thread[t].slot => mStatus'[c] = mStatus[c]
    BY <1>2 DEF SlotInv, TypeOK
  <2> QED BY <1>1, <1>2, <2>1, OwnerStays DEF OwnerPc
<1> QED BY <1>3, <1>4, <1>5, <1>6 DEF SlotInv

LEMMA ScanNextSlots ==
    ASSUME SlotInv, NEW t \in Thread, ScanNext(t)
    PROVE  SlotInv'
<1> DEFINE r == [thread[t] EXCEPT !.slot = thread[t].slot + 1]
<1>1. thread' = [thread EXCEPT ![t] = r]
  BY ThreadIsTyped DEF ScanNext
<1>2. r \in Records /\ r.pc = "scan" /\ thread[t].pc = "scan"
  BY ThreadIsTyped, ServerAssumption DEF ScanNext, At, Records
<1>3. UNCHANGED <<mStatus, mSocket, mRoomPtr, mLock, waiting, acceptPosted, link,
                  keyOf, receives, lost, hurried>>
  BY DEF ScanNext, clientVars, ioVars, ghostVars
<1> HIDE DEF r
<1>4. TypeOK'
  BY <1>1, <1>2, <1>3 DEF SlotInv, TypeOK, Records
<1>5. KeyKnown'
  <2>1. \A q \in Socket : receives'[q] > 0 => keyOf[q] \in Slot
    BY <1>3 DEF SlotInv, KeyKnown
  <2> QED BY <1>1, <1>2, <1>3, <2>1, KeysStay
<1>6. OneAcceptor'
  BY <1>1, <1>2, <1>3, AcceptorStays DEF AcceptorPc
<1>7. AllocatedIsOwned'
  BY <1>1, <1>2, <1>3, OwnerStays DEF OwnerPc
<1> QED BY <1>4, <1>5, <1>6, <1>7 DEF SlotInv

LEMMA ScanFullSlots ==
    ASSUME SlotInv, NEW t \in Thread, ScanFull(t)
    PROVE  SlotInv'
<1>1. /\ thread[t].pc = "scan" /\ AcceptAgain(t) /\ Close(thread[t].socket)
      /\ UNCHANGED <<mStatus, mSocket, mRoomPtr, mLock, waiting, keyOf, receives,
                     lost, hurried>>
  BY DEF ScanFull, At, clientVars, ghostVars
<1>2. thread' = [thread EXCEPT ![t] = Idle] /\ OneAcceptor'
  BY <1>1, AcceptorLeaves DEF AcceptorPc
<1>3. TypeOK'
  <2>1. thread' \in [Thread -> Records] /\ acceptPosted' \in BOOLEAN
    BY <1>1, <1>2, ThreadIsTyped, IdleIsRecord DEF AcceptAgain
  <2>2. link' \in [Socket -> {"unused", "open", "gone", "closed"}]
    BY <1>1, CloseIsTyped, ThreadIsTyped DEF SlotInv, Records
  <2> QED BY <1>1, <2>1, <2>2 DEF SlotInv, TypeOK, Records
<1>4. KeyKnown'
  <2>1. \A q \in Socket : receives'[q] > 0 => keyOf[q] \in Slot
    BY <1>1 DEF SlotInv, KeyKnown
  <2> QED BY <1>1, <1>2, <2>1, KeysStay, IdleIsRecord
<1>5. AllocatedIsOwned'
  BY <1>1, <1>2, OwnerStays DEF OwnerPc
<1> QED BY <1>2, <1>3, <1>4, <1>5 DEF SlotInv

LEMMA RegisterFailsSlots ==
    ASSUME SlotInv, NEW t \in Thread, RegisterFails(t)
    PROVE  SlotInv'
<1>1. /\ thread[t].pc = "register" /\ AcceptAgain(t) /\ Close(thread[t].socket)
      /\ lost' = lost \cup {thread[t].slot}
      /\ UNCHANGED <<mStatus, mSocket, mRoomPtr, mLock, waiting, keyOf, receives,
                     hurried>>
  BY DEF RegisterFails, At, clientVars
<1>2. thread' = [thread EXCEPT ![t] = Idle] /\ OneAcceptor'
  BY <1>1, AcceptorLeaves DEF AcceptorPc
<1>3. TypeOK'
  <2>1. thread' \in [Thread -> Records] /\ acceptPosted' \in BOOLEAN
    BY <1>1, <1>2, ThreadIsTyped, IdleIsRecord DEF AcceptAgain
  <2>2. link' \in [Socket -> {"unused", "open", "gone", "closed"}]
    BY <1>1, CloseIsTyped, ThreadIsTyped DEF SlotInv, Records
  <2>3. lost' \subseteq Slot
    BY <1>1, ThreadIsTyped DEF SlotInv, TypeOK, Records
  <2> QED BY <1>1, <2>1, <2>2, <2>3 DEF SlotInv, TypeOK, Records
<1>4. KeyKnown'
  <2>1. \A q \in Socket : receives'[q] > 0 => keyOf[q] \in Slot
    BY <1>1 DEF SlotInv, KeyKnown
  <2> QED BY <1>1, <1>2, <2>1, KeysStay, IdleIsRecord
<1>5. AllocatedIsOwned'
  BY <1>1, <1>2, OwnerStays
<1> QED BY <1>2, <1>3, <1>4, <1>5 DEF SlotInv

LEMMA RegisterSlots ==
    ASSUME SlotInv, NEW t \in Thread, Register(t)
    PROVE  SlotInv'
<1> DEFINE r == [thread[t] EXCEPT !.pc = "activate"]
           c == thread[t].slot
           s == thread[t].socket
<1>1. /\ thread' = [thread EXCEPT ![t] = r] /\ r \in Records
      /\ r.pc = "activate" /\ r.slot = c /\ r.socket = s
  BY ThreadIsTyped DEF Register, Goto, Pc
<1>2. /\ thread[t].pc = "register"
      /\ keyOf' = [keyOf EXCEPT ![s] = c] /\ mSocket' = [mSocket EXCEPT ![c] = s]
      /\ UNCHANGED <<mStatus, mRoomPtr, mLock, waiting, acceptPosted, link,
                     receives, lost, hurried>>
  BY DEF Register, At, ghostVars
<1>3. c \in Slot /\ s \in Socket \cup {INVALID_SOCKET}
  BY ThreadIsTyped DEF Records
<1> HIDE DEF r, c, s
<1>4. TypeOK'
  <2>1. thread' \in [Thread -> Records]
    BY <1>1, ThreadIsTyped
  <2>2. /\ keyOf' \in [Socket -> Slot \cup {0}]
        /\ mSocket' \in [Slot -> Socket \cup {INVALID_SOCKET}]
    BY <1>2, <1>3 DEF SlotInv, TypeOK
  <2> QED BY <1>2, <2>1, <2>2 DEF SlotInv, TypeOK, Records
<1>5. KeyKnown'
  <2>1. /\ \A q \in Socket : keyOf[q] \in Slot => keyOf'[q] \in Slot
        /\ s \in Socket => keyOf'[s] \in Slot
    BY <1>2, <1>3 DEF SlotInv, TypeOK
  <2>2. \A q \in Socket : receives'[q] > 0 => keyOf'[q] \in Slot
    BY <1>2, <2>1 DEF SlotInv, KeyKnown
  <2>3. \A d \in Slot : mSocket'[d] \in {mSocket[d], s}
    BY <1>2 DEF SlotInv, TypeOK
  <2>4. \A d \in Slot : mSocket'[d] \in Socket => keyOf'[mSocket'[d]] \in Slot
    BY <2>1, <2>3 DEF SlotInv, KeyKnown
  <2>5. /\ \A u \in Thread \ {t} : thread'[u] = thread[u]
        /\ thread'[t] = r
    BY <1>1 DEF SlotInv, TypeOK
  <2>6. \A u \in Thread : thread'[u].pc = "receive" \/ thread'[u].pc = "activate" =>
          (thread'[u].socket \in Socket => keyOf'[thread'[u].socket] \in Slot)
    BY <1>1, <2>1, <2>5 DEF SlotInv, KeyKnown
  <2> QED BY <2>2, <2>4, <2>6 DEF KeyKnown
<1>6. OneAcceptor'
  BY <1>1, <1>2, AcceptorStays DEF AcceptorPc
<1>7. AllocatedIsOwned'
  BY <1>1, <1>2, OwnerStays DEF OwnerPc, c
<1> QED BY <1>4, <1>5, <1>6, <1>7 DEF SlotInv

LEMMA ActivateSlots ==
    ASSUME SlotInv, NEW t \in Thread, Activate(t)
    PROVE  SlotInv'
<1> DEFINE r == [thread[t] EXCEPT !.pc = "receive"]
<1>1. /\ thread' = [thread EXCEPT ![t] = r] /\ r \in Records
      /\ r.pc = "receive" /\ r.slot = thread[t].slot
      /\ r.socket = thread[t].socket
  BY ThreadIsTyped DEF Activate, Goto, Pc
<1>2. /\ mStatus' = [mStatus EXCEPT ![thread[t].slot] = "ACTIVE"]
      /\ thread[t].pc = "activate"
      /\ UNCHANGED <<mSocket, mRoomPtr, mLock, waiting, acceptPosted, link, keyOf,
                     receives, lost, hurried>>
  BY DEF Activate, At, ioVars, ghostVars
<1> HIDE DEF r
<1>3. mStatus' \in [Slot -> ESocketStatus]
  BY <1>2 DEF SlotInv, TypeOK, ESocketStatus
<1>4. TypeOK'
  <2>1. thread' \in [Thread -> Records]
    BY <1>1, ThreadIsTyped
  <2> QED BY <1>2, <1>3, <2>1 DEF SlotInv, TypeOK, Records
<1>5. KeyKnown'
  <2>1. \A q \in Socket : receives'[q] > 0 => keyOf[q] \in Slot
    BY <1>2 DEF SlotInv, KeyKnown
  <2> QED BY <1>1, <1>2, <2>1, KeysStay
<1>6. OneAcceptor'
  BY <1>1, <1>2, AcceptorStays DEF AcceptorPc
<1>7. AllocatedIsOwned'
  <2>1. \A c \in Slot : mStatus'[c] = "ALLOCATED" =>
           c # thread[t].slot /\ mStatus[c] = "ALLOCATED"
    BY <1>2 DEF SlotInv, TypeOK
  <2> QED BY <1>1, <1>2, <2>1, OwnerStays
<1> QED BY <1>4, <1>5, <1>6, <1>7 DEF SlotInv

LEMMA FirstReceiveSlots ==
    ASSUME SlotInv, NEW t \in Thread, FirstReceive(t)
    PROVE  SlotInv'
<1>1. /\ thread[t].pc = "receive" /\ AcceptAgain(t) /\ WSARecv(thread[t].socket)
      /\ UNCHANGED <<mStatus, mSocket, mRoomPtr, mLock, waiting, link, keyOf,
                     lost, hurried>>
  BY DEF FirstReceive, At, clientVars, ghostVars
<1>2. thread' = [thread EXCEPT ![t] = Idle] /\ OneAcceptor'
  BY <1>1, AcceptorLeaves DEF AcceptorPc
<1>3. /\ receives' \in [Socket -> Nat]
      /\ \A q \in Socket : receives'[q] > 0 => keyOf[q] \in Slot
  <2>1. /\ thread[t].socket \in Socket \cup {INVALID_SOCKET}
        /\ thread[t].socket \in Socket => keyOf[thread[t].socket] \in Slot
        /\ \A q \in Socket : receives[q] > 0 => keyOf[q] \in Slot
    BY <1>1, ThreadIsTyped DEF SlotInv, KeyKnown, Records
  <2> QED BY <1>1, <2>1, WSARecvIsTyped DEF SlotInv
<1>4. TypeOK'
  <2>1. thread' \in [Thread -> Records] /\ acceptPosted' \in BOOLEAN
    BY <1>1, <1>2, ThreadIsTyped, IdleIsRecord DEF AcceptAgain
  <2> QED BY <1>1, <1>3, <2>1 DEF SlotInv, TypeOK, Records
<1>5. KeyKnown'
  BY <1>1, <1>2, <1>3, KeysStay, IdleIsRecord
<1>6. AllocatedIsOwned'
  BY <1>1, <1>2, OwnerStays DEF OwnerPc
<1> QED BY <1>2, <1>4, <1>5, <1>6 DEF SlotInv
-----------------------------------------------------------------------------
(***************************************************************************)
(* Matching.                                                               *)
(***************************************************************************)
LEMMA StartMatchingSlots ==
    ASSUME SlotInv, NEW t \in Thread, NEW s \in Socket, StartMatching(t, s)
    PROVE  SlotInv'
<1> DEFINE r == [pc |-> IF mRoomPtr[keyOf[s]] THEN "repost" ELSE "addClient",
                 slot |-> keyOf[s], socket |-> s]
<1>1. /\ thread[t].pc = "idle" /\ thread' = [thread EXCEPT ![t] = r]
      /\ receives[s] > 0 /\ receives' = [receives EXCEPT ![s] = @ - 1]
      /\ hurried' \in {hurried, hurried \cup {keyOf[s]}}
      /\ UNCHANGED <<mStatus, mSocket, mRoomPtr, mLock, waiting, acceptPosted,
                     link, keyOf, lost>>
  BY DEF StartMatching, At, clientVars
<1>2. keyOf[s] \in Slot
  BY <1>1 DEF SlotInv, KeyKnown
<1>3. r \in Records /\ r.pc \in {"repost", "addClient"}
  BY <1>2 DEF Records, Pc
<1> HIDE DEF r
<1>4. /\ receives' \in [Socket -> Nat]
      /\ \A q \in Socket : receives'[q] > 0 => keyOf[q] \in Slot
  BY <1>1 DEF SlotInv, TypeOK, KeyKnown
<1>5. TypeOK'
  <2>1. thread' \in [Thread -> Records]
    BY <1>1, <1>3, ThreadIsTyped
  <2>2. hurried' \subseteq Slot
    BY <1>1, <1>2 DEF SlotInv, TypeOK
  <2> QED BY <1>1, <1>4, <2>1, <2>2 DEF SlotInv, TypeOK, Records
<1>6. KeyKnown'
  BY <1>1, <1>3, <1>4, KeysStay
<1>7. OneAcceptor'
  BY <1>1, <1>3, AcceptorStays DEF AcceptorPc
<1>8. AllocatedIsOwned'
  BY <1>1, OwnerStays DEF OwnerPc
<1> QED BY <1>5, <1>6, <1>7, <1>8 DEF SlotInv

LEMMA AddClientSlots ==
    ASSUME SlotInv, NEW t \in Thread, AddClient(t)
    PROVE  SlotInv'
<1> DEFINE r == [thread[t] EXCEPT !.pc = "repost"]
           queue == Append(waiting, thread[t].slot)
<1>1. /\ thread' = [thread EXCEPT ![t] = r] /\ r \in Records /\ r.pc = "repost"
  BY ThreadIsTyped DEF AddClient, Goto, Pc
<1>2. /\ thread[t].pc = "addClient"
      /\ UNCHANGED <<mStatus, mSocket, mLock, acceptPosted, link, keyOf, receives,
                     lost, hurried>>
  BY DEF AddClient, At, ioVars, ghostVars
<1>3. queue \in Seq(Slot)
  BY ThreadIsTyped DEF SlotInv, TypeOK, Records
<1>4. /\ \/ waiting' = queue
         \/ waiting' = SubSeq(queue, MAX_ROOM_PLAYER + 1, Len(queue))
      /\ \/ mRoomPtr' = mRoomPtr
         \/ mRoomPtr' = [c \in Slot |-> mRoomPtr[c] \/
                           c \in {queue[i] : i \in 1..MAX_ROOM_PLAYER}]
  BY DEF AddClient
<1> HIDE DEF r, queue
<1>5. waiting' \in Seq(Slot)
  <2>1. SubSeq(queue, MAX_ROOM_PLAYER + 1, Len(queue)) \in Seq(Slot)
    <3>1. \A i \in MAX_ROOM_PLAYER + 1..Len(queue) : queue[i] \in Slot
      BY <1>3, ServerAssumption
    <3>2. MAX_ROOM_PLAYER + 1 \in Int /\ Len(queue) \in Int
      BY <1>3, ServerAssumption
    <3> QED BY <3>1, <3>2, SubSeqProperties
  <2> QED BY <1>3, <1>4, <2>1
<1>6. mRoomPtr' \in [Slot -> BOOLEAN]
  <2>1. mRoomPtr \in [Slot -> BOOLEAN]
    BY DEF SlotInv, TypeOK
  <2> QED BY <1>4, <2>1, Zenon
<1>7. TypeOK'
  <2>1. thread' \in [Thread -> Records]
    BY <1>1, ThreadIsTyped
  <2> QED BY <1>2, <1>5, <1>6, <2>1 DEF SlotInv, TypeOK, Records
<1>8. KeyKnown'
  <2>1. \A q \in Socket : receives'[q] > 0 => keyOf[q] \in Slot
    BY <1>2 DEF SlotInv, KeyKnown
  <2> QED BY <1>1, <1>2, <2>1, KeysStay
<1>9. OneAcceptor'
  BY <1>1, <1>2, AcceptorStays DEF AcceptorPc
<1>10. AllocatedIsOwned'
  BY <1>1, <1>2, OwnerStays DEF OwnerPc
<1> QED BY <1>7, <1>8, <1>9, <1>10 DEF SlotInv

LEMMA RepostSlots ==
    ASSUME SlotInv, NEW t \in Thread, Repost(t)
    PROVE  SlotInv'
<1> DEFINE s == mSocket[thread[t].slot]
<1>1. /\ thread[t].pc = "repost" /\ WSARecv(s)
      /\ thread' = [thread EXCEPT ![t] = Idle]
      /\ UNCHANGED <<mStatus, mSocket, mRoomPtr, mLock, waiting, acceptPosted,
                     link, keyOf, lost, hurried>>
  BY DEF Repost, At, Return, clientVars, ghostVars
<1>2. /\ s \in Socket \cup {INVALID_SOCKET}
      /\ s \in Socket => keyOf[s] \in Slot
      /\ \A q \in Socket : receives[q] > 0 => keyOf[q] \in Slot
  BY ThreadIsTyped DEF SlotInv, TypeOK, KeyKnown, Records
<1> HIDE DEF s
<1>3. /\ receives' \in [Socket -> Nat]
      /\ \A q \in Socket : receives'[q] > 0 => keyOf[q] \in Slot
  BY <1>1, <1>2, WSARecvIsTyped DEF SlotInv
<1>4. TypeOK'
  <2>1. thread' \in [Thread -> Records]
    BY <1>1, ThreadIsTyped, IdleIsRecord
  <2> QED BY <1>1, <1>3, <2>1 DEF SlotInv, TypeOK, Records
<1>5. KeyKnown'
  BY <1>1, <1>3, KeysStay, IdleIsRecord
<1>6. OneAcceptor'
  BY <1>1, AcceptorStays, IdleIsRecord DEF AcceptorPc
<1>7. AllocatedIsOwned'
  BY <1>1, OwnerStays DEF OwnerPc
<1> QED BY <1>4, <1>5, <1>6, <1>7 DEF SlotInv
-----------------------------------------------------------------------------
(***************************************************************************)
(* Disconnecting.  The four callers of Disconnect differ in what else they *)
(* change: at most the count of receives, downwards.                       *)
(***************************************************************************)
LEMMA DisconnectSlots ==
    ASSUME SlotInv, NEW t \in Thread, thread[t].pc \in {"idle", "kick"},
           NEW c \in Slot, NEW s \in Socket \cup {INVALID_SOCKET},
           Disconnect(t, c, s),
           receives' \in [Socket -> Nat],
           \A q \in Socket : receives'[q] <= receives[q],
           UNCHANGED <<mStatus, mSocket, mRoomPtr, mLock, waiting, acceptPosted,
                       link, keyOf, lost, hurried>>
    PROVE  SlotInv'
<1>1. PICK r \in Records : /\ thread' = [thread EXCEPT ![t] = r]
                           /\ r.pc \in {"idle", "unqueue"}
  <2>1. CASE mStatus[c] = "FREE"
    BY <2>1, IdleIsRecord DEF Disconnect
  <2>2. CASE mStatus[c] # "FREE"
    <3>1. [pc |-> "unqueue", slot |-> c, socket |-> s] \in Records
      BY DEF Records, Pc
    <3> QED BY <2>2, <3>1 DEF Disconnect
  <2> QED BY <2>1, <2>2
<1>2. \A q \in Socket : receives'[q] > 0 => keyOf[q] \in Slot
  BY DEF SlotInv, TypeOK, KeyKnown
<1>3. TypeOK'
  <2>1. thread' \in [Thread -> Records]
    BY <1>1, ThreadIsTyped
  <2> QED BY <2>1 DEF SlotInv, TypeOK, Records
<1>4. KeyKnown'
  BY <1>1, <1>2, KeysStay
<1>5. OneAcceptor'
  BY <1>1, AcceptorStays DEF AcceptorPc
<1>6. AllocatedIsOwned'
  BY <1>1, OwnerStays DEF OwnerPc
<1> QED BY <1>3, <1>4, <1>5, <1>6 DEF SlotInv

LEMMA DisconnectCallersSlots ==
    ASSUME SlotInv
    PROVE  /\ \A t \in Thread, s \in Socket :
                 ReceiveFails(t, s) \/ SendFails(t, s) => SlotInv'
           /\ \A c \in Slot : ConnectCheck(c) => SlotInv'
           /\ Kick => SlotInv'
<1> USE DEF clientVars, ioVars, ghostVars, At
<1>1. ASSUME NEW t \in Thread, NEW s \in Socket, ReceiveFails(t, s) PROVE SlotInv'
  <2>1. keyOf[s] \in Slot
    BY <1>1 DEF ReceiveFails, SlotInv, KeyKnown
  <2>2. receives' \in [Socket -> Nat] /\ \A q \in Socket : receives'[q] <= receives[q]
    BY <1>1 DEF ReceiveFails, SlotInv, TypeOK
  <2> QED BY <1>1, <2>1, <2>2, DisconnectSlots DEF ReceiveFails
<1>2. receives \in [Socket -> Nat] /\ \A q \in Socket : receives[q] <= receives[q]
  BY DEF SlotInv, TypeOK
<1>3. ASSUME NEW t \in Thread, NEW s \in Socket, SendFails(t, s) PROVE SlotInv'
  <2>1. keyOf[s] \in Slot
    BY <1>3 DEF SendFails, SlotInv, TypeOK
  <2> QED BY <1>2, <1>3, <2>1, DisconnectSlots DEF SendFails
<1>4. ASSUME NEW c \in Slot, ConnectCheck(c) PROVE SlotInv'
  <2>1. mSocket[c] \in Socket \cup {INVALID_SOCKET} /\ Main \in Thread
    BY DEF SlotInv, TypeOK, Thread
  <2> QED BY <1>2, <1>4, <2>1, DisconnectSlots DEF ConnectCheck
<1>5. ASSUME Kick PROVE SlotInv'
  <2>1. /\ thread[RoomThread].slot \in Slot /\ RoomThread \in Thread
        /\ thread[RoomThread].socket \in Socket \cup {INVALID_SOCKET}
    BY DEF SlotInv, TypeOK, Thread
  <2> QED BY <1>2, <1>5, <2>1, DisconnectSlots DEF Kick
<1> QED BY <1>1, <1>3, <1>4, <1>5

LEMMA LoseSlots ==
    ASSUME SlotInv, NEW c \in Slot, Lose(c)
    PROVE  SlotInv'
<1> DEFINE r == [pc |-> "kick", slot |-> c, socket |-> mSocket[c]]
<1>1. /\ thread[RoomThread].pc = "idle" /\ RoomThread \in Thread
      /\ thread' = [thread EXCEPT ![RoomThread] = r]
      /\ UNCHANGED <<mStatus, mSocket, mRoomPtr, mLock, waiting, acceptPosted,
                     link, keyOf, receives, lost, hurried>>
  BY DEF Lose, At, Thread, clientVars, ioVars, ghostVars
<1>2. r \in Records /\ r.pc = "kick"
  BY DEF SlotInv, TypeOK, Records, Pc
<1> HIDE DEF r
<1>3. TypeOK'
  <2>1. thread' \in [Thread -> Records]
    BY <1>1, <1>2, ThreadIsTyped
  <2> QED BY <1>1, <2>1 DEF SlotInv, TypeOK, Records
<1>4. KeyKnown'
  <2>1. \A q \in Socket : receives'[q] > 0 => keyOf[q] \in Slot
    BY <1>1 DEF SlotInv, KeyKnown
  <2> QED BY <1>1, <1>2, <2>1, KeysStay
<1>5. OneAcceptor'
  BY <1>1, <1>2, AcceptorStays DEF AcceptorPc
<1>6. AllocatedIsOwned'
  BY <1>1, OwnerStays DEF OwnerPc
<1> QED BY <1>3, <1>4, <1>5, <1>6 DEF SlotInv

LEMMA UnqueueSlots ==
    ASSUME SlotInv, NEW t \in Thread, Unqueue(t)
    PROVE  SlotInv'
<1> DEFINE r == [thread[t] EXCEPT !.pc = "close"]
<1>1. /\ thread' = [thread EXCEPT ![t] = r] /\ r \in Records /\ r.pc = "close"
  BY ThreadIsTyped DEF Unqueue, Goto, Pc
<1>2. /\ thread[t].pc = "unqueue"
      /\ waiting' = RemoveFirst(waiting, thread[t].slot)
      /\ UNCHANGED <<mStatus, mSocket, mRoomPtr, mLock, acceptPosted, link, keyOf,
                     receives, lost, hurried>>
  BY DEF Unqueue, At, clientVars, ioVars, ghostVars
<1> HIDE DEF r
<1>3. waiting' \in Seq(Slot)
  BY <1>2, RemoveFirstIsSeq DEF SlotInv, TypeOK
<1>4. TypeOK'
  <2>1. thread' \in [Thread -> Records]
    BY <1>1, ThreadIsTyped
  <2> QED BY <1>2, <1>3, <2>1 DEF SlotInv, TypeOK, Records
<1>5. KeyKnown'
  <2>1. \A q \in Socket : receives'[q] > 0 => keyOf[q] \in Slot
    BY <1>2 DEF SlotInv, KeyKnown
  <2> QED BY <1>1, <1>2, <2>1, KeysStay
<1>6. OneAcceptor'
  BY <1>1, <1>2, AcceptorStays DEF AcceptorPc
<1>7. AllocatedIsOwned'
  BY <1>1, <1>2, OwnerStays DEF OwnerPc
<1> QED BY <1>4, <1>5, <1>6, <1>7 DEF SlotInv

LEMMA CloseSocketSlots ==
    ASSUME SlotInv, NEW t \in Thread, CloseSocket(t)
    PROVE  SlotInv'
<1> DEFINE r == [thread[t] EXCEPT !.pc = "init"]
           c == thread[t].slot
<1>1. /\ thread' = [thread EXCEPT ![t] = r] /\ r \in Records
      /\ r.pc = "init" /\ r.slot = c
  BY ThreadIsTyped DEF CloseSocket, Goto, Pc
<1>2. /\ thread[t].pc = "close" /\ Close(mSocket[c])
      /\ mStatus' = [mStatus EXCEPT ![c] = "ALLOCATED"]
      /\ mSocket' = [mSocket EXCEPT ![c] = INVALID_SOCKET]
      /\ mLock' = [mLock EXCEPT ![c] = t]
      /\ UNCHANGED <<mRoomPtr, waiting, acceptPosted, keyOf, receives, lost, hurried>>
  BY DEF CloseSocket, At, ghostVars
<1>3. c \in Slot
  BY ThreadIsTyped DEF Records
<1> HIDE DEF r, c
<1>4. TypeOK'
  <2>1. thread' \in [Thread -> Records]
    BY <1>1, ThreadIsTyped
  <2>2. link' \in [Socket -> {"unused", "open", "gone", "closed"}]
    BY <1>2, <1>3, CloseIsTyped DEF SlotInv, TypeOK
  <2>3. /\ mStatus' \in [Slot -> ESocketStatus]
        /\ mSocket' \in [Slot -> Socket \cup {INVALID_SOCKET}]
        /\ mLock' \in [Slot -> Thread \cup {NoThread}]
    BY <1>2 DEF SlotInv, TypeOK, ESocketStatus
  <2> QED BY <1>2, <2>1, <2>2, <2>3 DEF SlotInv, TypeOK, Records
<1>5. KeyKnown'
  <2>1. \A q \in Socket : receives'[q] > 0 => keyOf[q] \in Slot
    BY <1>2 DEF SlotInv, KeyKnown
  <2>2. \A d \in Slot : mSocket'[d] \in {mSocket[d], INVALID_SOCKET}
    BY <1>2 DEF SlotInv, TypeOK
  <2> QED BY <1>1, <1>2, <2>1, <2>2, KeysStay
<1>6. OneAcceptor'
  BY <1>1, <1>2, AcceptorStays DEF AcceptorPc
<1>7. AllocatedIsOwned'
  <2>1. \A d \in Slot : d # c => mStatus'[d] = mStatus[d]
    BY <1>2 DEF SlotInv, TypeOK
  <2> QED BY <1>1, <1>2, <2>1, OwnerStays DEF OwnerPc, c
<1> QED BY <1>4, <1>5, <1>6, <1>7 DEF SlotInv

LEMMA InitClientSlots ==
    ASSUME SlotInv, NEW t \in Thread, InitClient(t)
    PROVE  SlotInv'
<1> DEFINE c == thread[t].slot
<1>1. /\ thread[t].pc = "init" /\ thread' = [thread EXCEPT ![t] = Idle]
      /\ mStatus' = [mStatus EXCEPT ![c] = "FREE"]
      /\ mRoomPtr' = [mRoomPtr EXCEPT ![c] = FALSE]
      /\ mLock' = [mLock EXCEPT ![c] = NoThread]
      /\ UNCHANGED <<mSocket, waiting, acceptPosted, link, keyOf, receives, lost,
                     hurried>>
  BY DEF InitClient, At, Return, ioVars, ghostVars
<1> HIDE DEF c
<1>2. TypeOK'
  <2>1. thread' \in [Thread -> Records]
    BY <1>1, ThreadIsTyped, IdleIsRecord
  <2>2. /\ mStatus' \in [Slot -> ESocketStatus]
        /\ mRoomPtr' \in [Slot -> BOOLEAN]
        /\ mLock' \in [Slot -> Thread \cup {NoThread}]
    BY <1>1 DEF SlotInv, TypeOK, ESocketStatus
  <2> QED BY <1>1, <2>1, <2>2 DEF SlotInv, TypeOK, Records
<1>3. KeyKnown'
  <2>1. \A q \in Socket : receives'[q] > 0 => keyOf[q] \in Slot
    BY <1>1 DEF SlotInv, KeyKnown
  <2> QED BY <1>1, <2>1, KeysStay, IdleIsRecord
<1>4. OneAcceptor'
  BY <1>1, AcceptorStays, IdleIsRecord DEF AcceptorPc
<1>5. AllocatedIsOwned'
  <2>1. \A d \in Slot : mStatus'[d] = "ALLOCATED" => d # c /\ mStatus[d] = "ALLOCATED"
    BY <1>1 DEF SlotInv, TypeOK
  <2> QED BY <1>1, <2>1, OwnerStays DEF c
<1> QED BY <1>2, <1>3, <1>4, <1>5 DEF SlotInv

LEMMA PeerGoesSlots ==
    ASSUME SlotInv, NEW s \in Socket, PeerGoes(s)
    PROVE  SlotInv'
<1>1. link' \in [Socket -> {"unused", "open", "gone", "closed"}]
  BY DEF PeerGoes, SlotInv, TypeOK
<1>2. UNCHANGED <<mStatus, mSocket, mRoomPtr, mLock, waiting, acceptPosted, keyOf,
                  receives, thread, lost, hurried>>
  BY DEF PeerGoes, clientVars, ghostVars
<1> QED BY <1>1, <1>2 DEF SlotInv, TypeOK, KeyKnown, OneAcceptor, Acceptors,
           AllocatedIsOwned
-----------------------------------------------------------------------------
LEMMA NextSlots ==
    ASSUME SlotInv, [Next]_vars
    PROVE  SlotInv'
<1>1. ASSUME NEW t \in Thread, Accepting(t) PROVE SlotInv'
  BY <1>1, ScanFoundSlots, ScanNextSlots, ScanFullSlots, RegisterSlots,
     RegisterFailsSlots, ActivateSlots, FirstReceiveSlots DEF Accepting
<1>2. ASSUME NEW t \in Thread, Matching(t) PROVE SlotInv'
  BY <1>2, AddClientSlots, RepostSlots DEF Matching
<1>3. ASSUME NEW t \in Thread, Disconnecting(t) PROVE SlotInv'
  BY <1>3, UnqueueSlots, CloseSocketSlots, InitClientSlots DEF Disconnecting
<1>4. ASSUME NEW t \in Worker, WorkerThread(t) PROVE SlotInv'
  <2>1. t \in Thread
    BY DEF Thread
  <2>2. ASSUME NEW s \in Socket,
               \/ Accept(t, s) \/ StartMatching(t, s)
               \/ ReceiveFails(t, s) \/ SendFails(t, s)
        PROVE  SlotInv'
    BY <2>1, <2>2, AcceptSlots, StartMatchingSlots, DisconnectCallersSlots
  <2> QED BY <1>1, <1>2, <1>3, <1>4, <2>1, <2>2 DEF WorkerThread
<1>5. ASSUME NEW c \in Slot, ConnectCheck(c) \/ Lose(c) PROVE SlotInv'
  BY <1>5, DisconnectCallersSlots, LoseSlots
<1>6. CASE Kick
  BY <1>6, DisconnectCallersSlots
<1>7. CASE Disconnecting(Main) \/ Disconnecting(RoomThread)
  BY <1>3, <1>7 DEF Thread
<1>8. ASSUME NEW s \in Socket, PeerGoes(s) PROVE SlotInv'
  BY <1>8, PeerGoesSlots
<1>9. CASE UNCHANGED vars
  BY <1>9 DEF SlotInv, TypeOK, KeyKnown, OneAcceptor, Acceptors, AllocatedIsOwned,
              vars, clientVars, ioVars, ghostVars
<1> QED BY <1>4, <1>5, <1>6, <1>7, <1>8, <1>9 DEF Next

LEMMA SlotInvHolds == Spec => []SlotInv
BY InitSlots, NextSlots, PTL DEF Spec

(***************************************************************************)
(* Every variable keeps its type; in particular every completion that is   *)
(* handled is for a slot of the server.                                    *)
(***************************************************************************)
THEOREM ServerTypeCorrect == Spec => []TypeOK
<1>1. SlotInv => TypeOK
  BY DEF SlotInv
<1> QED BY SlotInvHolds, <1>1, PTL

(***************************************************************************)
(* One worker at a time is in the accepting code, which uses no lock for   *)
(* what it writes.                                                         *)
(***************************************************************************)
THEOREM OneWorkerAccepts == Spec => []OneAcceptor
<1>1. SlotInv => OneAcceptor
  BY DEF SlotInv
<1> QED BY SlotInvHolds, <1>1, PTL

(***************************************************************************)
(* With every fault, a slot that is ALLOCATED is in the hands of a thread  *)
(* that will make it ACTIVE or FREE; only a failed registration loses one. *)
(***************************************************************************)
THEOREM AllocatedSlotIsOwned == Spec => []AllocatedIsOwned
<1>1. SlotInv => AllocatedIsOwned
  BY DEF SlotInv
<1> QED BY SlotInvHolds, <1>1, PTL
-----------------------------------------------------------------------------
(***************************************************************************)
(* Sessions.  As long as only the end of a receive makes anybody call      *)
(* Disconnect, a session is in one pair of hands at a time, of a worker or *)
(* of the receive that is outstanding for it, and they find the session in *)
(* the slot they were given for it.  A reset and a failed registration may *)
(* happen; a failed send, the connection check and a lost game disconnect  *)
(* a slot behind the back of whoever has it in hand.                       *)
(***************************************************************************)
ReceivesDisconnect == Faults \cap {"send", "check", "lose"} = {}

Carrying == {"register", "activate", "receive", "addClient", "repost",
             "unqueue", "close", "init"}

Carries(t) == thread[t].pc \in Carrying

\* A slot is in the hands of one thread, or of one receive.
OneCarrier ==
    /\ \A t, u \in Thread :
          Carries(t) /\ Carries(u) /\ thread[t].slot = thread[u].slot => t = u
    /\ \A s \in Socket : receives[s] > 0 =>
          /\ receives[s] = 1
          /\ \A t \in Thread : Carries(t) => thread[t].slot # keyOf[s]

\* A slot, its socket, the key and the receives of it belong together.
SessionsMatch ==
    /\ \A c \in Slot :
          /\ mSocket[c] # INVALID_SOCKET => keyOf[mSocket[c]] = c
          /\ mStatus[c] = "FREE" => mSocket[c] = INVALID_SOCKET
    /\ \A s \in Socket : receives[s] > 0 =>
          mSocket[keyOf[s]] = s /\ mStatus[keyOf[s]] = "ACTIVE"

\* A thread finds the slot as it was when it took it in hand.
ThreadMatches(t) ==
    LET c == thread[t].slot
        s == thread[t].socket
    IN /\ thread[t].pc # "idle" => t \in Worker /\ thread[t].pc # "kick"
       /\ thread[t].pc \notin {"idle", "init"} => s # INVALID_SOCKET
       /\ thread[t].pc \in {"scan", "register"} =>
             receives[s] = 0 /\ \A d \in Slot : mSocket[d] # s
       /\ thread[t].pc \in {"register", "init"} =>
             mStatus[c] = "ALLOCATED" /\ mSocket[c] = INVALID_SOCKET
       /\ thread[t].pc = "activate" => mStatus[c] = "ALLOCATED" /\ mSocket[c] = s
       /\ thread[t].pc \in {"receive", "addClient", "repost", "unqueue", "close"} =>
             mStatus[c] = "ACTIVE" /\ mSocket[c] = s

ThreadsMatch == \A t \in Thread : ThreadMatches(t)

(***************************************************************************)
(* A client that asks once waits once, while it is there and has no room;  *)
(* it does not wait before it has asked, nor after it has left the queue.  *)
(***************************************************************************)
NewPc == {"register", "activate", "receive", "addClient"}
OutPc == {"receive", "addClient", "close"}

Patient(c) ==
    /\ Contains(waiting, c) => mStatus[c] = "ACTIVE" /\ ~mRoomPtr[c]
    /\ \A i, j \in 1..Len(waiting) : waiting[i] = c /\ waiting[j] = c => i = j
    /\ mStatus[c] = "FREE" => ~mRoomPtr[c]
    /\ \A t \in Thread : thread[t].slot = c =>
          /\ thread[t].pc \in NewPc => ~mRoomPtr[c]
          /\ thread[t].pc \in OutPc => ~Contains(waiting, c)

AllPatient == \A c \in Slot \ hurried : Patient(c)

SessionInv == OneCarrier /\ SessionsMatch /\ ThreadsMatch /\ NoSocketLost /\ AllPatient

LEMMA InitSessions == Init => SessionInv
<1> SUFFICES ASSUME Init PROVE SessionInv
  OBVIOUS
<1>1. \A t \in Thread : thread[t].pc = "idle"
  BY DEF Init, Idle
<1>2. \A c \in Slot : ~Contains(waiting, c)
  BY DEF Init, Contains
<1>3. OneCarrier /\ SessionsMatch
  BY <1>1 DEF Init, OneCarrier, SessionsMatch, Carries, Carrying
<1>4. ThreadsMatch
  BY <1>1 DEF ThreadsMatch, ThreadMatches
<1>5. NoSocketLost
  BY DEF Init, NoSocketLost
<1>6. AllPatient
  BY <1>1, <1>2 DEF Init, AllPatient, Patient, NewPc, OutPc
<1> QED BY <1>3, <1>4, <1>5, <1>6 DEF SessionInv
-----------------------------------------------------------------------------
(***************************************************************************)
(* What a step of the thread t, which is at r then, leaves as it was.      *)
(***************************************************************************)
\* Whoever had the slot in hand keeps it or lets it go.
LEMMA CarrierStays ==
    ASSUME SlotInv, SessionInv, NEW t \in Thread, NEW r,
           thread' = [thread EXCEPT ![t] = r],
           r.pc \in Carrying => Carries(t) /\ r.slot = thread[t].slot,
           UNCHANGED receives,
           \A s \in Socket : receives[s] > 0 => keyOf'[s] = keyOf[s]
    PROVE  OneCarrier'
<1>1. /\ \A u \in Thread \ {t} : thread'[u] = thread[u]
      /\ thread'[t] = r
  BY DEF SlotInv, TypeOK
<1> QED BY <1>1 DEF SessionInv, OneCarrier, Carries

\* The receive of the session s is over, and the thread takes the slot.
LEMMA CarrierTakes ==
    ASSUME SlotInv, SessionInv, NEW t \in Thread, NEW r, NEW s \in Socket,
           thread' = [thread EXCEPT ![t] = r],
           r.pc \in Carrying, r.slot = keyOf[s], receives[s] > 0,
           receives' = [receives EXCEPT ![s] = @ - 1], UNCHANGED keyOf
    PROVE  OneCarrier'
<1>1. /\ \A u \in Thread \ {t} : thread'[u] = thread[u]
      /\ thread'[t] = r
  BY DEF SlotInv, TypeOK
<1>2. /\ receives'[s] = 0
      /\ \A q \in Socket \ {s} : receives'[q] = receives[q]
  BY DEF SlotInv, TypeOK, SessionInv, OneCarrier
<1>3. \A q \in Socket \ {s} : receives[q] > 0 => keyOf[q] # keyOf[s]
  BY DEF SessionInv, SessionsMatch
<1>4. \A u \in Thread \ {t} : Carries(u) => thread[u].slot # keyOf[s]
  BY DEF SessionInv, OneCarrier
<1> QED BY <1>1, <1>2, <1>3, <1>4 DEF SessionInv, OneCarrier, Carries

\* The thread gives the slot to a receive, or to nobody if that is refused.
LEMMA CarrierReceives ==
    ASSUME SlotInv, SessionInv, NEW t \in Thread, Carries(t),
           mSocket[thread[t].slot] \in Socket,
           thread' = [thread EXCEPT ![t] = Idle],
           WSARecv(mSocket[thread[t].slot]), UNCHANGED <<keyOf, mSocket, mStatus>>,
           mStatus[thread[t].slot] = "ACTIVE"
    PROVE  /\ OneCarrier' /\ SessionsMatch'
           /\ \A q \in Socket : q # mSocket[thread[t].slot] => receives'[q] = receives[q]
<1> DEFINE c == thread[t].slot
           s == mSocket[c]
<1>1. /\ \A u \in Thread \ {t} : thread'[u] = thread[u]
      /\ thread'[t] = Idle
  BY DEF SlotInv, TypeOK
<1>2. c \in Slot /\ keyOf[s] = c
  BY ThreadIsTyped, ServerAssumption DEF Records, SessionInv, SessionsMatch
<1>3. receives[s] = 0
  BY <1>2 DEF SessionInv, OneCarrier, SlotInv, TypeOK
<1>4. /\ receives'[s] \in {0, 1}
      /\ \A q \in Socket \ {s} : receives'[q] = receives[q]
  BY <1>3 DEF WSARecv, SlotInv, TypeOK
<1>5. \A u \in Thread \ {t} : Carries(u) => thread[u].slot # c
  BY DEF SessionInv, OneCarrier
<1>6. \A u \in Thread : thread'[u].pc \in Carrying => u # t
  BY <1>1, IdleIsRecord DEF Carrying
<1> HIDE DEF c, s
<1>7. OneCarrier'
  BY <1>1, <1>2, <1>4, <1>5, <1>6 DEF SessionInv, OneCarrier, Carries
<1>8. SessionsMatch'
  BY <1>2, <1>4 DEF SessionInv, SessionsMatch, c, s
<1> QED BY <1>4, <1>7, <1>8 DEF c, s

\* The other threads, as long as nothing of theirs is changed.
LEMMA OthersMatch ==
    ASSUME SlotInv, SessionInv, NEW t \in Thread, NEW r,
           thread' = [thread EXCEPT ![t] = r],
           \A u \in Thread \ {t} : Carries(u) =>
               /\ mStatus'[thread[u].slot] = mStatus[thread[u].slot]
               /\ mSocket'[thread[u].slot] = mSocket[thread[u].slot],
           \A u \in Thread \ {t} : thread[u].pc \in {"scan", "register"} =>
               /\ receives'[thread[u].socket] = 0
               /\ \A d \in Slot : mSocket'[d] # thread[u].socket,
           ThreadMatches(t)'
    PROVE  ThreadsMatch'
<1>1. \A u \in Thread \ {t} : thread'[u] = thread[u]
  BY DEF SlotInv, TypeOK
<1> SUFFICES ASSUME NEW u \in Thread \ {t} PROVE ThreadMatches(u)'
  BY DEF ThreadsMatch
<1>2. ThreadMatches(u)
  BY DEF SessionInv, ThreadsMatch
<1> QED BY <1>1, <1>2 DEF ThreadMatches, Carries, Carrying

\* The queue, and who has asked.
LEMMA PatienceStays ==
    ASSUME SlotInv, SessionInv, NEW t \in Thread, NEW r,
           thread' = [thread EXCEPT ![t] = r],
           UNCHANGED waiting, hurried \subseteq hurried',
           \A c \in Slot : mRoomPtr'[c] => mRoomPtr[c],
           \A c \in Slot \ hurried' :
               /\ Contains(waiting, c) => mStatus'[c] = "ACTIVE"
               /\ mStatus'[c] = "FREE" => ~mRoomPtr'[c]
               /\ r.slot = c /\ r.pc \in NewPc => ~mRoomPtr[c]
               /\ r.slot = c /\ r.pc \in OutPc => ~Contains(waiting, c)
    PROVE  AllPatient'
<1>1. /\ \A u \in Thread \ {t} : thread'[u] = thread[u]
      /\ thread'[t] = r
  BY DEF SlotInv, TypeOK
<1> SUFFICES ASSUME NEW c \in Slot, c \notin hurried' PROVE Patient(c)'
  BY DEF AllPatient
<1>2. Patient(c)
  BY DEF SessionInv, AllPatient
<1>3. Contains(waiting, c)' <=> Contains(waiting, c)
  BY DEF Contains
<1>4. \A u \in Thread : thread'[u].slot = c =>
          /\ thread'[u].pc \in NewPc => ~mRoomPtr'[c]
          /\ thread'[u].pc \in OutPc => ~Contains(waiting, c)
  BY <1>1, <1>2 DEF Patient
<1> QED BY <1>2, <1>3, <1>4 DEF Patient

\* What the queue holds, for those who ask once.
LEMMA QueueKnown ==
    ASSUME SessionInv
    PROVE  \A c \in Slot \ hurried : /\ Contains(waiting, c) => mStatus[c] = "ACTIVE"
                                     /\ mStatus[c] = "FREE" => ~mRoomPtr[c]
BY DEF SessionInv, AllPatient, Patient
-----------------------------------------------------------------------------
\* The accepting worker: at most one, so that no other has a socket in hand.
LEMMA OnlyAcceptor ==
    ASSUME SlotInv, NEW t \in Thread, thread[t].pc \in AcceptorPc
    PROVE  \A u \in Thread \ {t} : thread[u].pc \notin AcceptorPc
BY DEF SlotInv, OneAcceptor, Acceptors, AcceptorPc

\* The socket it is looking for a slot for is nobody else's.
LEMMA ScannedSocket ==
    ASSUME SlotInv, SessionInv
    PROVE  \A u \in Thread : thread[u].pc \in {"scan", "register"} =>
               /\ thread[u].socket \in Socket /\ receives[thread[u].socket] = 0
               /\ \A d \in Slot : mSocket[d] # thread[u].socket
<1> SUFFICES ASSUME NEW u \in Thread, thread[u].pc \in {"scan", "register"}
             PROVE  /\ thread[u].socket \in Socket /\ receives[thread[u].socket] = 0
                    /\ \A d \in Slot : mSocket[d] # thread[u].socket
  OBVIOUS
<1>1. /\ thread[u].socket # INVALID_SOCKET /\ receives[thread[u].socket] = 0
      /\ \A d \in Slot : mSocket[d] # thread[u].socket
  BY DEF SessionInv, ThreadsMatch, ThreadMatches
<1> QED BY <1>1, ThreadIsTyped DEF Records

LEMMA AcceptSessions ==
    ASSUME SlotInv, SessionInv, NEW t \in Worker, NEW s \in Socket, Accept(t, s)
    PROVE  SessionInv'
<1> DEFINE r == [pc |-> "scan", slot |-> 1, socket |-> s]
<1>1. /\ thread' = [thread EXCEPT ![t] = r] /\ t \in Thread /\ acceptPosted
      /\ link' = [link EXCEPT ![s] = "open"] /\ keyOf' = [keyOf EXCEPT ![s] = 0]
      /\ UNCHANGED <<mStatus, mSocket, mRoomPtr, waiting, receives, hurried>>
  BY DEF Accept, clientVars, ghostVars, Thread
<1>2. /\ link[s] \in {"unused", "closed"} /\ receives[s] = 0
      /\ \A c \in Slot : mSocket[c] # s
  BY DEF Accept, Unreferenced
<1>3. /\ \A u \in Thread \ {t} : thread'[u] = thread[u]
      /\ thread'[t] = r
  BY <1>1 DEF SlotInv, TypeOK
<1>4. /\ \A q \in Socket \ {s} : keyOf'[q] = keyOf[q] /\ link'[q] = link[q]
      /\ \A u \in Thread : thread[u].pc \notin AcceptorPc
  BY <1>1 DEF SlotInv, TypeOK, OneAcceptor, Acceptors, AcceptorPc
<1>5. s # INVALID_SOCKET
  BY ServerAssumption
<1>6. OneCarrier'
  <2>1. \A q \in Socket : receives[q] > 0 => keyOf'[q] = keyOf[q]
    BY <1>2, <1>4
  <2> QED BY <1>1, <2>1, CarrierStays DEF Carrying
<1>7. SessionsMatch'
  <2>1. \A c \in Slot : mSocket[c] \in Socket \cup {INVALID_SOCKET}
    BY DEF SlotInv, TypeOK
  <2> QED BY <1>1, <1>2, <1>4, <2>1 DEF SessionInv, SessionsMatch
<1>8. ThreadsMatch'
  <2>1. ThreadMatches(t)'
    BY <1>1, <1>2, <1>3, <1>5 DEF ThreadMatches
  <2> QED BY <1>1, <1>4, <2>1, OthersMatch DEF AcceptorPc
<1>9. NoSocketLost'
  <2>1. t \in Acceptors' /\ thread'[t].socket = s
    BY <1>1, <1>3 DEF Acceptors
  <2>2. Acceptors = {}
    BY <1>4 DEF Acceptors, AcceptorPc
  <2> QED BY <1>1, <1>4, <2>1, <2>2 DEF SessionInv, NoSocketLost
<1>10. AllPatient'
  BY <1>1, QueueKnown, PatienceStays DEF NewPc, OutPc
<1> QED BY <1>6, <1>7, <1>8, <1>9, <1>10 DEF SessionInv

LEMMA ScanFoundSessions ==
    ASSUME SlotInv, SessionInv, NEW t \in Thread, ScanFound(t)
    PROVE  SessionInv'
<1> DEFINE r == [thread[t] EXCEPT !.pc = "register"]
           c == thread[t].slot
<1>1. /\ thread' = [thread EXCEPT ![t] = r] /\ r \in Records
      /\ r.pc = "register" /\ r.slot = c /\ r.socket = thread[t].socket
  BY ThreadIsTyped DEF ScanFound, Goto, Pc
<1>2. /\ mStatus' = [mStatus EXCEPT ![c] = "ALLOCATED"] /\ mStatus[c] = "FREE"
      /\ thread[t].pc = "scan" /\ c \in Slot
      /\ UNCHANGED <<mSocket, mRoomPtr, waiting, link, keyOf, receives, hurried>>
  BY ThreadIsTyped DEF ScanFound, At, ioVars, ghostVars, Records
<1>3. /\ \A u \in Thread \ {t} : thread'[u] = thread[u]
      /\ thread'[t] = r
  BY <1>1 DEF SlotInv, TypeOK
<1>4. \A d \in Slot \ {c} : mStatus'[d] = mStatus[d]
  BY <1>2 DEF SlotInv, TypeOK
<1>5. mStatus'[c] = "ALLOCATED"
  BY <1>2 DEF SlotInv, TypeOK
<1> HIDE DEF r, c
\* Nobody has a slot that is FREE.
<1>6. /\ \A u \in Thread : Carries(u) => thread[u].slot # c
      /\ \A s \in Socket : receives[s] > 0 => keyOf[s] # c
  BY <1>2 DEF SessionInv, SessionsMatch, ThreadsMatch, ThreadMatches, Carries, Carrying
<1>7. OneCarrier'
  BY <1>1, <1>2, <1>3, <1>6 DEF SessionInv, OneCarrier, Carries
<1>8. SessionsMatch'
  BY <1>2, <1>4, <1>5, <1>6 DEF SessionInv, SessionsMatch, SlotInv, KeyKnown
<1>9. ThreadsMatch'
  <2>1. ThreadMatches(t)'
    <3>1. ThreadMatches(t) /\ mSocket[c] = INVALID_SOCKET
      BY <1>2 DEF SessionInv, ThreadsMatch, SessionsMatch
    <3> QED BY <1>1, <1>2, <1>3, <1>5, <3>1 DEF ThreadMatches
  <2>2. \A u \in Thread \ {t} : Carries(u) => thread[u].slot \in Slot \ {c}
    BY <1>6, ThreadIsTyped DEF Records
  <2>3. \A u \in Thread \ {t} : thread[u].pc \notin {"scan", "register"}
    BY <1>2, OnlyAcceptor DEF AcceptorPc
  <2> QED BY <1>1, <1>2, <1>4, <2>1, <2>2, <2>3, OthersMatch
<1>10. NoSocketLost'
  <2>1. Acceptors' = Acceptors /\ \A u \in Acceptors : thread'[u].socket = thread[u].socket
    BY <1>1, <1>2, <1>3 DEF Acceptors
  <2>2. mSocket[c] = INVALID_SOCKET
    BY <1>2 DEF SessionInv, SessionsMatch
  <2> QED BY <1>2, <1>4, <2>1, <2>2, ServerAssumption DEF SessionInv, NoSocketLost
<1>11. AllPatient'
  <2>1. \A d \in Slot \ hurried : Patient(d)
    BY DEF SessionInv, AllPatient
  <2>2. \A d \in Slot \ hurried : /\ Contains(waiting, d) => mStatus'[d] = "ACTIVE"
                                  /\ mStatus'[d] = "FREE" => ~mRoomPtr[d]
                                  /\ d = c => ~mRoomPtr[d]
    BY <1>2, <1>4, <1>5, <2>1 DEF Patient
  <2> QED BY <1>1, <1>2, <2>2, PatienceStays DEF OutPc
<1> QED BY <1>7, <1>8, <1>9, <1>10, <1>11 DEF SessionInv

LEMMA ScanNextSessions ==
    ASSUME SlotInv, SessionInv, NEW t \in Thread, ScanNext(t)
    PROVE  SessionInv'
<1> DEFINE r == [thread[t] EXCEPT !.slot = thread[t].slot + 1]
<1>1. /\ thread' = [thread EXCEPT ![t] = r] /\ thread[t].pc = "scan"
      /\ r.pc = "scan" /\ r.socket = thread[t].socket
      /\ UNCHANGED <<mStatus, mSocket, mRoomPtr, waiting, link, keyOf, receives, hurried>>
  BY ThreadIsTyped DEF ScanNext, At, Records, clientVars, ioVars, ghostVars
<1>2. /\ \A u \in Thread \ {t} : thread'[u] = thread[u]
      /\ thread'[t] = r
  BY <1>1 DEF SlotInv, TypeOK
<1> HIDE DEF r
<1>3. OneCarrier'
  BY <1>1, CarrierStays DEF Carrying
<1>4. SessionsMatch'
  BY <1>1 DEF SessionInv, SessionsMatch
<1>5. ThreadsMatch'
  <2>1. ThreadMatches(t)'
    BY <1>1, <1>2 DEF SessionInv, ThreadsMatch, ThreadMatches
  <2>2. \A u \in Thread \ {t} : thread[u].pc \notin {"scan", "register"}
    BY <1>1, OnlyAcceptor DEF AcceptorPc
  <2> QED BY <1>1, <2>1, <2>2, OthersMatch
<1>6. NoSocketLost'
  <2>1. Acceptors' = Acceptors /\ \A u \in Acceptors : thread'[u].socket = thread[u].socket
    BY <1>1, <1>2 DEF Acceptors
  <2> QED BY <1>1, <2>1 DEF SessionInv, NoSocketLost
<1>7. AllPatient'
  BY <1>1, QueueKnown, PatienceStays DEF NewPc, OutPc
<1> QED BY <1>3, <1>4, <1>5, <1>6, <1>7 DEF SessionInv

\* With no slot free, or none for the completion port, the socket is closed.
LEMMA RefuseSessions ==
    ASSUME SlotInv, SessionInv, NEW t \in Thread, thread[t].pc \in {"scan", "register"},
           Close(thread[t].socket), AcceptAgain(t),
           UNCHANGED <<mStatus, mSocket, mRoomPtr, waiting, keyOf, receives, hurried>>
    PROVE  SessionInv'
<1>1. /\ thread' = [thread EXCEPT ![t] = Idle] /\ thread[t].pc \in AcceptorPc
      /\ Idle.pc = "idle" /\ thread[t].socket \in Socket \cup {INVALID_SOCKET}
  BY IdleIsRecord, ThreadIsTyped DEF AcceptAgain, Return, AcceptorPc, Records
<1>2. /\ \A u \in Thread \ {t} : thread'[u] = thread[u]
      /\ thread'[t] = Idle
  BY <1>1 DEF SlotInv, TypeOK
<1>3. \A u \in Thread \ {t} : thread[u].pc \notin AcceptorPc
  BY <1>1, OnlyAcceptor
<1>4. OneCarrier'
  BY <1>1, CarrierStays DEF Carrying
<1>5. SessionsMatch'
  BY DEF SessionInv, SessionsMatch
<1>6. ThreadsMatch'
  <2>1. ThreadMatches(t)'
    BY <1>1, <1>2 DEF ThreadMatches
  <2> QED BY <1>1, <1>3, <2>1, OthersMatch DEF AcceptorPc
<1>7. NoSocketLost'
  <2>1. \A u \in Acceptors : u = t
    BY <1>3 DEF Acceptors, AcceptorPc
  <2>2. \A s \in Socket : link'[s] \in {"open", "gone"} =>
            s # thread[t].socket /\ link[s] \in {"open", "gone"}
    BY <1>1, ServerAssumption DEF Close, SlotInv, TypeOK
  <2> QED BY <2>1, <2>2 DEF SessionInv, NoSocketLost
<1>8. AllPatient'
  BY <1>1, QueueKnown, PatienceStays DEF NewPc, OutPc
<1> QED BY <1>4, <1>5, <1>6, <1>7, <1>8 DEF SessionInv

LEMMA RegisterSessions ==
    ASSUME SlotInv, SessionInv, NEW t \in Thread, Register(t)
    PROVE  SessionInv'
<1> DEFINE r == [thread[t] EXCEPT !.pc = "activate"]
           c == thread[t].slot
           s == thread[t].socket
<1>1. /\ thread' = [thread EXCEPT ![t] = r] /\ r \in Records
      /\ r.pc = "activate" /\ r.slot = c /\ r.socket = s
      /\ c \in Slot /\ s \in Socket \cup {INVALID_SOCKET}
  BY ThreadIsTyped DEF Register, Goto, Pc, Records
<1>2. /\ thread[t].pc = "register"
      /\ keyOf' = [keyOf EXCEPT ![s] = c] /\ mSocket' = [mSocket EXCEPT ![c] = s]
      /\ UNCHANGED <<mStatus, mRoomPtr, waiting, link, receives, hurried>>
  BY DEF Register, At, ghostVars
<1>3. /\ \A u \in Thread \ {t} : thread'[u] = thread[u]
      /\ thread'[t] = r
  BY <1>1 DEF SlotInv, TypeOK
<1> HIDE DEF r, c, s
<1>4. /\ t \in Worker /\ s \in Socket /\ receives[s] = 0
      /\ \A d \in Slot : mSocket[d] # s
      /\ mStatus[c] = "ALLOCATED" /\ mSocket[c] = INVALID_SOCKET
  BY <1>1, <1>2 DEF SessionInv, ThreadsMatch, ThreadMatches, c, s
<1>5. /\ \A d \in Slot \ {c} : mSocket'[d] = mSocket[d]
      /\ \A q \in Socket \ {s} : keyOf'[q] = keyOf[q]
      /\ mSocket'[c] = s /\ keyOf'[s] = c
  BY <1>1, <1>2, <1>4 DEF SlotInv, TypeOK
<1>6. OneCarrier'
  <2>1. \A q \in Socket : receives[q] > 0 => keyOf'[q] = keyOf[q]
    BY <1>4, <1>5
  <2>2. Carries(t)
    BY <1>2 DEF Carries, Carrying
  <2> QED BY <1>1, <1>2, <2>1, <2>2, CarrierStays DEF c
<1>7. SessionsMatch'
  <2>1. \A d \in Slot : mSocket[d] \in Socket \cup {INVALID_SOCKET}
    BY DEF SlotInv, TypeOK
  <2>2. \A q \in Socket : receives[q] > 0 => keyOf[q] \in Slot \ {c}
    BY <1>4, ServerAssumption DEF SessionInv, SessionsMatch, SlotInv, KeyKnown
  <2> QED BY <1>2, <1>4, <1>5, <2>1, <2>2 DEF SessionInv, SessionsMatch
<1>8. ThreadsMatch'
  <2>1. ThreadMatches(t)'
    BY <1>1, <1>2, <1>3, <1>4, <1>5 DEF ThreadMatches
  <2>2. \A u \in Thread \ {t} : Carries(u) => thread[u].slot \in Slot \ {c}
    BY <1>2, ThreadIsTyped DEF SessionInv, OneCarrier, Carries, Carrying, Records, c
  <2>3. \A u \in Thread \ {t} : thread[u].pc \notin {"scan", "register"}
    BY <1>2, OnlyAcceptor DEF AcceptorPc
  <2> QED BY <1>1, <1>2, <1>5, <2>1, <2>2, <2>3, OthersMatch
<1>9. NoSocketLost'
  <2>1. Acceptors' = Acceptors /\ \A u \in Acceptors : thread'[u].socket = thread[u].socket
    BY <1>1, <1>2, <1>3 DEF Acceptors, s
  <2>2. \A q \in Socket : \A d \in Slot :
            mSocket[d] = q /\ mStatus[d] # "FREE" => mSocket'[d] = q /\ mStatus'[d] # "FREE"
    BY <1>2, <1>4, <1>5, ServerAssumption
  <2> QED BY <1>2, <2>1, <2>2 DEF SessionInv, NoSocketLost
<1>10. AllPatient'
  <2>1. c \in Slot \ hurried => ~mRoomPtr[c]
    BY <1>2 DEF SessionInv, AllPatient, Patient, NewPc, c
  <2> QED BY <1>1, <1>2, <2>1, QueueKnown, PatienceStays DEF OutPc
<1> QED BY <1>6, <1>7, <1>8, <1>9, <1>10 DEF SessionInv

LEMMA ActivateSessions ==
    ASSUME SlotInv, SessionInv, NEW t \in Thread, Activate(t)
    PROVE  SessionInv'
<1> DEFINE r == [thread[t] EXCEPT !.pc = "receive"]
           c == thread[t].slot
<1>1. /\ thread' = [thread EXCEPT ![t] = r] /\ c \in Slot
      /\ r.pc = "receive" /\ r.slot = c /\ r.socket = thread[t].socket
  BY ThreadIsTyped DEF Activate, Goto, Pc, Records
<1>2. /\ mStatus' = [mStatus EXCEPT ![c] = "ACTIVE"] /\ thread[t].pc = "activate"
      /\ UNCHANGED <<mSocket, mRoomPtr, waiting, link, keyOf, receives, hurried>>
  BY DEF Activate, At, ioVars, ghostVars
<1>3. /\ \A u \in Thread \ {t} : thread'[u] = thread[u]
      /\ thread'[t] = r
  BY <1>1 DEF SlotInv, TypeOK
<1> HIDE DEF r, c
<1>4. /\ \A d \in Slot \ {c} : mStatus'[d] = mStatus[d]
      /\ mStatus'[c] = "ACTIVE" /\ mStatus[c] = "ALLOCATED"
  BY <1>1, <1>2 DEF SlotInv, TypeOK, SessionInv, ThreadsMatch, ThreadMatches, c
<1>5. OneCarrier'
  BY <1>1, <1>2, CarrierStays DEF Carries, Carrying, c
<1>6. SessionsMatch'
  <2>1. \A s \in Socket : receives[s] > 0 => keyOf[s] \in Slot
    BY DEF SlotInv, KeyKnown
  <2> QED BY <1>2, <1>4, <2>1 DEF SessionInv, SessionsMatch
<1>7. ThreadsMatch'
  <2>1. ThreadMatches(t)'
    BY <1>1, <1>2, <1>3, <1>4 DEF SessionInv, ThreadsMatch, ThreadMatches, c
  <2>2. \A u \in Thread \ {t} : Carries(u) => thread[u].slot \in Slot \ {c}
    BY <1>2, ThreadIsTyped DEF SessionInv, OneCarrier, Carries, Carrying, Records, c
  <2>3. \A u \in Thread \ {t} : thread[u].pc \notin {"scan", "register"}
    BY <1>2, OnlyAcceptor DEF AcceptorPc
  <2> QED BY <1>1, <1>2, <1>4, <2>1, <2>2, <2>3, OthersMatch
<1>8. NoSocketLost'
  <2>1. Acceptors' = Acceptors /\ \A u \in Acceptors : thread'[u].socket = thread[u].socket
    BY <1>1, <1>2, <1>3 DEF Acceptors
  <2> QED BY <1>2, <1>4, <2>1 DEF SessionInv, NoSocketLost
<1>9. AllPatient'
  <2>1. c \in Slot \ hurried => ~mRoomPtr[c] /\ ~Contains(waiting, c)
    BY <1>2, <1>4, QueueKnown DEF SessionInv, AllPatient, Patient, NewPc, c
  <2>2. \A d \in Slot \ hurried : /\ Contains(waiting, d) => mStatus'[d] = "ACTIVE"
                                  /\ mStatus'[d] = "FREE" => ~mRoomPtr[d]
    BY <1>4, QueueKnown
  <2> QED BY <1>1, <1>2, <2>1, <2>2, PatienceStays
<1> QED BY <1>5, <1>6, <1>7, <1>8, <1>9 DEF SessionInv

LEMMA FirstReceiveSessions ==
    ASSUME SlotInv, SessionInv, NEW t \in Thread, FirstReceive(t)
    PROVE  SessionInv'
<1> DEFINE c == thread[t].slot
<1>1. /\ thread' = [thread EXCEPT ![t] = Idle] /\ thread[t].pc = "receive"
      /\ Idle.pc = "idle" /\ c \in Slot /\ WSARecv(thread[t].socket)
      /\ UNCHANGED <<mStatus, mSocket, mRoomPtr, waiting, link, keyOf, hurried>>
  BY IdleIsRecord, ThreadIsTyped
  DEF FirstReceive, AcceptAgain, Return, At, Records, clientVars, ghostVars
<1>2. mStatus[c] = "ACTIVE" /\ mSocket[c] = thread[t].socket
  BY <1>1 DEF SessionInv, ThreadsMatch, ThreadMatches
<1>3. mSocket[c] \in Socket
  BY <1>1, <1>2 DEF SlotInv, TypeOK, SessionInv, ThreadsMatch, ThreadMatches
<1>4. /\ \A u \in Thread \ {t} : thread'[u] = thread[u]
      /\ thread'[t] = Idle
  BY <1>1 DEF SlotInv, TypeOK
<1>5. OneCarrier' /\ SessionsMatch'
  BY <1>1, <1>2, <1>3, CarrierReceives DEF Carries, Carrying
<1>6. \A u \in Thread \ {t} : thread[u].pc \notin AcceptorPc
  BY <1>1, OnlyAcceptor DEF AcceptorPc
<1>7. ThreadsMatch'
  <2>1. ThreadMatches(t)'
    BY <1>1, <1>4 DEF ThreadMatches
  <2> QED BY <1>1, <1>6, <2>1, OthersMatch DEF AcceptorPc
<1>8. NoSocketLost'
  <2>1. \A u \in Acceptors : u = t
    BY <1>6 DEF Acceptors, AcceptorPc
  <2> QED BY <1>1, <1>2, <2>1 DEF SessionInv, NoSocketLost
<1>9. AllPatient'
  BY <1>1, QueueKnown, PatienceStays DEF NewPc, OutPc
<1> QED BY <1>5, <1>7, <1>8, <1>9 DEF SessionInv
-----------------------------------------------------------------------------
\* A completed receive hands its slot to the worker, which finds it ACTIVE.
LEMMA TakeSessions ==
    ASSUME SlotInv, SessionInv, NEW t \in Worker, NEW s \in Socket, NEW r,
           thread[t].pc = "idle", receives[s] > 0,
           receives' = [receives EXCEPT ![s] = @ - 1],
           thread' = [thread EXCEPT ![t] = r],
           r.pc \in {"addClient", "repost", "unqueue"},
           r.slot = keyOf[s], r.socket = s,
           UNCHANGED <<mStatus, mSocket, mRoomPtr, waiting, link, keyOf>>,
           hurried \subseteq hurried',
           r.pc = "addClient" =>
               /\ ~mRoomPtr[keyOf[s]]
               /\ keyOf[s] \notin hurried' => ~Contains(waiting, keyOf[s])
    PROVE  SessionInv'
<1>1. /\ t \in Thread /\ s # INVALID_SOCKET
      /\ mSocket[keyOf[s]] = s /\ mStatus[keyOf[s]] = "ACTIVE"
  BY ServerAssumption DEF Thread, SessionInv, SessionsMatch
<1>2. /\ \A u \in Thread \ {t} : thread'[u] = thread[u]
      /\ thread'[t] = r
  BY <1>1 DEF SlotInv, TypeOK
<1>3. /\ \A q \in Socket \ {s} : receives'[q] = receives[q]
      /\ \A q \in Socket : receives'[q] > 0 => receives[q] > 0
  BY DEF SlotInv, TypeOK
<1>4. OneCarrier'
  BY <1>1, CarrierTakes DEF Carrying
<1>5. SessionsMatch'
  BY <1>3 DEF SessionInv, SessionsMatch
<1>6. ThreadsMatch'
  <2>1. ThreadMatches(t)'
    BY <1>1, <1>2 DEF ThreadMatches
  <2>2. \A u \in Thread \ {t} : thread[u].pc \in {"scan", "register"} =>
            /\ receives'[thread[u].socket] = 0
            /\ \A d \in Slot : mSocket'[d] # thread[u].socket
    BY <1>3, ScannedSocket
  <2> QED BY <1>1, <2>1, <2>2, OthersMatch
<1>7. NoSocketLost'
  <2>1. Acceptors' = Acceptors /\ \A u \in Acceptors : thread'[u].socket = thread[u].socket
    BY <1>2 DEF Acceptors
  <2> QED BY <2>1 DEF SessionInv, NoSocketLost
<1>8. AllPatient'
  <2>1. \A c \in Slot \ hurried' :
            /\ r.slot = c /\ r.pc \in NewPc => ~mRoomPtr[c]
            /\ r.slot = c /\ r.pc \in OutPc => ~Contains(waiting, c)
    BY DEF NewPc, OutPc
  <2> QED BY <1>1, <2>1, QueueKnown, PatienceStays
<1> QED BY <1>4, <1>5, <1>6, <1>7, <1>8 DEF SessionInv

LEMMA StartMatchingSessions ==
    ASSUME SlotInv, SessionInv, NEW t \in Worker, NEW s \in Socket, StartMatching(t, s)
    PROVE  SessionInv'
<1> DEFINE c == keyOf[s]
           r == [pc |-> IF mRoomPtr[c] THEN "repost" ELSE "addClient",
                 slot |-> c, socket |-> s]
<1>1. /\ thread[t].pc = "idle" /\ receives[s] > 0
      /\ receives' = [receives EXCEPT ![s] = @ - 1]
      /\ thread' = [thread EXCEPT ![t] = r]
      /\ hurried' = IF Contains(waiting, c) THEN hurried \cup {c} ELSE hurried
      /\ UNCHANGED <<mStatus, mSocket, mRoomPtr, waiting, link, keyOf>>
  BY DEF StartMatching, At, clientVars
<1>2. /\ r.pc \in {"addClient", "repost", "unqueue"} /\ r.slot = c /\ r.socket = s
      /\ r.pc = "addClient" => ~mRoomPtr[c]
  OBVIOUS
<1>3. hurried \subseteq hurried' /\ (c \notin hurried' => ~Contains(waiting, c))
  BY <1>1
<1> HIDE DEF r
<1> QED BY <1>1, <1>2, <1>3, TakeSessions

LEMMA ReceiveFailsSessions ==
    ASSUME SlotInv, SessionInv, NEW t \in Worker, NEW s \in Socket, ReceiveFails(t, s)
    PROVE  SessionInv'
<1> DEFINE r == [pc |-> "unqueue", slot |-> keyOf[s], socket |-> s]
<1>1. /\ thread[t].pc = "idle" /\ receives[s] > 0
      /\ receives' = [receives EXCEPT ![s] = @ - 1]
      /\ UNCHANGED <<mStatus, mSocket, mRoomPtr, waiting, link, keyOf, hurried>>
  BY DEF ReceiveFails, At, clientVars, ghostVars
<1>2. mStatus[keyOf[s]] = "ACTIVE"
  BY <1>1 DEF SessionInv, SessionsMatch
<1>3. thread' = [thread EXCEPT ![t] = r]
  BY <1>2 DEF ReceiveFails, Disconnect
<1>4. r.pc = "unqueue" /\ r.slot = keyOf[s] /\ r.socket = s
  OBVIOUS
<1> HIDE DEF r
<1> QED BY <1>1, <1>3, <1>4, TakeSessions

LEMMA RepostSessions ==
    ASSUME SlotInv, SessionInv, NEW t \in Thread, Repost(t)
    PROVE  SessionInv'
<1> DEFINE c == thread[t].slot
<1>1. /\ thread' = [thread EXCEPT ![t] = Idle] /\ thread[t].pc = "repost"
      /\ Idle.pc = "idle" /\ c \in Slot /\ WSARecv(mSocket[c])
      /\ UNCHANGED <<mStatus, mSocket, mRoomPtr, waiting, link, keyOf, hurried>>
  BY IdleIsRecord, ThreadIsTyped DEF Repost, Return, At, Records, clientVars, ghostVars
<1>2. mStatus[c] = "ACTIVE" /\ mSocket[c] \in Socket
  BY <1>1 DEF SlotInv, TypeOK, SessionInv, ThreadsMatch, ThreadMatches
<1>3. /\ \A u \in Thread \ {t} : thread'[u] = thread[u]
      /\ thread'[t] = Idle
  BY <1>1 DEF SlotInv, TypeOK
<1>4. Carries(t)
  BY <1>1 DEF Carries, Carrying
<1>5. /\ OneCarrier' /\ SessionsMatch'
      /\ \A q \in Socket : q # mSocket[c] => receives'[q] = receives[q]
  BY <1>1, <1>2, <1>4, CarrierReceives
<1>6. ThreadsMatch'
  <2>1. ThreadMatches(t)'
    BY <1>1, <1>3 DEF ThreadMatches
  <2>2. \A u \in Thread \ {t} : thread[u].pc \in {"scan", "register"} =>
            /\ receives'[thread[u].socket] = 0
            /\ \A d \in Slot : mSocket'[d] # thread[u].socket
    BY <1>1, <1>5, ScannedSocket
  <2> QED BY <1>1, <2>1, <2>2, OthersMatch
<1>7. NoSocketLost'
  <2>1. Acceptors' = Acceptors /\ \A u \in Acceptors : thread'[u].socket = thread[u].socket
    BY <1>1, <1>3 DEF Acceptors
  <2> QED BY <1>1, <2>1 DEF SessionInv, NoSocketLost
<1>8. AllPatient'
  BY <1>1, QueueKnown, PatienceStays DEF NewPc, OutPc
<1> QED BY <1>5, <1>6, <1>7, <1>8 DEF SessionInv
-----------------------------------------------------------------------------
(***************************************************************************)
(* The queue: a client is added at its end; the first of them get a room.  *)
(***************************************************************************)
LEMMA AddClientQueue ==
    ASSUME SlotInv, SessionInv, NEW t \in Thread, thread[t].pc = "addClient",
           NEW queue, queue = Append(waiting, thread[t].slot),
           NEW d \in Slot \ hurried
    PROVE  /\ Contains(queue, d) => mStatus[d] = "ACTIVE" /\ ~mRoomPtr[d]
           /\ \A i, j \in 1..Len(queue) : queue[i] = d /\ queue[j] = d => i = j
           /\ \A u \in Thread \ {t} : thread[u].slot = d /\ thread[u].pc \in NewPc =>
                 ~Contains(queue, d)
           /\ \A u \in Thread \ {t} : thread[u].slot = d /\ thread[u].pc \in OutPc =>
                 ~Contains(queue, d)
<1> DEFINE c == thread[t].slot
<1>1. /\ c \in Slot /\ waiting \in Seq(Slot)
      /\ mStatus[c] = "ACTIVE"
  BY ThreadIsTyped DEF Records, SlotInv, TypeOK, SessionInv, ThreadsMatch, ThreadMatches
<1>2. Patient(d)
  BY DEF SessionInv, AllPatient
<1>3. Contains(queue, d) <=> Contains(waiting, d) \/ d = c
  <2>1. \A e : Contains(Append(waiting, c), e) <=> Contains(waiting, e) \/ e = c
    BY <1>1 DEF Contains
  <2> QED BY <2>1
<1>4. d = c => ~mRoomPtr[d] /\ ~Contains(waiting, d)
  BY <1>2 DEF Patient, NewPc, OutPc
<1>5. Contains(queue, d) => mStatus[d] = "ACTIVE" /\ ~mRoomPtr[d]
  BY <1>1, <1>2, <1>3, <1>4 DEF Patient
<1>6. ASSUME NEW u \in Thread \ {t}, thread[u].slot = d, Carries(u) PROVE d # c
  BY <1>6 DEF SessionInv, OneCarrier, Carries, Carrying
<1> HIDE DEF c
<1>7. \A i, j \in 1..Len(queue) : queue[i] = d /\ queue[j] = d => i = j
  <2>1. /\ Len(queue) = Len(waiting) + 1 /\ queue[Len(waiting) + 1] = c
        /\ \A i \in 1..Len(waiting) : queue[i] = waiting[i]
    BY <1>1 DEF c
  <2>2. d = c => \A i \in 1..Len(waiting) : queue[i] # d
    BY <1>4, <2>1 DEF Contains
  <2>3. \A i \in 1..Len(queue) : i \in 1..Len(waiting) \/ i = Len(waiting) + 1
    BY <1>1, <2>1
  <2> QED BY <1>2, <2>1, <2>2, <2>3 DEF Patient
<1>8. ASSUME NEW u \in Thread \ {t}, thread[u].slot = d, thread[u].pc \in OutPc
      PROVE  ~Contains(queue, d)
  <2>1. ~Contains(waiting, d)
    BY <1>2, <1>8 DEF Patient
  <2> QED BY <1>3, <1>6, <1>8, <2>1 DEF Carries, Carrying, OutPc
<1>9. ASSUME NEW u \in Thread \ {t}, thread[u].slot = d, thread[u].pc \in NewPc
      PROVE  ~Contains(queue, d)
  <2>1. CASE thread[u].pc \in {"register", "activate"}
    BY <1>5, <1>9, <2>1 DEF SessionInv, ThreadsMatch, ThreadMatches
  <2>2. CASE thread[u].pc \in {"receive", "addClient"}
    BY <1>8, <1>9, <2>2 DEF OutPc
  <2> QED BY <1>9, <2>1, <2>2 DEF NewPc
<1> QED BY <1>5, <1>7, <1>8, <1>9

LEMMA AddClientSessions ==
    ASSUME SlotInv, SessionInv, NEW t \in Thread, AddClient(t)
    PROVE  SessionInv'
<1> DEFINE r == [thread[t] EXCEPT !.pc = "repost"]
           queue == Append(waiting, thread[t].slot)
           room == {queue[i] : i \in 1..MAX_ROOM_PLAYER}
<1>1. /\ thread' = [thread EXCEPT ![t] = r] /\ thread[t].pc = "addClient"
      /\ r.pc = "repost" /\ r.slot = thread[t].slot /\ r.socket = thread[t].socket
      /\ UNCHANGED <<mStatus, mSocket, link, keyOf, receives, hurried>>
  BY ThreadIsTyped DEF AddClient, Goto, At, Pc, ioVars, ghostVars
<1>2. IF Len(queue) < MAX_ROOM_PLAYER
      THEN waiting' = queue /\ UNCHANGED mRoomPtr
      ELSE /\ waiting' = SubSeq(queue, MAX_ROOM_PLAYER + 1, Len(queue))
           /\ mRoomPtr' = [c \in Slot |-> mRoomPtr[c] \/ c \in room]
  BY DEF AddClient
<1>3. /\ \A u \in Thread \ {t} : thread'[u] = thread[u]
      /\ thread'[t] = r
  BY <1>1 DEF SlotInv, TypeOK
<1>4. queue \in Seq(Slot)
  BY ThreadIsTyped DEF Records, SlotInv, TypeOK
<1> HIDE DEF r, queue, room
<1>5. OneCarrier'
  <2>1. Carries(t)
    BY <1>1 DEF Carries, Carrying
  <2> QED BY <1>1, <2>1, CarrierStays
<1>6. SessionsMatch'
  BY <1>1 DEF SessionInv, SessionsMatch
<1>7. ThreadsMatch'
  <2>1. ThreadMatches(t)'
    BY <1>1, <1>3 DEF SessionInv, ThreadsMatch, ThreadMatches
  <2> QED BY <1>1, <2>1, ScannedSocket, OthersMatch
<1>8. NoSocketLost'
  <2>1. Acceptors' = Acceptors /\ \A u \in Acceptors : thread'[u].socket = thread[u].socket
    BY <1>1, <1>3 DEF Acceptors
  <2> QED BY <1>1, <2>1 DEF SessionInv, NoSocketLost
<1>9. AllPatient'
  <2> SUFFICES ASSUME NEW d \in Slot, d \notin hurried PROVE Patient(d)'
    BY <1>1 DEF AllPatient
  <2>1. /\ Contains(queue, d) => mStatus[d] = "ACTIVE" /\ ~mRoomPtr[d]
        /\ \A i, j \in 1..Len(queue) : queue[i] = d /\ queue[j] = d => i = j
        /\ \A u \in Thread \ {t} :
              thread[u].slot = d /\ (thread[u].pc \in NewPc \/ thread[u].pc \in OutPc) =>
                  ~Contains(queue, d)
    BY <1>1, AddClientQueue DEF queue
  <2>2. Patient(d)
    BY DEF SessionInv, AllPatient
  <2>3. \A u \in Thread : thread'[u].pc \in NewPc \/ thread'[u].pc \in OutPc =>
            u # t /\ thread'[u] = thread[u]
    BY <1>1, <1>3 DEF NewPc, OutPc
  <2>4. CASE Len(queue) < MAX_ROOM_PLAYER
    BY <1>1, <1>2, <2>1, <2>2, <2>3, <2>4 DEF Patient, Contains
  <2>5. CASE ~(Len(queue) < MAX_ROOM_PLAYER)
    <3>1. /\ Len(queue) \in Nat /\ MAX_ROOM_PLAYER \in Nat
          /\ MAX_ROOM_PLAYER <= Len(queue)
      BY <1>4, <2>5, ServerAssumption
    <3>2. /\ Len(waiting') = Len(queue) - MAX_ROOM_PLAYER
          /\ \A i \in 1..Len(waiting') : waiting'[i] = queue[i + MAX_ROOM_PLAYER]
          /\ \A i \in 1..Len(waiting') : i + MAX_ROOM_PLAYER \in 1..Len(queue)
      BY <1>2, <1>4, <2>5, <3>1
    <3>3. mRoomPtr'[d] <=> mRoomPtr[d] \/ d \in room
      BY <1>2, <2>5
    <3>4. d \in room => Contains(queue, d)
      BY <3>1 DEF room, Contains
    <3>5. Contains(waiting', d) => Contains(queue, d)
      BY <3>2 DEF Contains
    <3>6. Contains(waiting', d) => d \notin room
      <4> SUFFICES ASSUME Contains(waiting', d), d \in room PROVE FALSE
        OBVIOUS
      <4>1. PICK i \in 1..Len(waiting') : queue[i + MAX_ROOM_PLAYER] = d
        BY <3>2 DEF Contains
      <4>2. PICK j \in 1..MAX_ROOM_PLAYER : queue[j] = d
        BY DEF room
      <4>3. j \in 1..Len(queue) /\ j # i + MAX_ROOM_PLAYER
        BY <3>1, <3>2
      <4> QED BY <2>1, <3>2, <4>1, <4>2, <4>3
    <3>7. \A i, j \in 1..Len(waiting') : waiting'[i] = d /\ waiting'[j] = d => i = j
      BY <2>1, <3>1, <3>2
    <3>8. /\ Contains(waiting', d) => mStatus'[d] = "ACTIVE" /\ ~mRoomPtr'[d]
          /\ mStatus'[d] = "FREE" => ~mRoomPtr'[d]
      BY <1>1, <2>1, <2>2, <3>3, <3>4, <3>5, <3>6 DEF Patient
    <3>9. \A u \in Thread : thread'[u].slot = d =>
              /\ thread'[u].pc \in NewPc => ~mRoomPtr'[d]
              /\ thread'[u].pc \in OutPc => ~Contains(waiting', d)
      BY <2>1, <2>2, <2>3, <3>3, <3>4, <3>5 DEF Patient
    <3> QED BY <3>7, <3>8, <3>9 DEF Patient, Contains
  <2> QED BY <2>4, <2>5
<1> QED BY <1>5, <1>6, <1>7, <1>8, <1>9 DEF SessionInv
-----------------------------------------------------------------------------
LEMMA UnqueueSessions ==
    ASSUME SlotInv, SessionInv, NEW t \in Thread, Unqueue(t)
    PROVE  SessionInv'
<1> DEFINE r == [thread[t] EXCEPT !.pc = "close"]
           c == thread[t].slot
<1>1. /\ thread' = [thread EXCEPT ![t] = r] /\ thread[t].pc = "unqueue" /\ c \in Slot
      /\ r.pc = "close" /\ r.slot = c /\ r.socket = thread[t].socket
      /\ waiting' = RemoveFirst(waiting, c)
      /\ UNCHANGED <<mStatus, mSocket, mRoomPtr, link, keyOf, receives, hurried>>
  BY ThreadIsTyped DEF Unqueue, Goto, At, Pc, Records, clientVars, ioVars, ghostVars
<1>2. /\ \A u \in Thread \ {t} : thread'[u] = thread[u]
      /\ thread'[t] = r
  BY <1>1 DEF SlotInv, TypeOK
<1> HIDE DEF r, c
<1>3. OneCarrier'
  <2>1. Carries(t)
    BY <1>1 DEF Carries, Carrying
  <2> QED BY <1>1, <2>1, CarrierStays DEF c
<1>4. SessionsMatch'
  BY <1>1 DEF SessionInv, SessionsMatch
<1>5. ThreadsMatch'
  <2>1. ThreadMatches(t)'
    BY <1>1, <1>2 DEF SessionInv, ThreadsMatch, ThreadMatches, c
  <2> QED BY <1>1, <2>1, ScannedSocket, OthersMatch
<1>6. NoSocketLost'
  <2>1. Acceptors' = Acceptors /\ \A u \in Acceptors : thread'[u].socket = thread[u].socket
    BY <1>1, <1>2 DEF Acceptors
  <2> QED BY <1>1, <2>1 DEF SessionInv, NoSocketLost
<1>7. AllPatient'
  <2> SUFFICES ASSUME NEW d \in Slot, d \notin hurried PROVE Patient(d)'
    BY <1>1 DEF AllPatient
  <2>1. Patient(d) /\ waiting \in Seq(Slot)
    BY DEF SessionInv, AllPatient, SlotInv, TypeOK
  <2>2. /\ Contains(waiting', d) => Contains(waiting, d) /\ d # c
        /\ \A i, j \in 1..Len(waiting') : waiting'[i] = d /\ waiting'[j] = d => i = j
    <3>1. AtMostOnce(waiting, d)
      BY <2>1 DEF Patient, AtMostOnce
    <3>2. /\ Contains(RemoveFirst(waiting, c), d) => Contains(waiting, d) /\ d # c
          /\ AtMostOnce(RemoveFirst(waiting, c), d)
      BY <2>1, <3>1, RemoveFirstKeeps
    <3> QED BY <1>1, <3>2 DEF AtMostOnce
  <2>3. \A u \in Thread : thread'[u].slot = d =>
            /\ thread'[u].pc \in NewPc => ~mRoomPtr[d]
            /\ thread'[u].pc \in OutPc => ~Contains(waiting', d)
    BY <1>1, <1>2, <2>1, <2>2 DEF Patient, NewPc
  <2> QED BY <1>1, <2>1, <2>2, <2>3 DEF Patient, Contains
<1> QED BY <1>3, <1>4, <1>5, <1>6, <1>7 DEF SessionInv

LEMMA CloseSocketSessions ==
    ASSUME SlotInv, SessionInv, NEW t \in Thread, CloseSocket(t)
    PROVE  SessionInv'
<1> DEFINE r == [thread[t] EXCEPT !.pc = "init"]
           c == thread[t].slot
<1>1. /\ thread' = [thread EXCEPT ![t] = r] /\ thread[t].pc = "close" /\ c \in Slot
      /\ r.pc = "init" /\ r.slot = c
      /\ mStatus' = [mStatus EXCEPT ![c] = "ALLOCATED"]
      /\ Close(mSocket[c]) /\ mSocket' = [mSocket EXCEPT ![c] = INVALID_SOCKET]
      /\ UNCHANGED <<mRoomPtr, waiting, keyOf, receives, hurried>>
  BY ThreadIsTyped DEF CloseSocket, Goto, At, Pc, Records, ghostVars
<1>2. /\ \A u \in Thread \ {t} : thread'[u] = thread[u]
      /\ thread'[t] = r
  BY <1>1 DEF SlotInv, TypeOK
<1>3. /\ mSocket[c] \in Socket /\ t \in Worker
  BY <1>1 DEF SlotInv, TypeOK, SessionInv, ThreadsMatch, ThreadMatches
<1>4. /\ \A u \in Thread \ {t} : Carries(u) => thread[u].slot # c
      /\ \A s \in Socket : receives[s] > 0 => keyOf[s] # c
  BY <1>1 DEF SessionInv, OneCarrier, Carries, Carrying
<1> HIDE DEF r, c
<1>5. /\ \A d \in Slot \ {c} : mStatus'[d] = mStatus[d] /\ mSocket'[d] = mSocket[d]
      /\ mStatus'[c] = "ALLOCATED" /\ mSocket'[c] = INVALID_SOCKET
  BY <1>1 DEF SlotInv, TypeOK
<1>6. OneCarrier'
  <2>1. Carries(t)
    BY <1>1 DEF Carries, Carrying
  <2> QED BY <1>1, <2>1, CarrierStays DEF c
<1>7. SessionsMatch'
  BY <1>1, <1>4, <1>5 DEF SessionInv, SessionsMatch, SlotInv, KeyKnown
<1>8. ThreadsMatch'
  <2>1. ThreadMatches(t)'
    BY <1>1, <1>2, <1>3, <1>5 DEF ThreadMatches
  <2>2. \A u \in Thread \ {t} : Carries(u) => thread[u].slot \in Slot \ {c}
    BY <1>4, ThreadIsTyped DEF Records
  <2>3. \A u \in Thread \ {t} : thread[u].pc \in {"scan", "register"} =>
            /\ receives'[thread[u].socket] = 0
            /\ \A d \in Slot : mSocket'[d] # thread[u].socket
    BY <1>1, <1>5, ScannedSocket, ServerAssumption
  <2> QED BY <1>1, <1>5, <2>1, <2>2, <2>3, OthersMatch
<1>9. NoSocketLost'
  <2>1. Acceptors' = Acceptors /\ \A u \in Acceptors : thread'[u].socket = thread[u].socket
    BY <1>1, <1>2 DEF Acceptors
  <2>2. \A s \in Socket : link'[s] \in {"open", "gone"} =>
            s # mSocket[c] /\ link[s] \in {"open", "gone"}
    BY <1>1, <1>3, ServerAssumption DEF Close, SlotInv, TypeOK
  <2> QED BY <1>5, <2>1, <2>2 DEF SessionInv, NoSocketLost
<1>10. AllPatient'
  <2>1. c \in Slot \ hurried => ~Contains(waiting, c)
    BY <1>1 DEF SessionInv, AllPatient, Patient, OutPc, c
  <2>2. \A d \in Slot \ hurried : /\ Contains(waiting, d) => mStatus'[d] = "ACTIVE"
                                  /\ mStatus'[d] = "FREE" => ~mRoomPtr[d]
    BY <1>5, <2>1, QueueKnown
  <2> QED BY <1>1, <2>2, PatienceStays DEF NewPc, OutPc
<1> QED BY <1>6, <1>7, <1>8, <1>9, <1>10 DEF SessionInv

LEMMA InitClientSessions ==
    ASSUME SlotInv, SessionInv, NEW t \in Thread, InitClient(t)
    PROVE  SessionInv'
<1> DEFINE c == thread[t].slot
<1>1. /\ thread' = [thread EXCEPT ![t] = Idle] /\ thread[t].pc = "init" /\ c \in Slot
      /\ Idle.pc = "idle"
      /\ mStatus' = [mStatus EXCEPT ![c] = "FREE"]
      /\ mRoomPtr' = [mRoomPtr EXCEPT ![c] = FALSE]
      /\ UNCHANGED <<mSocket, waiting, link, keyOf, receives, hurried>>
  BY IdleIsRecord, ThreadIsTyped
  DEF InitClient, Return, At, Records, ioVars, ghostVars
<1>2. /\ \A u \in Thread \ {t} : thread'[u] = thread[u]
      /\ thread'[t] = Idle
  BY <1>1 DEF SlotInv, TypeOK
<1>3. mStatus[c] = "ALLOCATED" /\ mSocket[c] = INVALID_SOCKET
  BY <1>1 DEF SessionInv, ThreadsMatch, ThreadMatches
<1>4. /\ \A u \in Thread \ {t} : Carries(u) => thread[u].slot # c
      /\ \A s \in Socket : receives[s] > 0 => keyOf[s] # c
  BY <1>1 DEF SessionInv, OneCarrier, Carries, Carrying
<1> HIDE DEF c
<1>5. /\ \A d \in Slot \ {c} : mStatus'[d] = mStatus[d] /\ mRoomPtr'[d] = mRoomPtr[d]
      /\ mStatus'[c] = "FREE" /\ ~mRoomPtr'[c]
  BY <1>1 DEF SlotInv, TypeOK
<1>6. OneCarrier'
  BY <1>1, CarrierStays DEF Carrying
<1>7. SessionsMatch'
  BY <1>1, <1>3, <1>4, <1>5 DEF SessionInv, SessionsMatch, SlotInv, KeyKnown
<1>8. ThreadsMatch'
  <2>1. ThreadMatches(t)'
    BY <1>1, <1>2 DEF ThreadMatches
  <2>2. \A u \in Thread \ {t} : Carries(u) => thread[u].slot \in Slot \ {c}
    BY <1>4, ThreadIsTyped DEF Records
  <2> QED BY <1>1, <1>5, <2>1, <2>2, ScannedSocket, OthersMatch
<1>9. NoSocketLost'
  <2>1. Acceptors' = Acceptors /\ \A u \in Acceptors : thread'[u].socket = thread[u].socket
    BY <1>1, <1>2 DEF Acceptors
  <2>2. \A s \in Socket, d \in Slot : mSocket[d] = s => d # c
    BY <1>3, ServerAssumption
  <2> QED BY <1>1, <1>5, <2>1, <2>2 DEF SessionInv, NoSocketLost
<1>10. AllPatient'
  <2>1. \A d \in Slot \ hurried : Contains(waiting, d) => mStatus'[d] = "ACTIVE"
    BY <1>3, <1>5, QueueKnown
  <2>2. \A d \in Slot \ hurried : mStatus'[d] = "FREE" => ~mRoomPtr'[d]
    BY <1>5, QueueKnown
  <2>3. \A d \in Slot : mRoomPtr'[d] => mRoomPtr[d]
    BY <1>5
  <2> QED BY <1>1, <2>1, <2>2, <2>3, PatienceStays DEF NewPc, OutPc
<1> QED BY <1>6, <1>7, <1>8, <1>9, <1>10 DEF SessionInv

LEMMA PeerGoesSessions ==
    ASSUME SlotInv, SessionInv, NEW s \in Socket, PeerGoes(s)
    PROVE  SessionInv'
<1>1. UNCHANGED <<mStatus, mSocket, mRoomPtr, waiting, keyOf, receives, thread, hurried>>
  BY DEF PeerGoes, clientVars, ghostVars
<1>2. \A q \in Socket : link'[q] \in {"open", "gone"} => link[q] \in {"open", "gone"}
  BY DEF PeerGoes, SlotInv, TypeOK
<1> QED BY <1>1, <1>2 DEF SessionInv, OneCarrier, Carries, SessionsMatch, ThreadsMatch,
           ThreadMatches, NoSocketLost, Acceptors, AllPatient, Patient, Contains
-----------------------------------------------------------------------------
LEMMA NextSessions ==
    ASSUME ReceivesDisconnect, SlotInv, SessionInv, [Next]_vars
    PROVE  SessionInv'
<1>1. Worker \subseteq Thread
  BY DEF Thread
<1>2. ASSUME NEW t \in Thread, Accepting(t) PROVE SessionInv'
  <2>1. CASE ScanFull(t)
    <3>1. /\ thread[t].pc \in {"scan", "register"}
          /\ Close(thread[t].socket) /\ AcceptAgain(t)
          /\ UNCHANGED <<mStatus, mSocket, mRoomPtr, waiting, keyOf, receives, hurried>>
      BY <2>1 DEF ScanFull, At, clientVars, ghostVars
    <3> QED BY <3>1, RefuseSessions
  <2>2. CASE RegisterFails(t)
    <3>1. /\ thread[t].pc \in {"scan", "register"}
          /\ Close(thread[t].socket) /\ AcceptAgain(t)
          /\ UNCHANGED <<mStatus, mSocket, mRoomPtr, waiting, keyOf, receives, hurried>>
      BY <2>2 DEF RegisterFails, At, clientVars
    <3> QED BY <3>1, RefuseSessions
  <2> QED BY <1>2, <2>1, <2>2, ScanFoundSessions, ScanNextSessions, RegisterSessions,
             ActivateSessions, FirstReceiveSessions DEF Accepting
<1>3. ASSUME NEW t \in Thread, Matching(t) PROVE SessionInv'
  BY <1>3, AddClientSessions, RepostSessions DEF Matching
<1>4. ASSUME NEW t \in Thread, Disconnecting(t) PROVE SessionInv'
  BY <1>4, UnqueueSessions, CloseSocketSessions, InitClientSessions DEF Disconnecting
<1>5. ASSUME NEW t \in Worker, WorkerThread(t) PROVE SessionInv'
  <2>1. ASSUME NEW s \in Socket, SendFails(t, s) PROVE FALSE
    BY <2>1 DEF SendFails, ReceivesDisconnect
  <2>2. ASSUME NEW s \in Socket, \/ Accept(t, s) \/ StartMatching(t, s)
                                 \/ ReceiveFails(t, s)
        PROVE  SessionInv'
    BY <2>2, AcceptSessions, StartMatchingSessions, ReceiveFailsSessions
  <2> QED BY <1>1, <1>2, <1>3, <1>4, <1>5, <2>1, <2>2 DEF WorkerThread
<1>6. ASSUME NEW c \in Slot, ConnectCheck(c) \/ Lose(c) PROVE FALSE
  BY <1>6 DEF ConnectCheck, Lose, ReceivesDisconnect
\* The main thread and the threads of the rooms stay out of it.
<1>7. CASE Kick
  BY <1>7 DEF Kick, At, SessionInv, ThreadsMatch, ThreadMatches, Thread
<1>8. CASE Disconnecting(Main) \/ Disconnecting(RoomThread)
  BY <1>4, <1>8 DEF Thread
<1>9. ASSUME NEW s \in Socket, PeerGoes(s) PROVE SessionInv'
  BY <1>9, PeerGoesSessions
<1>10. CASE UNCHANGED vars
  BY <1>10 DEF SessionInv, OneCarrier, Carries, SessionsMatch, ThreadsMatch,
     ThreadMatches, NoSocketLost, Acceptors, AllPatient, Patient, Contains,
     vars, clientVars, ioVars, ghostVars
<1> QED BY <1>5, <1>6, <1>7, <1>8, <1>9, <1>10 DEF Next

LEMMA SessionInvHolds ==
    ASSUME ReceivesDisconnect
    PROVE  Spec => []SessionInv
<1>1. SlotInv /\ SessionInv /\ [Next]_vars => SessionInv'
  BY NextSessions
<1> QED BY InitSessions, SlotInvHolds, <1>1, PTL DEF Spec

(***************************************************************************)
(* A slot is not given to the next client before the departure of the last *)
(* one has been dealt with, as long as only receives end sessions.         *)
(***************************************************************************)
THEOREM SlotIsNotReusedEarly ==
    ASSUME ReceivesDisconnect
    PROVE  Spec => []DisconnectEndsBeforeReuse
<1>1. SessionInv => DisconnectEndsBeforeReuse
  BY DEF SessionInv, ThreadsMatch, ThreadMatches, DisconnectEndsBeforeReuse
<1> QED BY SessionInvHolds, <1>1, PTL

LEMMA AtMostOne ==
    ASSUME NEW S, \A x, y \in S : x = y
    PROVE  Cardinality(S) \in {0, 1} /\ (Cardinality(S) = 1 => S # {})
<1>1. CASE S = {}
  BY <1>1, FS_EmptySet
<1>2. CASE S # {}
  <2>1. PICK x : S = {x}
    BY <1>2
  <2> QED BY <2>1, FS_Singleton
<1> QED BY <1>1, <1>2

(***************************************************************************)
(* A slot's one buffer is in one pair of hands: of one outstanding receive *)
(* or of one worker, as long as only receives end sessions.                *)
(***************************************************************************)
THEOREM OneReceiveAtATime ==
    ASSUME ReceivesDisconnect
    PROVE  Spec => []OneReceive
<1>1. SessionInv => OneReceive
  <2> SUFFICES ASSUME SessionInv, NEW c \in Slot
               PROVE  LET posted == {s \in Socket : keyOf[s] = c /\ receives[s] > 0} IN
                      /\ \A s \in posted : receives[s] = 1
                      /\ Cardinality(posted) + Cardinality(Handling(c)) <= 1
    BY DEF OneReceive
  <2> DEFINE posted == {s \in Socket : keyOf[s] = c /\ receives[s] > 0}
  <2>1. \A s \in posted : receives[s] = 1 /\ mSocket[c] = s
    BY DEF SessionInv, OneCarrier, SessionsMatch
  <2>2. \A t \in Handling(c) : t \in Thread /\ Carries(t) /\ thread[t].slot = c
    BY DEF Handling, Carries, Carrying, Thread
  <2>3. \A t, u \in Handling(c) : t = u
    BY <2>2 DEF SessionInv, OneCarrier
  <2>4. posted = {} \/ Handling(c) = {}
    BY <2>2 DEF SessionInv, OneCarrier
  <2>5. /\ Cardinality(posted) \in {0, 1} /\ (Cardinality(posted) = 1 => posted # {})
        /\ Cardinality(Handling(c)) \in {0, 1}
        /\ Cardinality(Handling(c)) = 1 => Handling(c) # {}
    BY <2>1, <2>3, AtMostOne
  <2> QED BY <2>1, <2>4, <2>5
<1> QED BY SessionInvHolds, <1>1, PTL

(***************************************************************************)
(* The queue holds no departed client, but for one that asked twice, as    *)
(* long as only receives end sessions.                                     *)
(***************************************************************************)
THEOREM WhoWaitsIsThere ==
    ASSUME ReceivesDisconnect
    PROVE  Spec => []WaitingIsActive
<1>1. SessionInv => WaitingIsActive
  BY QueueKnown DEF WaitingIsActive
<1> QED BY SessionInvHolds, <1>1, PTL

(***************************************************************************)
(* Nor one that has a room: MatchingManager's queue and the rooms share no *)
(* client that asked once, as long as only receives end sessions.          *)
(***************************************************************************)
THEOREM WhoWaitsHasNoRoom ==
    ASSUME ReceivesDisconnect
    PROVE  Spec => []PatientWaitingHasNoRoom
<1>1. SessionInv => PatientWaitingHasNoRoom
  BY DEF SessionInv, AllPatient, Patient, PatientWaitingHasNoRoom
<1> QED BY SessionInvHolds, <1>1, PTL

(***************************************************************************)
(* Every open connection is in a slot's or the accepting worker's hands,   *)
(* also when registrations fail, as long as only receives end sessions.    *)
(***************************************************************************)
THEOREM EverySocketIsHeld ==
    ASSUME ReceivesDisconnect
    PROVE  Spec => []NoSocketLost
<1>1. SessionInv => NoSocketLost
  BY DEF SessionInv
<1> QED BY SessionInvHolds, <1>1, PTL
-----------------------------------------------------------------------------
(***************************************************************************)
(* What each slot does with the bytes of its receives (PacketConstruct):   *)
(* one receive at a time, OneReceiveAtATime, so the client slots above and *)
(* the buffers of one of them can be looked at apart.  Framing is the      *)
(* module PacketFraming, with the stream and the buffers of PacketStream.  *)
(***************************************************************************)
Framing == INSTANCE PacketFraming

\* A byte of a buffer.
AByte == [packet : Nat, index : Nat, value : Nat]

\* The packets of the client, whole.
Packets == [k \in DOMAIN sent |-> Packet(k)]

\* Where each packet ends in the stream.
End == Ends(Packets)

\* The stream PacketFraming receives is the one above.
LEMMA OneStream == Framing!Stream = Stream
<1>1. \A k : Framing!Packet(k) = Packet(k)
  BY Zenon DEF Framing!Packet, Packet, Framing!Byte, Byte
<1>2. \A q : Framing!FlattenSeq(q) = FlattenSeq(q)
  BY Zenon DEF Framing!FlattenSeq, FlattenSeq
<1> QED BY <1>1, <1>2, Zenon DEF Framing!Stream, Stream

\* A size that fits into one byte is its low byte, and its high byte is 0.
LEMMA LowByteIsSize ==
    ASSUME NEW a \in Nat, NEW b \in Nat, a < b
    PROVE  a % b = a /\ a \div b = 0
OBVIOUS

(***************************************************************************)
(* A packet has the bytes its size says, and begins with its size and a 0. *)
(***************************************************************************)
LEMMA PacketIs ==
    ASSUME sent \in Streams, NEW k \in 1..Len(sent)
    PROVE  /\ sent[k] \in PacketSize
           /\ sent[k] \in 3..MAX_PACKET_SIZE /\ MAX_PACKET_SIZE \in Nat
           /\ Packet(k) \in Seq(AByte) /\ Len(Packet(k)) = sent[k]
           /\ Packet(k)[1].value = sent[k]
           /\ Packet(k)[2].value = 0
<1> DEFINE s == sent[k]
           P == Packet(k)
<1>1. s \in PacketSize /\ s \in 3..MAX_PACKET_SIZE /\ MAX_PACKET_SIZE \in Nat
  <2>1. sent \in Seq(PacketSize) /\ PacketSize \subseteq 3..MAX_PACKET_SIZE /\ MAX_PACKET_SIZE \in Nat
    BY FramingAssumption
  <2>2. s \in PacketSize
    BY <2>1, ElementOfSeq
  <2> HIDE DEF s
  <2> QED BY <2>1, <2>2
<1>2. BYTE \in Nat /\ s < BYTE /\ s \in Nat
  BY <1>1, FramingAssumption
<1>3. k \in Nat /\ 1 \in 1..s /\ 2 \in 1..s /\ s \in Nat
  BY <1>1
<1>4. s % BYTE = s /\ s \div BYTE = 0
  BY <1>2, LowByteIsSize
<1> HIDE DEF s
<1>5. P = [i \in 1..s |-> [packet |-> k, index |-> i,
              value |-> CASE i = 1 -> s % BYTE [] i = 2 -> s \div BYTE [] OTHER -> 1]]
  BY DEF Packet, Byte, s
<1>6. P = [i \in 1..s |-> [packet |-> k, index |-> i,
              value |-> CASE i = 1 -> s [] i = 2 -> 0 [] OTHER -> 1]]
  BY <1>4, <1>5
<1> HIDE DEF P
<1>7. \A i \in 1..s : P[i] \in AByte
  BY <1>3, <1>6 DEF AByte
<1>8. P \in [1..s -> AByte]
  BY <1>6, <1>7
<1>9. P \in Seq(AByte) /\ Len(P) = s
  BY <1>3, <1>8
<1>10. P[1].value = s /\ P[2].value = 0
  BY <1>3, <1>6
<1> QED BY <1>1, <1>9, <1>10 DEF s, P

(***************************************************************************)
(* Byte i of packet k is the i-th of the stream behind the end of packet k *)
(* - 1; the stream ends where the last packet does.                        *)
(***************************************************************************)
LEMMA StreamIs ==
    ASSUME sent \in Streams
    PROVE  /\ sent \in Seq(PacketSize) /\ Packets \in Seq(Seq(AByte)) /\ Len(Packets) = Len(sent)
           /\ Stream \in Seq(AByte) /\ Len(Stream) = End[Len(sent)]
           /\ \A k \in 1..Len(sent), i \in Nat \ {0} :
                 i <= sent[k] => Stream[End[k - 1] + i] = Packets[k][i]
           /\ \A k \in 1..Len(sent) :
                 /\ Packets[k] = Packet(k) /\ Packets[k] \in Seq(AByte)
                 /\ Len(Packets[k]) = sent[k]
                 /\ sent[k] \in PacketSize /\ sent[k] \in 3..MAX_PACKET_SIZE
                 /\ MAX_PACKET_SIZE \in Nat
                 /\ Packets[k][1].value = sent[k] /\ Packets[k][2].value = 0
           /\ End \in [0..Len(sent) -> Nat] /\ End[0] = 0
           /\ \A k \in 0..Len(sent) : End[k] \in Nat /\ End[k] <= End[Len(sent)]
           /\ \A k \in 1..Len(sent) : End[k] = End[k - 1] + sent[k]
<1> DEFINE n == Len(sent)
<1>1. sent \in Seq(PacketSize) /\ n \in Nat /\ DOMAIN sent = 1..n
  BY FramingAssumption
<1>2. \A k \in 1..n : /\ Packet(k) \in Seq(AByte)
                      /\ Len(Packet(k)) = sent[k] /\ sent[k] \in Nat
  BY PacketIs
<1>3. Packets = [k \in 1..n |-> Packet(k)]
  BY <1>1 DEF Packets
<1>4. Packets \in Seq(Seq(AByte)) /\ Len(Packets) = n
  <2> DEFINE T == Seq(AByte)
  <2>1. Packets \in [1..n -> T]
    BY <1>2, <1>3
  <2> HIDE DEF T, n
  <2>2. Packets \in Seq(T) /\ Len(Packets) = n
    BY <1>1, <2>1
  <2> QED BY <2>2 DEF T
<1>5. \A k \in 1..n : Packets[k] = Packet(k)
  BY <1>3
<1>6. Stream = FlattenSeq(Packets)
  BY DEF Stream, Packets
<1>7. /\ Stream \in Seq(AByte) /\ Len(Stream) = End[n]
      /\ \A k \in 1..n, i \in Nat \ {0} :
            i <= Len(Packets[k]) => Stream[End[k - 1] + i] = Packets[k][i]
  BY <1>4, <1>6, FlattenIs DEF End
<1>8. IsEnds(Packets, Ends(Packets))
  BY <1>4, EndsExist
<1>9. /\ Ends(Packets) \in [0..n -> Nat] /\ End[0] = 0
      /\ \A k \in 1..n : End[k] = End[k - 1] + Len(Packets[k])
  BY <1>4, <1>8 DEF IsEnds, End
<1>10. \A k \in 0..n : End[k] <= End[n]
  <2> TAKE k \in 0..n
  <2>1. k \in 0..Len(Packets) /\ n \in 0..Len(Packets) /\ k <= n
    BY <1>1, <1>4
  <2> QED BY <1>4, <2>1, EndsGrow DEF End
<1>11. \A k \in 0..n : End[k] \in Nat
  BY <1>9 DEF End
<1> HIDE DEF n
<1>12. \A k \in 1..n, i \in Nat \ {0} :
          i <= sent[k] => Stream[End[k - 1] + i] = Packets[k][i]
  BY <1>2, <1>5, <1>7
<1>13. \A k \in 1..n : End[k] = End[k - 1] + sent[k]
  BY <1>2, <1>5, <1>9
<1>14. \A k \in 1..n : /\ sent[k] \in PacketSize /\ sent[k] \in 3..MAX_PACKET_SIZE
                       /\ MAX_PACKET_SIZE \in Nat
                       /\ Packets[k][1].value = sent[k] /\ Packets[k][2].value = 0
  BY <1>5, PacketIs DEF n
<1>15. End \in [0..n -> Nat]
  BY <1>9 DEF End
<1> QED BY <1>2, <1>5, <1>15, <1>14, <1>1, <1>4, <1>7, <1>9, <1>10, <1>11, <1>12, <1>13 DEF n
-----------------------------------------------------------------------------
\* The packet that is being put together.
Current == Len(handled) + 1

\* The buffers hold bytes.
BuffersInv ==
    /\ io_buf \in [1..MAX_BUF_SIZE -> AByte]
    /\ mPacketBuf \in [1..MAX_PACKET_SIZE -> AByte]
    /\ handled \in Seq(Seq(AByte))

\* What has been handled, what is kept and what is left of the receive make up
\* what has been received.
PlaceInv ==
    /\ Len(handled) <= Len(sent)
    /\ \A k \in 1..Len(handled) : handled[k] = Packets[k]
    /\ taken = End[Len(handled)] + mPrevSize + restByte

\* What is kept is the beginning of the current packet.
KeptInv ==
    /\ \A i \in 1..mPrevSize : mPacketBuf[i] = Packets[Current][i]
    /\ mPrevSize > 0 => Current <= Len(sent) /\ mPrevSize < sent[Current]

\* The rest of the receive is the end of what has been received.
ReceivedInv ==
    \A i \in 1..restByte : io_buf[p + i - 1] = Stream[(taken - restByte) + i]

\* mPacketBuf has the high byte of a size, always 0, or nothing at its second place.
HighByteInv == 2 \in 1..MAX_PACKET_SIZE => mPacketBuf[2].value = 0

\* A size is known beforehand only of a packet of which a part is kept.
SizeInv == packetSize = IF restByte > 0 /\ mPrevSize > 0 THEN sent[Current] ELSE 0

(***************************************************************************)
(* Where every byte received is, and what PacketConstruct may rely on when *)
(* it reads a size: HandledAsSent and RestIsKept follow from it.           *)
(***************************************************************************)
FramingInv ==
    /\ WithinBuffers /\ BuffersInv /\ PlaceInv /\ KeptInv /\ ReceivedInv
    /\ HighByteInv /\ SizeInv

\* A new client has sent nothing, and nothing is kept.
LEMMA FramingInit ==
    ASSUME Framing!Init
    PROVE  FramingInv
<1> USE DEF Framing!Init
<1>1. sent \in Streams
  OBVIOUS
<1>2. /\ MAX_PACKET_SIZE \in Nat /\ MAX_BUF_SIZE \in Nat \ {0}
      /\ Framing!Zero \in AByte /\ Framing!Zero.value = 0
  BY FramingAssumption DEF Framing!Zero, Framing!Byte, AByte
<1>3. Stream \in Seq(AByte) /\ End[0] = 0 /\ Len(Stream) \in Nat /\ Len(sent) \in Nat
  <2>1. Stream \in Seq(AByte) /\ End[0] = 0 /\ sent \in Seq(PacketSize)
    BY <1>1, StreamIs
  <2> QED BY <2>1, LenProperties
<1>4. WithinBuffers
  BY <1>2, <1>3 DEF WithinBuffers
<1>5. BuffersInv
  BY <1>2 DEF BuffersInv
<1>6. PlaceInv /\ KeptInv /\ ReceivedInv /\ SizeInv
  BY <1>3 DEF PlaceInv, KeptInv, ReceivedInv, SizeInv
<1>7. HighByteInv
  BY <1>2 DEF HighByteInv
<1> QED BY <1>4, <1>5, <1>6, <1>7 DEF FramingInv

\* As long as the client stays, the stream does.
LEMMA SameStream ==
    ASSUME sent' = sent
    PROVE  Packets' = Packets /\ End' = End /\ Stream' = Stream
<1>1. \A k : Packet(k)' = Packet(k)
  BY DEF Packet
<1>2. Packets' = Packets
  BY <1>1 DEF Packets
<1>3. Stream' = Stream
  BY <1>1 DEF Stream
<1> QED BY <1>2, <1>3 DEF End

\* The counts of bytes and packets are numbers within the buffers.
LEMMA Sizes ==
    ASSUME FramingInv
    PROVE  /\ sent \in Streams /\ Len(sent) \in Nat /\ Len(handled) \in Nat
           /\ taken \in Nat /\ taken <= Len(Stream) /\ Len(Stream) \in Nat
           /\ p \in Nat \ {0} /\ restByte \in Nat /\ p + restByte <= MAX_BUF_SIZE + 1
           /\ mPrevSize \in Nat /\ mPrevSize <= MAX_PACKET_SIZE
           /\ MAX_PACKET_SIZE \in Nat /\ MAX_BUF_SIZE \in Nat \ {0} /\ BYTE \in Nat
           /\ p <= MAX_BUF_SIZE + 1
<1>1. sent \in Streams
  BY DEF FramingInv, WithinBuffers
<1>2. /\ Stream \in Seq(AByte) /\ sent \in Seq(PacketSize) /\ handled \in Seq(Seq(AByte))
  BY <1>1, StreamIs DEF FramingInv, BuffersInv
<1>3. Len(Stream) \in Nat /\ Len(sent) \in Nat /\ Len(handled) \in Nat
  BY <1>2, LenProperties
<1>4. MAX_PACKET_SIZE \in Nat /\ MAX_BUF_SIZE \in Nat \ {0} /\ BYTE \in Nat
  BY FramingAssumption
<1> QED BY <1>1, <1>3, <1>4 DEF FramingInv, WithinBuffers

\* With something left of the receive, or of a packet, not all packets have been handled.
LEMMA CurrentIsSent ==
    ASSUME FramingInv, restByte > 0 \/ mPrevSize > 0
    PROVE  Current \in 1..Len(sent)
<1>1. /\ sent \in Streams /\ Len(sent) \in Nat /\ Len(handled) \in Nat
      /\ taken \in Nat /\ taken <= Len(Stream)
      /\ restByte \in Nat /\ mPrevSize \in Nat
  BY Sizes
<1>2. Len(Stream) = End[Len(sent)] /\ End \in [0..Len(sent) -> Nat]
  BY <1>1, StreamIs
<1>3. Len(handled) <= Len(sent) /\ taken = End[Len(handled)] + mPrevSize + restByte
  BY DEF FramingInv, PlaceInv
<1>4. CASE Len(handled) = Len(sent)
  BY <1>1, <1>2, <1>3, <1>4
<1>5. CASE Len(handled) # Len(sent)
  BY <1>1, <1>3, <1>5 DEF Current
<1> QED BY <1>4, <1>5

\* The bytes of the receive, as bytes of the current packet.
LEMMA ReceivedBytes ==
    ASSUME FramingInv, restByte > 0,
           NEW i \in 1..restByte, mPrevSize + i <= sent[Current]
    PROVE  io_buf[p + i - 1] = Packets[Current][mPrevSize + i]
<1>1. /\ Current \in 1..Len(sent) /\ sent \in Streams
      /\ Len(sent) \in Nat /\ Len(handled) \in Nat
      /\ taken \in Nat /\ restByte \in Nat /\ mPrevSize \in Nat
  BY Sizes, CurrentIsSent
<1>2. io_buf[p + i - 1] = Stream[(taken - restByte) + i]
  BY DEF FramingInv, ReceivedInv
<1>3. taken = End[Len(handled)] + mPrevSize + restByte
  BY DEF FramingInv, PlaceInv
<1>4. End[Len(handled)] \in Nat /\ End[Len(handled)] = End[Current - 1]
  <2>1. Len(handled) \in 0..Len(sent) /\ Current - 1 = Len(handled)
    BY <1>1 DEF Current
  <2> QED BY <1>1, <2>1, StreamIs
<1>5. (taken - restByte) + i = End[Current - 1] + (mPrevSize + i)
  BY <1>1, <1>3, <1>4
<1>6. mPrevSize + i \in Nat \ {0}
  BY <1>1
<1>7. \A j \in Nat \ {0} :
         j <= sent[Current] => Stream[End[Current - 1] + j] = Packets[Current][j]
  BY <1>1, StreamIs
<1> QED BY <1>2, <1>5, <1>6, <1>7

(***************************************************************************)
(* The size PacketConstruct reads is right or, when only one byte of it    *)
(* has come, too big for what has come: it tells whether the packet is     *)
(* whole.                                                                  *)
(***************************************************************************)
LEMMA SizeTellsWhole ==
    ASSUME FramingInv, restByte > 0
    PROVE  /\ Framing!IsWhole => Framing!CurrentSize = sent[Current]
                                 /\ sent[Current] <= mPrevSize + restByte
           /\ ~Framing!IsWhole => mPrevSize + restByte < sent[Current]
<1>1. /\ Current \in 1..Len(sent) /\ sent \in Streams
      /\ restByte \in Nat /\ mPrevSize \in Nat /\ p \in Nat \ {0}
      /\ p + restByte <= MAX_BUF_SIZE + 1 /\ BYTE \in Nat /\ MAX_BUF_SIZE \in Nat
  BY Sizes, CurrentIsSent
<1>2. /\ sent[Current] \in 3..MAX_PACKET_SIZE /\ MAX_PACKET_SIZE \in Nat
      /\ Packets[Current][1].value = sent[Current] /\ Packets[Current][2].value = 0
  BY <1>1, StreamIs
<1>3. io_buf \in [1..MAX_BUF_SIZE -> AByte]
  BY DEF FramingInv, BuffersInv
<1>4. CASE mPrevSize > 0
  <2>1. packetSize = sent[Current]
    BY <1>4 DEF FramingInv, SizeInv
  <2>2. Framing!CurrentSize = sent[Current]
    BY <1>2, <2>1 DEF Framing!CurrentSize
  <2> QED BY <1>1, <1>2, <2>2 DEF Framing!IsWhole
<1>5. CASE mPrevSize = 0
  <2> DEFINE high == IF p + 1 \in DOMAIN io_buf THEN io_buf[p + 1].value ELSE 1
  <2>1. Framing!CurrentSize = io_buf[p].value + BYTE * high
    BY <1>5 DEF FramingInv, SizeInv, Framing!CurrentSize, Framing!Uint16
  <2>2. io_buf[p].value = sent[Current]
    <3>1. io_buf[p + 1 - 1] = Packets[Current][mPrevSize + 1]
      <4>1. 1 \in 1..restByte /\ mPrevSize + 1 <= sent[Current]
        BY <1>1, <1>2, <1>5
      <4> QED BY <4>1, ReceivedBytes
    <3>2. p + 1 - 1 = p /\ mPrevSize + 1 = 1
      BY <1>1, <1>5
    <3> QED BY <1>2, <3>1, <3>2
  <2>3. CASE restByte = 1
    <3>1. high \in Nat
      BY <1>3 DEF AByte
    <3> HIDE DEF high
    <3>2. BYTE * high \in Nat
      BY <1>1, <3>1
    <3>3. Framing!CurrentSize >= 3 /\ Framing!CurrentSize \in Nat
      BY <1>2, <2>1, <2>2, <3>2
    <3> QED BY <1>1, <1>2, <1>5, <2>3, <3>3 DEF Framing!IsWhole
  <2>4. CASE restByte > 1
    <3>1. io_buf[p + 2 - 1] = Packets[Current][mPrevSize + 2]
      <4>1. 2 \in 1..restByte /\ mPrevSize + 2 <= sent[Current]
        BY <1>1, <1>2, <1>5, <2>4
      <4> QED BY <4>1, ReceivedBytes
    <3>2. p + 2 - 1 = p + 1 /\ mPrevSize + 2 = 2 /\ p + 1 \in 1..MAX_BUF_SIZE
      BY <1>1, <1>5, <2>4
    <3>3. high = 0
      BY <1>2, <1>3, <3>1, <3>2
    <3> HIDE DEF high
    <3>4. Framing!CurrentSize = sent[Current]
      BY <1>1, <1>2, <2>1, <2>2, <3>3
    <3> QED BY <1>1, <1>2, <3>4 DEF Framing!IsWhole
  <2> QED BY <1>1, <2>3, <2>4
<1> QED BY <1>1, <1>4, <1>5

(***************************************************************************)
(* With n more bytes of the receive copied behind them, the kept bytes are *)
(* still the beginning of the packet.                                      *)
(***************************************************************************)
LEMMA CopiedIs ==
    ASSUME FramingInv, restByte > 0,
           NEW n \in 0..restByte, mPrevSize + n <= sent[Current]
    PROVE  /\ Framing!Copied(n) \in [1..MAX_PACKET_SIZE -> AByte]
           /\ \A i \in 1..mPrevSize + n : Framing!Copied(n)[i] = Packets[Current][i]
           /\ 2 \in 1..MAX_PACKET_SIZE => Framing!Copied(n)[2].value = 0
<1>1. /\ Current \in 1..Len(sent) /\ sent \in Streams
      /\ restByte \in Nat /\ mPrevSize \in Nat /\ p \in Nat \ {0}
      /\ p + restByte <= MAX_BUF_SIZE + 1 /\ MAX_BUF_SIZE \in Nat
  BY Sizes, CurrentIsSent
<1>2. /\ sent[Current] \in 3..MAX_PACKET_SIZE /\ MAX_PACKET_SIZE \in Nat
      /\ Packets[Current][2].value = 0
  BY <1>1, StreamIs
<1>3. io_buf \in [1..MAX_BUF_SIZE -> AByte] /\ mPacketBuf \in [1..MAX_PACKET_SIZE -> AByte]
  BY DEF FramingInv, BuffersInv
<1>4. Framing!Copied(n) = [i \in 1..MAX_PACKET_SIZE |->
                             IF i \in mPrevSize + 1 .. mPrevSize + n
                             THEN io_buf[p + i - mPrevSize - 1] ELSE mPacketBuf[i]]
  BY <1>3 DEF Framing!Copied
<1>5. \A i \in mPrevSize + 1 .. mPrevSize + n :
         /\ p + i - mPrevSize - 1 \in 1..MAX_BUF_SIZE
         /\ io_buf[p + i - mPrevSize - 1] = Packets[Current][i]
  <2> TAKE i \in mPrevSize + 1 .. mPrevSize + n
  <2>1. /\ i - mPrevSize \in 1..restByte /\ mPrevSize + (i - mPrevSize) = i /\ i <= sent[Current]
        /\ p + (i - mPrevSize) - 1 = p + i - mPrevSize - 1
        /\ p + i - mPrevSize - 1 \in 1..MAX_BUF_SIZE
    BY <1>1, <1>2
  <2>2. io_buf[p + (i - mPrevSize) - 1] = Packets[Current][mPrevSize + (i - mPrevSize)]
    BY <2>1, ReceivedBytes
  <2> QED BY <2>1, <2>2
<1>6. Framing!Copied(n) \in [1..MAX_PACKET_SIZE -> AByte]
  BY <1>3, <1>4, <1>5
<1>7. \A i \in 1..mPrevSize + n : Framing!Copied(n)[i] = Packets[Current][i]
  <2> TAKE i \in 1..mPrevSize + n
  <2>1. i \in 1..MAX_PACKET_SIZE
    BY <1>1, <1>2
  <2>2. CASE i <= mPrevSize
    <3>1. mPacketBuf[i] = Packets[Current][i] /\ i \notin mPrevSize + 1 .. mPrevSize + n
      BY <1>1, <2>2 DEF FramingInv, KeptInv
    <3> QED BY <1>4, <2>1, <3>1
  <2>3. CASE i > mPrevSize
    <3>1. i \in mPrevSize + 1 .. mPrevSize + n
      BY <1>1, <2>3
    <3> QED BY <1>4, <1>5, <2>1, <3>1
  <2> QED BY <1>1, <2>2, <2>3
<1>8. ASSUME 2 \in 1..MAX_PACKET_SIZE PROVE Framing!Copied(n)[2].value = 0
  <2>1. CASE 2 \in mPrevSize + 1 .. mPrevSize + n
    BY <1>2, <1>4, <1>5, <1>8, <2>1
  <2>2. CASE 2 \notin mPrevSize + 1 .. mPrevSize + n
    BY <1>4, <1>8, <2>2 DEF FramingInv, HighByteInv
  <2> QED BY <2>1, <2>2
<1> QED BY <1>6, <1>7, <1>8

\* What is no byte of a packet any more keeps its value.
LEMMA OldIs ==
    ASSUME NEW m, NEW buf \in [1..m -> AByte]
    PROVE  /\ Framing!Old(buf) \in [1..m -> AByte]
           /\ \A i \in 1..m : Framing!Old(buf)[i].value = buf[i].value
<1>1. \A i \in 1..m : buf[i] \in AByte
  OBVIOUS
<1> QED BY <1>1 DEF Framing!Old, Framing!Byte, AByte
-----------------------------------------------------------------------------
(***************************************************************************)
(* A receive begins behind what has come so far, which ends with the part  *)
(* of the current packet that is kept.  With a part, PacketConstruct knows *)
(* the size before its loop.                                               *)
(***************************************************************************)
LEMMA ReceiveKeeps ==
    ASSUME FramingInv,
           NEW n \in 1..MAX_BUF_SIZE, Framing!Receive(n)
    PROVE  FramingInv'
<1> USE OneStream DEF Framing!Receive
<1>0. /\ sent \in Streams /\ Len(sent) \in Nat /\ Len(handled) \in Nat
      /\ taken \in Nat /\ taken + n <= Len(Stream) /\ Len(Stream) \in Nat
      /\ restByte = 0 /\ restByte' = n /\ n \in Nat \ {0} /\ taken' = taken + n
      /\ p' = 1 /\ mPrevSize' = mPrevSize /\ mPrevSize \in Nat /\ mPrevSize <= MAX_PACKET_SIZE
      /\ MAX_PACKET_SIZE \in Nat /\ MAX_BUF_SIZE \in Nat /\ BYTE \in Nat /\ n <= MAX_BUF_SIZE
      /\ sent' = sent /\ handled' = handled /\ mPacketBuf' = mPacketBuf
  BY Sizes
<1>1. Packets' = Packets /\ End' = End /\ Stream' = Stream
  BY <1>0, SameStream
<1>2. Stream \in Seq(AByte)
  BY <1>0, StreamIs
<1>3. io_buf \in [1..MAX_BUF_SIZE -> AByte] /\ mPacketBuf \in [1..MAX_PACKET_SIZE -> AByte]
      /\ handled \in Seq(Seq(AByte))
  BY DEF FramingInv, BuffersInv
<1>4. \A i \in 1..n : Stream[taken + i] \in AByte
  <2> TAKE i \in 1..n
  <2>1. taken + i \in 1..Len(Stream)
    BY <1>0
  <2> QED BY <1>2, <2>1, ElementOfSeq
<1>5. /\ io_buf' \in [1..MAX_BUF_SIZE -> AByte]
      /\ \A i \in 1..n : io_buf'[i] = Stream[taken + i]
  <2>1. io_buf' = [i \in 1..MAX_BUF_SIZE |-> IF i <= n THEN Stream[taken + i] ELSE io_buf[i]]
    BY <1>3
  <2>2. \A i \in 1..MAX_BUF_SIZE : i <= n => i \in 1..n
    OBVIOUS
  <2>3. \A i \in 1..n : i \in 1..MAX_BUF_SIZE /\ i <= n
    BY <1>0
  <2> QED BY <1>3, <1>4, <2>1, <2>2, <2>3
<1>6. packetSize' = IF mPrevSize > 0 THEN sent[Current] ELSE 0
  <2>1. CASE mPrevSize = 0
    BY <2>1
  <2>2. CASE mPrevSize > 0
    <3>1. Current \in 1..Len(sent)
      BY <2>2, CurrentIsSent
    <3>2. sent[Current] \in 3..MAX_PACKET_SIZE /\ Packets[Current][1].value = sent[Current]
      BY <1>0, <3>1, StreamIs
    <3>3. mPacketBuf[1].value = sent[Current]
      BY <1>0, <2>2, <3>2 DEF FramingInv, KeptInv
    <3>4. 1 + 1 \in DOMAIN mPacketBuf /\ mPacketBuf[1 + 1].value = 0
      BY <1>0, <1>3, <3>2 DEF FramingInv, HighByteInv
    <3>5. Framing!Uint16(mPacketBuf, 1) = mPacketBuf[1].value + BYTE * mPacketBuf[1 + 1].value
      BY <3>4 DEF Framing!Uint16
    <3>6. Framing!Uint16(mPacketBuf, 1) = sent[Current]
      BY <1>0, <3>2, <3>3, <3>4, <3>5
    <3> QED BY <2>2, <3>6
  <2> QED BY <1>0, <2>1, <2>2
<1>7. packetSize' \in PacketSize \cup {0}
  <2>1. mPrevSize > 0 => Current \in 1..Len(sent)
    BY CurrentIsSent
  <2>2. \A k \in 1..Len(sent) : sent[k] \in PacketSize
    BY <1>0, StreamIs
  <2> QED BY <1>6, <2>1, <2>2
<1>8. WithinBuffers'
  <2>1. taken' \in 0..Len(Stream') /\ sent' \in Streams
    BY <1>0, <1>1
  <2>2. DOMAIN io_buf' = 1..MAX_BUF_SIZE /\ DOMAIN mPacketBuf' = 1..MAX_PACKET_SIZE
    BY <1>0, <1>3, <1>5
  <2>3. p' \in 1..MAX_BUF_SIZE + 1 /\ restByte' \in 0..MAX_BUF_SIZE /\ p' + restByte' <= MAX_BUF_SIZE + 1
    BY <1>0
  <2> QED BY <1>0, <1>7, <2>1, <2>2, <2>3 DEF WithinBuffers
<1>9. BuffersInv'
  BY <1>0, <1>3, <1>5 DEF BuffersInv
<1>10. PlaceInv'
  <2>1. taken = End[Len(handled)] + mPrevSize + 0
    BY <1>0 DEF FramingInv, PlaceInv
  <2>2. End[Len(handled)] \in Nat
    <3>1. Len(handled) \in 0..Len(sent)
      BY <1>0 DEF FramingInv, PlaceInv
    <3> QED BY <1>0, <3>1, StreamIs
  <2>3. taken + n = End[Len(handled)] + mPrevSize + n
    BY <1>0, <2>1, <2>2
  <2> QED BY <1>0, <1>1, <2>3 DEF FramingInv, PlaceInv
<1>11. KeptInv' /\ HighByteInv'
  BY <1>0, <1>1 DEF FramingInv, KeptInv, HighByteInv, Current
<1>12. ReceivedInv'
  <2>1. \A i \in 1..n : 1 + i - 1 = i /\ ((taken + n) - n) + i = taken + i
    BY <1>0
  <2> QED BY <1>0, <1>1, <1>5, <2>1 DEF ReceivedInv
<1>13. SizeInv'
  BY <1>0, <1>6 DEF SizeInv, Current
<1> QED BY <1>8, <1>9, <1>10, <1>11, <1>12, <1>13 DEF FramingInv

(***************************************************************************)
(* A packet is complete: it is the one that was sent, and the receive goes *)
(* on behind it.                                                           *)
(***************************************************************************)
LEMMA ConstructKeeps ==
    ASSUME FramingInv, Framing!ConstructPacket
    PROVE  FramingInv'
<1> DEFINE s == sent[Current]
           n == s - mPrevSize
           h == Len(handled)
           C == Framing!Copied(n)
<1>0. /\ sent \in Streams /\ Len(sent) \in Nat /\ h \in Nat
      /\ taken \in Nat /\ taken <= Len(Stream) /\ Len(Stream) \in Nat
      /\ restByte \in Nat /\ restByte > 0 /\ mPrevSize \in Nat /\ mPrevSize <= MAX_PACKET_SIZE
      /\ MAX_PACKET_SIZE \in Nat /\ MAX_BUF_SIZE \in Nat
      /\ p \in Nat \ {0} /\ p + restByte <= MAX_BUF_SIZE + 1
      /\ Current \in 1..Len(sent) /\ Current = h + 1
      /\ sent' = sent /\ taken' = taken
  BY Sizes, CurrentIsSent DEF Framing!ConstructPacket, Current
<1>1. Packets' = Packets /\ End' = End /\ Stream' = Stream
  BY <1>0, SameStream
<1>2. Framing!CurrentSize = s /\ s <= mPrevSize + restByte
  BY SizeTellsWhole DEF Framing!ConstructPacket
<1>3. /\ s \in 3..MAX_PACKET_SIZE /\ Packets[Current] \in Seq(AByte)
      /\ Len(Packets[Current]) = s
  BY <1>0, StreamIs
<1>4. mPrevSize < s
  BY <1>0, <1>3 DEF FramingInv, KeptInv
<1>5. n \in 1..restByte /\ mPrevSize + n = s /\ n \in Nat
  BY <1>0, <1>2, <1>3, <1>4
<1>6. /\ C \in [1..MAX_PACKET_SIZE -> AByte]
      /\ \A i \in 1..s : C[i] = Packets[Current][i]
      /\ 2 \in 1..MAX_PACKET_SIZE => C[2].value = 0
  <2>1. n \in 0..restByte /\ mPrevSize + n <= sent[Current]
    BY <1>0, <1>3, <1>5
  <2> QED BY <1>5, <2>1, <1>0, CopiedIs
<1>7. /\ handled' = Append(handled, SubSeq(C, 1, s))
      /\ mPacketBuf' = Framing!Old(C) /\ mPrevSize' = 0
      /\ restByte' = restByte - n /\ packetSize' = 0
      /\ p' = (IF restByte - n = 0 THEN 1 ELSE p + n)
      /\ io_buf' = (IF restByte - n = 0 THEN Framing!Old(io_buf) ELSE io_buf)
  <2> HIDE DEF s
  <2> QED BY <1>2 DEF Framing!ConstructPacket, Framing!Rest
<1> HIDE DEF s, n, h, C
<1>8. SubSeq(C, 1, s) = Packets[Current]
  <2>1. C \in Seq(AByte) /\ Len(C) = MAX_PACKET_SIZE
    BY <1>0, <1>6
  <2>2. /\ SubSeq(C, 1, s) \in Seq(AByte) /\ Len(SubSeq(C, 1, s)) = s
        /\ \A i \in 1..s : SubSeq(C, 1, s)[i] = C[i]
    <3>1. s \in Nat /\ s <= Len(C)
      BY <1>0, <1>3, <2>1
    <3> QED BY <2>1, <3>1
  <2> QED BY <1>3, <1>6, <2>2, SeqEqual
<1>9. io_buf \in [1..MAX_BUF_SIZE -> AByte] /\ handled \in Seq(Seq(AByte))
  BY DEF FramingInv, BuffersInv
<1>10. /\ Len(handled') = h + 1 /\ handled' \in Seq(Seq(AByte))
       /\ \A k \in 1..h : handled'[k] = handled[k]
       /\ handled'[h + 1] = Packets[Current]
  <2> DEFINE T == Seq(AByte)
             x == Packets[Current]
  <2>1. handled \in Seq(T) /\ x \in T /\ handled' = Append(handled, x) /\ h = Len(handled)
    BY <1>3, <1>7, <1>8, <1>9 DEF h
  <2> HIDE DEF T, x
  <2>2. /\ Len(handled') = h + 1 /\ handled' \in Seq(T)
        /\ \A k \in 1..h : handled'[k] = handled[k]
        /\ handled'[h + 1] = x
    BY <2>1, <1>0, AppendProperties
  <2> QED BY <2>2 DEF T, x
<1>11. End[h + 1] = End[h] + s /\ End[h] \in Nat /\ taken = End[h] + mPrevSize + restByte
  <2>1. h \in 0..Len(sent) /\ Current - 1 = h
    BY <1>0
  <2>2. End[Current] = End[Current - 1] + s /\ End[h] \in Nat
    BY <1>0, <2>1, StreamIs DEF s
  <2> QED BY <1>0, <2>1, <2>2 DEF FramingInv, PlaceInv, h
<1>12. PlaceInv'
  <2>1. h + 1 <= Len(sent) /\ \A k \in 1..h + 1 : k = h + 1 \/ k \in 1..h
    BY <1>0
  <2>2. \A k \in 1..h : handled[k] = Packets[k]
    BY DEF FramingInv, PlaceInv, h
  <2>3. \A k \in 1..h + 1 : handled'[k] = Packets[k]
    BY <1>0, <1>10, <2>1, <2>2
  <2>4. taken = End[h + 1] + 0 + (restByte - n)
    <3> DEFINE e0 == End[h]
               e1 == End[h + 1]
    <3>1. /\ e1 = e0 + s /\ e0 \in Nat /\ taken = e0 + mPrevSize + restByte
          /\ n \in Nat /\ mPrevSize + n = s /\ s \in Nat /\ restByte \in Nat /\ mPrevSize \in Nat
      BY <1>0, <1>3, <1>5, <1>11
    <3> HIDE DEF e0, e1
    <3>2. taken = e1 + 0 + (restByte - n)
      BY <3>1
    <3> QED BY <3>2 DEF e1
  <2> QED BY <1>0, <1>1, <1>7, <1>10, <2>1, <2>3, <2>4 DEF PlaceInv
<1>13. /\ mPacketBuf' \in [1..MAX_PACKET_SIZE -> AByte]
       /\ 2 \in 1..MAX_PACKET_SIZE => mPacketBuf'[2].value = 0
  <2>1. /\ Framing!Old(C) \in [1..MAX_PACKET_SIZE -> AByte]
        /\ \A i \in 1..MAX_PACKET_SIZE : Framing!Old(C)[i].value = C[i].value
    BY <1>6, OldIs
  <2> QED BY <1>6, <1>7, <2>1
<1>14. io_buf' \in [1..MAX_BUF_SIZE -> AByte]
  BY <1>7, <1>9, OldIs
<1>15. BuffersInv' /\ HighByteInv'
  BY <1>10, <1>13, <1>14 DEF BuffersInv, HighByteInv
<1>16. KeptInv' /\ SizeInv'
  BY <1>7 DEF KeptInv, SizeInv
<1>17. ReceivedInv'
  <2>1. CASE restByte - n = 0
    BY <1>7, <2>1 DEF ReceivedInv
  <2>2. CASE restByte - n # 0
    <3>1. ASSUME NEW i \in 1..restByte - n
          PROVE  io_buf[p + n + i - 1] = Stream[(taken - (restByte - n)) + i]
      <4>1. n + i \in 1..restByte /\ p + (n + i) - 1 = p + n + i - 1
            /\ (taken - restByte) + (n + i) = (taken - (restByte - n)) + i
        BY <1>0, <1>5
      <4>2. io_buf[p + (n + i) - 1] = Stream[(taken - restByte) + (n + i)]
        BY <4>1 DEF FramingInv, ReceivedInv
      <4> QED BY <4>1, <4>2
    <3> QED BY <1>0, <1>1, <1>7, <2>2, <3>1 DEF ReceivedInv
  <2> QED BY <2>1, <2>2
<1>18. WithinBuffers'
  <2>1. taken' \in 0..Len(Stream') /\ sent' \in Streams
    BY <1>0, <1>1
  <2>2. DOMAIN io_buf' = 1..MAX_BUF_SIZE /\ DOMAIN mPacketBuf' = 1..MAX_PACKET_SIZE
    BY <1>13, <1>14
  <2>3. p' \in 1..MAX_BUF_SIZE + 1 /\ restByte' \in 0..MAX_BUF_SIZE /\ p' + restByte' <= MAX_BUF_SIZE + 1
    BY <1>0, <1>5, <1>7
  <2>4. packetSize' \in PacketSize \cup {0} /\ mPrevSize' \in 0..MAX_PACKET_SIZE
    BY <1>0, <1>7
  <2> QED BY <2>1, <2>2, <2>3, <2>4 DEF WithinBuffers
<1> QED BY <1>12, <1>15, <1>16, <1>17, <1>18 DEF FramingInv

\* A packet is not complete: what has come of it is kept.
LEMMA KeepRestKeeps ==
    ASSUME FramingInv, Framing!KeepRest
    PROVE  FramingInv'
<1> DEFINE C == Framing!Copied(restByte)
           h == Len(handled)
<1>0. /\ sent \in Streams /\ Len(sent) \in Nat /\ h \in Nat
      /\ taken \in Nat /\ taken <= Len(Stream) /\ Len(Stream) \in Nat
      /\ restByte \in Nat /\ restByte > 0 /\ mPrevSize \in Nat
      /\ MAX_PACKET_SIZE \in Nat /\ MAX_BUF_SIZE \in Nat
      /\ Current \in 1..Len(sent)
      /\ sent' = sent /\ taken' = taken /\ handled' = handled
  BY Sizes, CurrentIsSent DEF Framing!KeepRest
<1>1. Packets' = Packets /\ End' = End /\ Stream' = Stream
  BY <1>0, SameStream
<1>2. mPrevSize + restByte < sent[Current]
  BY SizeTellsWhole DEF Framing!KeepRest
<1>3. sent[Current] \in 3..MAX_PACKET_SIZE
  BY <1>0, StreamIs
<1>4. /\ C \in [1..MAX_PACKET_SIZE -> AByte]
      /\ \A i \in 1..mPrevSize + restByte : C[i] = Packets[Current][i]
      /\ 2 \in 1..MAX_PACKET_SIZE => C[2].value = 0
  <2>1. restByte \in 0..restByte /\ mPrevSize + restByte <= sent[Current]
    BY <1>0, <1>2, <1>3
  <2> QED BY <1>0, <2>1, CopiedIs
<1>5. /\ mPacketBuf' = C /\ mPrevSize' = mPrevSize + restByte
      /\ restByte' = 0 /\ packetSize' = 0 /\ p' = 1 /\ io_buf' = Framing!Old(io_buf)
  BY DEF Framing!KeepRest, Framing!Rest
<1> HIDE DEF C, h
<1>6. io_buf \in [1..MAX_BUF_SIZE -> AByte] /\ handled \in Seq(Seq(AByte))
  BY DEF FramingInv, BuffersInv
<1>7. io_buf' \in [1..MAX_BUF_SIZE -> AByte]
  BY <1>5, <1>6, OldIs
<1>8. BuffersInv' /\ HighByteInv'
  BY <1>0, <1>4, <1>5, <1>6, <1>7 DEF BuffersInv, HighByteInv
<1>9. PlaceInv'
  <2>1. End[h] \in Nat
    <3>1. h \in 0..Len(sent)
      BY <1>0 DEF FramingInv, PlaceInv, h
    <3> QED BY <1>0, <3>1, StreamIs
  <2>2. taken = End[h] + mPrevSize + restByte
    BY DEF FramingInv, PlaceInv, h
  <2>3. taken = End[h] + (mPrevSize + restByte) + 0
    BY <1>0, <2>1, <2>2
  <2> QED BY <1>0, <1>1, <1>5, <2>3 DEF FramingInv, PlaceInv, h
<1>10. KeptInv'
  <2>1. Current' = Current
    BY <1>0 DEF Current
  <2>2. Current <= Len(sent)
    BY <1>0
  <2> QED BY <1>0, <1>1, <1>2, <1>4, <1>5, <2>1, <2>2 DEF KeptInv
<1>11. ReceivedInv' /\ SizeInv'
  BY <1>5 DEF ReceivedInv, SizeInv
<1>12. WithinBuffers'
  <2>1. taken' \in 0..Len(Stream') /\ sent' \in Streams
    BY <1>0, <1>1
  <2>2. DOMAIN io_buf' = 1..MAX_BUF_SIZE /\ DOMAIN mPacketBuf' = 1..MAX_PACKET_SIZE
    BY <1>4, <1>5, <1>7
  <2>3. /\ p' \in 1..MAX_BUF_SIZE + 1 /\ restByte' \in 0..MAX_BUF_SIZE
        /\ p' + restByte' <= MAX_BUF_SIZE + 1
        /\ packetSize' \in PacketSize \cup {0}
    BY <1>0, <1>5
  <2>4. mPrevSize' \in 0..MAX_PACKET_SIZE
    BY <1>0, <1>2, <1>3, <1>5
  <2> QED BY <2>1, <2>2, <2>3, <2>4 DEF WithinBuffers
<1> QED BY <1>8, <1>9, <1>10, <1>11, <1>12 DEF FramingInv

\* Whatever packets a client sends, they are a stream.
AnyStream == sent \in Streams => /\ Stream \in Seq(AByte) /\ End[0] = 0
                                 /\ sent \in Seq(PacketSize)

LEMMA StreamStays == []AnyStream
<1>1. AnyStream
  BY StreamIs DEF AnyStream
<1> QED BY <1>1, PTL

\* The slot's next client finds nothing of the last one's.
LEMMA NextClientKeeps ==
    ASSUME FramingInv, Framing!NextClient
    PROVE  FramingInv'
<1> USE DEF Framing!NextClient
<1>0. /\ sent' \in Streams /\ taken' = 0 /\ handled' = <<>> /\ mPrevSize' = 0
      /\ restByte' = 0 /\ restByte = 0 /\ p' = p /\ io_buf' = io_buf
      /\ packetSize' = packetSize
      /\ mPacketBuf' = [i \in 1..MAX_PACKET_SIZE |-> Framing!Zero]
      /\ MAX_PACKET_SIZE \in Nat /\ MAX_BUF_SIZE \in Nat
  BY Sizes
<1>1. Framing!Zero \in AByte /\ Framing!Zero.value = 0
  BY DEF Framing!Zero, Framing!Byte, AByte
<1>2. Stream' \in Seq(AByte) /\ sent' \in Seq(PacketSize) /\ End'[0] = 0
  <2>1. AnyStream'
    BY StreamStays, PTL
  <2> QED BY <1>0, <2>1 DEF AnyStream
<1>3. Len(Stream') \in Nat /\ Len(sent') \in Nat
  BY <1>2, LenProperties
<1>4. packetSize = 0
  BY <1>0 DEF FramingInv, SizeInv
<1>5. BuffersInv' /\ HighByteInv'
  BY <1>0, <1>1 DEF FramingInv, BuffersInv, HighByteInv
<1>6. PlaceInv' /\ KeptInv' /\ ReceivedInv' /\ SizeInv'
  BY <1>0, <1>2, <1>3, <1>4 DEF PlaceInv, KeptInv, ReceivedInv, SizeInv
<1>7. WithinBuffers'
  BY <1>0, <1>3, <1>4 DEF FramingInv, WithinBuffers
<1> QED BY <1>5, <1>6, <1>7 DEF FramingInv

(***************************************************************************)
(* However the stream is cut and whoever had the slot before, what has     *)
(* been handled, what is kept and what is left of the receive are the      *)
(* beginning of the stream (PacketConstruct).                              *)
(***************************************************************************)
THEOREM FramingInductive == Framing!Spec => []FramingInv
<1>1. Framing!Init => FramingInv
  BY FramingInit
<1>2. FramingInv /\ [Framing!Next]_Framing!vars => FramingInv'
  <2> SUFFICES ASSUME FramingInv, [Framing!Next]_Framing!vars PROVE FramingInv'
    OBVIOUS
  <2>1. CASE \E n \in 1..MAX_BUF_SIZE : Framing!Receive(n)
    BY <2>1, ReceiveKeeps
  <2>2. CASE Framing!ConstructPacket
    BY <2>2, ConstructKeeps
  <2>3. CASE Framing!KeepRest
    BY <2>3, KeepRestKeeps
  <2>4. CASE Framing!NextClient
    BY <2>4, NextClientKeeps
  <2>5. CASE UNCHANGED Framing!vars
    <3>1. /\ sent' = sent /\ taken' = taken /\ io_buf' = io_buf /\ p' = p /\ restByte' = restByte
          /\ packetSize' = packetSize /\ mPacketBuf' = mPacketBuf /\ mPrevSize' = mPrevSize
          /\ handled' = handled
      BY <2>5 DEF Framing!vars
    <3>2. Packets' = Packets /\ End' = End /\ Stream' = Stream
      BY <3>1, SameStream
    <3>3. WithinBuffers' /\ BuffersInv' /\ HighByteInv'
      BY <3>1, <3>2 DEF FramingInv, WithinBuffers, BuffersInv, HighByteInv
    <3>4. PlaceInv' /\ KeptInv' /\ ReceivedInv' /\ SizeInv'
      BY <3>1, <3>2 DEF FramingInv, PlaceInv, KeptInv, ReceivedInv, SizeInv, Current
    <3> QED BY <3>3, <3>4 DEF FramingInv
  <2> QED BY <2>1, <2>2, <2>3, <2>4, <2>5 DEF Framing!Next, Framing!PacketConstruct
<1> QED BY <1>1, <1>2, PTL DEF Framing!Spec

(***************************************************************************)
(* However the stream is cut, the packets handled are those the client     *)
(* sent, whole, each once, in order (PacketConstruct).                     *)
(***************************************************************************)
THEOREM PacketsAreHandledAsSent == Framing!Spec => []HandledAsSent
<1>1. FramingInv => HandledAsSent
  <2> SUFFICES ASSUME FramingInv, NEW k \in DOMAIN handled
               PROVE  k \in DOMAIN sent /\ handled[k] = Packet(k)
    BY DEF HandledAsSent
  <2>1. sent \in Streams /\ Len(sent) \in Nat /\ Len(handled) \in Nat
    BY Sizes
  <2>2. handled \in Seq(Seq(AByte)) /\ sent \in Seq(PacketSize)
    BY <2>1, StreamIs DEF FramingInv, BuffersInv
  <2>3. k \in 1..Len(handled)
    BY <2>2
  <2>4. k \in 1..Len(sent) /\ handled[k] = Packets[k]
    BY <2>1, <2>3 DEF FramingInv, PlaceInv
  <2>5. Packets[k] = Packet(k)
    BY <2>1, <2>4, StreamIs
  <2> QED BY <2>2, <2>4, <2>5
<1> QED BY <1>1, FramingInductive, PTL

(***************************************************************************)
(* Between two receives all that has come is handled, but for the part of  *)
(* one packet that is kept (PacketConstruct).                              *)
(***************************************************************************)
THEOREM NothingWaitsUnhandled == Framing!Spec => []RestIsKept
<1>1. FramingInv => RestIsKept
  <2> SUFFICES ASSUME FramingInv, restByte = 0
               PROVE  /\ FlattenSeq(handled) \o SubSeq(mPacketBuf, 1, mPrevSize)
                            = SubSeq(Stream, 1, taken)
                      /\ mPrevSize > 0 => mPrevSize < sent[Len(handled) + 1]
    BY DEF RestIsKept, FramingInv
  <2> DEFINE h == Len(handled)
             f == FlattenSeq(handled)
             g == SubSeq(mPacketBuf, 1, mPrevSize)
             s == SubSeq(Stream, 1, taken)
  <2>1. /\ sent \in Streams /\ Len(sent) \in Nat /\ h \in Nat
        /\ taken \in Nat /\ taken <= Len(Stream) /\ Len(Stream) \in Nat
        /\ mPrevSize \in Nat /\ mPrevSize <= MAX_PACKET_SIZE /\ MAX_PACKET_SIZE \in Nat
    BY Sizes
  <2>2. /\ handled \in Seq(Seq(AByte)) /\ mPacketBuf \in [1..MAX_PACKET_SIZE -> AByte]
        /\ Stream \in Seq(AByte) /\ Packets \in Seq(Seq(AByte))
    BY <2>1, StreamIs DEF FramingInv, BuffersInv
  <2>3. /\ h <= Len(Packets) /\ Len(Packets) = Len(sent)
        /\ \A k \in 1..h : handled[k] = Packets[k]
        /\ taken = End[h] + mPrevSize
    <3>1. taken = End[h] + mPrevSize + 0
      BY DEF FramingInv, PlaceInv
    <3>2. End[h] \in Nat
      <4>1. h \in 0..Len(sent)
        BY <2>1 DEF FramingInv, PlaceInv
      <4> QED BY <2>1, <4>1, StreamIs
    <3> QED BY <2>1, <3>1, <3>2, StreamIs DEF FramingInv, PlaceInv
  <2>4. /\ f \in Seq(AByte) /\ Len(f) = End[h] /\ End[h] \in Nat
        /\ \A j \in 1..End[h] : f[j] = Stream[j]
    <3>1. f \in Seq(AByte)
      BY <2>2, FlattenIs
    <3>2. Stream = FlattenSeq(Packets)
      BY DEF Stream, Packets
    <3>3. Len(f) = End[h] /\ \A j \in 1..End[h] : f[j] = FlattenSeq(Packets)[j]
      BY <2>2, <2>3, FlattenOfPrefix DEF End
    <3> QED BY <3>1, <3>2, <3>3, LenProperties
  <2>5. g \in Seq(AByte) /\ Len(g) = mPrevSize /\ \A i \in 1..mPrevSize : g[i] = mPacketBuf[i]
    <3>1. mPacketBuf \in Seq(AByte) /\ Len(mPacketBuf) = MAX_PACKET_SIZE
      BY <2>1, <2>2
    <3> QED BY <2>1, <3>1
  <2>6. mPrevSize > 0 => Current \in 1..Len(sent) /\ mPrevSize < sent[Current]
    BY CurrentIsSent DEF FramingInv, KeptInv
  <2>7. \A i \in 1..mPrevSize : g[i] = Stream[End[h] + i]
    <3> TAKE i \in 1..mPrevSize
    <3>1. /\ Current \in 1..Len(sent) /\ Current - 1 = h /\ i \in Nat \ {0}
          /\ sent[Current] \in 3..MAX_PACKET_SIZE
      <4>1. Current \in 1..Len(sent)
        BY <2>1, <2>6
      <4> QED BY <2>1, <4>1, StreamIs DEF Current
    <3>2. i <= sent[Current]
      BY <2>1, <2>6, <3>1
    <3>3. Stream[End[Current - 1] + i] = Packets[Current][i]
      BY <2>1, <3>1, <3>2, StreamIs
    <3>4. mPacketBuf[i] = Packets[Current][i]
      BY DEF FramingInv, KeptInv
    <3> QED BY <2>5, <3>1, <3>3, <3>4
  <2>8. s \in Seq(AByte) /\ Len(s) = taken /\ \A j \in 1..taken : s[j] = Stream[j]
    BY <2>1, <2>2
  <2> HIDE DEF f, g, s, h
  <2>9. f \o g = s
    <3> DEFINE e == End[h]
    <3>1. /\ f \o g \in Seq(AByte) /\ Len(f \o g) = Len(f) + Len(g)
          /\ \A j \in 1..Len(f) + Len(g) :
                (f \o g)[j] = IF j <= Len(f) THEN f[j] ELSE g[j - Len(f)]
      BY <2>4, <2>5, ConcatProperties
    <3>2. Len(f) = e /\ Len(g) = mPrevSize /\ e \in Nat /\ mPrevSize \in Nat /\ taken = e + mPrevSize
      BY <2>1, <2>3, <2>4, <2>5
    <3>3. /\ \A j \in 1..e : f[j] = Stream[j]
          /\ \A i \in 1..mPrevSize : g[i] = Stream[e + i]
      BY <2>4, <2>7
    <3> HIDE DEF e
    <3>4. \A j \in 1..taken : (f \o g)[j] = Stream[j]
      <4> TAKE j \in 1..taken
      <4>1. (f \o g)[j] = IF j <= e THEN f[j] ELSE g[j - e]
        BY <3>1, <3>2
      <4>2. CASE j <= e
        <5>1. j \in 1..e
          BY <3>2, <4>2
        <5> QED BY <3>3, <4>1, <4>2, <5>1
      <4>3. CASE ~(j <= e)
        <5>1. j - e \in 1..mPrevSize /\ e + (j - e) = j
          BY <3>2, <4>3
        <5> QED BY <3>3, <4>1, <4>3, <5>1
      <4> QED BY <4>2, <4>3
    <3>5. Len(f \o g) = taken /\ taken \in Nat
      BY <2>1, <3>1, <3>2
    <3>6. \A j \in 1..taken : (f \o g)[j] = s[j]
      BY <2>8, <3>4
    <3> DEFINE x == f \o g
    <3>7. /\ x \in Seq(AByte) /\ s \in Seq(AByte) /\ Len(x) = Len(s)
          /\ \A j \in 1..Len(x) : x[j] = s[j]
      BY <2>8, <3>1, <3>5, <3>6
    <3> HIDE DEF x
    <3>8. x = s
      BY <3>7, SeqEqual
    <3> QED BY <3>8 DEF x
  <2> QED BY <2>6, <2>9 DEF f, g, s, Current
<1> QED BY <1>1, FramingInductive, PTL
=============================================================================
