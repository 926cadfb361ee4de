------------------------------- MODULE Server -------------------------------
(***************************************************************************)
(* Server.cpp and Client.cpp: the life of a client slot.                   *)
(*                                                                         *)
(* The server has MAX_USER Client objects.  Worker threads take I/O        *)
(* completions from one completion port; a completion names the slot it is *)
(* for, never the session, so what was posted for one client of a slot can *)
(* be handled when the slot has another one.  The main thread disconnects  *)
(* clients that stopped answering, and the thread of a room disconnects    *)
(* the players that lost.                                                  *)
(*                                                                         *)
(* The matchmaking queue changes as MatchingQueue says (ServerQueue        *)
(* implements that); of a room only the pointer to it is kept here.        *)
(* The kernel's side, modelled from how Server.cpp calls it: a socket      *)
(* connects, its peer goes away, a posted receive completes with a packet  *)
(* or with 0 bytes, a posted send completes or fails.                      *)
(***************************************************************************)
EXTENDS Naturals, Sequences, FiniteSets, FiniteSetsExt, SequencesExt

CONSTANTS
    MAX_USER, MAX_ROOM_PLAYER,
    Faults,          \* what may go wrong besides clients that leave
    Worker,          \* the worker threads
    Socket,          \* socket handles; a number 1, 2, ...
    Main, RoomThread \* the main thread; the threads of the rooms, as one

ASSUME ServerAssumption ==
    /\ MAX_USER \in Nat \ {0}
    /\ MAX_ROOM_PLAYER \in Nat \ {0, 1}
    /\ Faults \subseteq {"send", "check", "lose", "reset", "port"}
    /\ Socket \subseteq Nat \ {0}
    /\ Main # RoomThread /\ Main \notin Worker /\ RoomThread \notin Worker

Slot == 1..MAX_USER
Thread == Worker \cup {Main, RoomThread}
INVALID_SOCKET == 0
NoThread == 0

ESocketStatus == {"FREE", "ALLOCATED", "ACTIVE"}

VARIABLES
    mStatus, mSocket, mRoomPtr, mLock,  \* of each Client; mRoomPtr # nullptr
    waiting,                            \* the queue
    acceptPosted,                       \* AcceptEx is outstanding
    link,        \* each socket: unused, open, gone (peer left) or closed
    keyOf,       \* each socket's completion key: the slot it was accepted for
    receives,    \* each socket's outstanding WSARecv calls
    thread,      \* what each thread is doing, for which slot and session
    lost,        \* ghost: the slots whose registration failed
    hurried      \* ghost: the slots whose client asked again while it waited

clientVars == <<mStatus, mSocket, mRoomPtr, mLock>>
ioVars     == <<acceptPosted, link, keyOf, receives>>
ghostVars  == <<lost, hurried>>
vars == <<clientVars, waiting, ioVars, thread, ghostVars>>

Pc == {"idle", "scan", "register", "activate", "receive",
       "addClient", "repost", "kick", "unqueue", "close", "init"}

Idle == [pc |-> "idle", slot |-> 1, socket |-> INVALID_SOCKET]

TypeOK ==
    /\ mStatus \in [Slot -> ESocketStatus]
    /\ mSocket \in [Slot -> Socket \cup {INVALID_SOCKET}]
    /\ mRoomPtr \in [Slot -> BOOLEAN]
    /\ mLock \in [Slot -> Thread \cup {NoThread}]
    /\ waiting \in Seq(Slot)
    /\ acceptPosted \in BOOLEAN
    /\ link \in [Socket -> {"unused", "open", "gone", "closed"}]
    /\ keyOf \in [Socket -> Slot \cup {0}]
    /\ receives \in [Socket -> Nat]
    /\ thread \in [Thread -> [pc : Pc, slot : Slot,
                              socket : Socket \cup {INVALID_SOCKET}]]
    /\ lost \subseteq Slot /\ hurried \subseteq Slot

Init ==
    /\ mStatus = [c \in Slot |-> "FREE"]
    /\ mSocket = [c \in Slot |-> INVALID_SOCKET]
    /\ mRoomPtr = [c \in Slot |-> FALSE]
    /\ mLock = [c \in Slot |-> NoThread]
    /\ waiting = <<>>
    /\ acceptPosted = TRUE
    /\ link = [s \in Socket |-> "unused"]
    /\ keyOf = [s \in Socket |-> 0]
    /\ receives = [s \in Socket |-> 0]
    /\ thread = [t \in Thread |-> Idle]
    /\ lost = {} /\ hurried = {}

At(t, pc) == thread[t].pc = pc
Goto(t, pc) == thread' = [thread EXCEPT ![t].pc = pc]
Return(t) == thread' = [thread EXCEPT ![t] = Idle]

\* INVALID_SOCKET is as good as a closed handle.
LinkOf(s) == IF s = INVALID_SOCKET THEN "closed" ELSE link[s]

\* closesocket: nothing happens to INVALID_SOCKET.
Close(s) == link' = IF s = INVALID_SOCKET THEN link
                                          ELSE [link EXCEPT ![s] = "closed"]
-----------------------------------------------------------------------------
(***************************************************************************)
(* Accept.  One AcceptEx is outstanding, so one worker at a time is here.  *)
(* A handle can be given out again once nothing refers to it.              *)
(***************************************************************************)
Unreferenced(s) ==
    /\ link[s] \in {"unused", "closed"} /\ receives[s] = 0
    /\ \A c \in Slot : mSocket[c] # s
    /\ \A t \in Thread : thread[t].socket # s

Accept(t, s) ==
    /\ At(t, "idle") /\ acceptPosted /\ Unreferenced(s)
    /\ s = Min({r \in Socket : Unreferenced(r)})
    /\ acceptPosted' = FALSE
    /\ link' = [link EXCEPT ![s] = "open"]
    /\ keyOf' = [keyOf EXCEPT ![s] = 0]
    /\ thread' = [thread EXCEPT ![t] = [pc |-> "scan", slot |-> 1, socket |-> s]]
    /\ UNCHANGED <<clientVars, waiting, receives, ghostVars>>

\* AcceptEx again, as the last thing the accepting worker does.
AcceptAgain(t) == acceptPosted' = TRUE /\ Return(t)

\* Under the mutex of each slot in turn: the first FREE one is ALLOCATED.
ScanFound(t) ==
    LET c == thread[t].slot IN
    /\ At(t, "scan") /\ mLock[c] = NoThread /\ mStatus[c] = "FREE"
    /\ mStatus' = [mStatus EXCEPT ![c] = "ALLOCATED"]
    /\ Goto(t, "register")
    /\ UNCHANGED <<mSocket, mRoomPtr, mLock, waiting, ioVars, ghostVars>>

ScanNext(t) ==
    LET c == thread[t].slot IN
    /\ At(t, "scan") /\ mLock[c] = NoThread /\ mStatus[c] # "FREE"
    /\ c < MAX_USER
    /\ thread' = [thread EXCEPT ![t].slot = c + 1]
    /\ UNCHANGED <<clientVars, waiting, ioVars, ghostVars>>

\* Mutant: the socket nobody has a slot for stays open.
ScanFull_KeepsSocket(t) ==
    LET c == thread[t].slot IN
    /\ At(t, "scan") /\ mLock[c] = NoThread /\ mStatus[c] # "FREE"
    /\ c = MAX_USER
    /\ AcceptAgain(t)
    /\ UNCHANGED <<clientVars, waiting, link, keyOf, receives, ghostVars>>

ScanFull(t) ==
    LET c == thread[t].slot IN
    /\ At(t, "scan") /\ mLock[c] = NoThread /\ mStatus[c] # "FREE"
    /\ c = MAX_USER
    /\ Close(thread[t].socket)
    /\ AcceptAgain(t)
    /\ UNCHANGED <<clientVars, waiting, keyOf, receives, ghostVars>>

\* CreateIoCompletionPort refuses: the socket is closed, the slot is kept.
RegisterFails(t) ==
    /\ "port" \in Faults
    /\ At(t, "register")
    /\ Close(thread[t].socket)
    /\ lost' = lost \cup {thread[t].slot}
    /\ AcceptAgain(t)
    /\ UNCHANGED <<clientVars, waiting, keyOf, receives, hurried>>

\* Mutant: the next AcceptEx is posted before the slot is set up.
Register_AcceptsAgain(t) ==
    /\ At(t, "register")
    /\ keyOf' = [keyOf EXCEPT ![thread[t].socket] = thread[t].slot]
    /\ mSocket' = [mSocket EXCEPT ![thread[t].slot] = thread[t].socket]
    /\ acceptPosted' = TRUE
    /\ Goto(t, "activate")
    /\ UNCHANGED <<mStatus, mRoomPtr, mLock, waiting, link, receives, ghostVars>>

\* CreateIoCompletionPort, SetSocket and NewClientEvent, with no lock.
Register(t) ==
    LET c == thread[t].slot
        s == thread[t].socket IN
    /\ At(t, "register")
    /\ keyOf' = [keyOf EXCEPT ![s] = c]
    /\ mSocket' = [mSocket EXCEPT ![c] = s]
    /\ Goto(t, "activate")
    /\ UNCHANGED <<mStatus, mRoomPtr, mLock, waiting, acceptPosted, link,
                   receives, ghostVars>>

Activate(t) ==
    /\ At(t, "activate")
    /\ mStatus' = [mStatus EXCEPT ![thread[t].slot] = "ACTIVE"]
    /\ Goto(t, "receive")
    /\ UNCHANGED <<mSocket, mRoomPtr, mLock, waiting, ioVars, ghostVars>>

(***************************************************************************)
(* WSARecv on s: a closed handle refuses it, a connection whose peer has   *)
(* gone may (a reset) or may not (the receive then completes with 0        *)
(* bytes).  Nobody looks at the result.                                    *)
(***************************************************************************)
WSARecv(s) ==
    \/ /\ LinkOf(s) \in {"open", "gone"}
       /\ receives' = [receives EXCEPT ![s] = @ + 1]
    \/ /\ \/ LinkOf(s) = "closed"
          \/ LinkOf(s) = "gone" /\ "reset" \in Faults
       /\ UNCHANGED receives

\* The accepting worker receives on its own copy of the handle.
FirstReceive(t) ==
    /\ At(t, "receive")
    /\ WSARecv(thread[t].socket)
    /\ AcceptAgain(t)
    /\ UNCHANGED <<clientVars, waiting, link, keyOf, ghostVars>>
-----------------------------------------------------------------------------
\* Mutants: the next receive is posted before the packet is handled; the
\* room of the client is not looked at.
StartMatching_ReceivesFirst(t, s) ==
    LET c == keyOf[s] IN
    /\ At(t, "idle") /\ receives[s] > 0 /\ link[s] = "open"
    /\ thread' = [thread EXCEPT ![t] =
                    [pc |-> IF mRoomPtr[c] THEN "repost" ELSE "addClient",
                     slot |-> c, socket |-> s]]
    /\ hurried' = IF Contains(waiting, c) THEN hurried \cup {c} ELSE hurried
    /\ UNCHANGED <<clientVars, waiting, ioVars, lost>>

StartMatching_AnyRoom(t, s) ==
    LET c == keyOf[s] IN
    /\ At(t, "idle") /\ receives[s] > 0 /\ link[s] = "open"
    /\ receives' = [receives EXCEPT ![s] = @ - 1]
    /\ thread' = [thread EXCEPT ![t] =
                    [pc |-> "addClient", slot |-> c, socket |-> s]]
    /\ hurried' = IF Contains(waiting, c) THEN hurried \cup {c} ELSE hurried
    /\ UNCHANGED <<clientVars, waiting, acceptPosted, link, keyOf, lost>>

(***************************************************************************)
(* A receive completes with a cs_startMatching packet.  A client that has  *)
(* a room is refused; the test is made before the queue is locked.         *)
(***************************************************************************)
StartMatching(t, s) ==
    LET c == keyOf[s] IN
    /\ At(t, "idle") /\ receives[s] > 0 /\ link[s] = "open"
    /\ receives' = [receives EXCEPT ![s] = @ - 1]
    /\ thread' = [thread EXCEPT ![t] =
                    [pc |-> IF mRoomPtr[c] THEN "repost" ELSE "addClient",
                     slot |-> c, socket |-> s]]
    /\ hurried' = IF Contains(waiting, c) THEN hurried \cup {c} ELSE hurried
    /\ UNCHANGED <<clientVars, waiting, acceptPosted, link, keyOf, lost>>

\* AddClient and TryCreateRoomOrNullPtr, under the lock of the queue.
AddClient(t) ==
    LET queue == Append(waiting, thread[t].slot)
        room == {queue[i] : i \in 1..MAX_ROOM_PLAYER} IN
    /\ At(t, "addClient")
    /\ IF Len(queue) < MAX_ROOM_PLAYER
       THEN waiting' = queue /\ UNCHANGED mRoomPtr
       ELSE /\ waiting' = SubSeq(queue, MAX_ROOM_PLAYER + 1, Len(queue))
            /\ mRoomPtr' = [c \in Slot |-> mRoomPtr[c] \/ c \in room]
    /\ Goto(t, "repost")
    /\ UNCHANGED <<mStatus, mSocket, mLock, ioVars, ghostVars>>

\* The worker receives again, on the socket the slot has by now.
Repost(t) ==
    /\ At(t, "repost")
    /\ WSARecv(mSocket[thread[t].slot])
    /\ Return(t)
    /\ UNCHANGED <<clientVars, waiting, acceptPosted, link, keyOf, ghostVars>>
-----------------------------------------------------------------------------
(***************************************************************************)
(* Disconnect(c), called by thread t on account of session s.  A FREE slot *)
(* is left alone; the test is made with no lock.                           *)
(***************************************************************************)
Disconnect(t, c, s) ==
    thread' = [thread EXCEPT ![t] =
                 IF mStatus[c] = "FREE" THEN Idle
                 ELSE [pc |-> "unqueue", slot |-> c, socket |-> s]]

\* Mutant: a receive of 0 bytes is taken for one that timed out.
ReceiveFails_Ignored(t, s) ==
    /\ At(t, "idle") /\ receives[s] > 0 /\ link[s] \in {"gone", "closed"}
    /\ receives' = [receives EXCEPT ![s] = @ - 1]
    /\ UNCHANGED <<clientVars, waiting, acceptPosted, link, keyOf, thread, ghostVars>>

\* A worker: a receive has completed with 0 bytes.
ReceiveFails(t, s) ==
    /\ At(t, "idle") /\ receives[s] > 0 /\ link[s] \in {"gone", "closed"}
    /\ receives' = [receives EXCEPT ![s] = @ - 1]
    /\ Disconnect(t, keyOf[s], s)
    /\ UNCHANGED <<clientVars, waiting, acceptPosted, link, keyOf, ghostVars>>

\* A worker: one of the sends to the slot has completed with 0 bytes.
SendFails(t, s) ==
    /\ "send" \in Faults
    /\ At(t, "idle") /\ keyOf[s] # 0 /\ link[s] \in {"gone", "closed"}
    /\ Disconnect(t, keyOf[s], s)
    /\ UNCHANGED <<clientVars, waiting, ioVars, ghostVars>>

\* Mutant: only the players of a game are looked at.
ConnectCheck_Players(c) ==
    /\ "check" \in Faults
    /\ At(Main, "idle") /\ mStatus[c] = "ACTIVE" /\ mRoomPtr[c]
    /\ Disconnect(Main, c, mSocket[c])
    /\ UNCHANGED <<clientVars, waiting, ioVars, ghostVars>>

\* The main thread: an ACTIVE client has not answered for too long.
ConnectCheck(c) ==
    /\ "check" \in Faults
    /\ At(Main, "idle") /\ mStatus[c] = "ACTIVE"
    /\ Disconnect(Main, c, mSocket[c])
    /\ UNCHANGED <<clientVars, waiting, ioVars, ghostVars>>

(***************************************************************************)
(* A room's thread finds that a player has lost (IsValidClientInThisRoom), *)
(* tells the room, sleeps, and only then disconnects the slot.             *)
(***************************************************************************)
Lose(c) ==
    /\ "lose" \in Faults
    /\ At(RoomThread, "idle") /\ mRoomPtr[c] /\ mSocket[c] # INVALID_SOCKET
    /\ thread' = [thread EXCEPT ![RoomThread] =
                    [pc |-> "kick", slot |-> c, socket |-> mSocket[c]]]
    /\ UNCHANGED <<clientVars, waiting, ioVars, ghostVars>>

Kick ==
    LET r == thread[RoomThread] IN
    /\ At(RoomThread, "kick")
    /\ Disconnect(RoomThread, r.slot, r.socket)
    /\ UNCHANGED <<clientVars, waiting, ioVars, ghostVars>>

\* Mutant: the queue keeps the client.
Unqueue_Nothing(t) ==
    /\ At(t, "unqueue")
    /\ Goto(t, "close")
    /\ UNCHANGED <<clientVars, waiting, ioVars, ghostVars>>

Unqueue(t) ==
    /\ At(t, "unqueue")
    /\ waiting' = RemoveFirst(waiting, thread[t].slot)
    /\ Goto(t, "close")
    /\ UNCHANGED <<clientVars, ioVars, ghostVars>>

\* Mutant: FREE, and unlocked, before the rest of Init has run.
CloseSocket_FreesFirst(t) ==
    LET c == thread[t].slot IN
    /\ At(t, "close") /\ mLock[c] = NoThread
    /\ mStatus' = [mStatus EXCEPT ![c] = "FREE"]
    /\ Close(mSocket[c])
    /\ mSocket' = [mSocket EXCEPT ![c] = INVALID_SOCKET]
    /\ Goto(t, "init")
    /\ UNCHANGED <<mRoomPtr, mLock, waiting, acceptPosted, keyOf, receives, ghostVars>>

\* Under the slot's mutex: not FREE before the departure is dealt with.
CloseSocket(t) ==
    LET c == thread[t].slot IN
    /\ At(t, "close") /\ mLock[c] = NoThread
    /\ mLock' = [mLock EXCEPT ![c] = t]
    /\ mStatus' = [mStatus EXCEPT ![c] = "ALLOCATED"]
    /\ Close(mSocket[c])
    /\ mSocket' = [mSocket EXCEPT ![c] = INVALID_SOCKET]
    /\ Goto(t, "init")
    /\ UNCHANGED <<mRoomPtr, waiting, acceptPosted, keyOf, receives, ghostVars>>

\* Mutant: Init forgets the status.
InitClient_KeepsStatus(t) ==
    /\ At(t, "init")
    /\ mRoomPtr' = [mRoomPtr EXCEPT ![thread[t].slot] = FALSE]
    /\ mLock' = [mLock EXCEPT ![thread[t].slot] = NoThread]
    /\ Return(t)
    /\ UNCHANGED <<mStatus, mSocket, waiting, ioVars, ghostVars>>

\* The rest of Client::Init: leave the room, and last of all be FREE.
InitClient(t) ==
    LET c == thread[t].slot IN
    /\ At(t, "init")
    /\ mRoomPtr' = [mRoomPtr EXCEPT ![c] = FALSE]
    /\ mStatus' = [mStatus EXCEPT ![c] = "FREE"]
    /\ mLock' = [mLock EXCEPT ![c] = NoThread]
    /\ Return(t)
    /\ UNCHANGED <<mSocket, waiting, ioVars, ghostVars>>
-----------------------------------------------------------------------------
\* The other end.
PeerGoes(s) ==
    /\ link[s] = "open"
    /\ link' = [link EXCEPT ![s] = "gone"]
    /\ UNCHANGED <<clientVars, waiting, acceptPosted, keyOf, receives,
                   thread, ghostVars>>

Accepting(t) == \/ ScanFound(t) \/ ScanNext(t) \/ ScanFull(t) \/ Register(t)
                \/ RegisterFails(t) \/ Activate(t) \/ FirstReceive(t)

Matching(t) == AddClient(t) \/ Repost(t)

Disconnecting(t) == Unqueue(t) \/ CloseSocket(t) \/ InitClient(t)

WorkerThread(t) ==
    \/ Accepting(t) \/ Matching(t) \/ Disconnecting(t)
    \/ \E s \in Socket :
          Accept(t, s) \/ StartMatching(t, s) \/ ReceiveFails(t, s) \/ SendFails(t, s)

Next ==
    \/ \E t \in Worker : WorkerThread(t)
    \/ \E c \in Slot : ConnectCheck(c) \/ Lose(c)
    \/ Kick
    \/ Disconnecting(Main) \/ Disconnecting(RoomThread)
    \/ \E s \in Socket : PeerGoes(s)

Spec == Init /\ [][Next]_vars

(***************************************************************************)
(* Fairness: a thread that runs keeps running, and the completion port     *)
(* hands out completions in order, so each one reaches a worker.  Clients  *)
(* owe the server nothing.                                                 *)
(***************************************************************************)
Fairness ==
    /\ \A t \in Thread :
          WF_vars(Accepting(t) \/ Matching(t) \/ Disconnecting(t))
    /\ \A s \in Socket : SF_vars(\E t \in Worker : ReceiveFails(t, s))

FairSpec == Spec /\ Fairness

\* The main thread comes by every slot again and again.  A peer that has gone sends
\* nothing, so from some time on it is found not to have answered.
CheckFairness ==
    \A c \in Slot :
        SF_vars(ConnectCheck(c) /\ mSocket[c] # INVALID_SOCKET /\ LinkOf(mSocket[c]) = "gone")

FaultFairSpec == FairSpec /\ CheckFairness
-----------------------------------------------------------------------------
(***************************************************************************)
(* ALLOCATED is a slot's state on its way in or out.  Whatever happens,    *)
(* some thread has the slot in hand and will make it ACTIVE or FREE; a     *)
(* slot is never forgotten half way, unless CreateIoCompletionPort failed  *)
(* for it: that path does forget it.                                       *)
(***************************************************************************)
AllocatedIsOwned ==
    \A c \in Slot \ lost : mStatus[c] = "ALLOCATED" =>
        \E t \in Thread : /\ thread[t].slot = c
                          /\ thread[t].pc \in {"register", "activate", "init"}

(***************************************************************************)
(* The accepting code writes mSocket and mStatus with no lock, which is    *)
(* only sound if one worker at a time is in it: AcceptEx is posted again   *)
(* after the last of those writes.                                         *)
(***************************************************************************)
Acceptors == {t \in Thread :
                thread[t].pc \in {"scan", "register", "activate", "receive"}}

OneAcceptor ==
    /\ \A t, u \in Acceptors : t = u
    /\ acceptPosted => Acceptors = {}

(***************************************************************************)
(* A slot is not given to the next client before the departure of the last *)
(* one has been dealt with: a thread inside Disconnect never finds the     *)
(* socket of another session in the slot it cleans up (Server.cpp, the     *)
(* comment on SetStatus(ALLOCATED) in Disconnect).                         *)
(***************************************************************************)
DisconnectEndsBeforeReuse ==
    \A t \in Thread : thread[t].pc \in {"unqueue", "close", "init"} =>
        mSocket[thread[t].slot] \in {INVALID_SOCKET, thread[t].socket}

(***************************************************************************)
(* One receive at a time: a slot's packets are put together in its one     *)
(* buffer, so no two workers may be at it, and no receive may be           *)
(* outstanding while a worker handles the last one's data.                 *)
(***************************************************************************)
Handling(c) == {t \in Worker : /\ thread[t].slot = c
                               /\ thread[t].pc \in {"addClient", "repost"}}

OneReceive ==
    \A c \in Slot :
        LET posted == {s \in Socket : keyOf[s] = c /\ receives[s] > 0} IN
        /\ \A s \in posted : receives[s] = 1
        /\ Cardinality(posted) + Cardinality(Handling(c)) <= 1

(***************************************************************************)
(* Who waits is there to play: the queue holds no departed client.  A      *)
(* client that asked again while it waited is exempt, RemoveClient takes   *)
(* only its first node out.                                                *)
(***************************************************************************)
WaitingIsActive ==
    \A c \in Slot \ hurried : Contains(waiting, c) => mStatus[c] = "ACTIVE"

(***************************************************************************)
(* Every connection the server holds open is one a slot or the accepting   *)
(* worker still has the handle of, so that somebody will close it.         *)
(***************************************************************************)
NoSocketLost ==
    \A s \in Socket : link[s] \in {"open", "gone"} =>
        \/ \E c \in Slot : mSocket[c] = s /\ mStatus[c] # "FREE"
        \/ \E t \in Acceptors : thread[t].socket = s

(***************************************************************************)
(* A client that has a room does not wait for another one (Server.cpp,     *)
(* "there must be no matching for one that has a room"), unless it asked   *)
(* again while it waited: the code tests the room only, queues it twice,   *)
(* and its room takes one of the two places.                               *)
(***************************************************************************)
PatientWaitingHasNoRoom ==
    \A c \in Slot \ hurried : Contains(waiting, c) => ~mRoomPtr[c]

(***************************************************************************)
(* A session whose client has left does not keep its slot for ever.        *)
(***************************************************************************)
DeadSessionEnds ==
    \A c \in Slot, s \in Socket :
        (mSocket[c] = s /\ link[s] = "gone") ~> (mSocket[c] # s)

(***************************************************************************)
(* The same when receives fail: a WSARecv that is refused (its result is   *)
(* ignored, Server.cpp:147, 213) leaves a session no completion will ever  *)
(* be told of, and only the connection check can end it.  It looks at      *)
(* ACTIVE slots only, so a session in a slot that another disconnection    *)
(* has made FREE is not ended, nor is one in a slot whose registration     *)
(* failed.                                                                 *)
(***************************************************************************)
DeadSessionIsReleased ==
    \A c \in Slot, s \in Socket :
        (mSocket[c] = s /\ link[s] = "gone")
            ~> (mSocket[c] # s \/ mStatus[c] = "FREE" \/ c \in lost)
=============================================================================
