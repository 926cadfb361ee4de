-------------------------------- MODULE Lobby --------------------------------
(***************************************************************************)
(* From cs_startMatching to the start of the game: the queue, RoomManager, *)
(* a room, its clients, and the locks that lie between them.               *)
(*                                                                         *)
(* Workers handle the requests of clients; other threads disconnect them,  *)
(* at any moment; the thread of the room waits for everybody to choose a   *)
(* character.  Four kinds of locks are taken: that of the queue, that of   *)
(* RoomManager, cLock of the room, and one of each client.  The messages   *)
(* of the room go to whoever is in it while its lock is held, but are made *)
(* before, from a list that is read without it.                            *)
(*                                                                         *)
(* ServerQueue, Server and Room have the parts in detail.  Here the queue  *)
(* is a sequence, the room is opened once, for the one group there are     *)
(* clients for, and mSize is the length of mClients: whoever reads the one *)
(* before RemoveClient has adapted it reads what it was before.  The       *)
(* thread that scans the slots for a new connection is left out: it locks  *)
(* one client at a time and takes no other lock.                           *)
(***************************************************************************)
EXTENDS RoomMessages

CONSTANTS
    Client,                  \* bound: each connects and asks for a game once
    CHOICE_CHARACTER_TIME

\* One group, not two.
ASSUME LobbyAssumption ==
    /\ IsFiniteSet(Client) /\ Cardinality(Client) < 2 * MAX_ROOM_PLAYER
    /\ Client \cap {"queue", "manager", "room", "none"} = {}
    /\ MAX_ROOM_PLAYER \in Nat \ {0, 1}
    /\ CHOICE_CHARACTER_TIME \in Nat \ {0}
    /\ MAX_BUF_SIZE \in Nat

\* The two messages about the characters fit, for no more players than a room has.
ASSUME CharactersFit ==
    \A n \in 0..MAX_ROOM_PLAYER :
        /\ Fits(ChangeCharacters(n, n))
        /\ \A empty \in 0..MAX_ROOM_PLAYER : Fits(FinishChoiceTime(empty, n))

\* A client stands for its own lock.
Locks == {"queue", "manager", "room"} \cup Client

Worker(c) == <<"worker", c>>        \* handles the requests of c
Leaver(c) == <<"leaver", c>>        \* runs Server::Disconnect for c
Progress  == <<"progress", "none">> \* Room::ProgressThread
Main      == <<"main", "none">>     \* Server::Start
Nobody    == <<"nobody", "none">>

Threads == ({"worker", "leaver"} \X Client) \cup {Progress, Main}

VARIABLES
    owner,        \* of each lock: the thread that holds it
    at,           \* each thread: where it is
    queue,        \* the clients that wait, in order
    mIsRun, mClients, mIsFinishChoiceCharacter, mCurRoomStatusType,  \* of the Room
    mRoomPtr,     \* the clients whose mRoomPtr is set
    mIsChoiceCharacter,     \* the clients that have confirmed their choice
    seconds, readyCount,    \* locals of ProgressThread and TrySendEnterInGame
    bufferSize, length,     \* of the message ProgressThread sends: said, written
    announced,    \* the players sc_ConnectRoomPacket was made from
    known,        \* each client: the players the server has told it are there
    late, miscounted, torn  \* ghosts: who left, or that somebody left, while a
                            \* list was in use

roomVars == <<mIsRun, mClients, mIsFinishChoiceCharacter, mCurRoomStatusType>>
clientVars == <<mRoomPtr, mIsChoiceCharacter>>
threadVars == <<seconds, readyCount, bufferSize, length>>
viewVars == <<announced, known>>
ghosts == <<late, miscounted, torn>>
vars == <<owner, at, queue, roomVars, clientVars, threadVars, viewVars, ghosts>>

(***************************************************************************)
(* Where a thread waits for a lock, and which.  A section under one lock   *)
(* that sends packets, or that nobody can look into, is one step; in the   *)
(* others the thread is seen with the lock.                                *)
(***************************************************************************)
Inside ==
    [waitManager |-> "inManager", \* GetUnUsedRoom, loopOut
     waitAdd     |-> "inAdd",     \* AddClients
     waitClient  |-> "waitRemove",\* Client::Init
     waitRemove  |-> "inRemove"]  \* RemoveClient

WaitPlaces == DOMAIN Inside \cup
    {"waitQueue",     \* Disconnect, cs_startMatching
     "waitConnect",   \* sc_ConnectRoomPacket
     "waitTell",      \* ChoiceCharacter of one player
     "waitNotice",    \* DisconnectServer
     "waitAll",       \* ChoiceAllCharacter
     "waitSync"}      \* the characters chosen

Places == WaitPlaces \cup
    {"inManager", "inAdd", "inRemove", "new", "idle", "announce", "start", "here",
     "gone", "away", "inQueue", "none", "choice", "compare", "ask", "branch",
     "collect", "timeUp", "cutScene", "playing", "loopOut", "over"}

Wanted(t) == CASE at[t] = "waitQueue"   -> "queue"
               [] at[t] = "waitManager" -> "manager"
               [] at[t] = "waitClient"  -> t[2]
               [] OTHER                 -> "room"

Init ==
    /\ owner = [l \in Locks |-> Nobody]
    /\ at = [t \in Threads |-> CASE t[1] = "worker" -> "new"
                                 [] t[1] = "leaver" -> "here"
                                 [] t = Progress    -> "none"
                                 [] OTHER           -> "away"]
    /\ queue = <<>>
    /\ mIsRun = FALSE /\ mClients = {} /\ mIsFinishChoiceCharacter = FALSE
    /\ mCurRoomStatusType = "ChoiceCharacter"
    /\ mRoomPtr = {} /\ mIsChoiceCharacter = {}
    /\ seconds = 0 /\ readyCount = 0 /\ bufferSize = 0 /\ length = 0
    /\ announced = {} /\ known = [c \in Client |-> {}]
    /\ late = {} /\ miscounted = FALSE /\ torn = FALSE

Go(t, place) == at' = [at EXCEPT ![t] = place]
Unlock(S) == owner' = [l \in Locks |-> IF l \in S THEN Nobody ELSE owner[l]]

Free(l) == owner[l] = Nobody

\* lock_guard: the thread gets the lock it waits for.
Lock(t) ==
    /\ at[t] \in DOMAIN Inside /\ Free(Wanted(t))
    /\ owner' = [owner EXCEPT ![Wanted(t)] = t]
    /\ Go(t, Inside[at[t]])
    /\ UNCHANGED <<queue, roomVars, clientVars, threadVars, viewVars, ghosts>>
-----------------------------------------------------------------------------
(***************************************************************************)
(* cs_startMatching.  A request is taken up while its client is connected; *)
(* the client may leave from then on.                                      *)
(***************************************************************************)
StartMatching(c) ==
    /\ at[Worker(c)] = "new" /\ at[Leaver(c)] = "here"
    /\ c \notin mRoomPtr
    /\ Go(Worker(c), "waitQueue")
    /\ UNCHANGED <<owner, queue, roomVars, clientVars, threadVars, viewVars, ghosts>>

\* With a full group TryCreateRoomOrNullPtr goes on under the same lock.
AddClient(c) ==
    LET full == Len(queue) + 1 >= MAX_ROOM_PLAYER IN
    /\ at[Worker(c)] = "waitQueue" /\ Free("queue")
    /\ queue' = Append(queue, c)
    /\ owner' = [owner EXCEPT !["queue"] = IF full THEN Worker(c) ELSE Nobody]
    /\ Go(Worker(c), IF full THEN "waitManager" ELSE "idle")
    /\ UNCHANGED <<roomVars, clientVars, threadVars, viewVars, ghosts>>

GetUnUsedRoom(c) ==
    /\ at[Worker(c)] = "inManager"
    /\ mIsRun' = TRUE
    /\ Unlock({"manager"})
    /\ Go(Worker(c), "waitAdd")
    /\ UNCHANGED <<queue, mClients, mIsFinishChoiceCharacter, mCurRoomStatusType,
                   clientVars, threadVars, viewVars, ghosts>>

Group == {queue[i] : i \in 1..MAX_ROOM_PLAYER}

\* The group gets its room and leaves the queue.
AddClients(c) ==
    /\ at[Worker(c)] = "inAdd"
    /\ mClients' = mClients \cup Group
    /\ mRoomPtr' = mRoomPtr \cup Group
    /\ queue' = SubSeq(queue, MAX_ROOM_PLAYER + 1, Len(queue))
    /\ Unlock({"room", "queue"})
    /\ Go(Worker(c), "announce")
    /\ UNCHANGED <<mIsRun, mIsFinishChoiceCharacter, mCurRoomStatusType,
                   mIsChoiceCharacter, threadVars, viewVars, ghosts>>

\* The constructor of sc_ConnectRoomPacket reads the list with no lock.
MakeConnectRoom(c) ==
    /\ at[Worker(c)] = "announce"
    /\ announced' = mClients
    /\ Go(Worker(c), "waitConnect")
    /\ UNCHANGED <<owner, queue, roomVars, clientVars, threadVars, known, ghosts>>

\* Disconnect has told the others: a notice before the list is of no use.
PastNotice == {"waitClient", "waitRemove", "inRemove", "gone"}

SendConnectRoom(c) ==
    /\ at[Worker(c)] = "waitConnect" /\ Free("room")
    /\ known' = [p \in Client |-> IF p \in mClients THEN announced ELSE known[p]]
    /\ late' = {d \in announced : at[Leaver(d)] \in PastNotice}
    /\ Go(Worker(c), "start")
    /\ UNCHANGED <<owner, queue, roomVars, clientVars, threadVars, announced,
                   miscounted, torn>>

\* Bound: the room is opened once.
StartThread(c) ==
    /\ at[Worker(c)] = "start" /\ at[Progress] = "none"
    /\ at' = [at EXCEPT ![Worker(c)] = "idle", ![Progress] = "choice"]
    /\ mCurRoomStatusType' = "ChoiceCharacter"
    /\ UNCHANGED <<owner, queue, mIsRun, mClients, mIsFinishChoiceCharacter,
                   clientVars, threadVars, viewVars, ghosts>>

\* The notification ChoiceCharacter; bound: a client confirms once.
ChoiceCharacter(c) ==
    /\ at[Worker(c)] = "idle" /\ at[Leaver(c)] = "here"
    /\ c \in mRoomPtr /\ mCurRoomStatusType = "ChoiceCharacter"
    /\ c \notin mIsChoiceCharacter
    /\ mIsChoiceCharacter' = mIsChoiceCharacter \cup {c}
    /\ Go(Worker(c), "waitTell")
    /\ UNCHANGED <<owner, queue, roomVars, mRoomPtr, threadVars, viewVars, ghosts>>

TellChoice(c) ==
    /\ at[Worker(c)] = "waitTell" /\ Free("room")
    /\ Go(Worker(c), "idle")
    /\ UNCHANGED <<owner, queue, roomVars, clientVars, threadVars, viewVars, ghosts>>

WorkerStep(c) ==
    \/ StartMatching(c) \/ Lock(Worker(c)) \/ AddClient(c) \/ GetUnUsedRoom(c)
    \/ AddClients(c) \/ MakeConnectRoom(c) \/ SendConnectRoom(c) \/ StartThread(c)
    \/ TellChoice(c)
-----------------------------------------------------------------------------
(***************************************************************************)
(* Server::Disconnect: out of the queue, a notice to the other players,    *)
(* and Client::Init, which takes the client out of its room.               *)
(***************************************************************************)
Disconnect(c) ==
    /\ at[Leaver(c)] = "here"
    /\ Go(Leaver(c), "waitQueue")
    /\ UNCHANGED <<owner, queue, roomVars, clientVars, threadVars, viewVars, ghosts>>

LeaveQueue(c) ==
    /\ at[Leaver(c)] = "waitQueue" /\ Free("queue")
    /\ queue' = RemoveFirst(queue, c)
    /\ Go(Leaver(c), "waitNotice")
    /\ UNCHANGED <<owner, roomVars, clientVars, threadVars, viewVars, ghosts>>

\* Mutant: the notice to the other players is forgotten.
SendNotice_Forgotten(c) ==
    /\ at[Leaver(c)] = "waitNotice" /\ c \in mRoomPtr /\ Free("room")
    /\ Go(Leaver(c), "waitClient")
    /\ UNCHANGED <<owner, queue, roomVars, clientVars, threadVars, viewVars, ghosts>>

\* SendPacketInAnotherRoomClients, without a room and with one.
SkipNotice(c) ==
    /\ at[Leaver(c)] = "waitNotice" /\ c \notin mRoomPtr
    /\ Go(Leaver(c), "waitClient")
    /\ UNCHANGED <<owner, queue, roomVars, clientVars, threadVars, viewVars, ghosts>>

SendNotice(c) ==
    /\ at[Leaver(c)] = "waitNotice" /\ c \in mRoomPtr /\ Free("room")
    /\ known' = [p \in Client |-> IF p \in mClients \ {c} THEN known[p] \ {c}
                                                          ELSE known[p]]
    /\ Go(Leaver(c), "waitClient")
    /\ UNCHANGED <<owner, queue, roomVars, clientVars, threadVars, announced, ghosts>>

\* Client::Init of a client without a room.
InitClient(c) ==
    /\ at[Leaver(c)] = "waitRemove" /\ c \notin mRoomPtr
    /\ Unlock({c})
    /\ Go(Leaver(c), "gone")
    /\ UNCHANGED <<queue, roomVars, clientVars, threadVars, viewVars, ghosts>>

\* Mutant: the others are told that somebody left by RemoveClient, under cLock.
RemoveClient_Tells(c) ==
    /\ at[Leaver(c)] = "inRemove"
    /\ mClients' = mClients \ {c}
    /\ Go(Leaver(c), "waitNotice")
    /\ UNCHANGED <<owner, queue, mIsRun, mIsFinishChoiceCharacter, mCurRoomStatusType,
                   clientVars, threadVars, viewVars, ghosts>>

\* The last one out resets the room: Room::Init.  Then the rest of
\* Client::Init.
RemoveClient(c) ==
    LET left == mClients \ {c} IN
    /\ at[Leaver(c)] = "inRemove"
    /\ mClients' = left
    /\ IF left = {}
       THEN /\ mIsRun' = FALSE /\ mIsFinishChoiceCharacter' = FALSE
            /\ mCurRoomStatusType' = "ChoiceCharacter"
       ELSE UNCHANGED <<mIsRun, mIsFinishChoiceCharacter, mCurRoomStatusType>>
    /\ mRoomPtr' = mRoomPtr \ {c}
    /\ mIsChoiceCharacter' = mIsChoiceCharacter \ {c}
    /\ Unlock({"room", c})
    /\ Go(Leaver(c), "gone")
    /\ miscounted' = (miscounted \/ (c \in mClients /\ at[Progress] = "compare"))
    /\ torn' = (torn \/ (c \in mClients /\ at[Progress] = "collect"))
    /\ UNCHANGED <<queue, threadVars, viewVars, late>>

LeaverStep(c) ==
    \/ LeaveQueue(c) \/ SkipNotice(c) \/ SendNotice(c) \/ InitClient(c) \/ RemoveClient(c)
    \/ (at[Leaver(c)] = "waitRemove" => c \in mRoomPtr) /\ Lock(Leaver(c))
-----------------------------------------------------------------------------
GoesOn == mIsRun /\ Cardinality(mClients) >= 2

\* Mutant: it is enough that all but one have chosen.
CompareReady_AllButOne ==
    /\ at[Progress] = "compare"
    /\ Go(Progress, IF readyCount + 1 >= Cardinality(mClients) /\ ~mIsFinishChoiceCharacter
                    THEN "waitAll" ELSE "ask")
    /\ readyCount' = 0
    /\ UNCHANGED <<owner, queue, roomVars, clientVars, seconds, bufferSize, length,
                   viewVars, ghosts>>

(***************************************************************************)
(* TrySendEnterInGame counts the players that have chosen, going through   *)
(* mClients with no lock, and then compares the number with its length.    *)
(***************************************************************************)
CountReady ==
    /\ at[Progress] = "choice"
    /\ IF Cardinality(mClients) < 2
       THEN Go(Progress, "ask") /\ UNCHANGED readyCount
       ELSE /\ Go(Progress, "compare")
            /\ readyCount' = Cardinality(mClients \cap mIsChoiceCharacter)
    /\ UNCHANGED <<owner, queue, roomVars, clientVars, seconds, bufferSize, length,
                   viewVars, ghosts>>

CompareReady ==
    /\ at[Progress] = "compare"
    /\ Go(Progress, IF readyCount = Cardinality(mClients) /\ ~mIsFinishChoiceCharacter
                    THEN "waitAll" ELSE "ask")
    /\ readyCount' = 0
    /\ UNCHANGED <<owner, queue, roomVars, clientVars, seconds, bufferSize, length,
                   viewVars, ghosts>>

SendChoiceAll ==
    /\ at[Progress] = "waitAll" /\ Free("room")
    /\ mIsFinishChoiceCharacter' = TRUE
    /\ Go(Progress, "ask")
    /\ UNCHANGED <<owner, queue, mIsRun, mClients, mCurRoomStatusType, clientVars,
                   threadVars, viewVars, ghosts>>

\* All have chosen, or the game is off, or another second has passed.
Ask ==
    LET last == seconds + 1 = CHOICE_CHARACTER_TIME IN
    /\ at[Progress] = "ask"
    /\ Go(Progress, IF mIsFinishChoiceCharacter THEN "branch"
                    ELSE IF ~GoesOn THEN "loopOut"
                    ELSE IF last THEN "branch" ELSE "choice")
    /\ seconds' = IF mIsFinishChoiceCharacter \/ ~GoesOn \/ last THEN 0 ELSE seconds + 1
    /\ UNCHANGED <<owner, queue, roomVars, clientVars, readyCount, bufferSize, length,
                   viewVars, ghosts>>

\* Mutant: the message is sized for a full room.
ReadSize_FullRoom ==
    /\ at[Progress] = "branch"
    /\ mCurRoomStatusType' = "CutSceneStage"
    /\ IF mIsFinishChoiceCharacter
       THEN /\ bufferSize' = Sizeof(cs_sc_ChangeCharacterPacket) * MAX_ROOM_PLAYER
            /\ Go(Progress, "collect")
       ELSE Go(Progress, "timeUp") /\ UNCHANGED bufferSize
    /\ UNCHANGED <<owner, queue, mIsRun, mClients, mIsFinishChoiceCharacter, clientVars,
                   seconds, readyCount, length, viewVars, ghosts>>

\* The message with everybody's character is sized first ...
ReadSize ==
    /\ at[Progress] = "branch"
    /\ mCurRoomStatusType' = "CutSceneStage"
    /\ IF mIsFinishChoiceCharacter
       THEN /\ bufferSize' = Sizeof(cs_sc_ChangeCharacterPacket) * Cardinality(mClients)
            /\ Go(Progress, "collect")
       ELSE Go(Progress, "timeUp") /\ UNCHANGED bufferSize
    /\ UNCHANGED <<owner, queue, mIsRun, mClients, mIsFinishChoiceCharacter, clientVars,
                   seconds, readyCount, length, viewVars, ghosts>>

\* ... and then filled from the list, with no lock.
CollectCharacters ==
    /\ at[Progress] = "collect"
    /\ length' = GetLength(ChangeCharacters(Cardinality(mClients), Cardinality(mClients)))
    /\ Go(Progress, "waitSync")
    /\ UNCHANGED <<owner, queue, roomVars, clientVars, seconds, readyCount, bufferSize,
                   viewVars, ghosts>>

\* Time is up: players that have not chosen are told what they get.
CollectUnconfirmed ==
    /\ at[Progress] = "timeUp"
    /\ \E empty \in 0..Cardinality(mClients) :
          LET written == GetLength(FinishChoiceTime(empty,
                             Cardinality(mClients \ mIsChoiceCharacter))) IN
          length' = written /\ bufferSize' = written
    /\ Go(Progress, "waitSync")
    /\ UNCHANGED <<owner, queue, roomVars, clientVars, seconds, readyCount, viewVars, ghosts>>

SendSync ==
    /\ at[Progress] = "waitSync" /\ Free("room")
    /\ Go(Progress, "cutScene")
    /\ bufferSize' = 0 /\ length' = 0
    /\ UNCHANGED <<owner, queue, roomVars, clientVars, seconds, readyCount, viewVars, ghosts>>

\* What follows is told by Room and Stage.
EnterCutSceneStage ==
    /\ at[Progress] = "cutScene"
    /\ Go(Progress, IF GoesOn THEN "playing" ELSE "loopOut")
    /\ UNCHANGED <<owner, queue, roomVars, clientVars, threadVars, viewVars, ghosts>>

\* Room::Init, with no lock.
LoopOut ==
    /\ at[Progress] = "loopOut"
    /\ mClients' = {} /\ mIsRun' = FALSE /\ mIsFinishChoiceCharacter' = FALSE
    /\ mCurRoomStatusType' = "ChoiceCharacter"
    /\ Go(Progress, "waitManager")
    /\ UNCHANGED <<owner, queue, clientVars, threadVars, viewVars, ghosts>>

FinishThread ==
    /\ at[Progress] = "inManager"
    /\ Unlock({"manager"})
    /\ Go(Progress, "over")
    /\ UNCHANGED <<queue, roomVars, clientVars, threadVars, viewVars, ghosts>>

ProgressStep ==
    \/ Lock(Progress) \/ CountReady \/ CompareReady \/ SendChoiceAll \/ Ask \/ ReadSize
    \/ CollectCharacters \/ CollectUnconfirmed \/ SendSync \/ EnterCutSceneStage
    \/ LoopOut \/ FinishThread
-----------------------------------------------------------------------------
\* SendMatchingQueueInfo, once a second.
LockQueue ==
    /\ at[Main] = "away" /\ queue # <<>> /\ Free("queue")
    /\ owner' = [owner EXCEPT !["queue"] = Main]
    /\ Go(Main, "inQueue")
    /\ UNCHANGED <<queue, roomVars, clientVars, threadVars, viewVars, ghosts>>

SendMatchingInfo ==
    /\ at[Main] = "inQueue"
    /\ Unlock({"queue"})
    /\ Go(Main, "away")
    /\ UNCHANGED <<queue, roomVars, clientVars, threadVars, viewVars, ghosts>>

MainStep == LockQueue \/ SendMatchingInfo

Next ==
    \/ \E c \in Client :
          WorkerStep(c) \/ LeaverStep(c) \/ ChoiceCharacter(c) \/ Disconnect(c)
    \/ ProgressStep
    \/ MainStep

Spec == Init /\ [][Next]_vars
-----------------------------------------------------------------------------
(***************************************************************************)
(* No threads wait for each other in a circle, or one for itself: among    *)
(* any threads that wait for locks there is one whose lock is free, or is  *)
(* held by a thread outside them.                                          *)
(***************************************************************************)
Waiting == {t \in Threads : at[t] \in WaitPlaces}

NoWaitCycle ==
    \A ring \in (SUBSET Waiting) \ {{}} : \E t \in ring : owner[Wanted(t)] \notin ring

(***************************************************************************)
(* What the room's thread sends is what it has written: the size it passes *)
(* to SendPacket is that of the packets in the stream, and the message     *)
(* fits into the buffer of an Exover.  Not so when a player leaves just    *)
(* between the sizing and the filling of the list of characters            *)
(* (Room.cpp:212-220); then bytes nobody has written are sent.             *)
(***************************************************************************)
MessagesAreWhole ==
    at[Progress] = "waitSync" =>
        /\ torn \/ bufferSize = length
        /\ bufferSize <= MAX_BUF_SIZE

(***************************************************************************)
(* The players of a room count on nobody who has left: whoever was named   *)
(* in sc_ConnectRoomPacket and is past Disconnect's notice has been taken  *)
(* back, unless the notice came before the list (Server.cpp:385-388).      *)
(***************************************************************************)
KnownAreThere ==
    \A p \in mClients : \A d \in known[p] \ {p} :
        at[Leaver(d)] \in PastNotice => d \in late

(***************************************************************************)
(* The choice of characters is over before its time only when every player *)
(* of the room has chosen, unless one left between the counting and the    *)
(* comparison (Room.cpp:153-161): then the number fits although somebody   *)
(* is missing.                                                             *)
(***************************************************************************)
ChoiceIsUnanimous ==
    mIsFinishChoiceCharacter => mClients \subseteq mIsChoiceCharacter \/ miscounted
=============================================================================
