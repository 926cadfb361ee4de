-------------------------------- MODULE Room --------------------------------
(***************************************************************************)
(* RoomManager.cpp and the life cycle of a room in Room.cpp: opening it    *)
(* for a group of matched clients, its ProgressThread, players leaving,    *)
(* and the end of the thread that makes the room available again.          *)
(*                                                                         *)
(* Three kinds of threads meet here.  The worker that completed a group    *)
(* opens the room, holding the lock of the queue, so one worker at a time  *)
(* does it.  Any thread that disconnects a client runs Client::Init, which *)
(* takes it out of its room under the room's cLock.  The progress thread   *)
(* of the room plays the game; it reads the room and, at the end, resets   *)
(* it without taking cLock.                                                *)
(*                                                                         *)
(* A group is made of distinct clients that have no room: what             *)
(* cs_startMatching asks for.  (Server shows when that fails.)             *)
(***************************************************************************)
EXTENDS Naturals, FiniteSets

CONSTANTS
    Client, MAX_ROOM_PLAYER, MAX_ROOM_COUNT,
    ProgressThread,   \* the threads that may run at a time, numbers
    SIZE_T,           \* size_t arithmetic is modulo this
    MaxOpenCount      \* bound: how often a room is opened

ASSUME RoomAssumption ==
    /\ MAX_ROOM_PLAYER \in Nat \ {0, 1}
    /\ MAX_ROOM_COUNT \in Nat \ {0}
    /\ ProgressThread \subseteq Nat
    /\ SIZE_T \in Nat /\ SIZE_T > 2 * MAX_ROOM_PLAYER
    /\ MaxOpenCount \in Nat

Rooms == 1..MAX_ROOM_COUNT
NoRoom == 0            \* nullptr
Nobody == "nobody"     \* no holder of a lock

VARIABLES
    mIsRun, mIsFinishThread, mOpenCount, mClients, mSize, cLock,  \* of a Room
    mIsFinishChoiceCharacter,
    mRoomPtr, mRoomOpenCount,          \* of a Client
    leaving,      \* where each client's Client::Init is
    opener,       \* the worker that opens a room: the room, for whom
    thread,       \* each progress thread: where it is, its room, its open count
    matched,      \* ghost: the group each room was last opened for
    abandoned     \* ghost: the rooms a thread has left without resetting them

roomVars   == <<mIsRun, mIsFinishThread, mOpenCount, mClients, mSize, cLock,
                mIsFinishChoiceCharacter>>
clientVars == <<mRoomPtr, mRoomOpenCount, leaving>>
vars == <<roomVars, clientVars, opener, thread, matched, abandoned>>

\* "none" is no thread; the other ones are the places of ProgressThread.
Pc == {"none", "created", "choice", "cutScene", "defaultItems", "firstCheck",
       "stage", "stageBody", "clear", "zero", "stop", "finish"}

NoThread == [pc |-> "none", room |-> 1, roomOpenCount |-> 0]
NoOpener == [room |-> NoRoom, group |-> {}]

TypeOK ==
    /\ mIsRun \in [Rooms -> BOOLEAN]
    /\ mIsFinishThread \in [Rooms -> BOOLEAN]
    /\ mOpenCount \in [Rooms -> Nat]
    /\ mClients \in [Rooms -> SUBSET Client]
    /\ mSize \in [Rooms -> 0..SIZE_T - 1]
    /\ cLock \in [Rooms -> Client \cup {Nobody}]
    /\ mIsFinishChoiceCharacter \in [Rooms -> BOOLEAN]
    /\ mRoomPtr \in [Client -> Rooms \cup {NoRoom}]
    /\ mRoomOpenCount \in [Client -> Nat]
    /\ leaving \in [Client -> {"no", "count", "test", "unset"}]
    /\ opener \in [room : Rooms \cup {NoRoom}, group : SUBSET Client]
    /\ thread \in [ProgressThread -> [pc : Pc, room : Rooms, roomOpenCount : Nat]]
    /\ matched \in [Rooms -> SUBSET Client]
    /\ abandoned \in SUBSET Rooms

Init ==
    /\ mIsRun = [r \in Rooms |-> FALSE]
    /\ mIsFinishThread = [r \in Rooms |-> TRUE]
    /\ mOpenCount = [r \in Rooms |-> 0]
    /\ mClients = [r \in Rooms |-> {}]
    /\ mSize = [r \in Rooms |-> 0]
    /\ cLock = [r \in Rooms |-> Nobody]
    /\ mIsFinishChoiceCharacter = [r \in Rooms |-> FALSE]
    /\ mRoomPtr = [c \in Client |-> NoRoom]
    /\ mRoomOpenCount = [c \in Client |-> 0]
    /\ leaving = [c \in Client |-> "no"]
    /\ opener = NoOpener
    /\ thread = [k \in ProgressThread |-> NoThread]
    /\ matched = [r \in Rooms |-> {}]
    /\ abandoned = {}
-----------------------------------------------------------------------------
(***************************************************************************)
(* GetUnUsedRoom: the first room that neither runs nor has a thread; the   *)
(* last room when there is none.                                           *)
(***************************************************************************)
UnUsed == {r \in Rooms : ~mIsRun[r] /\ mIsFinishThread[r]}

Groups == {G \in SUBSET {c \in Client : mRoomPtr[c] = NoRoom /\ leaving[c] = "no"} :
             Cardinality(G) = MAX_ROOM_PLAYER}

\* Mutant: AddOpenCount is forgotten.
Open_KeepsCount(r, group) ==
    /\ mOpenCount[r] < MaxOpenCount
    /\ opener' = [room |-> r, group |-> group]
    /\ matched' = [matched EXCEPT ![r] = group]
    /\ UNCHANGED <<mIsFinishThread, mOpenCount, mClients, mSize, cLock,
                   mIsFinishChoiceCharacter, clientVars, thread, abandoned>>

Open(r, group) ==
    /\ mOpenCount[r] < MaxOpenCount
    /\ mOpenCount' = [mOpenCount EXCEPT ![r] = @ + 1]
    /\ opener' = [room |-> r, group |-> group]
    /\ matched' = [matched EXCEPT ![r] = group]
    /\ UNCHANGED <<mIsFinishThread, mClients, mSize, cLock,
                   mIsFinishChoiceCharacter, clientVars, thread, abandoned>>

GetUnUsedRoom(r, group) ==
    /\ opener = NoOpener
    /\ r \in UnUsed /\ \A q \in UnUsed : r <= q
    /\ mIsRun' = [mIsRun EXCEPT ![r] = TRUE]
    /\ Open(r, group)

GetLastRoom(group) ==
    /\ opener = NoOpener
    /\ UnUsed = {}
    /\ Open(MAX_ROOM_COUNT, group)
    /\ UNCHANGED mIsRun

(***************************************************************************)
(* AddClients, unless the room is full; the worker then unlocks the queue, *)
(* and starts the room's thread in any case.                               *)
(***************************************************************************)
Join(r, group) ==
    /\ mClients' = [mClients EXCEPT ![r] = @ \cup group]
    /\ mSize' = [mSize EXCEPT ![r] = (@ + Cardinality(group)) % SIZE_T]
    /\ mRoomPtr' = [c \in Client |-> IF c \in group THEN r ELSE mRoomPtr[c]]
    /\ mRoomOpenCount' = [c \in Client |->
                            IF c \in group THEN mOpenCount[r] ELSE mRoomOpenCount[c]]

AddClients(k) ==
    LET r == opener.room IN
    /\ opener # NoOpener /\ cLock[r] = Nobody
    /\ IF mSize[r] = MAX_ROOM_PLAYER
       THEN UNCHANGED <<mClients, mSize, mRoomPtr, mRoomOpenCount>>
       ELSE Join(r, opener.group)
    /\ thread[k].pc = "none"
    /\ thread' = [thread EXCEPT ![k] =
                    [pc |-> "created", room |-> r, roomOpenCount |-> 0]]
    /\ opener' = NoOpener
    /\ UNCHANGED <<mIsRun, mIsFinishThread, mOpenCount, cLock,
                   mIsFinishChoiceCharacter, leaving, matched, abandoned>>
-----------------------------------------------------------------------------
\* Mutant: the client stays in mClients.
RemoveClient_KeepsEntry(c) ==
    LET r == mRoomPtr[c] IN
    /\ leaving[c] = "no" /\ r # NoRoom
    /\ cLock[r] = Nobody
    /\ cLock' = [cLock EXCEPT ![r] = c]
    /\ leaving' = [leaving EXCEPT ![c] =
                     IF c \in mClients[r] THEN "count" ELSE "test"]
    /\ UNCHANGED <<mIsRun, mIsFinishThread, mOpenCount, mClients, mSize,
                   mIsFinishChoiceCharacter, mRoomPtr, mRoomOpenCount, opener,
                   thread, matched, abandoned>>

(***************************************************************************)
(* Client::Init of a client with a room.  RemoveClient holds cLock, but    *)
(* the room's thread resets the room without it, and may do so between the *)
(* removal from mClients and the test of mSize.                            *)
(***************************************************************************)
RemoveClient(c) ==
    LET r == mRoomPtr[c] IN
    /\ leaving[c] = "no" /\ r # NoRoom
    /\ cLock[r] = Nobody
    /\ cLock' = [cLock EXCEPT ![r] = c]
    /\ leaving' = [leaving EXCEPT ![c] =
                     IF c \in mClients[r] THEN "count" ELSE "test"]
    /\ mClients' = [mClients EXCEPT ![r] = @ \ {c}]
    /\ UNCHANGED <<mIsRun, mIsFinishThread, mOpenCount, mSize,
                   mIsFinishChoiceCharacter, mRoomPtr, mRoomOpenCount, opener,
                   thread, matched, abandoned>>

\* Mutants: mSize is not decremented; mSize is a signed number.
RemoveClientTest_KeepsSize(c) ==
    LET r == mRoomPtr[c]
        empty == mSize[r] = 0 IN
    /\ leaving[c] \in {"count", "test"}
    /\ mClients' = [mClients EXCEPT ![r] = IF empty THEN {} ELSE @]
    /\ mIsRun' = [mIsRun EXCEPT ![r] = @ /\ ~empty]
    /\ mIsFinishChoiceCharacter' = [mIsFinishChoiceCharacter EXCEPT ![r] = @ /\ ~empty]
    /\ cLock' = [cLock EXCEPT ![r] = Nobody]
    /\ leaving' = [leaving EXCEPT ![c] = "unset"]
    /\ UNCHANGED <<mIsFinishThread, mOpenCount, mSize, mRoomPtr,
                   mRoomOpenCount, opener, thread, matched, abandoned>>

RemoveClientTest_Signed(c) ==
    LET r == mRoomPtr[c]
        size == IF leaving[c] = "count" THEN mSize[r] - 1
                                        ELSE mSize[r]
        empty == size = 0 IN
    /\ leaving[c] \in {"count", "test"}
    /\ mSize' = [mSize EXCEPT ![r] = size]
    /\ mClients' = [mClients EXCEPT ![r] = IF empty THEN {} ELSE @]
    /\ mIsRun' = [mIsRun EXCEPT ![r] = @ /\ ~empty]
    /\ mIsFinishChoiceCharacter' = [mIsFinishChoiceCharacter EXCEPT ![r] = @ /\ ~empty]
    /\ cLock' = [cLock EXCEPT ![r] = Nobody]
    /\ leaving' = [leaving EXCEPT ![c] = "unset"]
    /\ UNCHANGED <<mIsFinishThread, mOpenCount, mRoomPtr,
                   mRoomOpenCount, opener, thread, matched, abandoned>>

\* --mSize if the client was found; Init if nobody is left; unlock.
RemoveClientTest(c) ==
    LET r == mRoomPtr[c]
        size == IF leaving[c] = "count" THEN (mSize[r] + SIZE_T - 1) % SIZE_T
                                        ELSE mSize[r]
        empty == size = 0 IN
    /\ leaving[c] \in {"count", "test"}
    /\ mSize' = [mSize EXCEPT ![r] = size]
    /\ mClients' = [mClients EXCEPT ![r] = IF empty THEN {} ELSE @]
    /\ mIsRun' = [mIsRun EXCEPT ![r] = @ /\ ~empty]
    /\ mIsFinishChoiceCharacter' = [mIsFinishChoiceCharacter EXCEPT ![r] = @ /\ ~empty]
    /\ cLock' = [cLock EXCEPT ![r] = Nobody]
    /\ leaving' = [leaving EXCEPT ![c] = "unset"]
    /\ UNCHANGED <<mIsFinishThread, mOpenCount, mRoomPtr,
                   mRoomOpenCount, opener, thread, matched, abandoned>>

UnsetRoom(c) ==
    /\ leaving[c] = "unset"
    /\ mRoomPtr' = [mRoomPtr EXCEPT ![c] = NoRoom]
    /\ mRoomOpenCount' = [mRoomOpenCount EXCEPT ![c] = 0]
    /\ leaving' = [leaving EXCEPT ![c] = "no"]
    /\ UNCHANGED <<roomVars, opener, thread, matched, abandoned>>

LeaveRoom(c) == RemoveClient(c) \/ RemoveClientTest(c) \/ UnsetRoom(c)
-----------------------------------------------------------------------------
(***************************************************************************)
(* ProgressThread.  Between its sleeps the thread asks whether to go on:   *)
(* the room must run, have two players, and be open the same time the      *)
(* thread has noted.                                                       *)
(***************************************************************************)
At(k, pc) == thread[k].pc = pc
Goto(k, pc) == thread' = [thread EXCEPT ![k].pc = pc]

GoesOn(k) ==
    LET r == thread[k].room IN
    /\ mIsRun[r] /\ mSize[r] >= 2
    /\ mOpenCount[r] = thread[k].roomOpenCount

Begin(k) ==
    LET r == thread[k].room IN
    /\ At(k, "created")
    /\ mIsFinishThread' = [mIsFinishThread EXCEPT ![r] = FALSE]
    /\ thread' = [thread EXCEPT ![k].pc = "choice",
                                ![k].roomOpenCount = mOpenCount[r]]
    /\ UNCHANGED <<mIsRun, mOpenCount, mClients, mSize, cLock,
                   mIsFinishChoiceCharacter, clientVars, opener, matched, abandoned>>

\* TrySendEnterInGame: everybody has chosen a character.
AllHaveChosen(k) ==
    LET r == thread[k].room IN
    /\ At(k, "choice")
    /\ Cardinality(mClients[r]) >= 2
    /\ mIsFinishChoiceCharacter' = [mIsFinishChoiceCharacter EXCEPT ![r] = TRUE]
    /\ UNCHANGED <<mIsRun, mIsFinishThread, mOpenCount, mClients, mSize, cLock,
                   clientVars, opener, thread, matched, abandoned>>

\* Asked before anything else; time is up only while the game goes on.
ChoiceEnds(k) ==
    /\ At(k, "choice")
    /\ mIsFinishChoiceCharacter[thread[k].room] \/ GoesOn(k)
    /\ Goto(k, "cutScene")
    /\ UNCHANGED <<roomVars, clientVars, opener, matched, abandoned>>

CutSceneEnds(k) ==
    /\ At(k, "cutScene") /\ GoesOn(k)
    /\ Goto(k, "defaultItems")
    /\ UNCHANGED <<roomVars, clientVars, opener, matched, abandoned>>

GiveDefaultItems(k) ==
    /\ At(k, "defaultItems")
    /\ Goto(k, "firstCheck")
    /\ UNCHANGED <<roomVars, clientVars, opener, matched, abandoned>>

FirstStage(k) ==
    /\ At(k, "firstCheck") /\ GoesOn(k)
    /\ Goto(k, "stage")
    /\ UNCHANGED <<roomVars, clientVars, opener, matched, abandoned>>

\* The check after the default items ends the thread on the spot.
ExitEarly(k) ==
    /\ At(k, "firstCheck") /\ ~GoesOn(k)
    /\ thread' = [thread EXCEPT ![k] = NoThread]
    /\ abandoned' = abandoned \cup {thread[k].room}
    /\ UNCHANGED <<roomVars, clientVars, opener, matched>>

\* Each of ReadyStage, BattleStage and CreepStage notes the open count anew.
EnterStage(k) ==
    LET r == thread[k].room IN
    /\ At(k, "stage")
    /\ thread' = [thread EXCEPT ![k].roomOpenCount = mOpenCount[r],
                                ![k].pc = IF mIsRun[r] /\ mSize[r] >= 2
                                          THEN "stageBody" ELSE "clear"]
    /\ UNCHANGED <<roomVars, clientVars, opener, matched, abandoned>>

NextStage(k) ==
    /\ At(k, "stageBody") /\ GoesOn(k)
    /\ Goto(k, "stage")
    /\ UNCHANGED <<roomVars, clientVars, opener, matched, abandoned>>

LoopOut(k) ==
    /\ thread[k].pc \in {"choice", "cutScene", "stageBody"} /\ ~GoesOn(k)
    /\ At(k, "choice") => ~mIsFinishChoiceCharacter[thread[k].room]
    /\ Goto(k, "clear")
    /\ UNCHANGED <<roomVars, clientVars, opener, matched, abandoned>>

\* Room::Init, statement by statement, with no lock; then mIsFinishThread.
InitClients(k) ==
    /\ At(k, "clear")
    /\ mClients' = [mClients EXCEPT ![thread[k].room] = {}]
    /\ Goto(k, "zero")
    /\ UNCHANGED <<mIsRun, mIsFinishThread, mOpenCount, mSize, cLock,
                   mIsFinishChoiceCharacter, clientVars, opener, matched, abandoned>>

InitSize(k) ==
    /\ At(k, "zero")
    /\ mSize' = [mSize EXCEPT ![thread[k].room] = 0]
    /\ Goto(k, "stop")
    /\ UNCHANGED <<mIsRun, mIsFinishThread, mOpenCount, mClients, cLock,
                   mIsFinishChoiceCharacter, clientVars, opener, matched, abandoned>>

InitIsRun(k) ==
    /\ At(k, "stop")
    /\ mIsRun' = [mIsRun EXCEPT ![thread[k].room] = FALSE]
    /\ mIsFinishChoiceCharacter' =
          [mIsFinishChoiceCharacter EXCEPT ![thread[k].room] = FALSE]
    /\ Goto(k, "finish")
    /\ UNCHANGED <<mIsFinishThread, mOpenCount, mClients, mSize, cLock,
                   clientVars, opener, matched, abandoned>>

\* Mutant: the thread ends without a word, as after the default items.
FinishThread_Silent(k) ==
    /\ At(k, "finish")
    /\ thread' = [thread EXCEPT ![k] = NoThread]
    /\ UNCHANGED <<roomVars, clientVars, opener, matched, abandoned>>

FinishThread(k) ==
    /\ At(k, "finish")
    /\ mIsFinishThread' = [mIsFinishThread EXCEPT ![thread[k].room] = TRUE]
    /\ thread' = [thread EXCEPT ![k] = NoThread]
    /\ UNCHANGED <<mIsRun, mOpenCount, mClients, mSize, cLock,
                   mIsFinishChoiceCharacter, clientVars, opener, matched, abandoned>>

Progress(k) ==
    \/ Begin(k) \/ AllHaveChosen(k) \/ ChoiceEnds(k) \/ CutSceneEnds(k) \/ GiveDefaultItems(k)
    \/ FirstStage(k) \/ ExitEarly(k) \/ EnterStage(k) \/ NextStage(k)
    \/ LoopOut(k)
    \/ InitClients(k) \/ InitSize(k) \/ InitIsRun(k) \/ FinishThread(k)
-----------------------------------------------------------------------------
Next ==
    \/ \E group \in Groups :
          GetLastRoom(group) \/ \E r \in Rooms : GetUnUsedRoom(r, group)
    \/ \E k \in ProgressThread : AddClients(k) \/ Progress(k)
    \/ \E c \in Client : LeaveRoom(c)

Spec == Init /\ [][Next]_vars

(***************************************************************************)
(* A thread that runs keeps running: the room's, the worker that opens a   *)
(* room, the thread that is inside Client::Init.  Nothing makes clients    *)
(* ask for games or leave.                                                 *)
(***************************************************************************)
Fairness ==
    /\ WF_vars(\E k \in ProgressThread : AddClients(k))
    /\ \A k \in ProgressThread : WF_vars(Progress(k))
    /\ \A c \in Client : WF_vars(RemoveClientTest(c) \/ UnsetRoom(c))

FairSpec == Spec /\ Fairness
-----------------------------------------------------------------------------
(***************************************************************************)
(* A client is in the list of at most one room, the one it points to, so   *)
(* that its departure, which follows the pointer, takes it out of every    *)
(* list: no room is left with a player that has gone.                      *)
(***************************************************************************)
ClientKnowsRoom ==
    \A r \in Rooms : \A c \in mClients[r] : mRoomPtr[c] = r

(***************************************************************************)
(* IsValidClientInThisRoom takes a client for a player of the room's       *)
(* current game only if the room was last opened for it: a player of an    *)
(* earlier game that still points to the room does not pass.  (It does not *)
(* need the test of the socket, which is left out.)                        *)
(***************************************************************************)
IsValidClientInThisRoom(c, r) ==
    mRoomPtr[c] = r /\ mRoomOpenCount[c] = mOpenCount[r]

ValidClientWasMatched ==
    \A r \in Rooms, c \in Client :
        IsValidClientInThisRoom(c, r) => c \in matched[r]

(***************************************************************************)
(* A room that counts as in use has somebody who will see to its end: the  *)
(* worker that opens it, or a thread.  Otherwise it is lost to GetUnUsed-  *)
(* Room for good.  The one way to lose it is the check after the default   *)
(* items (Room.cpp:390-395), which ends the thread on the spot.            *)
(***************************************************************************)
IsServed(r) ==
    opener.room = r \/ \E k \in ProgressThread : thread[k].room = r /\ thread[k].pc # "none"

RoomInUseIsServed ==
    \A r \in Rooms \ UnUsed : IsServed(r) \/ r \in abandoned

(***************************************************************************)
(* No progress thread plays on for ever in a room with fewer than two      *)
(* players, unless mSize has wrapped below zero: RemoveClient can          *)
(* decrement it just after the room's thread has reset it without the lock *)
(* (Room.cpp, Init at loopOut), and a thread of another game of the room   *)
(* then takes the empty room for a full one.                               *)
(***************************************************************************)
Deserted(k) ==
    LET r == thread[k].room IN
    thread[k].pc # "none" /\ Cardinality(mClients[r]) < 2

HasWrapped(r) == mSize[r] > Cardinality(Client)

DesertedThreadEnds ==
    \A k \in ProgressThread :
        []<>(Deserted(k) => HasWrapped(thread[k].room))

(***************************************************************************)
(* The open count tells a thread from the thread of a later game in the    *)
(* same room (Room.h, on mOpenCount): two of them never hold the same one. *)
(***************************************************************************)
OpenCountTellsThreadsApart ==
    \A j, k \in ProgressThread :
        (/\ j # k /\ thread[j].room = thread[k].room
         /\ {thread[j].pc, thread[k].pc} \cap {"none", "created"} = {})
        => thread[j].roomOpenCount # thread[k].roomOpenCount
=============================================================================
