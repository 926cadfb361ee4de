----------------------------- MODULE RoomProof ------------------------------
(***************************************************************************)
(* For every number of clients, rooms and threads, and every interleaving  *)
(* of the threads: the lists of the rooms and the pointers of the clients  *)
(* agree (ClientKnowsRoom), and the test of the open count recognises the  *)
(* players of the current game (ValidClientWasMatched), although the       *)
(* room's thread resets the room without its lock; and a room in use is    *)
(* served by somebody (RoomInUseIsServed), or is one a thread has left     *)
(* behind.                                                                 *)
(***************************************************************************)
EXTENDS Room, TLAPS

(***************************************************************************)
(* What makes the two invariants inductive.  The group a room is being     *)
(* opened for has no room and cannot leave one, and is the group matched   *)
(* last; a client that is leaving is in no list any more; and no client    *)
(* has noted a later opening of its room than the last one, so that        *)
(* opening the room again makes the count of its old clients stale.        *)
(***************************************************************************)
OpenerWaits ==
    \/ opener = NoOpener
    \/ /\ opener.room \in Rooms
       /\ Cardinality(opener.group) = MAX_ROOM_PLAYER
       /\ matched[opener.room] = opener.group
       /\ \A c \in opener.group : mRoomPtr[c] = NoRoom /\ leaving[c] = "no"

LeaverIsOut ==
    \A c \in Client :
        /\ leaving[c] # "no" => \A r \in Rooms : c \notin mClients[r]
        /\ leaving[c] \in {"count", "test"} => mRoomPtr[c] \in Rooms

NotedCountIsPast ==
    \A c \in Client : mRoomPtr[c] \in Rooms =>
        mRoomOpenCount[c] <= mOpenCount[mRoomPtr[c]]

RoomInv ==
    /\ TypeOK /\ ClientKnowsRoom /\ ValidClientWasMatched
    /\ OpenerWaits /\ LeaverIsOut /\ NotedCountIsPast

USE DEF Rooms, NoRoom

LEMMA InitRoom == Init => RoomInv
<1> SUFFICES ASSUME Init PROVE RoomInv
  OBVIOUS
<1>1. TypeOK
  BY RoomAssumption DEF Init, TypeOK, NoOpener, NoThread, Nobody, Pc
<1> QED BY <1>1 DEF Init, RoomInv, ClientKnowsRoom, ValidClientWasMatched,
           IsValidClientInThisRoom, OpenerWaits, LeaverIsOut, NotedCountIsPast
-----------------------------------------------------------------------------
(***************************************************************************)
(* GetUnUsedRoom and GetLastRoom both open some room for a group.          *)
(***************************************************************************)
LEMMA OpenRoom ==
    ASSUME RoomInv, NEW r \in Rooms, NEW group \in Groups, opener = NoOpener,
           Open(r, group), mIsRun' \in [Rooms -> BOOLEAN]
    PROVE  RoomInv'
<1> USE DEF Open, clientVars
<1>1. /\ group \subseteq Client
      /\ Cardinality(group) = MAX_ROOM_PLAYER
      /\ \A c \in group : mRoomPtr[c] = NoRoom /\ leaving[c] = "no"
  BY DEF Groups
<1>2. TypeOK'
  <2>0. mOpenCount \in [Rooms -> Nat] /\ matched \in [Rooms -> SUBSET Client]
    BY DEF RoomInv, TypeOK
  <2>1. mOpenCount' \in [Rooms -> Nat] /\ matched' \in [Rooms -> SUBSET Client]
    <3>1. mOpenCount[r] + 1 \in Nat
      BY <2>0
    <3> QED BY <1>1, <2>0, <3>1
  <2>2. opener' \in [room : Rooms \cup {NoRoom}, group : SUBSET Client]
    BY <1>1
  <2>3. UNCHANGED <<mIsFinishThread, mClients, mSize, cLock,
                    mIsFinishChoiceCharacter, mRoomPtr, mRoomOpenCount,
                    leaving, thread>>
    OBVIOUS
  <2> QED BY <2>1, <2>2, <2>3 DEF RoomInv, TypeOK
<1>3. mOpenCount \in [Rooms -> Nat] /\ matched \in [Rooms -> SUBSET Client]
  BY DEF RoomInv, TypeOK
<1>4. ClientKnowsRoom'
  BY DEF RoomInv, ClientKnowsRoom
<1>5. OpenerWaits'
  BY <1>1, <1>3 DEF OpenerWaits
<1>6. LeaverIsOut'
  BY DEF RoomInv, LeaverIsOut
<1>7. mRoomOpenCount \in [Client -> Nat]
  BY DEF RoomInv, TypeOK
<1>8. NotedCountIsPast'
  BY <1>3, <1>7 DEF RoomInv, NotedCountIsPast
<1>9. ValidClientWasMatched'
  <2> SUFFICES ASSUME NEW q \in Rooms, NEW c \in Client,
                      IsValidClientInThisRoom(c, q)'
               PROVE  (c \in matched[q])'
    BY DEF ValidClientWasMatched
  <2>1. mRoomPtr[c] = q /\ mRoomOpenCount[c] = mOpenCount'[q]
    BY DEF IsValidClientInThisRoom
  <2>2. mRoomOpenCount[c] <= mOpenCount[q]
    BY <2>1 DEF RoomInv, NotedCountIsPast
  <2>3. q # r
    BY <1>3, <1>7, <2>1, <2>2
  <2>4. c \in matched[q]
    BY <1>3, <2>1, <2>3 DEF RoomInv, ValidClientWasMatched, IsValidClientInThisRoom
  <2> QED BY <1>3, <2>3, <2>4
<1> QED BY <1>2, <1>4, <1>5, <1>6, <1>8, <1>9 DEF RoomInv

LEMMA AddClientsRoom ==
    ASSUME RoomInv, NEW k \in ProgressThread, AddClients(k)
    PROVE  RoomInv'
<1> DEFINE r == opener.room
           group == opener.group
<1>1. /\ r \in Rooms
      /\ Cardinality(group) = MAX_ROOM_PLAYER /\ matched[r] = group
      /\ \A c \in group : mRoomPtr[c] = NoRoom /\ leaving[c] = "no"
  BY DEF RoomInv, OpenerWaits, AddClients
<1>2. group \subseteq Client
  BY DEF RoomInv, TypeOK
<1>3. opener' = NoOpener /\ OpenerWaits'
  BY DEF AddClients, OpenerWaits
<1>4. /\ mClients \in [Rooms -> SUBSET Client]
      /\ mRoomPtr \in [Client -> Rooms \cup {NoRoom}]
      /\ mOpenCount \in [Rooms -> Nat] /\ mRoomOpenCount \in [Client -> Nat]
      /\ mSize \in [Rooms -> 0..SIZE_T - 1]
      /\ thread \in [ProgressThread -> [pc : Pc, room : Rooms, roomOpenCount : Nat]]
  BY DEF RoomInv, TypeOK
<1>5. thread' \in [ProgressThread -> [pc : Pc, room : Rooms, roomOpenCount : Nat]]
  BY <1>1, <1>4 DEF AddClients, Pc
<1>6. opener' \in [room : Rooms \cup {NoRoom}, group : SUBSET Client]
  BY <1>3 DEF NoOpener
<1>7. CASE mSize[r] = MAX_ROOM_PLAYER
  <2>1. UNCHANGED <<mClients, mSize, mRoomPtr, mRoomOpenCount, mIsRun,
                    mIsFinishThread, mOpenCount, cLock,
                    mIsFinishChoiceCharacter, leaving, matched, abandoned>>
    BY <1>7 DEF AddClients
  <2>2. TypeOK'
    BY <2>1, <1>5, <1>6 DEF RoomInv, TypeOK
  <2> QED BY <2>1, <2>2, <1>3 DEF RoomInv, ClientKnowsRoom, ValidClientWasMatched,
             IsValidClientInThisRoom, LeaverIsOut, NotedCountIsPast
<1>8. CASE mSize[r] # MAX_ROOM_PLAYER
  <2>1. Join(r, group)
    BY <1>8 DEF AddClients
  <2>2. UNCHANGED <<mIsRun, mIsFinishThread, mOpenCount, cLock,
                    mIsFinishChoiceCharacter, leaving, matched, abandoned>>
    BY DEF AddClients
  <2>3. /\ mClients' = [mClients EXCEPT ![r] = @ \cup group]
        /\ mSize' = [mSize EXCEPT ![r] = (@ + MAX_ROOM_PLAYER) % SIZE_T]
        /\ mRoomPtr' = [c \in Client |-> IF c \in group THEN r ELSE mRoomPtr[c]]
        /\ mRoomOpenCount' = [c \in Client |-> IF c \in group THEN mOpenCount[r]
                                               ELSE mRoomOpenCount[c]]
    BY <2>1, <1>1 DEF Join
  <2>4. mSize' \in [Rooms -> 0..SIZE_T - 1]
    <3>1. \A n \in Nat : n % SIZE_T \in 0..SIZE_T - 1
      BY RoomAssumption
    <3>2. (mSize[r] + MAX_ROOM_PLAYER) % SIZE_T \in 0..SIZE_T - 1
      <4>1. mSize[r] + MAX_ROOM_PLAYER \in Nat
        BY <1>1, <1>4, RoomAssumption
      <4> QED BY <3>1, <4>1
    <3> QED BY <2>3, <3>2, <1>4
  <2>5. TypeOK'
    <3>1. /\ mClients' \in [Rooms -> SUBSET Client]
          /\ mRoomPtr' \in [Client -> Rooms \cup {NoRoom}]
          /\ mRoomOpenCount' \in [Client -> Nat]
      BY <2>3, <1>1, <1>2, <1>4
    <3> QED BY <3>1, <2>2, <2>4, <1>5, <1>6 DEF RoomInv, TypeOK
  <2>6. ClientKnowsRoom'
    BY <2>3, <1>1, <1>2, <1>4 DEF RoomInv, ClientKnowsRoom
  <2>7. LeaverIsOut'
    BY <2>2, <2>3, <1>1, <1>2, <1>4 DEF RoomInv, LeaverIsOut
  <2>8. NotedCountIsPast'
    BY <2>2, <2>3, <1>1, <1>2, <1>4 DEF RoomInv, NotedCountIsPast
  <2>9. ValidClientWasMatched'
    BY <2>2, <2>3, <1>1, <1>2, <1>4
       DEF RoomInv, ValidClientWasMatched, IsValidClientInThisRoom
  <2> QED BY <2>5, <2>6, <2>7, <2>8, <2>9, <1>3 DEF RoomInv
<1> QED BY <1>7, <1>8
-----------------------------------------------------------------------------
LEMMA LeaveRoomRoom ==
    ASSUME RoomInv, NEW c \in Client, LeaveRoom(c)
    PROVE  RoomInv'
<1>1. CASE RemoveClient(c)
  <2>1. mRoomPtr[c] \in Rooms
    BY <1>1 DEF RoomInv, TypeOK, RemoveClient
  <2>2. TypeOK'
    BY <1>1, <2>1 DEF RoomInv, TypeOK, RemoveClient
  <2>3. \A r \in Rooms : mClients'[r] \subseteq mClients[r] /\ c \notin mClients'[r]
    BY <1>1, <2>1 DEF RoomInv, TypeOK, ClientKnowsRoom, RemoveClient
  <2>4. \A d \in Client \ {c} : leaving'[d] = leaving[d]
    BY <1>1 DEF RoomInv, TypeOK, RemoveClient
  <2>5. ClientKnowsRoom' /\ LeaverIsOut'
    BY <1>1, <2>1, <2>3, <2>4 DEF RoomInv, ClientKnowsRoom, LeaverIsOut, RemoveClient
  <2>6. OpenerWaits'
    BY <1>1, <2>1, <2>4 DEF RoomInv, TypeOK, OpenerWaits, RemoveClient
  <2>7. ValidClientWasMatched' /\ NotedCountIsPast'
    BY <1>1 DEF RoomInv, ValidClientWasMatched, IsValidClientInThisRoom,
                NotedCountIsPast, RemoveClient
  <2> QED BY <2>2, <2>5, <2>6, <2>7 DEF RoomInv
<1>2. CASE RemoveClientTest(c)
  <2>1. mRoomPtr[c] \in Rooms
    BY <1>2 DEF RoomInv, LeaverIsOut, RemoveClientTest
  <2>2. mSize' \in [Rooms -> 0..SIZE_T - 1]
    BY <1>2, <2>1, RoomAssumption DEF RoomInv, TypeOK, RemoveClientTest
  <2>3. TypeOK'
    BY <1>2, <2>1, <2>2 DEF RoomInv, TypeOK, RemoveClientTest
  <2>4. \A r \in Rooms : mClients'[r] \subseteq mClients[r]
    BY <1>2, <2>1 DEF RoomInv, TypeOK, RemoveClientTest
  <2>5. \A d \in Client \ {c} : leaving'[d] = leaving[d]
    BY <1>2 DEF RoomInv, TypeOK, RemoveClientTest
  <2>6. leaving[c] # "no" /\ leaving'[c] = "unset"
    BY <1>2 DEF RoomInv, TypeOK, RemoveClientTest
  <2>7. ClientKnowsRoom' /\ LeaverIsOut'
    BY <1>2, <2>4, <2>5, <2>6
       DEF RoomInv, ClientKnowsRoom, LeaverIsOut, RemoveClientTest
  <2>8. OpenerWaits'
    BY <1>2, <2>5, <2>6 DEF RoomInv, TypeOK, OpenerWaits, RemoveClientTest
  <2>9. ValidClientWasMatched' /\ NotedCountIsPast'
    BY <1>2 DEF RoomInv, ValidClientWasMatched, IsValidClientInThisRoom,
                NotedCountIsPast, RemoveClientTest
  <2> QED BY <2>3, <2>7, <2>8, <2>9 DEF RoomInv
<1>3. CASE UnsetRoom(c)
  <2>1. TypeOK'
    BY <1>3 DEF RoomInv, TypeOK, UnsetRoom, roomVars
  <2>2. \A r \in Rooms : c \notin mClients[r]
    BY <1>3 DEF RoomInv, LeaverIsOut, UnsetRoom
  <2>3. /\ \A d \in Client \ {c} : /\ leaving'[d] = leaving[d]
                                   /\ mRoomPtr'[d] = mRoomPtr[d]
                                   /\ mRoomOpenCount'[d] = mRoomOpenCount[d]
        /\ leaving'[c] = "no" /\ mRoomPtr'[c] = NoRoom
    BY <1>3 DEF RoomInv, TypeOK, UnsetRoom
  <2>4. ClientKnowsRoom' /\ LeaverIsOut'
    BY <1>3, <2>2, <2>3 DEF RoomInv, ClientKnowsRoom, LeaverIsOut, UnsetRoom, roomVars,
                            TypeOK
  <2>5. OpenerWaits'
    BY <1>3, <2>3 DEF RoomInv, OpenerWaits, UnsetRoom
  <2>6. ValidClientWasMatched' /\ NotedCountIsPast'
    BY <1>3, <2>3 DEF RoomInv, ValidClientWasMatched, IsValidClientInThisRoom,
                      NotedCountIsPast, UnsetRoom, roomVars
  <2> QED BY <2>1, <2>4, <2>5, <2>6 DEF RoomInv
<1> QED BY <1>1, <1>2, <1>3 DEF LeaveRoom
-----------------------------------------------------------------------------
(***************************************************************************)
(* The room's thread only ever takes clients out of its room's list; it    *)
(* touches no client and no open count.                                    *)
(***************************************************************************)
LEMMA ProgressTypeOK ==
    ASSUME TypeOK, NEW k \in ProgressThread, Progress(k)
    PROVE  TypeOK'
<1> USE DEF TypeOK, Pc, At, Goto, roomVars, clientVars
<1>0. thread[k].room \in Rooms
  OBVIOUS
<1>1. CASE Begin(k)
  BY <1>0, <1>1, ZenonT(40) DEF Begin
<1>2. CASE AllHaveChosen(k)
  BY <1>0, <1>2 DEF AllHaveChosen
<1>3. CASE ChoiceEnds(k)
  BY <1>3 DEF ChoiceEnds
<1>4. CASE CutSceneEnds(k)
  BY <1>4 DEF CutSceneEnds
<1>5. CASE GiveDefaultItems(k)
  BY <1>5 DEF GiveDefaultItems
<1>6. CASE FirstStage(k)
  BY <1>6 DEF FirstStage
<1>7. CASE ExitEarly(k)
  <2>1. thread' \in [ProgressThread -> [pc : Pc, room : Rooms, roomOpenCount : Nat]]
    BY <1>7, RoomAssumption DEF ExitEarly, NoThread
  <2>2. abandoned' \in SUBSET Rooms
    BY <1>0, <1>7 DEF ExitEarly
  <2> QED BY <1>7, <2>1, <2>2 DEF ExitEarly
<1>8. CASE EnterStage(k)
  <2>1. thread' \in [ProgressThread -> [pc : Pc, room : Rooms, roomOpenCount : Nat]]
    BY <1>0, <1>8 DEF EnterStage
  <2> QED BY <1>8, <2>1 DEF EnterStage
<1>9. CASE NextStage(k)
  BY <1>9 DEF NextStage
<1>10. CASE LoopOut(k)
  BY <1>10 DEF LoopOut
<1>11. CASE InitClients(k)
  BY <1>0, <1>11 DEF InitClients
<1>12. CASE InitSize(k)
  <2>1. 0 \in 0..SIZE_T - 1
    BY RoomAssumption
  <2> QED BY <1>0, <1>12, <2>1 DEF InitSize
<1>13. CASE InitIsRun(k)
  BY <1>0, <1>13 DEF InitIsRun
<1>14. CASE FinishThread(k)
  BY <1>0, <1>14, RoomAssumption, SMTT(30) DEF FinishThread, NoThread
<1> QED BY <1>1, <1>2, <1>3, <1>4, <1>5, <1>6, <1>7, <1>8, <1>9, <1>10,
           <1>11, <1>12, <1>13, <1>14 DEF Progress

LEMMA ProgressRoom ==
    ASSUME RoomInv, NEW k \in ProgressThread, Progress(k)
    PROVE  RoomInv'
<1>1. TypeOK'
  BY ProgressTypeOK DEF RoomInv
<1>2. UNCHANGED <<mOpenCount, mRoomPtr, mRoomOpenCount, leaving, opener, matched>>
  BY DEF Progress, Begin, AllHaveChosen, ChoiceEnds, CutSceneEnds,
         GiveDefaultItems, FirstStage, ExitEarly, EnterStage, NextStage, LoopOut,
         InitClients, InitSize, InitIsRun, FinishThread, roomVars, clientVars
<1>3. \A r \in Rooms : mClients'[r] \subseteq mClients[r]
  <2>1. CASE InitClients(k)
    BY <2>1 DEF RoomInv, TypeOK, InitClients
  <2>2. CASE ~InitClients(k)
    BY <2>2 DEF Progress, Begin, AllHaveChosen, ChoiceEnds, CutSceneEnds,
         GiveDefaultItems, FirstStage, ExitEarly, EnterStage, NextStage, LoopOut,
         InitSize, InitIsRun, FinishThread, roomVars, clientVars
  <2> QED BY <2>1, <2>2
<1> QED BY <1>1, <1>2, <1>3
        DEF RoomInv, ClientKnowsRoom, ValidClientWasMatched,
            IsValidClientInThisRoom, OpenerWaits, LeaverIsOut, NotedCountIsPast
-----------------------------------------------------------------------------
LEMMA NextRoom ==
    ASSUME RoomInv, [Next]_vars
    PROVE  RoomInv'
<1>1. ASSUME NEW group \in Groups, GetLastRoom(group) PROVE RoomInv'
  <2>1. MAX_ROOM_COUNT \in Rooms /\ mIsRun' \in [Rooms -> BOOLEAN]
    BY <1>1, RoomAssumption DEF RoomInv, TypeOK, GetLastRoom
  <2> QED BY <1>1, <2>1, OpenRoom DEF GetLastRoom
<1>2. ASSUME NEW group \in Groups, NEW r \in Rooms, GetUnUsedRoom(r, group)
      PROVE  RoomInv'
  <2>1. mIsRun' \in [Rooms -> BOOLEAN]
    BY <1>2 DEF RoomInv, TypeOK, GetUnUsedRoom
  <2> QED BY <1>2, <2>1, OpenRoom DEF GetUnUsedRoom
<1>3. ASSUME NEW k \in ProgressThread, AddClients(k) PROVE RoomInv'
  BY <1>3, AddClientsRoom
<1>4. ASSUME NEW k \in ProgressThread, Progress(k) PROVE RoomInv'
  BY <1>4, ProgressRoom
<1>5. ASSUME NEW c \in Client, LeaveRoom(c) PROVE RoomInv'
  BY <1>5, LeaveRoomRoom
<1>6. CASE UNCHANGED vars
  BY <1>6 DEF RoomInv, TypeOK, ClientKnowsRoom, ValidClientWasMatched,
     IsValidClientInThisRoom, OpenerWaits, LeaverIsOut, NotedCountIsPast,
     vars, roomVars, clientVars
<1> QED BY <1>1, <1>2, <1>3, <1>4, <1>5, <1>6 DEF Next

LEMMA RoomInvHolds == Spec => []RoomInv
BY InitRoom, NextRoom, PTL DEF Spec

(***************************************************************************)
(* Every variable of the rooms, the clients and the threads keeps its      *)
(* type; in particular mSize stays a size_t.                               *)
(***************************************************************************)
THEOREM RoomTypeCorrect == Spec => []TypeOK
<1>1. RoomInv => TypeOK
  BY DEF RoomInv
<1> QED BY RoomInvHolds, <1>1, PTL

(***************************************************************************)
(* A client in the list of a room points to that room.                     *)
(***************************************************************************)
THEOREM ListedClientKnowsRoom == Spec => []ClientKnowsRoom
<1>1. RoomInv => ClientKnowsRoom
  BY DEF RoomInv
<1> QED BY RoomInvHolds, <1>1, PTL

(***************************************************************************)
(* IsValidClientInThisRoom holds only of players of the room's last group. *)
(***************************************************************************)
THEOREM ValidClientIsMatched == Spec => []ValidClientWasMatched
<1>1. RoomInv => ValidClientWasMatched
  BY DEF RoomInv
<1> QED BY RoomInvHolds, <1>1, PTL
-----------------------------------------------------------------------------
(***************************************************************************)
(* Why a room in use is served.  While it runs, some thread of it, or the  *)
(* one the worker is about to start, has not yet come to mIsRun = false;   *)
(* a thread at its very end does not count.  While mIsFinishThread is      *)
(* false, some thread of it has not ended.                                 *)
(***************************************************************************)
WillStop(r) ==
    \/ opener.room = r
    \/ \E k \in ProgressThread : thread[k].room = r /\ thread[k].pc \notin {"none", "finish"}
    \/ r \in abandoned

WillFinish(r) ==
    \/ \E k \in ProgressThread : thread[k].room = r /\ thread[k].pc # "none"
    \/ r \in abandoned

ServedInv ==
    \A r \in Rooms : /\ mIsRun[r] => WillStop(r)
                     /\ ~mIsFinishThread[r] => WillFinish(r)

\* No room is in use at first.
LEMMA InitServed == Init => ServedInv
  BY DEF Init, ServedInv

\* Where no room comes into use, no thread ends and none comes to "finish".
LEMMA StaysServed ==
    ASSUME ServedInv, TypeOK,
           \A r \in Rooms : (mIsRun'[r] => mIsRun[r]) /\ (mIsFinishThread[r] => mIsFinishThread'[r]),
           opener' = opener, abandoned' = abandoned,
           \A k \in ProgressThread :
               /\ thread'[k].room = thread[k].room
               /\ thread[k].pc # "none" => thread'[k].pc # "none"
               /\ thread'[k].pc = "finish" => thread[k].pc = "finish"
    PROVE  ServedInv'
<1> SUFFICES ASSUME NEW r \in Rooms
             PROVE  /\ mIsRun'[r] => WillStop(r)'
                    /\ ~mIsFinishThread'[r] => WillFinish(r)'
  BY DEF ServedInv
<1>1. WillStop(r) => WillStop(r)'
  BY DEF WillStop
<1>2. WillFinish(r) => WillFinish(r)'
  BY DEF WillFinish
<1> QED BY <1>1, <1>2 DEF ServedInv

\* A thread of the room: it begins, plays, and ends.
LEMMA ProgressServed ==
    ASSUME ServedInv, TypeOK, NEW k \in ProgressThread, Progress(k)
    PROVE  ServedInv'
<1> DEFINE r == thread[k].room
<1>0. /\ r \in Rooms /\ thread \in [ProgressThread -> [pc : Pc, room : Rooms, roomOpenCount : Nat]]
      /\ mIsRun \in [Rooms -> BOOLEAN] /\ mIsFinishThread \in [Rooms -> BOOLEAN]
  BY DEF TypeOK
<1> USE DEF At, Goto, roomVars
<1>1. CASE Begin(k)
  <2>1. /\ thread'[k].room = r /\ thread'[k].pc = "choice"
        /\ \A j \in ProgressThread : j # k => thread'[j] = thread[j]
        /\ \A q \in Rooms : q # r => mIsFinishThread'[q] = mIsFinishThread[q]
        /\ mIsRun' = mIsRun /\ opener' = opener /\ abandoned' = abandoned
    BY <1>0, <1>1 DEF Begin
  <2>2. ASSUME NEW q \in Rooms, WillStop(q) PROVE WillStop(q)'
    BY <2>1, <2>2 DEF WillStop
  <2>3. ASSUME NEW q \in Rooms, q = r \/ WillFinish(q) PROVE WillFinish(q)'
    BY <2>1, <2>3 DEF WillFinish
  <2> QED BY <2>1, <2>2, <2>3 DEF ServedInv
<1>2. CASE \/ AllHaveChosen(k) \/ ChoiceEnds(k) \/ CutSceneEnds(k) \/ GiveDefaultItems(k)
           \/ FirstStage(k) \/ EnterStage(k) \/ NextStage(k) \/ LoopOut(k)
           \/ InitClients(k) \/ InitSize(k)
  <2>1. /\ mIsRun' = mIsRun /\ mIsFinishThread' = mIsFinishThread
        /\ opener' = opener /\ abandoned' = abandoned
    BY <1>2 DEF AllHaveChosen, ChoiceEnds, CutSceneEnds, GiveDefaultItems, FirstStage,
       EnterStage, NextStage, LoopOut, InitClients, InitSize
  <2>2. /\ thread'[k].room = r /\ thread'[k].pc \notin {"none", "finish"}
        /\ \A j \in ProgressThread : j # k => thread'[j] = thread[j]
    BY <1>0, <1>2 DEF AllHaveChosen, ChoiceEnds, CutSceneEnds, GiveDefaultItems, FirstStage,
       EnterStage, NextStage, LoopOut, InitClients, InitSize
  <2> QED BY <2>1, <2>2, StaysServed
<1>3. CASE ExitEarly(k)
  <2>1. /\ mIsRun' = mIsRun /\ mIsFinishThread' = mIsFinishThread /\ opener' = opener
        /\ abandoned' = abandoned \cup {r}
        /\ \A j \in ProgressThread : j # k => thread'[j] = thread[j]
    BY <1>0, <1>3 DEF ExitEarly
  <2>2. ASSUME NEW q \in Rooms, WillStop(q) PROVE WillStop(q)'
    BY <2>1, <2>2 DEF WillStop
  <2>3. ASSUME NEW q \in Rooms, WillFinish(q) PROVE WillFinish(q)'
    BY <2>1, <2>3 DEF WillFinish
  <2> QED BY <2>1, <2>2, <2>3 DEF ServedInv
<1>4. CASE InitIsRun(k)
  <2>1. /\ thread'[k].room = r /\ thread'[k].pc = "finish"
        /\ \A j \in ProgressThread : j # k => thread'[j] = thread[j]
        /\ \A q \in Rooms : mIsRun'[q] => mIsRun[q] /\ q # r
        /\ mIsFinishThread' = mIsFinishThread /\ opener' = opener /\ abandoned' = abandoned
    BY <1>0, <1>4 DEF InitIsRun
  <2>2. ASSUME NEW q \in Rooms, q # r, WillStop(q) PROVE WillStop(q)'
    BY <2>1, <2>2 DEF WillStop
  <2>3. ASSUME NEW q \in Rooms, WillFinish(q) PROVE WillFinish(q)'
    BY <2>1, <2>3 DEF WillFinish
  <2> QED BY <2>1, <2>2, <2>3 DEF ServedInv
<1>5. CASE FinishThread(k)
  <2>1. /\ thread[k].pc = "finish"
        /\ \A j \in ProgressThread : j # k => thread'[j] = thread[j]
        /\ \A q \in Rooms : ~mIsFinishThread'[q] => ~mIsFinishThread[q] /\ q # r
        /\ mIsRun' = mIsRun /\ opener' = opener /\ abandoned' = abandoned
    BY <1>0, <1>5 DEF FinishThread
  <2>2. ASSUME NEW q \in Rooms, WillStop(q) PROVE WillStop(q)'
    BY <2>1, <2>2 DEF WillStop
  <2>3. ASSUME NEW q \in Rooms, q # r, WillFinish(q) PROVE WillFinish(q)'
    BY <2>1, <2>3 DEF WillFinish
  <2> QED BY <2>1, <2>2, <2>3 DEF ServedInv
<1> QED BY <1>1, <1>2, <1>3, <1>4, <1>5 DEF Progress

\* The worker that opens the room hands it over to a thread.
LEMMA OpenerServed ==
    ASSUME RoomInv, ServedInv,
           \/ \E group \in Groups :
                 GetLastRoom(group) \/ \E r \in Rooms : GetUnUsedRoom(r, group)
           \/ \E k \in ProgressThread : AddClients(k)
    PROVE  ServedInv'
<1>0. /\ thread \in [ProgressThread -> [pc : Pc, room : Rooms, roomOpenCount : Nat]]
      /\ mIsRun \in [Rooms -> BOOLEAN] /\ mIsFinishThread \in [Rooms -> BOOLEAN]
  BY DEF RoomInv, TypeOK
<1>1. ASSUME NEW group \in Groups, GetLastRoom(group) PROVE ServedInv'
  <2>1. /\ opener = NoOpener /\ mIsRun' = mIsRun /\ mIsFinishThread' = mIsFinishThread
        /\ thread' = thread /\ abandoned' = abandoned
    BY <1>1 DEF GetLastRoom, Open
  <2> QED BY <2>1 DEF ServedInv, WillStop, WillFinish, NoOpener
<1>2. ASSUME NEW group \in Groups, NEW q \in Rooms, GetUnUsedRoom(q, group) PROVE ServedInv'
  <2>1. /\ opener = NoOpener /\ opener'.room = q /\ mIsFinishThread' = mIsFinishThread
        /\ \A r \in Rooms : r # q => mIsRun'[r] = mIsRun[r]
        /\ thread' = thread /\ abandoned' = abandoned
    BY <1>0, <1>2 DEF GetUnUsedRoom, Open
  <2> QED BY <2>1 DEF ServedInv, WillStop, WillFinish, NoOpener
<1>3. ASSUME NEW k \in ProgressThread, AddClients(k) PROVE ServedInv'
  <2>1. /\ opener.room \in Rooms /\ thread[k].pc = "none"
        /\ mIsRun' = mIsRun /\ mIsFinishThread' = mIsFinishThread /\ abandoned' = abandoned
        /\ thread' = [thread EXCEPT ![k] =
                        [pc |-> "created", room |-> opener.room, roomOpenCount |-> 0]]
    BY <1>3 DEF AddClients, RoomInv, OpenerWaits
  <2>2. /\ thread'[k].room = opener.room /\ thread'[k].pc = "created"
        /\ \A j \in ProgressThread : j # k => thread'[j] = thread[j]
    BY <1>0, <2>1
  <2>3. ASSUME NEW r \in Rooms, WillStop(r) PROVE WillStop(r)'
    BY <2>1, <2>2, <2>3 DEF WillStop
  <2>4. ASSUME NEW r \in Rooms, WillFinish(r) PROVE WillFinish(r)'
    BY <2>1, <2>2, <2>4 DEF WillFinish
  <2> QED BY <2>1, <2>3, <2>4 DEF ServedInv
<1> QED BY <1>1, <1>2, <1>3

\* A player who leaves may reset the room, but ends no thread.
LEMMA LeaveServed ==
    ASSUME RoomInv, ServedInv, NEW c \in Client, LeaveRoom(c)
    PROVE  ServedInv'
<1>1. /\ mIsFinishThread' = mIsFinishThread /\ thread' = thread
      /\ opener' = opener /\ abandoned' = abandoned
  BY DEF LeaveRoom, RemoveClient, RemoveClientTest, UnsetRoom, roomVars
<1>2. \A r \in Rooms : mIsRun'[r] => mIsRun[r]
  <2>1. mIsRun \in [Rooms -> BOOLEAN]
    BY DEF RoomInv, TypeOK
  <2>2. CASE RemoveClientTest(c)
    BY <2>1, <2>2 DEF RemoveClientTest
  <2>3. CASE ~RemoveClientTest(c)
    BY <2>3 DEF LeaveRoom, RemoveClient, UnsetRoom, roomVars
  <2> QED BY <2>2, <2>3
<1> QED BY <1>1, <1>2, StaysServed DEF RoomInv

(***************************************************************************)
(* A room in use has a worker or a thread that will see to its end, unless *)
(* a thread left it after the default items.                               *)
(***************************************************************************)
THEOREM RoomsAreServed == Spec => []RoomInUseIsServed
<1>1. RoomInv /\ ServedInv /\ [Next]_vars => ServedInv'
  <2> SUFFICES ASSUME RoomInv, ServedInv, [Next]_vars PROVE ServedInv'
    OBVIOUS
  <2>1. CASE UNCHANGED vars
    BY <2>1 DEF vars, roomVars, ServedInv, WillStop, WillFinish
  <2>2. ASSUME NEW k \in ProgressThread, Progress(k) PROVE ServedInv'
    BY <2>2, ProgressServed DEF RoomInv
  <2>3. ASSUME NEW c \in Client, LeaveRoom(c) PROVE ServedInv'
    BY <2>3, LeaveServed
  <2> QED BY <2>1, <2>2, <2>3, OpenerServed DEF Next
<1>2. ServedInv => RoomInUseIsServed
  BY DEF ServedInv, RoomInUseIsServed, UnUsed, IsServed, WillStop, WillFinish
<1> QED BY RoomInvHolds, InitServed, <1>1, <1>2, PTL DEF Spec
=============================================================================
