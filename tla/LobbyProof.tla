----------------------------- MODULE LobbyProof -----------------------------
(***************************************************************************)
(* Locks and groups of Lobby, whatever the clients and the size of a room: *)
(* no threads wait for each other, nobody counts on a player that has left *)
(* and said so, the choice of characters is cut short only when all have   *)
(* chosen, and messages are as long as they say (MessageInv, at the end).  *)
(*                                                                         *)
(* The invariant about locks says which thread can hold a lock, and where  *)
(* it is then: whoever holds the lock of RoomManager or that of the room   *)
(* waits for nothing, whoever holds that of a client waits for the room at *)
(* most, and whoever holds that of the queue for RoomManager or the room.  *)
(***************************************************************************)
EXTENDS Lobby, QueueLemmas, FiniteSetTheorems

LockTypeOK ==
    /\ owner \in [Locks -> Threads \cup {Nobody}]
    /\ at \in [Threads -> Places]

HoldsQueue(t) ==
    \/ t[1] = "worker" /\ at[t] \in {"waitManager", "inManager", "waitAdd", "inAdd"}
    \/ t = Main /\ at[t] = "inQueue"

HoldersArePlaced ==
    \A t \in Threads :
        /\ owner["queue"] = t => HoldsQueue(t)
        /\ owner["manager"] = t => at[t] = "inManager"
        /\ owner["room"] = t => at[t] \in {"inAdd", "inRemove"}
        /\ \A c \in Client : owner[c] = t =>
               t = Leaver(c) /\ at[t] \in {"waitRemove", "inRemove"}
        /\ at[t] \in {"waitClient", "waitRemove"} => \E c \in Client : t = Leaver(c)

LockInv == LockTypeOK /\ HoldersArePlaced

\* The names of threads and locks are all different.
LEMMA Names ==
    /\ \A c \in Client : c \notin {"queue", "manager", "room"}
    /\ \A c \in Client : Worker(c) \in Threads /\ Leaver(c) \in Threads
    /\ \A c, d \in Client : Worker(c) # Leaver(d)
    /\ \A c \in Client : Worker(c) \notin {Progress, Main} /\ Leaver(c) \notin {Progress, Main}
    /\ Progress \in Threads /\ Main \in Threads /\ Progress # Main
    /\ Nobody \notin Threads
  BY LobbyAssumption DEF Worker, Leaver, Threads, Progress, Main, Nobody

\* Whoever waits for a lock waits for one there is.
LEMMA WantedIsLock == ASSUME LockInv, NEW t \in Threads PROVE Wanted(t) \in Locks
  BY DEF LockInv, HoldersArePlaced, Wanted, Locks, Leaver

\* Of the threads in a circle none can want RoomManager's lock or the room's, so
\* none a client's; and who waits for the queue holds nothing.
LEMMA InvExcludesCycles == ASSUME LockInv PROVE NoWaitCycle
<1> SUFFICES ASSUME NEW ring \in SUBSET Waiting, ring # {},
                    \A t \in ring : owner[Wanted(t)] \in ring
             PROVE  FALSE
  BY DEF NoWaitCycle
<1>1. \A t \in ring : t \in Threads /\ at[t] \in WaitPlaces
  BY DEF Waiting
<1>2. \A t \in ring : Wanted(t) # "manager" /\ Wanted(t) # "room"
  <2> SUFFICES ASSUME NEW t \in ring, Wanted(t) \in {"manager", "room"} PROVE FALSE
    OBVIOUS
  <2>1. at[owner[Wanted(t)]] \in {"inManager", "inAdd", "inRemove"}
    BY <1>1 DEF LockInv, HoldersArePlaced
  <2>2. at[owner[Wanted(t)]] \in WaitPlaces
    BY <1>1
  <2> QED BY <2>1, <2>2 DEF WaitPlaces, Inside
<1>3. \A t \in ring : at[t] # "waitClient"
  <2> SUFFICES ASSUME NEW t \in ring, at[t] = "waitClient" PROVE FALSE
    OBVIOUS
  <2>1. Wanted(t) = t[2] /\ t[2] \in Client
    BY <1>1 DEF LockInv, HoldersArePlaced, Wanted, Leaver
  <2>2. at[owner[t[2]]] \in {"waitRemove", "inRemove"}
    BY <1>1, <2>1 DEF LockInv, HoldersArePlaced
  <2>3. at[owner[t[2]]] = "waitRemove" /\ owner[t[2]] \in ring
    BY <1>1, <2>1, <2>2 DEF WaitPlaces, Inside
  <2>4. Wanted(owner[t[2]]) = "room"
    BY <2>3 DEF Wanted
  <2> QED BY <1>2, <2>3, <2>4
<1>4. \A t \in ring : at[t] = "waitQueue"
  BY <1>2, <1>3 DEF Wanted
<1>5. PICK t \in ring : TRUE
  OBVIOUS
<1>6. owner["queue"] \in ring
  BY <1>4, <1>5 DEF Wanted
<1>7. at[owner["queue"]] # "waitQueue"
  BY <1>1, <1>6 DEF LockInv, HoldersArePlaced, HoldsQueue
<1> QED BY <1>4, <1>6, <1>7
-----------------------------------------------------------------------------
\* Nobody holds anything at first.
LEMMA InitLockInv == Init => LockInv
  BY Names, LobbyAssumption DEF Init, LockInv, LockTypeOK, HoldersArePlaced, Places,
     WaitPlaces, Inside, Locks

\* Where the thread t goes, which gives up the locks U, the invariant follows from
\* what is said of t alone.
LEMMA Moves ==
    ASSUME LockInv, NEW t \in Threads, NEW U \in SUBSET Locks, NEW place \in Places,
           Go(t, place), Unlock(U),
           owner["queue"] = t => "queue" \in U \/ (t[1] = "worker"
               /\ place \in {"waitManager", "inManager", "waitAdd", "inAdd"}),
           owner["manager"] = t => "manager" \in U \/ place = "inManager",
           owner["room"] = t => "room" \in U \/ place \in {"inAdd", "inRemove"},
           \A c \in Client : owner[c] = t => c \in U \/ place \in {"waitRemove", "inRemove"},
           place \in {"waitClient", "waitRemove"} => \E c \in Client : t = Leaver(c)
    PROVE  LockInv'
<1> USE DEF LockInv, LockTypeOK, HoldersArePlaced, Go, Unlock
<1>1. LockTypeOK'
  OBVIOUS
<1>2. ASSUME NEW s \in Threads
      PROVE  /\ owner'["queue"] = s => HoldsQueue(s)'
             /\ owner'["manager"] = s => at'[s] = "inManager"
             /\ owner'["room"] = s => at'[s] \in {"inAdd", "inRemove"}
  BY Names DEF HoldsQueue, Locks
<1>3. ASSUME NEW s \in Threads
      PROVE  /\ \A c \in Client : owner'[c] = s =>
                    s = Leaver(c) /\ at'[s] \in {"waitRemove", "inRemove"}
             /\ at'[s] \in {"waitClient", "waitRemove"} => \E c \in Client : s = Leaver(c)
  BY Names DEF Locks
<1> QED BY <1>1, <1>2, <1>3
\* The same where no lock is given up.
LEMMA Walks ==
    ASSUME LockInv, NEW t \in Threads, NEW place \in Places,
           Go(t, place), UNCHANGED owner,
           \A l \in Locks : owner[l] # t,
           place \in {"waitClient", "waitRemove"} => \E c \in Client : t = Leaver(c)
    PROVE  LockInv'
<1>1. Unlock({})
  BY DEF Unlock, LockInv, LockTypeOK
<1>2. \A c \in Client : c \in Locks
  BY DEF Locks
<1>3. {"queue", "manager", "room"} \subseteq Locks
  BY DEF Locks
<1> QED BY <1>1, <1>2, <1>3, Moves

\* A thread is at a place where it holds nothing.
LEMMA HoldsNothing ==
    ASSUME LockInv, NEW t \in Threads,
           at[t] \notin {"waitManager", "inManager", "waitAdd", "inAdd", "inQueue",
                        "inRemove", "waitRemove"}
    PROVE  \A l \in Locks : owner[l] # t
  BY DEF LockInv, HoldersArePlaced, HoldsQueue, Locks

\* A thread gets a lock that is free.
LEMMA Locked == ASSUME LockInv, NEW t \in Threads, Lock(t) PROVE LockInv'
<1> USE DEF LockInv, LockTypeOK, HoldersArePlaced
<1>1. Wanted(t) \in Locks /\ owner[Wanted(t)] = Nobody
  BY WantedIsLock DEF Lock, Free
<1>2. owner' = [owner EXCEPT ![Wanted(t)] = t] /\ at' = [at EXCEPT ![t] = Inside[at[t]]]
  BY DEF Lock, Go
<1>3. at[t] \in {"waitManager", "waitAdd", "waitClient", "waitRemove"}
  BY DEF Lock, Inside
<1>4. LockTypeOK'
  BY <1>1, <1>2, <1>3 DEF Inside, Places, WaitPlaces
<1>5. CASE at[t] = "waitManager"
  <2>1. Wanted(t) = "manager" /\ Inside[at[t]] = "inManager"
    BY <1>5 DEF Wanted, Inside
  <2> QED BY <1>1, <1>2, <1>4, <1>5, <2>1, Names DEF HoldsQueue, Locks
<1>6. CASE at[t] = "waitAdd"
  <2>1. Wanted(t) = "room" /\ Inside[at[t]] = "inAdd"
    BY <1>6 DEF Wanted, Inside
  <2> QED BY <1>1, <1>2, <1>4, <1>6, <2>1, Names DEF HoldsQueue, Locks
<1>8. CASE at[t] = "waitRemove"
  <2>1. Wanted(t) = "room" /\ Inside[at[t]] = "inRemove"
    BY <1>8 DEF Wanted, Inside
  <2> QED BY <1>1, <1>2, <1>4, <1>8, <2>1, Names DEF HoldsQueue, Locks
<1>9. CASE at[t] = "waitClient"
  <2>1. PICK c \in Client : t = Leaver(c)
    BY <1>9
  <2>2. Wanted(t) = c /\ Inside[at[t]] = "waitRemove"
    BY <1>9, <2>1 DEF Wanted, Inside, Leaver
  <2>3. /\ owner' = [owner EXCEPT ![c] = t] /\ at' = [at EXCEPT ![t] = "waitRemove"]
        /\ c \in Locks
    BY <1>1, <1>2, <2>2
  <2> QED BY <1>4, <1>9, <2>1, <2>3, Names DEF HoldsQueue, Locks
<1> QED BY <1>3, <1>5, <1>6, <1>8, <1>9
\* Places at which a thread waits are places.
LEMMA LockPlaces == {"waitManager", "waitAdd", "waitClient", "waitRemove"} \subseteq Places
  BY DEF Places, WaitPlaces, Inside

-----------------------------------------------------------------------------
\* The requests of a client.
LEMMA WorkerKeeps == ASSUME LockInv, NEW c \in Client, WorkerStep(c) \/ ChoiceCharacter(c)
                     PROVE  LockInv'
<1> USE DEF Places, WaitPlaces
<1> DEFINE t == Worker(c)
<1>0. t \in Threads /\ c \in Locks /\ {"queue", "manager", "room"} \subseteq Locks
  BY Names DEF Locks
<1>a. t[1] = "worker" /\ \A d \in Client : t # Leaver(d)
  BY Names DEF Worker
<1>b. \A d \in Client : owner[d] # t
  BY <1>0, <1>a DEF LockInv, HoldersArePlaced
<1>1. CASE StartMatching(c)
  BY <1>0, <1>1, HoldsNothing, Walks DEF StartMatching
<1>2. CASE Lock(t)
  BY <1>0, <1>2, Locked
<1>3. CASE AddClient(c)
  <2>1. CASE Len(queue) + 1 >= MAX_ROOM_PLAYER
    <3>1. /\ owner' = [owner EXCEPT !["queue"] = t] /\ at' = [at EXCEPT ![t] = "waitManager"]
          /\ at[t] = "waitQueue" /\ owner["queue"] = Nobody
      BY <1>3, <2>1 DEF AddClient, Go, Free
    <3>2. owner' = [owner EXCEPT !["queue"] = t] /\ LockTypeOK'
      BY <1>0, <3>1, LockPlaces DEF LockInv, LockTypeOK
    <3>3. \A l \in Locks : owner[l] # t
      BY <1>0, <3>1, HoldsNothing
    <3>4. owner'["queue"] = t /\ \A l \in Locks : l # "queue" => owner'[l] = owner[l]
      BY <1>0, <3>2 DEF LockInv, LockTypeOK
    <3>5. at'[t] = "waitManager" /\ \A s \in Threads : s # t => at'[s] = at[s]
      BY <1>0, <3>1 DEF LockInv, LockTypeOK
    <3>6. ASSUME NEW s \in Threads
          PROVE  /\ owner'["queue"] = s => HoldsQueue(s)'
                 /\ owner'["manager"] = s => at'[s] = "inManager"
                 /\ owner'["room"] = s => at'[s] \in {"inAdd", "inRemove"}
      BY <1>0, <1>a, <3>3, <3>4, <3>5 DEF LockInv, HoldersArePlaced, HoldsQueue
    <3>7. ASSUME NEW s \in Threads
          PROVE  /\ \A d \in Client : owner'[d] = s =>
                        s = Leaver(d) /\ at'[s] \in {"waitRemove", "inRemove"}
                 /\ at'[s] \in {"waitClient", "waitRemove"} => \E d \in Client : s = Leaver(d)
      BY <1>0, <3>3, <3>4, <3>5, Names DEF LockInv, HoldersArePlaced, Locks
    <3> QED BY <3>2, <3>6, <3>7 DEF LockInv, HoldersArePlaced
  <2>2. CASE ~(Len(queue) + 1 >= MAX_ROOM_PLAYER)
    <3>1. Go(t, "idle") /\ at[t] = "waitQueue" /\ owner["queue"] = Nobody
      BY <1>3, <2>2 DEF AddClient, Free
    <3>2. owner' = owner
      BY <1>3, <2>2, <3>1 DEF AddClient, LockInv, LockTypeOK
    <3> QED BY <1>0, <3>1, <3>2, HoldsNothing, Walks
  <2> QED BY <2>1, <2>2
<1>4. CASE GetUnUsedRoom(c)
  <2>1. Go(t, "waitAdd") /\ Unlock({"manager"}) /\ at[t] = "inManager"
    BY <1>4 DEF GetUnUsedRoom
  <2>2. owner["room"] # t
    BY <1>0, <2>1 DEF LockInv, HoldersArePlaced
  <2> QED BY <1>0, <1>a, <1>b, <2>1, <2>2, Moves, LockPlaces
<1>5. CASE AddClients(c)
  <2>1. Go(t, "announce") /\ Unlock({"room", "queue"}) /\ at[t] = "inAdd"
    BY <1>5 DEF AddClients
  <2>2. owner["manager"] # t
    BY <1>0, <2>1 DEF LockInv, HoldersArePlaced
  <2> QED BY <1>0, <1>a, <1>b, <2>1, <2>2, Moves
<1>6. CASE MakeConnectRoom(c)
  BY <1>0, <1>6, HoldsNothing, Walks DEF MakeConnectRoom
<1>7. CASE SendConnectRoom(c)
  BY <1>0, <1>7, HoldsNothing, Walks DEF SendConnectRoom
<1>8. CASE StartThread(c)
  <2>1. /\ at' = [at EXCEPT ![t] = "idle", ![Progress] = "choice"] /\ owner' = owner
        /\ at[t] = "start" /\ at[Progress] = "none"
    BY <1>8 DEF StartThread
  <2>2. \A l \in Locks : owner[l] # t /\ owner[l] # Progress
    BY <1>0, <2>1, Names, HoldsNothing
  <2>3. \A s \in Threads : s # t /\ s # Progress => at'[s] = at[s]
    BY <2>1 DEF LockInv, LockTypeOK
  <2>4. at'[t] = "idle" /\ at'[Progress] = "choice" /\ LockTypeOK'
    BY <1>0, <2>1, Names DEF LockInv, LockTypeOK
  <2>5. ASSUME NEW s \in Threads
        PROVE  /\ owner'["queue"] = s => HoldsQueue(s)'
               /\ owner'["manager"] = s => at'[s] = "inManager"
               /\ owner'["room"] = s => at'[s] \in {"inAdd", "inRemove"}
               /\ \A d \in Client : owner'[d] = s =>
                      s = Leaver(d) /\ at'[s] \in {"waitRemove", "inRemove"}
               /\ at'[s] \in {"waitClient", "waitRemove"} => \E d \in Client : s = Leaver(d)
    <3>1. CASE s = t \/ s = Progress
      BY <1>0, <2>1, <2>2, <2>4, <3>1 DEF Locks
    <3>2. CASE s # t /\ s # Progress
      <4>1. at'[s] = at[s] /\ owner' = owner
        BY <2>1, <2>3, <3>2
      <4> QED BY <4>1 DEF LockInv, HoldersArePlaced, HoldsQueue
    <3> QED BY <3>1, <3>2
  <2> QED BY <2>4, <2>5 DEF LockInv, HoldersArePlaced
<1>9. CASE TellChoice(c)
  BY <1>0, <1>9, HoldsNothing, Walks DEF TellChoice
<1>10. CASE ChoiceCharacter(c)
  BY <1>0, <1>10, HoldsNothing, Walks DEF ChoiceCharacter
<1> QED BY <1>1, <1>2, <1>3, <1>4, <1>5, <1>6, <1>7, <1>8, <1>9, <1>10 DEF WorkerStep

\* Server::Disconnect.
LEMMA LeaverKeeps == ASSUME LockInv, NEW c \in Client, LeaverStep(c) \/ Disconnect(c)
                     PROVE  LockInv'
<1> USE DEF Places, WaitPlaces
<1> DEFINE t == Leaver(c)
<1>0. t \in Threads /\ c \in Locks /\ {"queue", "manager", "room"} \subseteq Locks
  BY Names DEF Locks
<1>a. t[1] # "worker" /\ t # Main
  BY Names DEF Leaver
<1>b. owner["queue"] # t /\ \A d \in Client : owner[d] = t => d = c
  BY <1>0, <1>a DEF LockInv, HoldersArePlaced, HoldsQueue, Leaver
<1>c. \E d \in Client : t = Leaver(d)
  OBVIOUS
<1>1. CASE Disconnect(c)
  BY <1>0, <1>1, HoldsNothing, Walks DEF Disconnect
<1>2. CASE LeaveQueue(c)
  BY <1>0, <1>2, HoldsNothing, Walks DEF LeaveQueue
<1>3. CASE SkipNotice(c)
  <2>1. Go(t, "waitClient") /\ owner' = owner /\ at[t] = "waitNotice"
    BY <1>3 DEF SkipNotice
  <2>2. \A l \in Locks : owner[l] # t
    BY <1>0, <2>1, HoldsNothing
  <2> QED BY <1>0, <1>c, <2>1, <2>2, Walks, LockPlaces
<1>4. CASE SendNotice(c)
  <2>1. Go(t, "waitClient") /\ owner' = owner /\ at[t] = "waitNotice"
    BY <1>4 DEF SendNotice
  <2>2. \A l \in Locks : owner[l] # t
    BY <1>0, <2>1, HoldsNothing
  <2> QED BY <1>0, <1>c, <2>1, <2>2, Walks, LockPlaces
<1>5. CASE InitClient(c)
  <2>1. Go(t, "gone") /\ Unlock({c}) /\ at[t] = "waitRemove"
    BY <1>5 DEF InitClient
  <2>2. owner["manager"] # t /\ owner["room"] # t
    BY <1>0, <2>1 DEF LockInv, HoldersArePlaced
  <2> QED BY <1>0, <1>b, <2>1, <2>2, Moves
<1>6. CASE RemoveClient(c)
  <2>1. Go(t, "gone") /\ Unlock({"room", c}) /\ at[t] = "inRemove"
    BY <1>6 DEF RemoveClient
  <2>2. owner["manager"] # t
    BY <1>0, <2>1 DEF LockInv, HoldersArePlaced
  <2> QED BY <1>0, <1>b, <2>1, <2>2, Moves
<1>7. CASE Lock(t)
  BY <1>0, <1>7, Locked
<1> QED BY <1>1, <1>2, <1>3, <1>4, <1>5, <1>6, <1>7 DEF LeaverStep

\* The thread of the room.
LEMMA ProgressKeeps == ASSUME LockInv, ProgressStep PROVE LockInv'
<1> USE DEF Places, WaitPlaces
<1>0. Progress \in Threads /\ {"queue", "manager", "room"} \subseteq Locks
  BY Names DEF Locks
<1>1. CASE Lock(Progress)
  BY <1>0, <1>1, Locked
<1>2. CASE CountReady
  <2>1. CASE Go(Progress, "ask")
    BY <1>0, <1>2, <2>1, HoldsNothing, Walks DEF CountReady
  <2>2. CASE Go(Progress, "compare")
    BY <1>0, <1>2, <2>2, HoldsNothing, Walks DEF CountReady
  <2> QED BY <1>2, <2>1, <2>2 DEF CountReady
<1>3. CASE CompareReady
  BY <1>0, <1>3, HoldsNothing, Walks DEF CompareReady
<1>4. CASE SendChoiceAll
  BY <1>0, <1>4, HoldsNothing, Walks DEF SendChoiceAll
<1>5. CASE Ask
  BY <1>0, <1>5, HoldsNothing, Walks DEF Ask
<1>6. CASE ReadSize
  <2>1. CASE Go(Progress, "collect")
    BY <1>0, <1>6, <2>1, HoldsNothing, Walks DEF ReadSize
  <2>2. CASE Go(Progress, "timeUp")
    BY <1>0, <1>6, <2>2, HoldsNothing, Walks DEF ReadSize
  <2> QED BY <1>6, <2>1, <2>2 DEF ReadSize
<1>7. CASE CollectCharacters
  BY <1>0, <1>7, HoldsNothing, Walks DEF CollectCharacters
<1>8. CASE CollectUnconfirmed
  BY <1>0, <1>8, HoldsNothing, Walks DEF CollectUnconfirmed
<1>9. CASE SendSync
  BY <1>0, <1>9, HoldsNothing, Walks DEF SendSync
<1>10. CASE EnterCutSceneStage
  BY <1>0, <1>10, HoldsNothing, Walks DEF EnterCutSceneStage
<1>11. CASE LoopOut
  <2>1. Go(Progress, "waitManager") /\ owner' = owner /\ at[Progress] = "loopOut"
    BY <1>11 DEF LoopOut
  <2>2. \A l \in Locks : owner[l] # Progress
    BY <1>0, <2>1, HoldsNothing
  <2> QED BY <1>0, <2>1, <2>2, Walks, LockPlaces
<1>12. CASE FinishThread
  <2>1. Go(Progress, "over") /\ Unlock({"manager"}) /\ at[Progress] = "inManager"
    BY <1>12 DEF FinishThread
  <2>2. /\ owner["queue"] # Progress /\ owner["room"] # Progress
        /\ \A c \in Client : owner[c] # Progress
    BY <1>0, <2>1, Names DEF LockInv, HoldersArePlaced, HoldsQueue, Progress
  <2> QED BY <1>0, <2>1, <2>2, Moves
<1> QED BY <1>1, <1>2, <1>3, <1>4, <1>5, <1>6, <1>7, <1>8, <1>9, <1>10, <1>11, <1>12
       DEF ProgressStep

\* SendMatchingQueueInfo.
LEMMA MainKeeps == ASSUME LockInv, MainStep PROVE LockInv'
<1> USE DEF Places, WaitPlaces
<1>0. Main \in Threads /\ {"queue", "manager", "room"} \subseteq Locks
  BY Names DEF Locks
<1>1. CASE LockQueue
  <2>1. /\ owner' = [owner EXCEPT !["queue"] = Main] /\ at' = [at EXCEPT ![Main] = "inQueue"]
        /\ at[Main] = "away" /\ owner["queue"] = Nobody
    BY <1>1 DEF LockQueue, Go, Free
  <2> QED BY <2>1, <1>0, Names DEF LockInv, LockTypeOK, HoldersArePlaced, HoldsQueue
<1>2. CASE SendMatchingInfo
  <2>1. Go(Main, "away") /\ Unlock({"queue"}) /\ at[Main] = "inQueue"
    BY <1>2 DEF SendMatchingInfo
  <2>2. /\ owner["manager"] # Main /\ owner["room"] # Main
        /\ \A c \in Client : owner[c] # Main
    BY <1>0, <2>1, Names DEF LockInv, HoldersArePlaced
  <2> QED BY <1>0, <2>1, <2>2, Moves
<1> QED BY <1>1, <1>2 DEF MainStep

\* All together.
LEMMA StepLockInv == LockInv /\ [Next]_vars => LockInv'
<1> SUFFICES ASSUME LockInv, [Next]_vars PROVE LockInv'
  OBVIOUS
<1>1. CASE Next
  BY <1>1, WorkerKeeps, LeaverKeeps, ProgressKeeps, MainKeeps DEF Next
<1>2. CASE UNCHANGED vars
  BY <1>2 DEF vars, LockInv, LockTypeOK, HoldersArePlaced, HoldsQueue
<1> QED BY <1>1, <1>2

(***************************************************************************)
(* However many clients there are and however they come and go, no threads *)
(* wait for each other's locks in a circle.                                *)
(***************************************************************************)
THEOREM NoDeadlock == Spec => []NoWaitCycle
<1>1. Spec => []LockInv
  BY InitLockInv, StepLockInv, PTL DEF Spec
<1> QED BY <1>1, InvExcludesCycles, PTL
-----------------------------------------------------------------------------
(***************************************************************************)
(* The group.  A client asks once, so it waits once, and is in no room     *)
(* before it has waited; who adds the client that completes a group keeps  *)
(* the lock of the queue until the group has its room.                     *)
(***************************************************************************)
Asking   == {"new", "waitQueue"}
Grouping == {"waitManager", "inManager", "waitAdd", "inAdd"}
Opening  == {"announce", "waitConnect", "start"}

Waits(c) == Contains(queue, c)
HasYetToWait(c) == Waits(c) \/ at[Worker(c)] \in Asking

QueueInv ==
    /\ queue \in Seq(Client)
    /\ at[Main] = "inQueue" => owner["queue"] = Main
    /\ \A c \in Client :
          /\ AtMostOnce(queue, c)
          /\ at[Worker(c)] \in Asking => ~Waits(c)
          /\ at[Worker(c)] \in Grouping =>
                owner["queue"] = Worker(c) /\ Len(queue) >= MAX_ROOM_PLAYER

(***************************************************************************)
(* Whoever is in the room, or is told to be, has a room or is past the     *)
(* notice that it leaves.                                                  *)
(***************************************************************************)
Past(d) == at[Leaver(d)] \in PastNotice
Present(d) == d \in mRoomPtr \/ Past(d)

ViewTypeOK ==
    /\ mClients \subseteq Client /\ announced \subseteq Client
    /\ known \in [Client -> SUBSET Client]
    /\ readyCount \in Nat

ViewInv ==
    /\ ViewTypeOK
    /\ \A c \in Client : HasYetToWait(c) => known[c] = {} /\ c \notin mClients
    /\ \A d \in mClients \cup announced : Present(d)
    /\ \A c \in Client : \A d \in known[c] : Present(d)
    /\ KnownAreThere

(***************************************************************************)
(* One group: with its clients in the room there are not enough left for   *)
(* another one.                                                            *)
(***************************************************************************)
HaveWaited == {c \in Client : ~HasYetToWait(c)}

Formed == \/ mClients # {} \/ mIsFinishChoiceCharacter \/ at[Progress] # "none"
          \/ \E c \in Client : at[Worker(c)] \in Opening

OneGroup == Formed => Cardinality(HaveWaited) >= MAX_ROOM_PLAYER

\* What the room's thread has counted is still so, or somebody has left meanwhile.
AllHaveChosen == mClients \subseteq mIsChoiceCharacter \/ miscounted

ChoiceInv ==
    /\ mIsFinishChoiceCharacter => AllHaveChosen
    /\ at[Progress] = "waitAll" => AllHaveChosen
    /\ at[Progress] = "compare" =>
          miscounted \/ readyCount <= Cardinality(mClients \cap mIsChoiceCharacter)

GroupInv == LockInv /\ QueueInv /\ ViewInv /\ OneGroup /\ ChoiceInv

LEMMA InitGroupInv == Init => GroupInv
<1> SUFFICES ASSUME Init PROVE GroupInv
  OBVIOUS
<1>1. LockInv
  BY InitLockInv
<1>2. /\ \A c \in Client : at[Worker(c)] = "new" /\ at[Leaver(c)] = "here"
      /\ at[Progress] = "none" /\ queue = <<>> /\ at[Main] # "inQueue"
  BY Names DEF Init, Worker, Leaver, Progress, Main
<1>3. \A c \in Client : ~Waits(c)
  BY <1>2 DEF Waits, Contains
<1>4. QueueInv
  <2>1. <<>> \in Seq(Client)
    OBVIOUS
  <2>2. \A c \in Client : AtMostOnce(queue, c)
    BY <1>2 DEF AtMostOnce
  <2> QED BY <1>2, <1>3, <2>1, <2>2 DEF QueueInv, Grouping
<1>5. ViewInv
  BY DEF Init, ViewInv, ViewTypeOK, KnownAreThere
<1>6. OneGroup /\ ChoiceInv
  BY <1>2 DEF Init, OneGroup, Formed, Opening, ChoiceInv
<1> QED BY <1>1, <1>4, <1>5, <1>6 DEF GroupInv
-----------------------------------------------------------------------------
\* Where everybody is when the thread t has gone to a place.
LEMMA Gone ==
    ASSUME LockInv, NEW t \in Threads, NEW place, Go(t, place)
    PROVE  /\ at'[t] = place
           /\ \A u \in Threads : u # t => at'[u] = at[u]
  BY DEF LockInv, LockTypeOK, Go

\* Nobody comes to wait, who had not yet.
NobodyNew == \A c \in Client : HasYetToWait(c)' => HasYetToWait(c)

LEMMA QueueStays ==
    ASSUME LockInv, QueueInv, NEW t \in Threads, NEW place, Go(t, place),
           UNCHANGED queue,
           owner'["queue"] = owner["queue"] \/ owner["queue"] \in {t, Nobody},
           place = "inQueue" => owner'["queue"] = t,
           place \in Asking /\ (\E c \in Client : t = Worker(c)) => at[t] \in Asking,
           place \in Grouping /\ (\E c \in Client : t = Worker(c)) =>
               owner'["queue"] = t /\ Len(queue) >= MAX_ROOM_PLAYER
    PROVE  QueueInv' /\ NobodyNew
<1>1. /\ at'[t] = place
      /\ \A u \in Threads : u # t => at'[u] = at[u]
  BY Gone
<1>2. ASSUME NEW c \in Client
      PROVE  /\ at'[Worker(c)] \in Asking => at[Worker(c)] \in Asking
             /\ at'[Worker(c)] \in Grouping =>
                   owner'["queue"] = Worker(c) /\ Len(queue) >= MAX_ROOM_PLAYER
  <2>1. CASE Worker(c) = t
    BY <1>1, <2>1
  <2>2. CASE Worker(c) # t
    <3>1. Worker(c) \in Threads /\ Nobody \notin Threads
      BY Names
    <3> QED BY <1>1, <2>2, <3>1 DEF QueueInv
  <2> QED BY <2>1, <2>2
<1>3. \A c \in Client : Waits(c)' <=> Waits(c)
  BY DEF Waits, Contains
<1>a. at'[Main] = "inQueue" => owner'["queue"] = Main
  BY <1>1, Names DEF QueueInv
<1>4. QueueInv'
  BY <1>2, <1>3, <1>a DEF QueueInv, AtMostOnce
<1>5. NobodyNew
  BY <1>2, <1>3 DEF NobodyNew, HasYetToWait
<1> QED BY <1>4, <1>5

LEMMA ViewStays ==
    ASSUME LockInv, ViewInv, NEW t \in Threads, NEW place, Go(t, place), NobodyNew,
           mClients' \subseteq mClients, UNCHANGED <<announced, known, late>>,
           readyCount' \in Nat,
           place \in PastNotice => at[t] \in PastNotice,
           at[t] \in PastNotice => place \in PastNotice,
           \A d \in Client : d \in mRoomPtr /\ d \notin mRoomPtr' => Past(d)
    PROVE  ViewInv'
<1>1. /\ at'[t] = place
      /\ \A u \in Threads : u # t => at'[u] = at[u]
  BY Gone
<1>2. \A d \in Client : Past(d)' <=> Past(d)
  BY <1>1, Names DEF Past
<1>3. \A d \in Client : Present(d) => Present(d)'
  BY <1>2 DEF Present
<1>4. ViewTypeOK'
  BY DEF ViewInv, ViewTypeOK
<1>5. \A c \in Client : HasYetToWait(c)' => known'[c] = {} /\ c \notin mClients'
  BY DEF ViewInv, NobodyNew
<1>6. /\ \A d \in mClients' \cup announced' : Present(d)'
      /\ \A c \in Client : \A d \in known'[c] : Present(d)'
  BY <1>3 DEF ViewInv, ViewTypeOK
<1>7. KnownAreThere'
  <2>1. \A p \in mClients : \A d \in known[p] : d \in Client
    BY DEF ViewInv, ViewTypeOK
  <2> QED BY <1>2, <2>1 DEF ViewInv, KnownAreThere, Past
<1> QED BY <1>4, <1>5, <1>6, <1>7 DEF ViewInv

LEMMA GroupStays ==
    ASSUME OneGroup, NobodyNew, Formed' => Formed
    PROVE  OneGroup'
<1>1. HaveWaited \subseteq HaveWaited' /\ HaveWaited' \subseteq Client
  BY DEF NobodyNew, HaveWaited
<1>2. IsFiniteSet(HaveWaited') /\ Cardinality(HaveWaited) <= Cardinality(HaveWaited')
  BY <1>1, FS_Subset, LobbyAssumption
<1>3. Cardinality(HaveWaited) \in Nat /\ Cardinality(HaveWaited') \in Nat
  BY <1>1, <1>2, FS_Subset, FS_CardinalityType
<1> QED BY <1>2, <1>3, LobbyAssumption DEF OneGroup

LEMMA FormedBefore ==
    ASSUME LockInv, NEW t \in Threads, NEW place, Go(t, place),
           mClients' # {} => mClients # {},
           mIsFinishChoiceCharacter' => mIsFinishChoiceCharacter \/ t = Progress,
           place \in Opening => at[t] \in Opening,
           t = Progress => at[t] # "none"
    PROVE  Formed' => Formed
<1>1. /\ at'[t] = place
      /\ \A u \in Threads : u # t => at'[u] = at[u]
  BY Gone
<1>2. at'[Progress] # "none" => at[Progress] # "none"
  BY <1>1, Names
<1>3. ASSUME NEW c \in Client, at'[Worker(c)] \in Opening PROVE at[Worker(c)] \in Opening
  BY <1>1, <1>3, Names
<1> QED BY <1>2, <1>3 DEF Formed

\* Who has chosen stays so; the room's thread does not compare or notify yet.
LEMMA ChoiceStays ==
    ASSUME LockInv, ViewInv, ChoiceInv, NEW t \in Threads, NEW place, Go(t, place),
           UNCHANGED <<mClients, miscounted>>, mIsChoiceCharacter \subseteq mIsChoiceCharacter',
           mIsFinishChoiceCharacter' => mIsFinishChoiceCharacter,
           UNCHANGED readyCount \/ t = Progress,
           place \notin {"compare", "waitAll"}
    PROVE  ChoiceInv'
<1>1. /\ at'[t] = place
      /\ \A u \in Threads : u # t => at'[u] = at[u]
  BY Gone
<1>2. AllHaveChosen => AllHaveChosen'
  BY DEF AllHaveChosen
<1>3. at'[Progress] \in {"compare", "waitAll"} => t # Progress /\ at'[Progress] = at[Progress]
  BY <1>1, Names
<1>4. Cardinality(mClients \cap mIsChoiceCharacter)
          <= Cardinality(mClients' \cap mIsChoiceCharacter')
  <2>1. IsFiniteSet(mClients \cap mIsChoiceCharacter')
    BY FS_Subset, LobbyAssumption DEF ViewInv, ViewTypeOK
  <2>2. mClients \cap mIsChoiceCharacter \subseteq mClients \cap mIsChoiceCharacter'
    OBVIOUS
  <2> QED BY <2>1, <2>2, FS_Subset
<1>5. /\ Cardinality(mClients \cap mIsChoiceCharacter) \in Nat
      /\ Cardinality(mClients' \cap mIsChoiceCharacter') \in Nat
      /\ readyCount \in Nat
  <2>1. /\ IsFiniteSet(mClients \cap mIsChoiceCharacter)
        /\ IsFiniteSet(mClients' \cap mIsChoiceCharacter')
    BY FS_Subset, LobbyAssumption DEF ViewInv, ViewTypeOK
  <2> QED BY <2>1, FS_CardinalityType DEF ViewInv, ViewTypeOK
<1>6. at'[Progress] = "compare" =>
          miscounted' \/ readyCount' <= Cardinality(mClients' \cap mIsChoiceCharacter')
  BY <1>3, <1>4, <1>5 DEF ChoiceInv
<1> QED BY <1>2, <1>3, <1>6 DEF ChoiceInv

\* A step of a thread that neither comes to wait nor changes what the players are told.
LEMMA QuietMove ==
    ASSUME GroupInv, LockInv', NEW t \in Threads, NEW place, Go(t, place),
           QueueInv', NobodyNew,
           UNCHANGED <<mClients, mRoomPtr, announced, known, late, miscounted>>,
           mIsChoiceCharacter \subseteq mIsChoiceCharacter',
           mIsFinishChoiceCharacter' => mIsFinishChoiceCharacter,
           readyCount' \in Nat, UNCHANGED readyCount \/ t = Progress,
           place \in Opening => at[t] \in Opening,
           place \in PastNotice => at[t] \in PastNotice,
           at[t] \in PastNotice => place \in PastNotice,
           place \notin {"compare", "waitAll"},
           t = Progress => at[t] # "none"
    PROVE  GroupInv'
<1>1. ViewInv'
  <2>1. \A d \in Client : d \in mRoomPtr /\ d \notin mRoomPtr' => Past(d)
    OBVIOUS
  <2> QED BY <2>1, ViewStays DEF GroupInv
<1>2. OneGroup'
  <2>1. Formed' => Formed
    BY FormedBefore DEF GroupInv
  <2> QED BY <2>1, GroupStays DEF GroupInv
<1>3. ChoiceInv'
  BY ChoiceStays DEF GroupInv
<1> QED BY <1>1, <1>2, <1>3 DEF GroupInv

\* A step that changes no list and enters none of the places that matter.
LEMMA PlainMove ==
    ASSUME GroupInv, LockInv', NEW t \in Threads, NEW place, Go(t, place),
           UNCHANGED <<queue, mClients, mRoomPtr, announced, known, late, miscounted>>,
           mIsChoiceCharacter \subseteq mIsChoiceCharacter',
           mIsFinishChoiceCharacter' => mIsFinishChoiceCharacter,
           readyCount' \in Nat, UNCHANGED readyCount \/ t = Progress,
           owner'["queue"] = owner["queue"] \/ owner["queue"] \in {t, Nobody},
           place = "inQueue" => owner'["queue"] = t,
           place \in Asking /\ (\E c \in Client : t = Worker(c)) => at[t] \in Asking,
           place \in Grouping /\ (\E c \in Client : t = Worker(c)) =>
               owner'["queue"] = t /\ Len(queue) >= MAX_ROOM_PLAYER,
           place \in Opening => at[t] \in Opening,
           place \in PastNotice => at[t] \in PastNotice,
           at[t] \in PastNotice => place \in PastNotice,
           place \notin {"compare", "waitAll"},
           t = Progress => at[t] # "none"
    PROVE  GroupInv'
<1>1. QueueInv' /\ NobodyNew
  BY QueueStays DEF GroupInv
<1> QED BY <1>1, QuietMove
-----------------------------------------------------------------------------
\* A thread gets a lock it waits for.
LEMMA PlainLock ==
    ASSUME GroupInv, LockInv', NEW t \in Threads, Lock(t)
    PROVE  GroupInv'
<1> USE DEF Asking, Grouping, Opening, PastNotice
<1>1. /\ UNCHANGED <<queue, mClients, mRoomPtr, announced, known, late, miscounted,
                     mIsChoiceCharacter, mIsFinishChoiceCharacter, readyCount>>
      /\ Go(t, Inside[at[t]]) /\ readyCount \in Nat
  BY DEF Lock, roomVars, clientVars, threadVars, viewVars, ghosts, GroupInv, ViewInv,
     ViewTypeOK
<1>2. CASE at[t] \in {"waitManager", "waitAdd"}
  <2>1. \/ at[t] = "waitManager" /\ Wanted(t) = "manager" /\ Inside[at[t]] = "inManager"
        \/ at[t] = "waitAdd" /\ Wanted(t) = "room" /\ Inside[at[t]] = "inAdd"
    BY <1>2 DEF Inside, Wanted
  <2>2. owner'["queue"] = owner["queue"]
    BY <2>1 DEF Lock, GroupInv, LockInv, LockTypeOK, Locks
  <2>3. (\E c \in Client : t = Worker(c)) =>
            owner["queue"] = t /\ Len(queue) >= MAX_ROOM_PLAYER
    BY <2>1 DEF GroupInv, QueueInv
  <2> QED BY <1>1, <2>1, <2>2, <2>3, PlainMove
<1>3. CASE at[t] \in {"waitClient", "waitRemove"}
  <2>1. PICK c \in Client : t = Leaver(c)
    BY <1>3 DEF GroupInv, LockInv, HoldersArePlaced
  <2>2. Inside[at[t]] \in {"waitRemove", "inRemove"} /\ Wanted(t) \in {c, "room"}
    BY <1>3, <2>1 DEF Inside, Wanted, Leaver
  <2>3. owner'["queue"] = owner["queue"]
    BY <2>2, Names DEF Lock, GroupInv, LockInv, LockTypeOK, Locks
  <2>4. t # Progress /\ \A d \in Client : t # Worker(d)
    BY <2>1, Names
  <2> QED BY <1>1, <1>3, <2>2, <2>3, <2>4, PlainMove
<1> QED BY <1>2, <1>3 DEF Lock, Inside

\* The other steps that are plain: of the clients' workers ...
LEMMA PlainWorkerSteps ==
    ASSUME GroupInv, LockInv', NEW c \in Client,
           StartMatching(c) \/ GetUnUsedRoom(c) \/ TellChoice(c) \/ ChoiceCharacter(c)
    PROVE  GroupInv'
<1> DEFINE t == Worker(c)
<1>1. /\ t \in Threads /\ t # Progress /\ readyCount \in Nat
      /\ owner["queue"] \in Threads \cup {Nobody} /\ "queue" \in Locks
  BY Names DEF GroupInv, ViewInv, ViewTypeOK, LockInv, LockTypeOK, Locks
<1> USE DEF Asking, Grouping, Opening, PastNotice
<1>2. CASE StartMatching(c)
  BY <1>1, <1>2, PlainMove
  DEF StartMatching, roomVars, clientVars, threadVars, viewVars, ghosts
<1>3. CASE GetUnUsedRoom(c)
  <2>1. /\ UNCHANGED <<queue, mClients, mRoomPtr, announced, known, late, miscounted,
                        mIsChoiceCharacter, mIsFinishChoiceCharacter, readyCount>>
        /\ Go(t, "waitAdd") /\ at[t] = "inManager" /\ owner'["queue"] = owner["queue"]
    BY <1>1, <1>3 DEF GetUnUsedRoom, clientVars, threadVars, viewVars, ghosts, Unlock
  <2>2. owner["queue"] = t /\ Len(queue) >= MAX_ROOM_PLAYER
    BY <2>1 DEF GroupInv, QueueInv
  <2> QED BY <1>1, <2>1, <2>2, PlainMove
<1>4. CASE TellChoice(c)
  BY <1>1, <1>4, PlainMove
  DEF TellChoice, roomVars, clientVars, threadVars, viewVars, ghosts
<1>5. CASE ChoiceCharacter(c)
  BY <1>1, <1>5, PlainMove
  DEF ChoiceCharacter, roomVars, clientVars, threadVars, viewVars, ghosts
<1> QED BY <1>2, <1>3, <1>4, <1>5

\* ... of who disconnects them and of Main ...
LEMMA PlainLeaverSteps ==
    ASSUME GroupInv, LockInv', NEW c \in Client, Disconnect(c) \/ InitClient(c)
    PROVE  GroupInv'
<1> DEFINE t == Leaver(c)
<1>1. /\ t \in Threads /\ t # Progress /\ readyCount \in Nat
      /\ "queue" \in Locks /\ c # "queue" /\ \A d \in Client : t # Worker(d)
  BY Names DEF GroupInv, ViewInv, ViewTypeOK, Locks
<1> USE DEF Asking, Grouping, Opening, PastNotice, roomVars, clientVars, threadVars,
        viewVars, ghosts
<1>2. CASE Disconnect(c)
  BY <1>1, <1>2, PlainMove DEF Disconnect
<1>3. CASE InitClient(c)
  BY <1>1, <1>3, PlainMove DEF InitClient, Unlock
<1> QED BY <1>2, <1>3

LEMMA PlainMainSteps == ASSUME GroupInv, LockInv', MainStep PROVE GroupInv'
<1>1. /\ Main \in Threads /\ Main # Progress /\ readyCount \in Nat
      /\ "queue" \in Locks /\ \A d \in Client : Main # Worker(d)
  BY Names DEF GroupInv, ViewInv, ViewTypeOK, Locks
<1> USE DEF Asking, Grouping, Opening, PastNotice, roomVars, clientVars, threadVars,
        viewVars, ghosts
<1>2. CASE LockQueue
  <2>1. owner'["queue"] = Main /\ owner["queue"] = Nobody
    BY <1>1, <1>2 DEF LockQueue, Free, GroupInv, LockInv, LockTypeOK
  <2> QED BY <1>1, <1>2, <2>1, PlainMove DEF LockQueue
<1>3. CASE SendMatchingInfo
  <2>1. at[Main] = "inQueue" => owner["queue"] \in {Main, Nobody}
    BY DEF GroupInv, QueueInv
  <2> QED BY <1>1, <1>3, <2>1, PlainMove DEF SendMatchingInfo, Unlock
<1> QED BY <1>2, <1>3 DEF MainStep

\* ... and of the room's thread.
LEMMA PlainProgressSteps ==
    ASSUME GroupInv, LockInv',
           \/ Ask \/ ReadSize \/ CollectCharacters \/ CollectUnconfirmed \/ SendSync
           \/ EnterCutSceneStage \/ FinishThread
    PROVE  GroupInv'
<1> DEFINE t == Progress
<1>1. /\ t \in Threads /\ readyCount \in Nat
      /\ "queue" \in Locks /\ \A d \in Client : t # Worker(d)
  BY Names DEF GroupInv, ViewInv, ViewTypeOK, Locks
<1> USE DEF Asking, Grouping, Opening, PastNotice, roomVars, clientVars, threadVars,
        viewVars, ghosts
<1>2. CASE Ask
  BY <1>1, <1>2, PlainMove DEF Ask
<1>3. CASE ReadSize
  <2>1. CASE Go(t, "collect")
    BY <1>1, <1>3, <2>1, PlainMove DEF ReadSize
  <2>2. CASE Go(t, "timeUp")
    BY <1>1, <1>3, <2>2, PlainMove DEF ReadSize
  <2> QED BY <1>3, <2>1, <2>2 DEF ReadSize
<1>4. CASE CollectCharacters
  BY <1>1, <1>4, PlainMove DEF CollectCharacters
<1>5. CASE CollectUnconfirmed
  BY <1>1, <1>5, PlainMove DEF CollectUnconfirmed
<1>6. CASE SendSync
  BY <1>1, <1>6, PlainMove DEF SendSync
<1>7. CASE EnterCutSceneStage
  BY <1>1, <1>7, PlainMove DEF EnterCutSceneStage
<1>8. CASE FinishThread
  BY <1>1, <1>8, PlainMove DEF FinishThread, Unlock
<1> QED BY <1>2, <1>3, <1>4, <1>5, <1>6, <1>7, <1>8
-----------------------------------------------------------------------------
\* Into the queue: the client that asks was not in it.
LEMMA AddClientStep == ASSUME GroupInv, LockInv', NEW c \in Client, AddClient(c)
                       PROVE  GroupInv'
<1> DEFINE t == Worker(c)
           place == IF Len(queue) + 1 >= MAX_ROOM_PLAYER THEN "waitManager" ELSE "idle"
<1> USE DEF Asking, Grouping, Opening, PastNotice
<1>1. /\ t \in Threads /\ t # Progress /\ t # Main /\ Nobody \notin Threads
      /\ \A d \in Client : Worker(d) \in Threads /\ (d # c => Worker(d) # t)
      /\ "queue" \in Locks /\ readyCount \in Nat
  BY Names DEF GroupInv, ViewInv, ViewTypeOK, Locks, Worker
<1>2. /\ at[t] = "waitQueue" /\ owner["queue"] = Nobody /\ Go(t, place)
      /\ queue' = Append(queue, c)
      /\ UNCHANGED <<mClients, mRoomPtr, announced, known, late, miscounted,
                     mIsChoiceCharacter, mIsFinishChoiceCharacter, readyCount>>
  BY DEF AddClient, Free, roomVars, clientVars, threadVars, viewVars, ghosts
<1>3. place = "waitManager" =>
          owner'["queue"] = t /\ Len(queue) + 1 >= MAX_ROOM_PLAYER
  BY <1>1 DEF AddClient, GroupInv, LockInv, LockTypeOK
<1>4. place \in {"waitManager", "idle"}
  OBVIOUS
<1> HIDE DEF place
<1>5. /\ at'[t] = place
      /\ \A u \in Threads : u # t => at'[u] = at[u]
  BY <1>1, <1>2, Gone DEF GroupInv
<1>6. /\ queue \in Seq(Client) /\ ~Waits(c)
      /\ at[Main] # "inQueue"
      /\ \A d \in Client : at[Worker(d)] \notin Grouping
  BY <1>1, <1>2, Names DEF GroupInv, QueueInv
<1>7. \A d \in Client : AtMostOnce(queue', d) /\ (Waits(d)' => Waits(d) \/ d = c)
  <2> TAKE d \in Client
  <2>1. AtMostOnce(queue, d) /\ (d = c => ~Contains(queue, d))
    BY <1>6 DEF GroupInv, QueueInv, Waits
  <2> QED BY <1>2, <1>6, <2>1, AppendKeeps DEF Waits
<1>8. QueueInv'
  <2>1. queue' \in Seq(Client) /\ Len(queue') = Len(queue) + 1
    BY <1>2, <1>6
  <2>2. at'[Main] # "inQueue"
    BY <1>1, <1>5, <1>6, Names
  <2>3. ASSUME NEW d \in Client
        PROVE  /\ at'[Worker(d)] \in Asking => ~Waits(d)'
               /\ at'[Worker(d)] \in Grouping =>
                     owner'["queue"] = Worker(d) /\ Len(queue') >= MAX_ROOM_PLAYER
    <3>1. CASE d = c
      BY <1>3, <1>4, <1>5, <2>1, <3>1
    <3>2. CASE d # c
      BY <1>1, <1>5, <1>6, <1>7, <3>2 DEF GroupInv, QueueInv
    <3> QED BY <3>1, <3>2
  <2> QED BY <1>7, <2>1, <2>2, <2>3 DEF QueueInv
<1>9. NobodyNew
  <2> SUFFICES ASSUME NEW d \in Client, HasYetToWait(d)' PROVE HasYetToWait(d)
    BY DEF NobodyNew
  <2>1. CASE d = c
    BY <1>2, <2>1 DEF HasYetToWait
  <2>2. CASE d # c
    BY <1>1, <1>5, <1>7, <2>2 DEF HasYetToWait
  <2> QED BY <2>1, <2>2
<1> QED BY <1>1, <1>2, <1>4, <1>8, <1>9, QuietMove

\* Out of the queue: the others stay.
LEMMA LeaveQueueStep == ASSUME GroupInv, LockInv', NEW c \in Client, LeaveQueue(c)
                        PROVE  GroupInv'
<1> DEFINE t == Leaver(c)
<1> USE DEF Asking, Grouping, Opening, PastNotice
<1>1. /\ t \in Threads /\ t # Progress /\ t # Main /\ Nobody \notin Threads
      /\ \A d \in Client : Worker(d) \in Threads /\ Worker(d) # t
      /\ readyCount \in Nat
  BY Names DEF GroupInv, ViewInv, ViewTypeOK
<1>2. /\ at[t] = "waitQueue" /\ owner["queue"] = Nobody /\ Go(t, "waitNotice")
      /\ queue' = RemoveFirst(queue, c) /\ owner' = owner
      /\ UNCHANGED <<mClients, mRoomPtr, announced, known, late, miscounted,
                     mIsChoiceCharacter, mIsFinishChoiceCharacter, readyCount>>
  BY DEF LeaveQueue, Free, roomVars, clientVars, threadVars, viewVars, ghosts
<1>3. \A u \in Threads : u # t => at'[u] = at[u]
  BY <1>1, <1>2, Gone DEF GroupInv
<1>4. /\ queue \in Seq(Client) /\ at[Main] # "inQueue"
      /\ \A d \in Client : at[Worker(d)] \notin Grouping
  BY <1>1, <1>2, Names DEF GroupInv, QueueInv
<1>5. \A d \in Client : AtMostOnce(queue', d) /\ (Waits(d)' => Waits(d))
  <2> TAKE d \in Client
  <2>1. AtMostOnce(queue, d)
    BY DEF GroupInv, QueueInv
  <2> QED BY <1>2, <1>4, <2>1, RemoveFirstKeeps DEF Waits
<1>6. QueueInv'
  <2>1. queue' \in Seq(Client)
    BY <1>2, <1>4, RemoveFirstIsSeq
  <2>2. at'[Main] # "inQueue"
    BY <1>1, <1>3, <1>4, Names
  <2>3. ASSUME NEW d \in Client
        PROVE  /\ at'[Worker(d)] \in Asking => ~Waits(d)'
               /\ at'[Worker(d)] \notin Grouping
    BY <1>1, <1>3, <1>4, <1>5 DEF GroupInv, QueueInv
  <2> QED BY <1>5, <2>1, <2>2, <2>3 DEF QueueInv
<1>7. NobodyNew
  BY <1>1, <1>3, <1>5 DEF NobodyNew, HasYetToWait
<1> QED BY <1>1, <1>2, <1>6, <1>7, QuietMove

(***************************************************************************)
(* The group gets its room.  Its members waited, so they were in no room;  *)
(* had there been a group before, there would be twice as many clients as  *)
(* a room takes.                                                           *)
(***************************************************************************)
LEMMA GroupHasWaited ==
    ASSUME GroupInv, Len(queue) >= MAX_ROOM_PLAYER
    PROVE  /\ IsFiniteSet(Group) /\ Cardinality(Group) = MAX_ROOM_PLAYER
           /\ \A d \in Group : d \in Client /\ Waits(d)
           /\ ~Formed
<1>1. /\ queue \in Seq(Client) /\ MAX_ROOM_PLAYER \in 0..Len(queue)
      /\ \A d \in Client : AtMostOnce(queue, d)
  BY LobbyAssumption DEF GroupInv, QueueInv
<1>2. Group = FirstOf(queue, MAX_ROOM_PLAYER)
  BY DEF Group, FirstOf
<1>3. /\ IsFiniteSet(Group) /\ Cardinality(Group) = MAX_ROOM_PLAYER
      /\ \A d \in Group : d \in Client /\ Waits(d)
  BY <1>1, <1>2, FirstOfCardinality DEF Waits
<1>4. ~Formed
  <2> SUFFICES ASSUME Formed PROVE FALSE
    OBVIOUS
  <2>1. Cardinality(HaveWaited) >= MAX_ROOM_PLAYER
    BY DEF GroupInv, OneGroup
  <2>2. Group \cap HaveWaited = {} /\ HaveWaited \subseteq Client
    BY <1>3 DEF HaveWaited, HasYetToWait
  <2>3. IsFiniteSet(HaveWaited)
    BY <2>2, FS_Subset, LobbyAssumption
  <2>4. Cardinality(Group \cup HaveWaited)
            = Cardinality(Group) + Cardinality(HaveWaited) - Cardinality({})
    BY <1>3, <2>2, <2>3, FS_Union
  <2>5. Group \cup HaveWaited \subseteq Client
    BY <1>3, <2>2
  <2>6. Cardinality(Group \cup HaveWaited) <= Cardinality(Client)
    BY <2>5, FS_Subset, LobbyAssumption
  <2>7. Cardinality({}) = 0 /\ Cardinality(HaveWaited) \in Nat /\ Cardinality(Client) \in Nat
    BY <2>3, FS_EmptySet, FS_CardinalityType, LobbyAssumption
  <2> QED BY <1>3, <2>1, <2>4, <2>6, <2>7, LobbyAssumption
<1> QED BY <1>3, <1>4

LEMMA AddClientsStep == ASSUME GroupInv, LockInv', NEW c \in Client, AddClients(c)
                        PROVE  GroupInv'
<1> DEFINE t == Worker(c)
<1> USE DEF Asking, Grouping, Opening, PastNotice
<1>1. /\ t \in Threads /\ t # Progress /\ t # Main
      /\ \A d \in Client : /\ Worker(d) \in Threads /\ (d # c => Worker(d) # t)
                           /\ Leaver(d) \in Threads /\ Leaver(d) # t
      /\ "queue" \in Locks /\ readyCount \in Nat
  BY Names DEF GroupInv, ViewInv, ViewTypeOK, Locks, Worker
<1>2. /\ at[t] = "inAdd" /\ Go(t, "announce")
      /\ mClients' = mClients \cup Group /\ mRoomPtr' = mRoomPtr \cup Group
      /\ queue' = SubSeq(queue, MAX_ROOM_PLAYER + 1, Len(queue))
      /\ UNCHANGED <<announced, known, late, miscounted, readyCount,
                     mIsChoiceCharacter, mIsFinishChoiceCharacter>>
  BY DEF AddClients, roomVars, clientVars, threadVars, viewVars, ghosts
<1>3. /\ at'[t] = "announce"
      /\ \A u \in Threads : u # t => at'[u] = at[u]
  BY <1>1, <1>2, Gone DEF GroupInv
<1>4. /\ owner["queue"] = t /\ Len(queue) >= MAX_ROOM_PLAYER /\ queue \in Seq(Client)
      /\ at[Main] # "inQueue"
      /\ \A d \in Client : d # c => at[Worker(d)] \notin Grouping
  BY <1>1, <1>2 DEF GroupInv, QueueInv
<1>5. /\ IsFiniteSet(Group) /\ Cardinality(Group) = MAX_ROOM_PLAYER
      /\ \A d \in Group : d \in Client /\ Waits(d)
      /\ ~Formed
  BY <1>4, GroupHasWaited
<1>6. /\ queue' \in Seq(Client)
      /\ \A d \in Client : /\ AtMostOnce(queue', d)
                           /\ Waits(d)' => Waits(d) /\ d \notin Group
  <2>1. MAX_ROOM_PLAYER \in 0..Len(queue) /\ Group = FirstOf(queue, MAX_ROOM_PLAYER)
    BY <1>4, LobbyAssumption DEF Group, FirstOf
  <2>2. ASSUME NEW d \in Client
        PROVE  /\ queue' \in Seq(Client) /\ AtMostOnce(queue', d)
               /\ Waits(d)' => Waits(d) /\ d \notin Group
    <3>1. AtMostOnce(queue, d)
      BY DEF GroupInv, QueueInv
    <3> QED BY <1>2, <1>4, <2>1, <3>1, SuffixKeeps DEF Waits
  <2> QED BY <2>2
<1>7. QueueInv'
  <2>1. at'[Main] # "inQueue"
    BY <1>1, <1>3, <1>4, Names
  <2>2. ASSUME NEW d \in Client
        PROVE  at'[Worker(d)] \notin Grouping /\ (at'[Worker(d)] \in Asking => ~Waits(d)')
    BY <1>1, <1>3, <1>4, <1>6 DEF GroupInv, QueueInv
  <2> QED BY <1>6, <2>1, <2>2 DEF QueueInv
<1>8. /\ NobodyNew
      /\ \A d \in Group : ~HasYetToWait(d)'
  <2>1. \A d \in Client : at'[Worker(d)] \in Asking => at[Worker(d)] \in Asking
    BY <1>1, <1>3
  <2>2. NobodyNew
    BY <1>6, <2>1 DEF NobodyNew, HasYetToWait
  <2>3. \A d \in Group : ~HasYetToWait(d)'
    BY <1>5, <1>6, <2>1 DEF HasYetToWait, GroupInv, QueueInv
  <2> QED BY <2>2, <2>3
<1>9. mClients' = Group /\ ~mIsFinishChoiceCharacter /\ at[Progress] = "none"
  BY <1>2, <1>5 DEF Formed
<1>10. \A d \in Client : (Present(d) => Present(d)') /\ (Past(d)' <=> Past(d))
  BY <1>1, <1>2, <1>3 DEF Present, Past
<1>11. ViewInv'
  <2>1. ViewTypeOK'
    BY <1>2, <1>5, <1>9 DEF GroupInv, ViewInv, ViewTypeOK
  <2>2. \A d \in Client : HasYetToWait(d)' => known'[d] = {} /\ d \notin mClients'
    BY <1>2, <1>8, <1>9 DEF GroupInv, ViewInv, NobodyNew
  <2>3. \A d \in mClients' \cup announced' : Present(d)'
    <3>1. \A d \in Group : Present(d)'
      BY <1>2 DEF Present
    <3>2. \A d \in announced : Present(d)'
      BY <1>10 DEF GroupInv, ViewInv, ViewTypeOK
    <3> QED BY <1>2, <1>9, <3>1, <3>2
  <2>4. \A d \in Client : \A e \in known'[d] : Present(e)'
    BY <1>2, <1>10 DEF GroupInv, ViewInv, ViewTypeOK
  <2>5. \A p \in mClients' : known'[p] = {}
    BY <1>2, <1>5, <1>9 DEF GroupInv, ViewInv, HasYetToWait
  <2>6. KnownAreThere'
    BY <2>5 DEF KnownAreThere
  <2> QED BY <2>1, <2>2, <2>3, <2>4, <2>6 DEF ViewInv
<1>12. OneGroup'
  <2>1. Group \subseteq HaveWaited' /\ HaveWaited' \subseteq Client
    BY <1>5, <1>8 DEF HaveWaited
  <2>2. IsFiniteSet(HaveWaited')
    BY <2>1, FS_Subset, LobbyAssumption
  <2>3. Cardinality(Group) <= Cardinality(HaveWaited')
    BY <2>1, <2>2, FS_Subset
  <2> QED BY <1>5, <2>3 DEF OneGroup
<1>13. ChoiceInv'
  BY <1>1, <1>2, <1>3, <1>9, Names DEF ChoiceInv
<1> QED BY <1>7, <1>11, <1>12, <1>13 DEF GroupInv
-----------------------------------------------------------------------------
\* The list of players is taken ...
LEMMA MakeConnectRoomStep == ASSUME GroupInv, LockInv', NEW c \in Client, MakeConnectRoom(c)
                             PROVE  GroupInv'
<1> DEFINE t == Worker(c)
<1> USE DEF Asking, Grouping, Opening, PastNotice
<1>1. /\ t \in Threads /\ t # Progress /\ readyCount \in Nat
      /\ \A d \in Client : Leaver(d) \in Threads /\ Leaver(d) # t
  BY Names DEF GroupInv, ViewInv, ViewTypeOK
<1>2. /\ at[t] = "announce" /\ Go(t, "waitConnect") /\ announced' = mClients
      /\ UNCHANGED <<owner, queue, mClients, mRoomPtr, known, late, miscounted, readyCount,
                     mIsChoiceCharacter, mIsFinishChoiceCharacter>>
  BY DEF MakeConnectRoom, roomVars, clientVars, threadVars, ghosts
<1>3. QueueInv' /\ NobodyNew
  BY <1>1, <1>2, QueueStays DEF GroupInv
<1>4. \A d \in Client : (Present(d) => Present(d)') /\ (Past(d)' <=> Past(d))
  <2>1. \A u \in Threads : u # t => at'[u] = at[u]
    BY <1>1, <1>2, Gone DEF GroupInv
  <2> QED BY <1>1, <1>2, <2>1 DEF Present, Past
<1>5. ViewInv'
  BY <1>2, <1>3, <1>4
  DEF GroupInv, ViewInv, ViewTypeOK, NobodyNew, KnownAreThere, Past
<1>6. OneGroup'
  <2>1. Formed' => Formed
    BY <1>1, <1>2, FormedBefore DEF GroupInv
  <2> QED BY <1>3, <2>1, GroupStays DEF GroupInv
<1>7. ChoiceInv'
  BY <1>1, <1>2, ChoiceStays DEF GroupInv
<1> QED BY <1>3, <1>5, <1>6, <1>7 DEF GroupInv

\* ... and told to them; who is past its notice then is late.
LEMMA SendConnectRoomStep == ASSUME GroupInv, LockInv', NEW c \in Client, SendConnectRoom(c)
                             PROVE  GroupInv'
<1> DEFINE t == Worker(c)
<1> USE DEF Asking, Grouping, Opening, PastNotice
<1>1. /\ t \in Threads /\ t # Progress /\ readyCount \in Nat
      /\ \A d \in Client : Leaver(d) \in Threads /\ Leaver(d) # t
  BY Names DEF GroupInv, ViewInv, ViewTypeOK
<1>2. /\ at[t] = "waitConnect" /\ Go(t, "start")
      /\ known' = [p \in Client |-> IF p \in mClients THEN announced ELSE known[p]]
      /\ late' = {d \in announced : Past(d)}
      /\ UNCHANGED <<owner, queue, mClients, mRoomPtr, announced, miscounted, readyCount,
                     mIsChoiceCharacter, mIsFinishChoiceCharacter>>
  BY DEF SendConnectRoom, roomVars, clientVars, threadVars, Past
<1>3. QueueInv' /\ NobodyNew
  BY <1>1, <1>2, QueueStays DEF GroupInv
<1>4. \A d \in Client : (Present(d) => Present(d)') /\ (Past(d)' <=> Past(d))
  <2>1. \A u \in Threads : u # t => at'[u] = at[u]
    BY <1>1, <1>2, Gone DEF GroupInv
  <2> QED BY <1>1, <1>2, <2>1 DEF Present, Past
<1>5. ViewInv'
  <2>1. /\ mClients \subseteq Client /\ announced \subseteq Client
        /\ known \in [Client -> SUBSET Client]
    BY DEF GroupInv, ViewInv, ViewTypeOK
  <2>2. ViewTypeOK'
    BY <1>1, <1>2, <2>1 DEF ViewTypeOK
  <2>3. \A d \in Client : HasYetToWait(d)' => known'[d] = {} /\ d \notin mClients'
    BY <1>2, <1>3 DEF GroupInv, ViewInv, NobodyNew
  <2>4. \A d \in mClients' \cup announced' : Present(d)'
    BY <1>2, <1>4, <2>1 DEF GroupInv, ViewInv
  <2>5. \A d \in Client : \A e \in known'[d] : Present(e)'
    BY <1>2, <1>4, <2>1 DEF GroupInv, ViewInv
  <2>6. KnownAreThere'
    <3> SUFFICES ASSUME NEW p \in mClients, NEW d \in known'[p], Past(d)'
                 PROVE  d \in late'
      BY <1>2 DEF KnownAreThere, Past
    <3>1. known'[p] = announced
      BY <1>2, <2>1
    <3> QED BY <1>2, <1>4, <2>1, <3>1
  <2> QED BY <2>2, <2>3, <2>4, <2>5, <2>6 DEF ViewInv
<1>6. OneGroup'
  <2>1. Formed' => Formed
    BY <1>1, <1>2, FormedBefore DEF GroupInv
  <2> QED BY <1>3, <2>1, GroupStays DEF GroupInv
<1>7. ChoiceInv'
  BY <1>1, <1>2, ChoiceStays DEF GroupInv
<1> QED BY <1>3, <1>5, <1>6, <1>7 DEF GroupInv

LEMMA StartThreadStep == ASSUME GroupInv, LockInv', NEW c \in Client, StartThread(c)
                         PROVE  GroupInv'
<1> DEFINE t == Worker(c)
<1> USE DEF Asking, Grouping, Opening, PastNotice
<1>1. /\ t \in Threads /\ t # Progress /\ t # Main /\ Main \in Threads /\ Main # Progress
      /\ Progress \in Threads
      /\ \A d \in Client : /\ Leaver(d) \in Threads /\ Leaver(d) \notin {t, Progress}
                           /\ Worker(d) \in Threads /\ Worker(d) # Progress
  BY Names
<1>2. /\ at[t] = "start" /\ at' = [at EXCEPT ![t] = "idle", ![Progress] = "choice"]
      /\ UNCHANGED <<owner, queue, mClients, mRoomPtr, announced, known, late, miscounted,
                     readyCount, mIsChoiceCharacter, mIsFinishChoiceCharacter>>
  BY DEF StartThread, viewVars, clientVars, threadVars, ghosts
<1>3. /\ at'[t] = "idle" /\ at'[Progress] = "choice"
      /\ \A u \in Threads : u \notin {t, Progress} => at'[u] = at[u]
  BY <1>1, <1>2 DEF GroupInv, LockInv, LockTypeOK
<1>4. \A d \in Client : /\ at'[Worker(d)] \in Asking \cup Grouping => at'[Worker(d)] = at[Worker(d)]
                        /\ Waits(d)' <=> Waits(d)
                        /\ Past(d)' <=> Past(d)
                        /\ Present(d)' <=> Present(d)
  BY <1>1, <1>2, <1>3 DEF Waits, Contains, Past, Present
<1>5. QueueInv' /\ NobodyNew
  <2>1. at'[Main] = at[Main]
    BY <1>1, <1>3
  <2>2. ASSUME NEW d \in Client
        PROVE  /\ at'[Worker(d)] \in Asking => ~Waits(d)'
               /\ at'[Worker(d)] \in Grouping =>
                     owner'["queue"] = Worker(d) /\ Len(queue') >= MAX_ROOM_PLAYER
               /\ AtMostOnce(queue', d)
               /\ HasYetToWait(d)' => HasYetToWait(d)
    BY <1>2, <1>4 DEF GroupInv, QueueInv, HasYetToWait
  <2>3. queue' \in Seq(Client) /\ (at'[Main] = "inQueue" => owner'["queue"] = Main)
    BY <1>2, <2>1 DEF GroupInv, QueueInv
  <2> QED BY <2>2, <2>3 DEF QueueInv, NobodyNew
<1>6. ViewInv'
  <2>1. ViewTypeOK'
    BY <1>2 DEF GroupInv, ViewInv, ViewTypeOK
  <2>2. \A d \in Client : HasYetToWait(d)' => known'[d] = {} /\ d \notin mClients'
    BY <1>2, <1>5 DEF GroupInv, ViewInv, NobodyNew
  <2>3. /\ \A d \in mClients' \cup announced' : Present(d)'
        /\ \A d \in Client : \A e \in known'[d] : Present(e)'
    BY <1>2, <1>4 DEF GroupInv, ViewInv, ViewTypeOK
  <2>4. KnownAreThere'
    BY <1>2, <1>4 DEF GroupInv, ViewInv, ViewTypeOK, KnownAreThere, Past
  <2> QED BY <2>1, <2>2, <2>3, <2>4 DEF ViewInv
<1>7. OneGroup'
  BY <1>2, <1>5, GroupStays DEF GroupInv, Formed
<1>8. ChoiceInv'
  BY <1>2, <1>3 DEF GroupInv, ChoiceInv, AllHaveChosen
<1> QED BY <1>5, <1>6, <1>7, <1>8 DEF GroupInv
-----------------------------------------------------------------------------
(***************************************************************************)
(* Who leaves passes its notice.  Without a room it is in nobody's list,   *)
(* with one it is taken out of the lists of all who are in the room.       *)
(***************************************************************************)
LEMMA NoticeSteps == ASSUME GroupInv, LockInv', NEW c \in Client, SkipNotice(c) \/ SendNotice(c)
                     PROVE  GroupInv'
<1> DEFINE t == Leaver(c)
<1> USE DEF Asking, Grouping, Opening, PastNotice
<1>1. /\ t \in Threads /\ t # Progress /\ readyCount \in Nat
      /\ \A d \in Client : /\ Worker(d) # t /\ Leaver(d) \in Threads
                           /\ d # c => Leaver(d) # t
  BY Names DEF GroupInv, ViewInv, ViewTypeOK, Leaver
<1>2. /\ at[t] = "waitNotice" /\ Go(t, "waitClient")
      /\ UNCHANGED <<owner, queue, mClients, mRoomPtr, announced, late, miscounted, readyCount,
                     mIsChoiceCharacter, mIsFinishChoiceCharacter>>
  BY DEF SkipNotice, SendNotice, roomVars, clientVars, threadVars, viewVars, ghosts
<1>3. /\ known' \in [Client -> SUBSET Client]
      /\ \A p \in Client : known'[p] \subseteq known[p]
      /\ \A p \in mClients \ {c} : c \notin known'[p]
  <2>1. mClients \subseteq Client /\ known \in [Client -> SUBSET Client]
    BY DEF GroupInv, ViewInv, ViewTypeOK
  <2>2. CASE SkipNotice(c)
    <3>1. ~Present(c) /\ known' = known
      BY <1>2, <2>2 DEF SkipNotice, Present, Past, viewVars
    <3> QED BY <2>1, <3>1 DEF GroupInv, ViewInv
  <2>3. CASE SendNotice(c)
    BY <2>1, <2>3 DEF SendNotice
  <2> QED BY <2>2, <2>3
<1>4. QueueInv' /\ NobodyNew
  BY <1>1, <1>2, QueueStays DEF GroupInv
<1>5. \A d \in Client : /\ Present(d) => Present(d)'
                        /\ d # c => (Past(d)' <=> Past(d))
  <2>1. \A u \in Threads : u # t => at'[u] = at[u]
    BY <1>1, <1>2, Gone DEF GroupInv
  <2> QED BY <1>1, <1>2, <2>1 DEF Present, Past
<1>6. ViewInv'
  <2>1. ViewTypeOK'
    BY <1>2, <1>3 DEF GroupInv, ViewInv, ViewTypeOK
  <2>2. \A d \in Client : HasYetToWait(d)' => known'[d] = {} /\ d \notin mClients'
    BY <1>2, <1>3, <1>4 DEF GroupInv, ViewInv, NobodyNew
  <2>3. /\ \A d \in mClients' \cup announced' : Present(d)'
        /\ \A d \in Client : \A e \in known'[d] : Present(e)'
    BY <1>2, <1>3, <1>5 DEF GroupInv, ViewInv, ViewTypeOK
  <2>4. KnownAreThere'
    <3> SUFFICES ASSUME NEW p \in mClients, NEW d \in known'[p] \ {p}, Past(d)'
                 PROVE  d \in late
      BY <1>2 DEF KnownAreThere, Past
    <3>1. p \in Client /\ d \in known[p] \ {p} /\ d \in Client
      BY <1>3 DEF GroupInv, ViewInv, ViewTypeOK
    <3>2. d # c
      BY <1>3
    <3> QED BY <1>5, <3>1, <3>2 DEF GroupInv, ViewInv, KnownAreThere, Past
  <2> QED BY <2>1, <2>2, <2>3, <2>4 DEF ViewInv
<1>7. OneGroup'
  <2>1. Formed' => Formed
    BY <1>1, <1>2, FormedBefore DEF GroupInv
  <2> QED BY <1>4, <2>1, GroupStays DEF GroupInv
<1>8. ChoiceInv'
  BY <1>1, <1>2, ChoiceStays DEF GroupInv
<1> QED BY <1>4, <1>6, <1>7, <1>8 DEF GroupInv

\* Out of the room: a count that is under way may be of too many.
LEMMA RemoveClientStep == ASSUME GroupInv, LockInv', NEW c \in Client, RemoveClient(c)
                          PROVE  GroupInv'
<1> DEFINE t == Leaver(c)
<1> USE DEF Asking, Grouping, Opening, PastNotice
<1>1. /\ t \in Threads /\ t # Progress /\ readyCount \in Nat /\ Progress \in Threads
      /\ "queue" \in Locks /\ c # "queue" /\ \A d \in Client : Worker(d) # t
  BY Names DEF GroupInv, ViewInv, ViewTypeOK, Locks
<1>2. /\ at[t] = "inRemove" /\ Go(t, "gone")
      /\ mClients' = mClients \ {c} /\ mRoomPtr' = mRoomPtr \ {c}
      /\ mIsChoiceCharacter' = mIsChoiceCharacter \ {c}
      /\ mIsFinishChoiceCharacter' => mIsFinishChoiceCharacter
      /\ miscounted' = (miscounted \/ (c \in mClients /\ at[Progress] = "compare"))
      /\ owner'["queue"] = owner["queue"]
      /\ UNCHANGED <<queue, announced, known, late, readyCount>>
  BY <1>1 DEF RemoveClient, threadVars, viewVars, Unlock
<1>3. QueueInv' /\ NobodyNew
  BY <1>1, <1>2, QueueStays DEF GroupInv
<1>4. ViewInv'
  <2>1. \A d \in Client : d \in mRoomPtr /\ d \notin mRoomPtr' => Past(d)
    BY <1>2 DEF Past
  <2>2. mClients' \subseteq mClients
    BY <1>2
  <2> QED BY <1>1, <1>2, <1>3, <2>1, <2>2, ViewStays DEF GroupInv
<1>5. OneGroup'
  <2>1. Formed' => Formed
    BY <1>1, <1>2, FormedBefore DEF GroupInv
  <2> QED BY <1>3, <2>1, GroupStays DEF GroupInv
<1>6. ChoiceInv'
  <2>1. AllHaveChosen => AllHaveChosen'
    BY <1>2 DEF AllHaveChosen
  <2>2. at'[Progress] = at[Progress]
    BY <1>1, <1>2, Gone DEF GroupInv
  <2>3. c \notin mClients => mClients' \cap mIsChoiceCharacter' = mClients \cap mIsChoiceCharacter
    BY <1>2
  <2>4. at[Progress] = "compare" /\ ~miscounted' =>
            readyCount' <= Cardinality(mClients' \cap mIsChoiceCharacter')
    BY <1>2, <2>3 DEF GroupInv, ChoiceInv
  <2> QED BY <1>2, <2>1, <2>2, <2>4 DEF GroupInv, ChoiceInv
<1> QED BY <1>3, <1>4, <1>5, <1>6 DEF GroupInv
-----------------------------------------------------------------------------
(***************************************************************************)
(* The room's thread counts who has chosen; when the number fits, and      *)
(* nobody has left meanwhile, everybody has.                               *)
(***************************************************************************)
LEMMA CountSteps == ASSUME GroupInv, LockInv', CountReady \/ CompareReady \/ SendChoiceAll
                    PROVE  GroupInv'
<1> DEFINE t == Progress
           chosen == mClients \cap mIsChoiceCharacter
<1> USE DEF Asking, Grouping, Opening, PastNotice
<1>1. /\ t \in Threads /\ \A d \in Client : Worker(d) # t
  BY Names
<1>2. /\ UNCHANGED <<owner, queue, mClients, mRoomPtr, announced, known, late, miscounted,
                     mIsChoiceCharacter>>
      /\ at[t] \in {"choice", "compare", "waitAll"}
      /\ \/ Go(t, "ask") \/ Go(t, "compare") \/ Go(t, "waitAll")
  BY DEF CountReady, CompareReady, SendChoiceAll, roomVars, clientVars, threadVars, viewVars,
     ghosts
<1>3. PICK place \in {"ask", "compare", "waitAll"} : Go(t, place)
  BY <1>2
<1>4. at'[t] = place
  BY <1>1, <1>3, Gone DEF GroupInv
<1>5. /\ IsFiniteSet(mClients) /\ Cardinality(mClients) \in Nat /\ Cardinality(chosen) \in Nat
      /\ Cardinality(chosen) = Cardinality(mClients) => chosen = mClients
      /\ Cardinality(chosen) <= Cardinality(mClients)
  <2>1. mClients \subseteq Client /\ chosen \subseteq mClients
    BY DEF GroupInv, ViewInv, ViewTypeOK
  <2>2. IsFiniteSet(mClients) /\ IsFiniteSet(chosen)
    BY <2>1, FS_Subset, LobbyAssumption
  <2> QED BY <2>1, <2>2, FS_Subset, FS_CardinalityType
<1>6. readyCount' \in Nat
  BY <1>5 DEF CountReady, CompareReady, SendChoiceAll, threadVars, GroupInv, ViewInv, ViewTypeOK
<1>7. QueueInv' /\ NobodyNew
  BY <1>1, <1>2, <1>3, QueueStays DEF GroupInv
<1>8. ViewInv'
  BY <1>1, <1>2, <1>3, <1>6, <1>7, ViewStays DEF GroupInv
<1>9. OneGroup'
  <2>1. Formed' => Formed
    BY <1>1, <1>2, <1>3, FormedBefore DEF GroupInv
  <2> QED BY <1>7, <2>1, GroupStays DEF GroupInv
<1>10. ChoiceInv'
  <2>1. AllHaveChosen' <=> AllHaveChosen
    BY <1>2 DEF AllHaveChosen
  <2>2. CASE CountReady
    <3>1. place \in {"ask", "compare"} /\ mIsFinishChoiceCharacter' = mIsFinishChoiceCharacter
      BY <1>1, <1>3, <1>4, <2>2, Gone DEF CountReady, roomVars, GroupInv
    <3>2. place = "compare" => readyCount' = Cardinality(chosen)
      BY <1>4, <2>2, <3>1, Gone, <1>1 DEF CountReady, GroupInv
    <3>3. place = "compare" => readyCount' <= Cardinality(mClients' \cap mIsChoiceCharacter')
      BY <1>2, <1>5, <3>2
    <3> QED BY <1>4, <2>1, <3>1, <3>3 DEF GroupInv, ChoiceInv
  <2>3. CASE CompareReady
    <3>1. /\ mIsFinishChoiceCharacter' = mIsFinishChoiceCharacter /\ at[t] = "compare"
          /\ Go(t, IF readyCount = Cardinality(mClients) /\ ~mIsFinishChoiceCharacter
                   THEN "waitAll" ELSE "ask")
      BY <2>3 DEF CompareReady, roomVars
    <3>2. at'[t] \in {"waitAll", "ask"} /\ (at'[t] = "waitAll" => readyCount = Cardinality(mClients))
      BY <1>1, <3>1, Gone DEF GroupInv
    <3>3. at'[t] = "waitAll" => AllHaveChosen
      <4>1. readyCount \in Nat /\ (miscounted \/ readyCount <= Cardinality(chosen))
        BY <3>1 DEF GroupInv, ChoiceInv, ViewInv, ViewTypeOK
      <4> QED BY <1>5, <3>2, <4>1 DEF AllHaveChosen
    <3> QED BY <2>1, <3>1, <3>2, <3>3 DEF GroupInv, ChoiceInv
  <2>4. CASE SendChoiceAll
    <3>1. at[t] = "waitAll" /\ Go(t, "ask")
      BY <2>4 DEF SendChoiceAll
    <3>2. at'[t] = "ask"
      BY <1>1, <3>1, Gone DEF GroupInv
    <3> QED BY <2>1, <3>1, <3>2 DEF GroupInv, ChoiceInv
  <2> QED BY <2>2, <2>3, <2>4
<1> QED BY <1>7, <1>8, <1>9, <1>10 DEF GroupInv

\* The room is reset.
LEMMA LoopOutStep == ASSUME GroupInv, LockInv', LoopOut PROVE GroupInv'
<1> USE DEF Asking, Grouping, Opening, PastNotice
<1>1. /\ Progress \in Threads /\ readyCount \in Nat /\ \A d \in Client : Worker(d) # Progress
  BY Names DEF GroupInv, ViewInv, ViewTypeOK
<1>2. /\ UNCHANGED <<owner, queue, mRoomPtr, announced, known, late, miscounted, readyCount>>
      /\ Go(Progress, "waitManager") /\ at[Progress] = "loopOut"
      /\ mClients' = {} /\ mIsFinishChoiceCharacter' = FALSE
  BY DEF LoopOut, clientVars, threadVars, viewVars, ghosts
<1>3. QueueInv' /\ NobodyNew
  BY <1>1, <1>2, QueueStays DEF GroupInv
<1>4. ViewInv'
  BY <1>1, <1>2, <1>3, ViewStays DEF GroupInv
<1>5. OneGroup'
  <2>1. Formed' => Formed
    BY <1>1, <1>2, FormedBefore DEF GroupInv
  <2> QED BY <1>3, <2>1, GroupStays DEF GroupInv
<1>6. ChoiceInv'
  <2>1. at'[Progress] = "waitManager"
    BY <1>1, <1>2, Gone DEF GroupInv
  <2> QED BY <1>2, <2>1 DEF ChoiceInv
<1> QED BY <1>3, <1>4, <1>5, <1>6 DEF GroupInv

LEMMA StepGroupInv == GroupInv /\ [Next]_vars => GroupInv'
<1> SUFFICES ASSUME GroupInv, [Next]_vars PROVE GroupInv'
  OBVIOUS
<1>1. LockInv'
  BY StepLockInv DEF GroupInv
<1>2. ASSUME NEW c \in Client, WorkerStep(c) \/ ChoiceCharacter(c) PROVE GroupInv'
  <2>1. Worker(c) \in Threads
    BY Names
  <2> QED BY <1>1, <1>2, <2>1, PlainLock, PlainWorkerSteps, AddClientStep, AddClientsStep,
             MakeConnectRoomStep, SendConnectRoomStep, StartThreadStep DEF WorkerStep
<1>3. ASSUME NEW c \in Client, LeaverStep(c) \/ Disconnect(c) PROVE GroupInv'
  <2>1. Leaver(c) \in Threads
    BY Names
  <2> QED BY <1>1, <1>3, <2>1, PlainLock, PlainLeaverSteps, LeaveQueueStep, NoticeSteps,
             RemoveClientStep DEF LeaverStep
<1>4. ASSUME ProgressStep PROVE GroupInv'
  <2>1. Progress \in Threads
    BY Names
  <2> QED BY <1>1, <1>4, <2>1, PlainLock, PlainProgressSteps, CountSteps, LoopOutStep
      DEF ProgressStep
<1>5. ASSUME MainStep PROVE GroupInv'
  BY <1>1, <1>5, PlainMainSteps
<1>6. CASE UNCHANGED vars
  <2>1. /\ UNCHANGED <<owner, at, queue, mClients, mRoomPtr, announced, known, late,
                       miscounted, readyCount, mIsChoiceCharacter, mIsFinishChoiceCharacter>>
    BY <1>6 DEF vars, roomVars, clientVars, threadVars, viewVars, ghosts
  <2>2. \A c \in Client : (Waits(c)' <=> Waits(c)) /\ (HasYetToWait(c)' <=> HasYetToWait(c))
    BY <2>1 DEF Waits, Contains, HasYetToWait
  <2>3. \A c \in Client : (Past(c)' <=> Past(c)) /\ (Present(c)' <=> Present(c))
    BY <2>1 DEF Past, Present
  <2>4. QueueInv' /\ NobodyNew
    BY <2>1, <2>2 DEF GroupInv, QueueInv, NobodyNew, AtMostOnce
  <2>5. ViewInv'
    BY <2>1, <2>2, <2>3 DEF GroupInv, ViewInv, ViewTypeOK, KnownAreThere, Past
  <2>6. OneGroup'
    BY <2>1, <2>4, GroupStays DEF GroupInv, Formed
  <2>7. ChoiceInv'
    BY <2>1 DEF GroupInv, ChoiceInv, AllHaveChosen
  <2> QED BY <1>1, <2>4, <2>5, <2>6, <2>7 DEF GroupInv
<1> QED BY <1>2, <1>3, <1>4, <1>5, <1>6 DEF Next

LEMMA GroupInvHolds == Spec => []GroupInv
  BY InitGroupInv, StepGroupInv, PTL DEF Spec

(***************************************************************************)
(* Nobody in a room counts on a player that has left and said so, unless   *)
(* the notice had gone out before the list of players was sent, whichever  *)
(* way the requests, the disconnects and the start of the game cross.      *)
(***************************************************************************)
THEOREM KnownPlayersAreThere == Spec => []KnownAreThere
<1>1. GroupInv => KnownAreThere
  BY DEF GroupInv, ViewInv
<1> QED BY <1>1, GroupInvHolds, PTL

(***************************************************************************)
(* The time to choose a character is cut short only when every player in   *)
(* the room has chosen, or when one has left between the count and the     *)
(* comparison.                                                             *)
(***************************************************************************)
THEOREM ChoiceOfAll == Spec => []ChoiceIsUnanimous
<1>1. GroupInv => ChoiceIsUnanimous
  BY DEF GroupInv, ChoiceInv, AllHaveChosen, ChoiceIsUnanimous
<1> QED BY <1>1, GroupInvHolds, PTL
-----------------------------------------------------------------------------
(***************************************************************************)
(* The message with everybody's character.  How long it is: FlattenSeq and *)
(* FoldLeft are defined by recursive functions, of which these are the two *)
(* turns and the one that are needed.                                      *)
(***************************************************************************)
LEMMA FlattenTwo ==
    ASSUME NEW S, NEW a \in Seq(S), NEW b \in Seq(S)
    PROVE  FlattenSeq(<<a, b>>) = a \o b
<1> DEFINE s == <<a, b>>
           Turn(w, i) == IF i = 1 THEN s[i] ELSE w[i - 1] \o s[i]
           Is(w) == w = [i \in 1 .. Len(s) |-> Turn(w, i)]
           f == [i \in 1 .. Len(s) |-> IF i = 1 THEN a ELSE a \o b]
           u == CHOOSE w : Is(w)
<1>1. Len(s) = 2 /\ s[1] = a /\ s[2] = b
  OBVIOUS
<1>2. FlattenSeq(s) = IF Len(s) = 0 THEN s ELSE u[Len(s)]
  BY Zenon DEF FlattenSeq
<1> HIDE DEF s
<1>3. Is(f)
  <2>1. \A i \in 1 .. Len(s) : f[i] = Turn(f, i)
    BY <1>1
  <2> HIDE DEF Turn
  <2> QED BY <2>1
<1> HIDE DEF f
<1>4. Is(u)
  BY <1>3, Zenon
<1> HIDE DEF u
<1>5. u[1] = a /\ u[2] = u[1] \o b
  <2>1. u[1] = Turn(u, 1) /\ u[2] = Turn(u, 2)
    <3>1. 1 \in 1 .. Len(s) /\ 2 \in 1 .. Len(s)
      BY <1>1
    <3> HIDE DEF Turn
    <3> QED BY <1>4, <3>1
  <2>2. u[2] = u[2 - 1] \o s[2] /\ 2 - 1 = 1
    BY <2>1
  <2>3. u[2] = u[1] \o s[2]
    BY <2>2
  <2> QED BY <1>1, <2>1, <2>3
<1>6. FlattenSeq(s) = a \o b
  BY <1>1, <1>2, <1>5
<1> QED BY <1>6 DEF s

\* sizeof is a number.
LEMMA SizeofIsNat == Sizeof(cs_sc_ChangeCharacterPacket) \in Nat
<1> DEFINE p == cs_sc_ChangeCharacterPacket
           Kind == {"size", "type", "networkID", "characterType"} \X Nat
           first == Of(4, <<"networkID">>)
           second == Of(1, <<"characterType">>)
<1>1. first = <<<<"networkID", 4>>>> /\ second = <<<<"characterType", 1>>>>
  BY DEF Of
<1>0. first \in Seq(Kind) /\ second \in Seq(Kind) /\ Packet.members \in Seq(Kind)
  <2>1. <<"networkID", 4>> \in Kind /\ <<"characterType", 1>> \in Kind
        /\ <<"size", 2>> \in Kind /\ <<"type", 1>> \in Kind
    OBVIOUS
  <2> HIDE DEF Kind, first, second
  <2>2. Packet.members = <<<<"size", 2>>, <<"type", 1>>>>
    BY DEF Packet
  <2> QED BY <1>1, <2>1, <2>2
<1> HIDE DEF first, second
<1>2. FlattenSeq(<<first, second>>) = first \o second
  BY <1>0, FlattenTwo
<1>3. p.members = Packet.members \o (first \o second)
  BY <1>2 DEF cs_sc_ChangeCharacterPacket, Derived, Members, first, second
<1>4. p.members \in Seq(Kind)
  BY <1>0, <1>3
<1> HIDE DEF p, Kind
<1> DEFINE k(w) == Cardinality({i \in DOMAIN p.members : p.members[i][2] = w})
<1>5. \A w : k(w) \in Nat
  <2>1. DOMAIN p.members = 1 .. Len(p.members) /\ Len(p.members) \in Nat
    BY <1>4
  <2>2. IsFiniteSet(DOMAIN p.members)
    BY <2>1, FS_Interval
  <2> QED BY <2>2, FS_Subset, FS_CardinalityType
<1>6. Sizeof(p) = k(1) + 2 * k(2) + 4 * k(4)
  BY DEF Sizeof
<1> HIDE DEF k
<1> QED BY <1>5, <1>6 DEF p

\* What is written is as long as the packets in it.
LEMMA OneKind ==
    ASSUME NEW size \in Nat, NEW n \in Nat
    PROVE  GetLength(ChangeCharacters(size, n)) = n * Sizeof(cs_sc_ChangeCharacterPacket)
<1> DEFINE bytes == Sizeof(cs_sc_ChangeCharacterPacket)
           group == <<n, cs_sc_ChangeCharacterPacket>>
           base == OutputMemoryStream(bytes * size)
           D == DOMAIN <<group>>
           Turn(w, s) == IF s = {} THEN base
                         ELSE Write(w[s \ {Max(s)}],
                                    <<group>>[Max(s)][1] * Sizeof(<<group>>[Max(s)][2]))
           Is(w) == w = [s \in SUBSET D |-> Turn(w, s)]
           f == [s \in SUBSET D |-> IF s = {} THEN base ELSE Write(base, n * bytes)]
           u == CHOOSE w : Is(w)
<1>1. ChangeCharacters(size, n) = u[D]
  BY Zenon DEF ChangeCharacters, Streamed, FoldLeft, MapThenFoldSet
<1>2. D = {1} /\ SUBSET D = {{}, {1}}
  OBVIOUS
<1>3. Max({1}) = 1 /\ <<group>>[1][1] = n /\ <<group>>[1][2] = cs_sc_ChangeCharacterPacket
  BY DEF Max
<1>4. {1} \ {1} = {} /\ {1} # {}
  OBVIOUS
<1> HIDE DEF group, D
<1>5. Is(f)
  <2>1. \A s \in SUBSET D : f[s] = Turn(f, s)
    <3>1. f[{}] = base /\ f[{1}] = Write(base, n * bytes)
      BY <1>2, <1>4
    <3>2. Turn(f, {}) = base /\ Turn(f, {1}) = Write(base, n * bytes)
      BY <1>3, <1>4, <3>1
    <3> QED BY <1>2, <3>1, <3>2
  <2> HIDE DEF Turn
  <2> QED BY <2>1
<1> HIDE DEF f
<1>6. Is(u)
  BY <1>5, Zenon
<1> HIDE DEF u
<1>7. u[D] = Turn(u, {1}) /\ u[{}] = Turn(u, {})
  BY <1>2, <1>6
<1>8. u[D] = Write(base, n * bytes)
  BY <1>3, <1>4, <1>7
<1> HIDE DEF bytes
<1>9. n * bytes \in Nat
  BY SizeofIsNat DEF bytes
<1> QED BY <1>1, <1>8, <1>9 DEF Write, OutputMemoryStream, GetLength, ReallocBuffer, bytes

(***************************************************************************)
(* From the moment the message is sized to the one it is sent: the room    *)
(* has no more players than it is made for, and between the two looks at   *)
(* the list nobody has left, or it is known to be torn.                    *)
(***************************************************************************)
MessageInv ==
    /\ Cardinality(mClients) <= MAX_ROOM_PLAYER
    /\ at[Progress] = "collect" =>
          /\ torn \/ bufferSize = Cardinality(mClients) * Sizeof(cs_sc_ChangeCharacterPacket)
          /\ bufferSize <= MAX_BUF_SIZE
    /\ MessagesAreWhole

LEMMA InitMessages == Init => MessageInv
<1> SUFFICES ASSUME Init PROVE MessageInv
  OBVIOUS
<1>1. at[Progress] = "none" /\ mClients = {}
  BY Names DEF Init, Progress
<1>2. Cardinality(mClients) = 0
  BY <1>1, FS_EmptySet
<1> QED BY <1>1, <1>2, LobbyAssumption DEF MessageInv, MessagesAreWhole

\* Fewer players than a room has, or as many, are a number.
LEMMA Players ==
    ASSUME GroupInv, MessageInv
    PROVE  IsFiniteSet(mClients) /\ Cardinality(mClients) \in 0..MAX_ROOM_PLAYER
<1>1. IsFiniteSet(mClients)
  BY FS_Subset, LobbyAssumption DEF GroupInv, ViewInv, ViewTypeOK
<1> QED BY <1>1, FS_CardinalityType, LobbyAssumption DEF MessageInv

LEMMA CharactersAreShort ==
    ASSUME NEW n \in 0..MAX_ROOM_PLAYER
    PROVE  n * Sizeof(cs_sc_ChangeCharacterPacket) <= MAX_BUF_SIZE
<1>1. n \in Nat /\ Fits(ChangeCharacters(n, n))
  BY CharactersFit, LobbyAssumption
<1> QED BY <1>1, OneKind DEF Fits

\* A step that leaves the list, the message and the thread that makes it alone.
LEMMA MessageStays ==
    ASSUME MessageInv, UNCHANGED <<mClients, bufferSize, length, torn>>,
           at'[Progress] = at[Progress] \/ at'[Progress] \notin {"collect", "waitSync"}
    PROVE  MessageInv'
  BY DEF MessageInv, MessagesAreWhole

\* The room is filled once, before its thread has begun.
LEMMA AddClientsMessage ==
    ASSUME GroupInv, MessageInv, NEW c \in Client, AddClients(c)
    PROVE  MessageInv'
<1>1. Worker(c) \in Threads /\ Worker(c) # Progress /\ Progress \in Threads
  BY Names
<1>2. Len(queue) >= MAX_ROOM_PLAYER /\ owner["queue"] = Worker(c)
  BY DEF AddClients, GroupInv, QueueInv, Grouping
<1>3. Cardinality(Group) = MAX_ROOM_PLAYER /\ ~Formed
  BY <1>2, GroupHasWaited
<1>4. mClients' = Group /\ at[Progress] = "none"
  BY <1>3 DEF AddClients, Formed
<1>5. at'[Progress] = "none"
  BY <1>1, <1>4, Gone DEF AddClients, GroupInv
<1> QED BY <1>3, <1>4, <1>5, LobbyAssumption DEF MessageInv, MessagesAreWhole

\* Who leaves the room between the two looks tears the message.
LEMMA RemoveClientMessage ==
    ASSUME GroupInv, MessageInv, NEW c \in Client, RemoveClient(c)
    PROVE  MessageInv'
<1>1. /\ mClients' = mClients \ {c}
      /\ torn' = (torn \/ (c \in mClients /\ at[Progress] = "collect"))
      /\ UNCHANGED <<bufferSize, length>> /\ Go(Leaver(c), "gone")
  BY DEF RemoveClient, threadVars
<1>2. at'[Progress] = at[Progress]
  BY <1>1, Names, Gone DEF GroupInv
<1>3. c \notin mClients => mClients' = mClients
  BY <1>1
<1>4. Cardinality(mClients') <= MAX_ROOM_PLAYER
  <2>1. IsFiniteSet(mClients) /\ mClients' \subseteq mClients
    BY <1>1, Players
  <2>2. Cardinality(mClients') <= Cardinality(mClients) /\ Cardinality(mClients') \in Nat
    BY <2>1, FS_Subset, FS_CardinalityType
  <2> QED BY <2>2, Players, LobbyAssumption
<1>5. at'[Progress] = "collect" =>
          /\ torn' \/ bufferSize' = Cardinality(mClients') * Sizeof(cs_sc_ChangeCharacterPacket)
          /\ bufferSize' <= MAX_BUF_SIZE
  BY <1>1, <1>2, <1>3 DEF MessageInv
<1>6. MessagesAreWhole'
  BY <1>1, <1>2 DEF MessageInv, MessagesAreWhole
<1> QED BY <1>4, <1>5, <1>6 DEF MessageInv

\* The message is sized, filled, and sent.
LEMMA ReadSizeMessage ==
    ASSUME GroupInv, MessageInv, ReadSize PROVE MessageInv'
<1> DEFINE bytes == Sizeof(cs_sc_ChangeCharacterPacket)
           n == Cardinality(mClients)
<1>1. Progress \in Threads /\ mClients' = mClients /\ n \in 0..MAX_ROOM_PLAYER
  BY Names, Players DEF ReadSize
<1>2. CASE Go(Progress, "timeUp")
  <2>1. at'[Progress] = "timeUp"
    BY <1>1, <1>2, Gone DEF GroupInv
  <2> QED BY <1>1, <2>1 DEF MessageInv, MessagesAreWhole
<1>3. CASE Go(Progress, "collect") /\ bufferSize' = bytes * n
  <2>1. at'[Progress] = "collect"
    BY <1>1, <1>3, Gone DEF GroupInv
  <2>2. n * bytes = bytes * n /\ n * bytes <= MAX_BUF_SIZE
    BY <1>1, SizeofIsNat, CharactersAreShort, LobbyAssumption
  <2> QED BY <1>1, <1>3, <2>1, <2>2 DEF MessageInv, MessagesAreWhole
<1> QED BY <1>2, <1>3 DEF ReadSize

LEMMA CollectCharactersMessage ==
    ASSUME GroupInv, MessageInv, CollectCharacters PROVE MessageInv'
<1> DEFINE bytes == Sizeof(cs_sc_ChangeCharacterPacket)
           n == Cardinality(mClients)
<1>1. /\ Progress \in Threads /\ n \in Nat
      /\ UNCHANGED <<mClients, bufferSize, torn>>
      /\ length' = GetLength(ChangeCharacters(n, n)) /\ at[Progress] = "collect"
  BY Names, Players, LobbyAssumption DEF CollectCharacters, roomVars, ghosts
<1>2. at'[Progress] = "waitSync"
  BY <1>1, Gone DEF CollectCharacters, GroupInv
<1>3. length' = n * bytes
  BY <1>1, OneKind
<1> QED BY <1>1, <1>2, <1>3 DEF MessageInv, MessagesAreWhole

LEMMA CollectUnconfirmedMessage ==
    ASSUME GroupInv, MessageInv, CollectUnconfirmed PROVE MessageInv'
<1> DEFINE silent == mClients \ mIsChoiceCharacter
<1>1. PICK empty \in 0..Cardinality(mClients) :
          /\ length' = GetLength(FinishChoiceTime(empty, Cardinality(silent)))
          /\ bufferSize' = length'
  BY DEF CollectUnconfirmed
<1>2. Cardinality(silent) \in 0..MAX_ROOM_PLAYER /\ empty \in 0..MAX_ROOM_PLAYER
  <2>1. IsFiniteSet(mClients) /\ Cardinality(mClients) \in 0..MAX_ROOM_PLAYER
    BY Players
  <2>2. IsFiniteSet(silent) /\ Cardinality(silent) <= Cardinality(mClients)
    BY <2>1, FS_Subset
  <2>3. Cardinality(silent) \in Nat
    BY <2>2, FS_CardinalityType
  <2> QED BY <1>1, <2>1, <2>2, <2>3, LobbyAssumption
<1>3. bufferSize' <= MAX_BUF_SIZE
  BY <1>1, <1>2, CharactersFit DEF Fits
<1>4. /\ mClients' = mClients /\ Progress \in Threads
      /\ at'[Progress] = "waitSync"
  BY Names, Gone DEF CollectUnconfirmed, roomVars, GroupInv
<1> QED BY <1>1, <1>3, <1>4 DEF MessageInv, MessagesAreWhole

LEMMA LoopOutMessage ==
    ASSUME GroupInv, MessageInv, LoopOut PROVE MessageInv'
<1>1. mClients' = {} /\ Cardinality({}) = 0 /\ Progress \in Threads
  BY Names, FS_EmptySet DEF LoopOut
<1>2. at'[Progress] = "waitManager"
  BY <1>1, Gone DEF LoopOut, GroupInv
<1> QED BY <1>1, <1>2, LobbyAssumption DEF MessageInv, MessagesAreWhole

LEMMA ProgressMessages ==
    ASSUME GroupInv, MessageInv, ProgressStep PROVE MessageInv'
<1> USE DEF roomVars, clientVars, threadVars, viewVars, ghosts
<1>1. Progress \in Threads
  BY Names
<1>2. CASE Lock(Progress)
  <2>1. Go(Progress, Inside[at[Progress]])
    BY <1>2 DEF Lock
  <2>2. Inside[at[Progress]] \notin {"collect", "waitSync"}
    BY <1>2 DEF Lock, Inside
  <2> QED BY <1>1, <1>2, <2>1, <2>2, Gone, MessageStays DEF Lock, GroupInv
<1>3. CASE CountReady \/ CompareReady
  <2>1. PICK place \in {"ask", "compare", "waitAll"} : Go(Progress, place)
    BY <1>3 DEF CountReady, CompareReady
  <2>2. at'[Progress] = place
    BY <1>1, <2>1, Gone DEF GroupInv
  <2> QED BY <1>3, <2>2, MessageStays DEF CountReady, CompareReady
<1>4. CASE SendChoiceAll \/ EnterCutSceneStage \/ FinishThread
  <2>1. PICK place \in {"ask", "playing", "loopOut", "over"} : Go(Progress, place)
    BY <1>4 DEF SendChoiceAll, EnterCutSceneStage, FinishThread
  <2>2. at'[Progress] = place
    BY <1>1, <2>1, Gone DEF GroupInv
  <2> QED BY <1>4, <2>2, MessageStays DEF SendChoiceAll, EnterCutSceneStage, FinishThread
<1>5. CASE Ask
  <2>1. PICK place \in {"branch", "loopOut", "choice"} : Go(Progress, place)
    BY <1>5 DEF Ask
  <2>2. at'[Progress] = place
    BY <1>1, <2>1, Gone DEF GroupInv
  <2> QED BY <1>5, <2>2, MessageStays DEF Ask
<1>6. CASE SendSync
  <2>1. at'[Progress] = "cutScene"
    BY <1>1, <1>6, Gone DEF SendSync, GroupInv
  <2> QED BY <1>6, <2>1 DEF SendSync, MessageInv, MessagesAreWhole
<1> QED BY <1>2, <1>3, <1>4, <1>5, <1>6, ReadSizeMessage, CollectCharactersMessage,
           CollectUnconfirmedMessage, LoopOutMessage DEF ProgressStep

\* The other steps of the other threads.
LEMMA OtherMessages ==
    ASSUME GroupInv, MessageInv, NEW t \in Threads, t # Progress, NEW place, Go(t, place),
           UNCHANGED <<mClients, bufferSize, length, torn>>
    PROVE  MessageInv'
<1>1. at'[Progress] = at[Progress]
  BY Names, Gone DEF GroupInv
<1> QED BY <1>1, MessageStays

LEMMA WorkerMessages ==
    ASSUME GroupInv, MessageInv, NEW c \in Client, WorkerStep(c) \/ ChoiceCharacter(c)
    PROVE  MessageInv'
<1> USE DEF roomVars, clientVars, threadVars, viewVars, ghosts
<1>1. Worker(c) \in Threads /\ Worker(c) # Progress /\ Progress \in Threads
  BY Names
<1>2. CASE StartMatching(c) \/ GetUnUsedRoom(c) \/ TellChoice(c) \/ ChoiceCharacter(c)
  BY <1>1, <1>2, OtherMessages DEF StartMatching, GetUnUsedRoom, TellChoice, ChoiceCharacter
<1>3. CASE MakeConnectRoom(c) \/ SendConnectRoom(c)
  BY <1>1, <1>3, OtherMessages DEF MakeConnectRoom, SendConnectRoom
<1>4. CASE AddClient(c)
  BY <1>1, <1>4, OtherMessages DEF AddClient
<1>5. CASE Lock(Worker(c))
  BY <1>1, <1>5, OtherMessages DEF Lock
<1>6. CASE StartThread(c)
  <2>1. at'[Progress] = "choice"
    BY <1>1, <1>6 DEF StartThread, GroupInv, LockInv, LockTypeOK
  <2> QED BY <1>6, <2>1, MessageStays DEF StartThread
<1> QED BY <1>2, <1>3, <1>4, <1>5, <1>6, AddClientsMessage DEF WorkerStep

LEMMA LeaverMessages ==
    ASSUME GroupInv, MessageInv, NEW c \in Client, LeaverStep(c) \/ Disconnect(c)
    PROVE  MessageInv'
<1> USE DEF roomVars, clientVars, threadVars, viewVars, ghosts
<1>1. Leaver(c) \in Threads /\ Leaver(c) # Progress
  BY Names
<1>2. CASE LeaveQueue(c) \/ SkipNotice(c) \/ SendNotice(c) \/ InitClient(c) \/ Disconnect(c)
  BY <1>1, <1>2, OtherMessages DEF LeaveQueue, SkipNotice, SendNotice, InitClient, Disconnect
<1>3. CASE Lock(Leaver(c))
  BY <1>1, <1>3, OtherMessages DEF Lock
<1> QED BY <1>2, <1>3, RemoveClientMessage DEF LeaverStep

LEMMA StepMessages == GroupInv /\ MessageInv /\ [Next]_vars => MessageInv'
<1> SUFFICES ASSUME GroupInv, MessageInv, [Next]_vars PROVE MessageInv'
  OBVIOUS
<1>1. CASE MainStep
  BY <1>1, Names, OtherMessages
  DEF MainStep, LockQueue, SendMatchingInfo, roomVars, threadVars, ghosts
<1>2. CASE UNCHANGED vars
  BY <1>2, MessageStays DEF vars, roomVars, threadVars, ghosts
<1> QED BY <1>1, <1>2, WorkerMessages, LeaverMessages, ProgressMessages DEF Next

(***************************************************************************)
(* What the room's thread passes to SendPacket is as long as it says,      *)
(* unless somebody left between the two looks at the list, and is never    *)
(* too long for an Exover: a room is filled once, by one group.            *)
(***************************************************************************)
THEOREM MessagesSentAreWhole == Spec => []MessagesAreWhole
<1>1. Spec => []MessageInv
  BY GroupInvHolds, InitMessages, StepMessages, PTL DEF Spec
<1>2. MessageInv => MessagesAreWhole
  BY DEF MessageInv
<1> QED BY <1>1, <1>2, PTL
=============================================================================
