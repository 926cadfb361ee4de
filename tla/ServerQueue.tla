---------------------------- MODULE ServerQueue ----------------------------
(***************************************************************************)
(* ServerQueue.cpp: the matchmaking queue as the doubly linked list of     *)
(* ServerQueueNode objects it is, guarded by mLock.                        *)
(*                                                                         *)
(* Worker threads take the lock around AddClient and                       *)
(* TryCreateRoomOrNullPtr (a cs_startMatching packet) and around           *)
(* RemoveClient (a disconnection).  The main thread runs                   *)
(* SendMatchingQueueInfo every second, which reads the head pointer and    *)
(* the size before it takes the lock.                                      *)
(*                                                                         *)
(* Nodes are owned by shared_ptr (the head, Next, and a local of the main  *)
(* thread) and observed by weak_ptr (Previous).  The heap holds the nodes  *)
(* some shared_ptr still reaches; a node nobody reaches is destroyed at    *)
(* once and the weak pointers to it expire.                                *)
(***************************************************************************)
EXTENDS Naturals, Sequences, FiniteSets, SequencesExt

CONSTANTS Client, MAX_ROOM_PLAYER,
          Node,       \* node addresses; their number bounds the nodes alive
          NULL        \* nullptr

ASSUME ServerQueueAssumption ==
    /\ MAX_ROOM_PLAYER \in Nat \ {0, 1}
    /\ NULL \notin Node \cup Client
    /\ IsFiniteSet(Node)

VARIABLES
    mClientQueue,   \* shared_ptr to the first node
    mSize,
    heap,           \* the nodes alive: address -> [client, Next, Previous]
    mLock,          \* NULL, or the client whose startMatching holds the mutex
    opened,         \* the clients of the last room created
    mainPc,         \* where SendMatchingQueueInfo is
    mainNode        \* its local `node`

queueVars == <<mClientQueue, mSize, heap>>
mainVars  == <<mainPc, mainNode>>
vars == <<queueVars, mLock, opened, mainVars>>

MainPc == {"idle", "headRead", "sizeRead", "crashed"}

ServerQueueNode == [client : Client,
                    Next : Node \cup {NULL}, Previous : Node \cup {NULL}]

TypeOK ==
    /\ mClientQueue \in Node \cup {NULL}
    /\ mSize \in 0..MAX_ROOM_PLAYER
    /\ DOMAIN heap \subseteq Node /\ Range(heap) \subseteq ServerQueueNode
    /\ mLock \in Client \cup {NULL}
    /\ opened \in Seq(Client)
    /\ mainPc \in MainPc
    /\ mainNode \in Node \cup {NULL}
-----------------------------------------------------------------------------
(***************************************************************************)
(* Following the Next pointers: the first n addresses a loop               *)
(*     node = start; for (i = 0; i < n; ++i) { ...; node = node->Next; }   *)
(* visits.  NULL->Next is not defined; Walk stays at NULL instead, and     *)
(* what uses it says what a null dereference does.                         *)
(***************************************************************************)
NextOf(h, n) == IF n \in DOMAIN h THEN h[n].Next ELSE NULL

Walk(h, start, n) ==
    LET at[i \in 1..n] == IF i = 1 THEN start ELSE NextOf(h, at[i - 1]) IN at

\* The nodes that shared pointers reach from the addresses in roots.
Reached(h, roots) ==
    (UNION {Range(Walk(h, r, Cardinality(Node) + 1)) : r \in roots}) \ {NULL}

\* The heap once the nodes that no shared_ptr reaches are destroyed.
Release(h, roots) ==
    LET alive == Reached(h, roots) IN
    [n \in alive |->
        [h[n] EXCEPT !.Previous = IF @ \in alive THEN @ ELSE NULL]]

\* make_shared: an address no live node has.
FreshNode == CHOOSE n \in Node : n \notin DOMAIN heap
-----------------------------------------------------------------------------
Init ==
    /\ mClientQueue = NULL
    /\ mSize = 0
    /\ heap = << >>
    /\ mLock = NULL
    /\ opened = <<>>
    /\ mainPc = "idle"
    /\ mainNode = NULL

(***************************************************************************)
(* A worker handles cs_startMatching of client c: it locks the queue and   *)
(* appends a node.  The lock stays held for TryCreateRoomOrNullPtr.        *)
(***************************************************************************)
AddToEmpty(c) ==
    /\ mSize = 0
    /\ mClientQueue' = FreshNode
    /\ heap' = Release([n \in DOMAIN heap \cup {FreshNode} |->
                          IF n = FreshNode
                          THEN [client |-> c, Next |-> NULL, Previous |-> NULL]
                          ELSE heap[n]],
                       {FreshNode, mainNode})

AddAtTail(c) ==
    LET tail == Walk(heap, mClientQueue, mSize)[mSize] IN
    /\ mSize > 0
    /\ UNCHANGED mClientQueue
    /\ heap' = Release([n \in DOMAIN heap \cup {FreshNode} |->
                          CASE n = FreshNode -> [client |-> c, Next |-> NULL,
                                                 Previous |-> tail]
                            [] n = tail -> [heap[n] EXCEPT !.Next = FreshNode]
                            [] OTHER    -> heap[n]],
                       {mClientQueue, mainNode})

AddClient(c) ==
    /\ mLock = NULL
    /\ Cardinality(DOMAIN heap) < Cardinality(Node)   \* bound: nodes alive
    /\ AddToEmpty(c) \/ AddAtTail(c)
    /\ mSize' = mSize + 1
    /\ mLock' = c
    /\ UNCHANGED <<opened, mainVars>>

(***************************************************************************)
(* Still under the lock: the first MAX_ROOM_PLAYER clients get a room, if  *)
(* there are as many; then the worker unlocks.                             *)
(***************************************************************************)
CreateRoom ==
    LET walk == Walk(heap, mClientQueue, MAX_ROOM_PLAYER + 1)
        rest == walk[MAX_ROOM_PLAYER + 1] IN
    /\ mSize >= MAX_ROOM_PLAYER
    /\ opened' = [i \in 1..MAX_ROOM_PLAYER |-> heap[walk[i]].client]
    /\ mClientQueue' = rest
    /\ heap' = Release([n \in DOMAIN heap |->
                          IF n = rest THEN [heap[n] EXCEPT !.Previous = NULL]
                                      ELSE heap[n]],
                       {rest, mainNode})
    /\ mSize' = mSize - MAX_ROOM_PLAYER

NoRoom ==
    /\ mSize < MAX_ROOM_PLAYER
    /\ UNCHANGED <<opened, queueVars>>

\* Mutant: a full group waits for one more client (> for >=).
TryCreateRoomOrNullPtr_StrictlyMore ==
    /\ mLock # NULL
    /\ \/ mSize > MAX_ROOM_PLAYER /\ CreateRoom
       \/ mSize <= MAX_ROOM_PLAYER /\ UNCHANGED <<opened, queueVars>>
    /\ mLock' = NULL
    /\ UNCHANGED mainVars

TryCreateRoomOrNullPtr ==
    /\ mLock # NULL
    /\ CreateRoom \/ NoRoom
    /\ mLock' = NULL
    /\ UNCHANGED mainVars

\* Mutant: the node becomes the first one and still has a predecessor.
UnlinkFirst_KeepsPrevious(n) ==
    /\ mClientQueue' = heap[n].Next
    /\ heap' = Release(heap, {mClientQueue', mainNode})

(***************************************************************************)
(* A thread that disconnects client c unlinks its first node, all under    *)
(* the lock.                                                               *)
(***************************************************************************)
UnlinkFirst(n) ==
    LET succ == heap[n].Next IN
    /\ mClientQueue' = succ
    /\ heap' = Release([m \in DOMAIN heap |->
                          IF m = succ THEN [heap[m] EXCEPT !.Previous = NULL]
                                      ELSE heap[m]],
                       {succ, mainNode})

UnlinkInner(n) ==
    LET pred == heap[n].Previous
        succ == heap[n].Next IN
    /\ UNCHANGED mClientQueue
    /\ heap' = Release([m \in DOMAIN heap |->
                          CASE m = pred -> [heap[m] EXCEPT !.Next = succ]
                            [] m = succ -> [heap[m] EXCEPT !.Previous = pred]
                            [] OTHER    -> heap[m]],
                       {mClientQueue, mainNode})

\* Mutant: the search starts at the newest node.
RemoveClient_FromTail(c) ==
    LET walk == Walk(heap, mClientQueue, mSize)
        found == {i \in 1..mSize : heap[walk[i]].client = c} IN
    /\ mLock = NULL
    /\ found # {}
    /\ LET n == walk[Max(found)] IN
       IF n = mClientQueue THEN UnlinkFirst(n) ELSE UnlinkInner(n)
    /\ mSize' = mSize - 1
    /\ UNCHANGED <<mLock, opened, mainVars>>

RemoveClient(c) ==
    LET walk == Walk(heap, mClientQueue, mSize)
        found == {i \in 1..mSize : heap[walk[i]].client = c} IN
    /\ mLock = NULL
    /\ found # {}
    /\ LET n == walk[Min(found)] IN
       IF n = mClientQueue THEN UnlinkFirst(n) ELSE UnlinkInner(n)
    /\ mSize' = mSize - 1
    /\ UNCHANGED <<mLock, opened, mainVars>>
-----------------------------------------------------------------------------
(***************************************************************************)
(* The main thread, once a second: SendMatchingQueueInfo copies the head   *)
(* and tests the size with no lock held, then locks, walks mSize nodes     *)
(* from its copy, and sends each client found the length of the queue.     *)
(***************************************************************************)
ReadHead ==
    /\ mainPc = "idle"
    /\ mainNode' = mClientQueue
    /\ mainPc' = "headRead"
    /\ UNCHANGED <<queueVars, mLock, opened>>

\* The local goes out of scope: its node dies unless the list still owns it.
MainReturns ==
    /\ mainPc' = "idle"
    /\ mainNode' = NULL
    /\ heap' = Release(heap, {mClientQueue})
    /\ UNCHANGED <<mClientQueue, mSize, mLock, opened>>

ReadSizeEmpty ==
    /\ mainPc = "headRead"
    /\ mSize = 0
    /\ MainReturns

ReadSize ==
    /\ mainPc = "headRead"
    /\ mSize > 0
    /\ mainPc' = "sizeRead"
    /\ UNCHANGED <<queueVars, mLock, opened, mainNode>>

InformWaiting ==
    /\ mainPc = "sizeRead"
    /\ mLock = NULL
    /\ NULL \notin Range(Walk(heap, mainNode, mSize))
    /\ MainReturns

\* Mutant: the walk takes a step too many.
DereferenceNull_OneTooFar ==
    /\ mainPc = "sizeRead"
    /\ mLock = NULL
    /\ NULL \in Range(Walk(heap, mainNode, mSize + 1))
    /\ mainPc' = "crashed"
    /\ UNCHANGED <<queueVars, mLock, opened, mainNode>>

\* node->GetClient() on a null node: the process dies.
DereferenceNull ==
    /\ mainPc = "sizeRead"
    /\ mLock = NULL
    /\ NULL \in Range(Walk(heap, mainNode, mSize))
    /\ mainPc' = "crashed"
    /\ UNCHANGED <<queueVars, mLock, opened, mainNode>>

SendMatchingQueueInfo ==
    ReadHead \/ ReadSizeEmpty \/ ReadSize \/ InformWaiting \/ DereferenceNull

Workers == \/ TryCreateRoomOrNullPtr
           \/ \E c \in Client : AddClient(c) \/ RemoveClient(c)

Running == /\ mainPc # "crashed"
           /\ Workers \/ SendMatchingQueueInfo

Crashed == /\ mainPc = "crashed"
           /\ UNCHANGED vars

Next == Running \/ Crashed

Spec == Init /\ [][Next]_vars
-----------------------------------------------------------------------------
(***************************************************************************)
(* The list, read from the head.                                           *)
(***************************************************************************)
ListNodes == Walk(heap, mClientQueue, mSize)

ListClients == [i \in 1..mSize |-> heap[ListNodes[i]].client]

(***************************************************************************)
(* Whenever nobody holds the lock, fewer clients wait than a room takes:   *)
(* each startMatching that completes a group opens its room before it      *)
(* unlocks, so no group is left behind.  Room relies on it: a call creates *)
(* at most one room.                                                       *)
(***************************************************************************)
QueueBelowRoomSize == mLock = NULL => mSize < MAX_ROOM_PLAYER

(***************************************************************************)
(* The pointers always form the doubly linked list that every loop of      *)
(* ServerQueue.cpp counts on: mSize nodes from the head, all alive, the    *)
(* last one without a successor, the first one without a predecessor, each *)
(* other one knowing the node before it.  mSize, which has no sign, has    *)
(* not passed below zero.                                                  *)
(***************************************************************************)
ListWellFormed ==
    /\ TypeOK
    /\ \A i \in 1..mSize :
          /\ ListNodes[i] \in DOMAIN heap
          /\ heap[ListNodes[i]].Previous = IF i = 1 THEN NULL ELSE ListNodes[i - 1]
    /\ mSize > 0 => heap[ListNodes[mSize]].Next = NULL
    /\ mSize = 0 => mClientQueue = NULL

(***************************************************************************)
(* The main thread copies the head before it takes the lock                *)
(* (ServerQueue.cpp:102-109) and walks mSize nodes from the copy.  It runs *)
(* off the end of the list only if its copy has left the queue meanwhile,  *)
(* or was null: from a node that is still waiting, however the rest of the *)
(* list has changed, the walk finds as many nodes as it counts on.         *)
(***************************************************************************)
OnlyStaleHeadCrashes ==
    mainPc = "crashed" => mainNode \notin Range(ListNodes)

(***************************************************************************)
(* ServerQueue implements MatchingQueue.  A request takes effect when the  *)
(* worker unlocks: until then the client it has just appended, the last    *)
(* of the list, is not counted as waiting.                                 *)
(***************************************************************************)
Waiting == IF mLock = NULL THEN ListClients ELSE Front(ListClients)

MQ == INSTANCE MatchingQueue WITH waiting <- Waiting

ImplementsMatchingQueue == MQ!Spec
=============================================================================
