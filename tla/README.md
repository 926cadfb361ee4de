# Verification of the ISEGYE IDOL game server

TLA+ models of the game server in `src/Server/Server` (an IOCP server for rooms of eight
players) and of the streams it takes from `src/Server-Library`, the TLC configurations that
check them and TLAPS proofs about them. Line numbers are those of the files in
`src/Server/Server/` unless another directory is named.

## 1. The system

The server is one process. Its threads:

| thread | runs | touches |
|---|---|---|
| main | `Server::Start` 71-95: once a second `ServerQueue::SendMatchingQueueInfo`, and the connection check that disconnects clients that stopped answering | queue, client slots |
| workers, one per processor | `Server::WorkerThread`: takes completions of `AcceptEx`, `WSARecv` and `WSASend` from one completion port | everything |
| one per opened room | `Room::ProgressThread`: choice of characters, cut scene, then ready / battle / creep stages until the game is over | its room, the clients of the room |

Components, their state, their operations, what is hard about them and what makes them
correct:

| component | state | operations | hard | correct when |
|---|---|---|---|---|
| Matchmaking queue (`ServerQueue.cpp`) | doubly linked list of `shared_ptr`/`weak_ptr` nodes, `mSize`, a mutex its callers take | `AddClient`, `RemoveClient`, `TryCreateRoomOrNullPtr`, `SendMatchingQueueInfo` | pointer surgery in any order; the main thread reads head and size before it locks | the list is a FIFO; a group leaves as soon as it is complete; size and list agree |
| Client slots and completions (`Server.cpp`, `Client.cpp`) | 20000 `Client` objects, each with status FREE / ALLOCATED / ACTIVE, socket, room pointer, mutex; outstanding I/O | accept, receive, `cs_startMatching`, `Disconnect`, `Client::Init` | a completion names a slot and no session; FREE is tested unlocked; several threads can disconnect one slot | one accepting worker at a time; a slot on its way is in somebody's hands; who waits is there; one receive per client; no socket and no slot is lost |
| RoomManager, Room life cycle (`RoomManager.cpp`, `Room.cpp`) | rooms with `mClients`, `mSize`, `mIsRun`, `mIsFinishThread`, `mOpenCount`, `cLock`; each client's room pointer and open count | `GetUnUsedRoom`, `AddClients`, `RemoveClient`, `Init`, `ProgressThread` | `Init` at the end of the thread takes no lock; rooms are reopened while old threads run and old players stay | lists and pointers agree; old players do not count as players; a deserted game ends |
| BattleManager | list of players, opponent lists, a ghost avatar for odd numbers | `SetClients`, `GetBattleOpponent`, `RemoveClient`, `BattleInfo` | players leave between and during the rounds | everybody fights once a round, nobody fights himself, opponents vary |
| Stages (`ReadyStage`, `BattleStage`, `CreepStage`) | avatars built from the clients at the start of a battle, life, rounds | timers, rounds of attacks, damage, kicks, rewards | the workers change the clients meanwhile | the loser of a battle is damaged once; the game ends with one player |
| Inventory, items and tickets (`Client.cpp`, `ProcessPacket`) | slots in use and inventory slots, tickets | swap, drop, combine, upgrade, exchange a ticket, rewards | a worker and the room's thread change the same client | no item is duplicated or lost; tickets never go below zero |
| Packet framing (`PacketConstruct`) | the receive buffer and the rest of the last packet | one call per receive | packets cut anywhere | each packet is handled once and in order |
| From the queue to the game (`ProcessPacket`, `Disconnect`, `ProgressThread`) | all of the above, under four kinds of locks | `cs_startMatching`, the choice of characters, a disconnection, the messages between them | the room's thread makes its messages from a list it reads without the lock; lists are copied before they are sent | no threads wait for each other; messages are whole; nobody waits for a player that has gone |
| Packet layouts (`PacketStruct.h`) | 28 packed structs, each with a constructor that takes `sizeof` and a `Write` that lists the members once more | `Write` | size and `Write` are kept in step by hand; several packets share one message of at most 1300 bytes | `Write` fills exactly the struct; every message fits |
| `Server-Library` streams | a buffer, how far it is written or read | `Write`, `Read`, `WriteBits`, `ReadBits` | growth; bits that straddle bytes | what is read is what was written |
| Start-up, random numbers, socket wrappers | - | - | - | not protocol state |

How they interact: a worker handles `cs_startMatching` (`Server.cpp` 359-396) by testing the
client's room pointer, locking the queue, adding the client and perhaps creating a room
(queue -> RoomManager -> room, all while the queue is locked), unlocking, and starting the
room's thread. A disconnection (`Server.cpp` 239-268) takes the client out of the queue
(queue lock), then locks the client, closes its socket and runs `Client::Init`, which takes
the client out of its room (room lock). So locks are taken in the orders queue -> room
manager -> room and client -> room, and every message to a room takes the room's lock while
no other one is wanted. `Lobby` composes these paths; that no threads wait for each other in
a circle is model-checked there and proved for any number of clients (section 4).

## 2. The modules

| module | what it is |
|---|---|
| `MatchingQueue` | abstract specification of the queue: a sequence of clients; at `MAX_ROOM_PLAYER` the oldest leave together |
| `ServerQueue` | the linked list; implements `MatchingQueue` |
| `Server` | client slots, completions, workers, disconnections. Uses the queue as `MatchingQueue` promises it |
| `Room` | RoomManager, Room and ProgressThread |
| `BattleManager` | the battle manager of one room: who fights whom, while players leave |
| `Inventory` | items and tickets of one player, changed by its worker and by its room's thread |
| `PacketStream` | the stream of bytes of a client, the buffers of its slot, and what must be true of them |
| `PacketFraming` | `PacketConstruct`: packets out of received pieces, one slot. Extends `PacketStream` |
| `BattleAvatar` | an avatar and what may be done to it, as operators on records |
| `Items` | the 45 items: what each does in its turn and when the battle begins. Extends `BattleAvatar` |
| `Stage` | one battle stage or creep stage of a room, while players leave. Extends `Items` |
| `Lobby` | queue, RoomManager, one room, its clients and their locks together, up to the beginning of the game. Extends `RoomMessages` |
| `PacketStruct` | the layouts of all packets |
| `RoomMessages` | the messages of several packets that a room sends. Extends `PacketStruct` and `MemoryStream` |
| `MemoryStream`, `MemoryBitStream` | the streams of `Server-Library` |
| `ServerQueueProof`, `ServerProof`, `RoomProof`, `BattleManagerProof`, `StageProof`, `InventoryProof`, `LobbyProof` | theorems and proofs; those about `PacketFraming` are at the end of `ServerProof`, which has the slots whose receives it cuts up |
| `QueueLemmas` | lemmas the proofs share: loops, recursive functions, sequences, sequences put together |
| `MCServerQueue`, `MCServer`, `MCRoom`, `MCBattleManager`, `MCInventory`, `MCPacketFraming`, `MCStage`, `MCLobby` | instances for TLC |

Operators named `X_...` after a definition `X` are variants of it with a plausible bug
(dropped guard, wrong order, forgotten reset). They are not part of any specification; each
property has one with which TLC finds it violated, so no property holds vacuously.

### ServerQueue

State: `mClientQueue`, `mSize`, the nodes in a `heap` from addresses to
`[client, Next, Previous]`, the holder of `mLock`, and what the main thread has read.
Shared ownership is modelled by what it does: a node that no `shared_ptr` (head, `Next`, the
local of the main thread) reaches is destroyed at once, and a `Previous` that pointed to it
expires (`Release`). `AddClient` and `TryCreateRoomOrNullPtr` are two actions under one hold
of the lock, as in `ProcessPacket`; `SendMatchingQueueInfo` is split at each unlocked read. A
walk that runs off the end is a null dereference and ends the process (`DereferenceNull`).
It can: if the head that the main thread copied has left the list before it locks, the
walk of `mSize` nodes may start at a node whose successors are not in the list. The copy of
the `shared_ptr` itself is taken to be atomic; a torn copy has no outcome the null
dereference does not already stand for. Sends and logging are left out.

### Server

A slot has `mStatus`, `mSocket`, `mRoomPtr` (only whether there is a room) and `mLock`. The
kernel is modelled from how the code calls it: a socket is unused, open, gone (the peer has
left) or closed; its completion key is the slot it was registered for; `receives` counts its
outstanding `WSARecv` calls. A handle can be given out again once nothing refers to it.
`thread` says where each worker, the main thread and the room threads (as one) are:

- accepting (`WorkerThread` 160-223): scan the slots one by one under their locks, register,
  set the slot up, activate, receive, `AcceptEx` again;
- `cs_startMatching`: test, then the queue, then `WSARecv` again on the socket the slot has
  by then;
- `Disconnect`: test FREE, leave the queue, lock the client and close, `Client::Init`. It is
  called by a worker (a receive or a send completed with 0 bytes), by the main thread, by a
  room's thread (`BattleStage` 846-862, after a `Sleep`).

`Faults` selects what may go wrong besides clients that leave: a send that fails, the
connection check, a lost game, a reset that makes `WSARecv` fail, a registration that fails.
Packets other than `cs_startMatching` do not change this state.

A refused `WSARecv` (its result is ignored at 147 and 213) leaves a session of which no
completion will ever tell. `DeadSessionIsReleased` says that such a session ends all the same,
thanks to the connection check, with two exceptions the code has: a slot that another
disconnection has freed under it (the check asks ACTIVE slots only), and one whose registration
failed.

### Room

A room has the fields of `Room` that decide about its life; `mClients` is a set, since the
order matters only for the battle. `GetUnUsedRoom` is one action: it runs under the lock of
RoomManager, only it sets `mIsRun`, and the other threads can only make a room unused that it
has passed. With no unused room the last one is taken although it is in use
(`GetLastRoom`): its open count changes under the running game, and `AddClients` adds the
new group to the old players unless the room is exactly full. `RemoveClient` is cut at
`--mSize`, since the thread's unlocked `Init` can come between; `mSize` is a `size_t` and can
wrap below zero there. `Init` at the end of `ProgressThread` is one action per statement.
The thread's checks between its sleeps are `GoesOn`; what happens inside the stages is
abstracted (they change neither list nor counts; `EnterStage` notes the open count anew as
each stage does). A stage is left, or the loop ended, when the code's check says so.
`AddClients` sets the clients' room pointers under `cLock`; `mBattleManager.SetClients`, which
follows outside the lock, is in `BattleManager`.
Groups are sets of distinct clients without a room, what `cs_startMatching` asks for;
`Server` shows how a client can get past that.

`RoomInUseIsServed` says that a room is never taken for used without a worker or a thread that
will see to it. The ghost `abandoned` names the rooms that `ExitEarly` (390-395) has left; they
are its exception.

### BattleManager

State: the room's list, the two lists of the battle manager with the `BattleInfo` of each
player (a function from the players it knows to the battles it has had with them), and the
pairs of the round. A fighter is a player or the ghost of one, `networkID` or its complement.
A worker opens the room: `AddClients` under `cLock`, then `SetClients` with no lock, one
player at a time. `ApplyRandomBattleOpponent` holds `cLock` until all are matched, so no
player leaves during the matching; the loop of `GetBattleOpponent` is one action per turn
(`MatchTwo`, `MatchGhost`), and `AllMatched` swaps the lists back and unlocks.
`RemoveClient` takes the player out of the room and out of the battle manager under `cLock`.

The vectors are shuffled before they are used and are sets here; among several least fought
opponents any one may be chosen, which for the ghost (taken from a vector in order of
matching) allows a little more than the code does. The order of a pair depends on the first
attack state of the two and is left open. A player that leaves after `AddClients` and before
`SetClients` gets to it is in no list it could be removed from: it is then added and matched
for the rest of the game although it is gone. The ghost variable `late` names such players,
and `CountsAgree` and `DepartedAreNotMatched` exempt them, nothing else. `SetClients` and
`RemoveClient` then work on one vector at the same time, which is a data race; the model
takes them in either order, player by player, and says nothing of a torn vector. There is one
game at a time: a thread of an old game, a room opened while it is in use and a client that is
in a group twice are not in this module (section 5).

### Inventory

State: the slots of one player (those in use, then the inventory), each with the type and the
upgrade of its item, the tickets of each kind, the stage of the room, and where the two
threads are that change them, with their locals (`act`). The worker carries out one request
of the player at a time: swap, use a ticket, drop, combine, upgrade (`Server.cpp` 420-795).
The room's thread gives the default items (`Room.cpp` 347-388), two tickets when a ready
stage begins (531-541), equips a player that uses nothing when it ends
(`TrySetDefaultUsingItem`), and gives rewards in the other stages. Neither takes a lock, so a
step reads or writes one item or one count; `SwapItem`, `AddItem` and
`FindEmptyItemSlotIndex` have their locals in the thread that calls them. The two looks of
`TrySetDefaultUsingItem` over the slots are one step each, and the two bytes of an item are
read and written together.

What is random in the code (the type drawn, the tier of a combination within those of the
three items, the size of a reward) is any value here; the stages other than ready are one.
A request with slots that do not exist is not modelled. Three things the code does that one may
not expect are kept: a combination is refused outside the ready stage and then carried out
all the same (670), it takes the same slot three times, and a ticket is spent when there is
no room for the item.

The ghosts `owed` and `due` say what the items of a type and the tickets of a kind should be
worth, an upgraded item counting as the items that went into it. With the threads interleaved
they do not stay so: overlapping swaps duplicate and lose items, and changes of a count are
lost (a ticket used while `ReadyStage` writes the count, 537-541, comes back). `Overlap = FALSE` therefore lets a thread begin a piece of work only while
the other one is between two, which checks the operations themselves, in any order.

### PacketFraming

A client sends packets; each begins with its size in two bytes. `Receive` brings the next
bytes, cut anywhere; `ConstructPacket` and `KeepRest` are the two branches of the loop of
`PacketConstruct`. A byte carries its value and which byte of which packet it is; once it has
been used it keeps only its value (`Old`), as what a buffer holds from before. That matters:
the size is read even if only its first byte has come, and the other byte is then the one the
buffer had at that place. In `mPacketBuf` this is the second byte of an earlier packet, or 0,
and in `io_buf` it can be anything. It does no harm because every packet of a client is
shorter than 256 bytes (the longest has 29), so the high byte is 0 and a wrong one only makes
the size larger than what has come. The assumption on `PacketSize` says so, for any `BYTE`.
`NextClient` gives the slot to another client between two receives (`OneReceive` of `Server`
is why there is one receive at a time). A disconnection by another thread while
`PacketConstruct` runs is not in this module.

### BattleAvatar, Items and Stage

An avatar is a record with the fields of `BattleAvatar`, except the flags that only say
whether an amount is not zero, the room (always this one) and the network ID (the client's).
Each member function is an operator that returns the changed avatar, and each item one that
returns the changed pair. Two avatars that fight are `f.me`, whose turn it is, and
`f.opponents`. An item with a random effect has a set of outcomes. Item 021, upgraded,
announces one random draw to the clients and acts on a second one; announcements are not
modelled. `0.25f`, `0.4f`, `0.5f` are integer fractions, which give what the code's truncation
gives for the hp that occur. A sum that may overflow an `int` wraps (`AsInt`).

`Stage` begins where `BattleStage` or `CreepStage` does and ends where it returns, or gives up
because fewer than two players are left. One action is what the thread does between two
points at which another thread's step matters: setting the avatars up (one step per player in
a creep stage, which reads the room's list unlocked), the item (`ActiveItem`), the heal after
it and the first test of the fight (`EffectHeal`), the counter attack, bleeding and the second
test (`BattleCounter`, `CreepCounter`), bombs and the end of a cycle for a pair (`Cycle`), the
time limit (`Timeout`), the disconnection of one player (`Kick`). `Settle` is what follows
when a fight ends or time is up: `ToDamageCharacter` for each side, then the list of those to
disconnect. `part` says which of the four blocks of code that keep such a list is running.
The two halves of a turn and the two stages share their actions where their code is the
same; where it differs (a creep does not answer an attack with a counter attack, does not pay,
and its defeat earns a reward) each stage has its own.

Players leave at any time (`Leave`), by `Client::Init` as one step; `Room` has its parts. A
slot whose client has left stays free for the rest of the stage, and the room is not opened
again: the stages go by slot numbers after a `Sleep`, and what that does to the slot's next
client is in `Server` (`Lose`, `Kick`). The list of the room is kept with the memory behind
its end, because the creep stage reads there what an erasure has left. That read is
undefined behaviour; the model has the outcome of a release build. It makes the creep stage
count one player twice when another one leaves at that moment, which the properties name as
their exception. The round of the creep is advanced before the rewards are computed from it
(1784, 1307), so a reward is that of the next creep; the model keeps this.

### Lobby

The parts that `ServerQueue`, `Server` and `Room` have in detail are put together here with
less of it: the queue is a sequence, there is one room and one group, and `mSize` is the
length of `mClients`. In exchange every lock is there, with the thread that holds it (`owner`)
and the places where threads wait (`Inside`, `WaitPlaces`). A section under one lock that only
sends, or that no other thread can look into, is one step; where a thread wants a second lock
while it holds one, it is seen holding the first. The threads are a worker for the requests of
each client, a thread that disconnects each client, the room's thread and the main thread
(`SendMatchingQueueInfo`). A client connects and asks for a game once.

What the players are told is part of the state: `announced` is the list that
`sc_ConnectRoomPacket` was made from, `known` what each player has been told. The room's
thread counts who has chosen (`CountReady`), compares (`CompareReady`), sizes the message with
the characters (`ReadSize`) and fills it (`CollectCharacters`) in separate steps, since it
does so without the lock. Each of these has one moment at which a departure makes the outcome
wrong; the ghosts `miscounted`, `torn` and `late` name exactly these moments, and the
properties hold but for them: a choice that ends before all have chosen, a message longer than
what was written to it (212-222), and a player that is announced after its departure was
(`Server.cpp` 385-388). TLC reaches all three.

### PacketStruct, RoomMessages and the streams

A packet is its members with their widths and, separately, what its `Write` passes to the
stream; values are left out. A message is the capacity of its stream and the packets written
to it, at its longest. `MCLobby` has TLC evaluate two assumptions for rooms of eight:
`PacketsAreWritten` (each `Write` passes each member once and in order, and reading the members
back consumes just what was written; the packet of 491 members is not read back) and
`MessagesFit` (every message of two to eight players fits into `io_buf`, which `SendPacket` does
not test). A room that was opened while it was in use can hold more than eight players; that
is left out here.

`MemoryStream` has the places of the byte streams and how the buffer grows; it is the copy in
`Server-Library`, while the server includes one from a directory that is not in the
repository. `MemoryBitStream` has the bytes, since shifts and masks across bytes are what could
go wrong: `BitsAreReadBack` in `MCPacketFraming` writes up to three pieces of different widths and
reads them back, with a small first buffer so that it has to grow. The copy constructor of
`InputMemoryBitStream`, which cuts off a last part of a byte, is used nowhere and left out.

## 3. What is checked

| run | instance | result |
|---|---|---|
| `queue` | 2 clients, rooms of 4, 5 nodes alive | `QueueBelowRoomSize`, `ListWellFormed`, `OnlyStaleHeadCrashes` and the refinement `ImplementsMatchingQueue` hold (2.5 million states) |
| `server` | 2 slots, 3 sockets, 2 workers, rooms of 2, no faults | `DisconnectEndsBeforeReuse`, `OneReceive`, `WaitingIsActive`, `PatientWaitingHasNoRoom`, `NoSocketLost`, `OneAcceptor` and `DeadSessionEnds` hold (170 035 states) |
| `server_faults` | 1 slot, 2 sockets, 1 worker besides the main and the room threads, all five faults | `AllocatedIsOwned` and `DeadSessionIsReleased` hold (183 929 states) |
| `server_reuse` | 2 slots, 3 sockets, the connection check | `DisconnectEndsBeforeReuse` is violated |
| `room` | 3 clients, rooms of 2, 2 rooms, each opened twice at most | `TypeOK`, `ClientKnowsRoom`, `ValidClientWasMatched`, `RoomInUseIsServed` hold (7.0 million states) |
| `room_live` | 2 clients, 1 room opened 5 times at most | `DesertedThreadEnds` holds (545 484 states) |
| `room_threads` | as above, opened twice | `OpenCountTellsThreadsApart` is violated |
| `battle` | 4 players, 3 battles a game | `RoundIsPairing`, `CountsAgree`, `EverybodyFights`, `DepartedAreNotMatched` hold (225 295 states up to symmetry) |
| `inventory` | 2 slots in use, 2 in the inventory, 2 types of items, at most 2 tickets, no overlap | `ItemsAccountedFor`, `TicketsAccountedFor`, `TicketsNeverNegative`, `DefaultItemsAreUsed` hold (5.1 million states) |
| `framing` | packets of 3 and 5 bytes, up to 3 a client, receives of up to 6 bytes | `HandledAsSent`, `RestIsKept` hold (418 488 states); `BitsAreReadBack` |
| `stage` | 3 players and a ghost, or 3 players and 3 creeps; 2 slots for items, 2 cycles | `TypeOK`, `PairEndsTogether`, `OncePerStage`, `LosersPay`, `DefeatedAreGone`, `NoRevival`, `OnlyForward`, `StageEnds` hold (299 152 states) |
| `lobby` | 3 clients, a group of 3, 2 seconds to choose | `NoWaitCycle`, `MessagesAreWhole`, `KnownAreThere`, `ChoiceIsUnanimous` hold (337 918 states up to symmetry); `PacketsAreWritten`, `MessagesFit` |

Why these bounds: with rooms of four a list of three has a first, an inner and a last node,
and a client can wait before and after another one, so that it matters which of its entries
`RemoveClient` takes; five nodes let the main thread hold nodes that have left the list. Two slots and three sockets make the server full, give a slot a second client and put
two clients into one room; two workers are enough for every race between two completions of
one slot, and main and room thread add two more threads that disconnect. Three clients and
two rooms of two leave a third group without an unused room. Two progress threads are enough
for a thread of an old game beside that of the new one; five openings let `mSize` wrap.
Four players give rounds of four, three and two, with and without a ghost, and three battles
are what it takes to meet everybody. Receives of six bytes hold the end of a packet, a whole
one and the beginning of a third; receives of one byte cut everywhere. The clients that use
the slot one after the other are not bounded. Two slots in use and two in the inventory fill
up, hold the two default items and two more, and let an item be upgraded twice; two types
are what the default equipment has to tell apart. `MaxTicket` bounds the tickets, `MaxUpgrade`
the upgrades, which only overlapping requests raise above 2.
In `stage` three players need a ghost, and one can leave without ending the game. Two slots
and two cycles have a first and a later item and cycle, in either order, which is where the
tests and resets lie. Fights depend on the items, and three sets of items are chosen so that
they end in each of the ways the code has: by a hit, a counter attack, one's own item, a bomb,
bleeding, both at once, and not at all. The hp left (5 or 13) make a lost fight cost the game or not. Creep
round 5 has a creep that hits hard and the next has a random reward. The other items and
creeps are not fought with; instead TLC uses every item with every upgrade once, by and
against each of seven avatars, and checks that what comes out is an avatar
(`ItemsKeepAvatars` in `MCStage`). `INT_MAX` is smaller than the real one and is not reached.
In `server_faults` one worker is enough for liveness, since the main thread and the room
threads disconnect beside it; with two, `AllocatedIsOwned` has been proved (section 4). In
`lobby` a group of three is the smallest in which one player can leave and the game goes on, and
two seconds are a first and a last one; more clients would only wait.
TLC checks each run for deadlock except `stage`, which ends with the stage. `MCRoom` and
`MCLobby` let a system at rest stutter: rooms may stop only because `MaxOpenCount`, which bounds
how often a room is opened, is used up, and the lobby only when all clients have left.

### Fairness

`Server`: a thread that runs keeps running (weak fairness of what each thread is in the
middle of); the completion port is a FIFO, so a completed receive reaches a worker (strong
fairness: the worker pool is busy now and then). Clients owe nothing: no fairness for packets
or departures. For
`DeadSessionIsReleased` the main thread's connection check is strongly fair as well
(`CheckFairness`): it comes round every second, whatever the slot is doing then. `Room`: weak fairness of each progress thread, of the worker that is opening a
room, of a thread inside `Client::Init`. `Stage`: weak fairness of the room's thread. A `Sleep` ends; nothing makes players leave or ask
for games.

### What the violated properties show

- **A slot is reused while a disconnection is under way.** `Disconnect` tests FREE unlocked
  (241) and cleans up later. If the connection check and a worker disconnect the same slot,
  both pass; the first frees it, a new client gets it, and the second closes the new client's
  socket. The comment at 261 says the ALLOCATED status is there to prevent just that; it does
  for one thread only.
- **The open count does not always tell threads apart.** `Room.h` 84 introduces `mOpenCount`
  to tell the thread of a released room from that of the room reopened. A thread notes the
  count only once it runs (`Room.cpp` 182) and `mIsFinishThread` is still true until then
  (178): if the players leave before that, the room is opened again, and both threads note
  the same count and play the same game.

More observations are part of the models: the code behaves so, and the properties name it as
their exception. A client that asks for a game twice before its group is complete is queued
twice, since line 361 looks only at its room; it then waits on although it has a room, and can
even fill two places of one (`PatientWaitingHasNoRoom` leaves it out). `ExitEarly` (390-395)
ends a thread without resetting the room, which then is never available again. The three
moments of `Lobby` are above. The main thread can walk off the end of the queue, but only from
a head that has left it (`OnlyStaleHeadCrashes`). And the unlocked `Init` races `RemoveClient` so that `mSize` wraps, after
which a thread of another game can play on in an empty room. `DesertedThreadEnds` is
therefore stated for rooms whose `mSize` has not wrapped.

## 4. What is proved

For all values of the constants that satisfy the ASSUMEs of the modules (which TLC evaluates
on every run). Every safety property and every action property found to hold by a run is stated
by a theorem.

- `ServerQueueProof`: `QueueIsBelowRoomSize` and `SizeNeverWraps` from an invariant about `mSize`
  and `mLock` alone (`SizeInv`: an unlocked queue is shorter than a room, a locked one at most
  as long; each of the two actions under the lock needs the other's half). Then the pointers:
  `ListIsWellFormed`, `OnlyStaleHead`, `Implements`. `QueueInv` says that the nodes that
  a walk from the head visits form a list (`IsList`: `Next` and `Previous` agree, no node twice)
  of `mSize` nodes, and that a node the main thread holds is the head or in no list. What has to be
  shown of each operation is which list it leaves, and that `Release`, which destroys
  what nothing reaches, neither takes a node of that list nor changes a pointer of one. For
  `RemoveClient` the list with one node less is that of `RemoveFirst`, so the refinement of
  `MatchingQueue` comes out of the same lemmas.

- `ServerProof`: `ServerTypeCorrect`, `OneWorkerAccepts`, `AllocatedSlotIsOwned`, with every
  fault and any number of slots, sockets and workers. The inductive invariant `SlotInv` adds
  `KeyKnown` to the three (a socket with an outstanding receive, or in the accepting
  worker's hands past registration, has a slot as its key): without it a completion could be for no
  slot. `AllocatedIsOwned` needs `OneAcceptor`, because the accepting worker activates its
  slot without the lock, and holds for the disconnecting threads because `Client::Init` frees
  the slot before it unlocks. That every variable keeps its type, so that no scan goes past
  the last slot and no completion is for a slot outside the array, is proved and needs no run.

  `SlotIsNotReusedEarly`, `OneReceiveAtATime`, `WhoWaitsIsThere`, `WhoWaitsHasNoRoom` and
  `EverySocketIsHeld` assume `ReceivesDisconnect`: of the faults only resets and failed
  registrations, so that nobody calls `Server::Disconnect` but the worker that has received the
  end of a session. The assumption is needed, not convenient: with the connection check all five
  are false, since a second thread then disconnects a slot behind the back of the one that has
  it in hand. TLC shows it of the first in `server_reuse`, and finds a counterexample to each of
  the others in the same instance; only what follows from `SlotInv` survives the check. `SessionInv` says that without that a session is in one pair of
  hands, of a thread or of its outstanding receive (`OneCarrier`), that slot, socket, key and
  receives belong together (`SessionsMatch`), and that each thread finds its slot as it left it
  (`ThreadMatches`).

  `PacketsAreHandledAsSent` and `NothingWaitsUnhandled` are about `PacketFraming`, the receives of
  one such slot, for packets of any number and any sizes that `FramingAssumption` allows (packets
  of fewer than `BYTE` bytes). `FramingInv` says where every byte received is: `PlaceInv`, the packets handled are
  the first ones sent, and their bytes, those kept and those left of the receive are all that came;
  `KeptInv`, what is kept is the beginning of the current packet and not the whole of it;
  `ReceivedInv`, the rest of the receive is the end of what came. `HighByteInv` and `SizeInv`
  are why the size that is read can be trusted: with one byte of a packet there, the other half
  of its size is whatever the buffer has, and the size read is then too large or right, so the
  test whether the packet is whole comes out right all the same (`SizeTellsWhole`). The stream
  is the packets put one behind the other; where each ends is `Ends` of `QueueLemmas`.

- `RoomProof`: `RoomTypeCorrect`, `ListedClientKnowsRoom`, `ValidClientIsMatched`, `RoomsAreServed`. `RoomInv`
  adds `OpenerWaits` (the group being placed has no room and is the one the room was matched
  for), `LeaverIsOut` (past `RemoveClient` a client is in no list) and `NotedCountIsPast` (no
  client has a count above its room's). With them the unlocked resets are harmless for these
  two properties: they only take clients out of lists. `RoomsAreServed` has an invariant of its
  own (`ServedInv`): a thread that has not noted its end keeps the room in use (`WillStop`), and
  whoever still has to write `mIsFinishThread` is there (`WillFinish`).

- `BattleManagerProof`: `BattleTypeCorrect`, `RoundsArePairings`, `PlayersFight`,
  `PlayersAgreeOnCounts`, `OnlyPlayersAreMatched`, for any number of players and battles.
  `BattleInv` is `TypeOK` with `PlayersInv` (who is in which list at which step of the
  worker and of the thread), `PairsInv` (the pairs so far are those of the matched players,
  and no ghost is among them while somebody is unmatched) and `CountsInv` (everybody known
  knows everybody else that did not leave too early). A round is then extended by two
  fighters of which neither is in it yet, which keeps it a pairing. `RoundsCanBeFought` puts the
  pairs into one list, as `BattleStage` has them: whenever a round begins, the list is not empty
  (`SomebodyInv`: a matching is begun with two players, and all of them fight), has even length
  and has no player in it twice but as a ghost. This is what `StageAssumption` asks of the
  `Opponents` of a battle stage.

- `StageProof`: `TypeCorrect`, `PairsEndTogether`, `NobodyRevives` (an action property),
  `NobodyDefeatedStays`, `LosersHavePaid`, `AtMostOncePerStage`, for any players, items, hp and
  number of cycles. The first part is about the operators of `BattleAvatar` and `Items`: whatever
  a blow, a heal or any of the 45 items does, both avatars stay `Like` themselves (the same
  client, still a ghost or not, finished or not, hp between zero and its maximum), and who has no
  hp gets none. The second is the invariant `StageInv`:
  who still fights is up, but for the moment between a blow and the test (`AliveInv`), two
  opponents are finished together, who went down has paid (`PayInv`), each loss is one of an
  avatar that has paid and each reward one of a fight that is over (`CountInv`, `RewardInv`),
  nobody has two avatars but where the creep stage reads an erased list (`CreepInv`, `BattleInv`,
  `CellsInv`), and who has no hp left is on the list of those to disconnect (`ListInv`). What the
  stage is given is assumed of the constants: the round of a battle has somebody in it and nobody
  twice, which is `RoundsCanBeFought` of `BattleManagerProof`, and the list of the room names
  nobody twice.

  `StageGoesForward` is the part of `StageEnds` that can be proved: where the thread is (`Place`:
  which part of the stage, which cycle, which item, which half of a turn, which avatar, and how
  far in its turn) only ever becomes later in the order that compares these one after the
  other, but for a kick, which makes a finite list shorter. So no loop of a stage turns on the
  spot, with finished avatars, departed players or empty item slots in any order. That the
  thread runs, which fairness says, is left to TLC.

- `InventoryProof`: `InventoryTypeCorrect` and `NoTicketIsOverdrawn`, for any number of
  slots, items and kinds of tickets and with the threads interleaved (`Overlap` is either).
  `TicketInv` has what each thread's locals are (`WorkerOK`, `RoomOK`: a loop returns to where
  it was called from, a combination has slots left to empty, the room's thread writes at least
  one ticket) and `HeldTicketExists`: a worker that has passed the test still finds a ticket
  when it reads the count again, since the room's thread in the meantime can only write an
  increase of what it read. That fails for the one write of zero, the default number of
  tickets, so the invariant also says that no worker has passed the test until then. Lost
  updates thus never make a count negative, which a run without overlap could not show.

  `EveryItemIsAccountedFor`, `EveryTicketIsAccountedFor` and `DefaultItemsAreSet` (an action
  property) are for threads that take turns (`~Overlap`); overlapping requests do duplicate and
  lose items. `AccountInv` looks at the slots as they will be when the piece of work under way is
  complete: a swap whose second half is still to come, an upgrade whose material is still
  there (`Finished`), a count that is read and not yet written (`Settled`). Seen so, what the
  slots are worth is what is owed at every step, and a step has to be compared in the one or two
  slots it writes (the worth is a sum over the slots, and an upgraded item is worth the two
  that went into it). For `TrySetDefaultUsingItem`, `Equipped` says that the first `count` slots
  in use are filled and no other, and `Chosen` that they and the items still to be equipped
  have no type twice.

- `LobbyProof`: `NoDeadlock`, for any number of clients and any size of a group. `LockInv` says
  which thread can hold which lock, and where it then is (`HoldersArePlaced`). From it no
  circle can exist: whoever holds RoomManager's lock or the room's waits for nothing, so no
  thread of a circle wants either; whoever holds a client's lock can wait for the room only, so
  none wants a client's; all that is left is the queue's lock, and its holder does not wait for it.
  That waits end besides needs that critical sections do, which TLC sees as the absence of deadlock.

  `KnownPlayersAreThere` and `ChoiceOfAll` follow from `GroupInv`: a client waits at most once and
  is in no list before it has waited (`QueueInv`), who is named to the players has a room or is
  past its notice (`ViewInv`), the room is filled by one group (`OneGroup`: with a
  group in the room too few clients are left for another one), and what the room's thread has
  counted is still so or somebody has left meanwhile (`ChoiceInv`).
  `MessagesSentAreWhole` adds `MessageInv`: the room has at most `MAX_ROOM_PLAYER` players, and
  from the sizing of the message to its filling the size is that of the list, or it is torn. That
  the two messages about the characters fit for that many players is an assumption on the constants
  (`CharactersFit`, and for rooms of eight `MessagesFit`), which TLC evaluates.

- `QueueLemmas`: what the proofs share. The library's induction takes an operator as its
  parameter and cannot be used, so a loop is reasoned about through the least counterexample
  (`NoLeast`, `Stays`: a set of numbers without a least one is empty), and a recursive function
  is shown to be what its recursion says by `Recursion` and `RecursionOnNat`. `Walk` of
  `ServerQueue`, `WorthIn` and `Power` of `Inventory` are reached this way, and `RemoveFirst`
  through the place of the first occurrence. A fold over a sequence of fixed length is unfolded
  (`FlattenTwo`, `OneKind` of `LobbyProof`); one of any length has partial results (`Runs`,
  `RunExists`), with which `FlattenIs` says where in the whole each sequence lies and
  `FlattenOfPrefix` which part of it the first ones are.

Only model-checked: liveness (`DeadSessionEnds`, `DeadSessionIsReleased`, `DesertedThreadEnds`,
`StageEnds`), which is out of the prover's reach, and what TLC evaluates of layouts, streams and
items (`PacketsAreWritten`, `MessagesFit`, `BitsAreReadBack`, `ItemsKeepAvatars`): a stream
is a fold of shifts and masks of bits, which the provers do not reason about, and the layouts
are constants, of which one evaluation says all. That items keep avatars is also proved, for
every avatar, within `StageProof`.

## 5. Plan

Written: everything of the inventory in section 1. What would come next:

1. Two games in one `Lobby`: a slot's next client against the room of the last one, a client
   twice in a group, a room opened while it is in use (their parts are in `Server` and `Room`).
2. `Stage` over a whole game (`ReadyStage` with its timers, the stages in the order of
   `ProgressThread`), and a run with fights long enough for item 027 to overflow the defence.
3. Proofs: what a session is left with under the connection check, in a form that is true (that
   a slot is disconnected for the session of which the check was, or that the wrong one is noticed
   and released), and that the players `Room` has in a list are those `BattleManager` is given.

Not modelled, and not planned: start-up (straight-line code before any other thread exists),
the random number generator (a nondeterministic choice wherever it matters), logging, and of
`Server-Library` the wrappers of sockets, `LinkingContext`, `ByteSwap` and `StringUtils`, which
the server does not call. The packets that a worker only passes on to the room
(`cs_sc_useEmoticon`, `cs_sc_changeCharacter`) change nothing another component reads but the
choice of a character, which `Lobby` has. Timers inside `ReadyStage` only delay.
