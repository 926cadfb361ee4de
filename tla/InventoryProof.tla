--------------------------- MODULE InventoryProof ---------------------------
(***************************************************************************)
(* For any number of slots, items and kinds of tickets.  With the two      *)
(* threads interleaved: every variable of the code keeps its type, and no  *)
(* count of tickets falls below zero (TicketInv).  With the threads taking *)
(* turns: what a player has is what it was given and has not used, and     *)
(* TrySetDefaultUsingItem equips as it promises (AccountInv).              *)
(***************************************************************************)
EXTENDS Inventory, QueueLemmas, TLAPS

Adding == {"add", "addSet"}
Swapping == {"swap", "swapSecond", "swapFirst"}

(***************************************************************************)
(* The locals of the worker: whom AddItem and SwapItem return to, how many *)
(* of the three items of a combination are still to be read or emptied,    *)
(* and that the count about to be written is not negative.                 *)
(***************************************************************************)
WorkerOK(w) ==
    /\ w \in Activation /\ w.at \in WorkerAt \cup SharedAt
    /\ w.at \in Adding => w.ret = "spend"
    /\ w.at \in Swapping => w.ret = "idle"
    /\ w.at = "combine" => Len(w.slots) = 3 /\ Len(w.types) < 3
    /\ w.at = "clear" => Len(w.slots) > 0
    /\ w.at = "spendWrite" => w.count >= 0

(***************************************************************************)
(* The locals of the room's thread: it always writes at least one ticket.  *)
(***************************************************************************)
RoomOK(r) ==
    /\ r \in Activation /\ r.at \in RoomAt \cup SharedAt
    /\ r.at \in Adding => r.ret \in {"give2", "giveTickets"}
    /\ r.at \in Swapping \cup {"equipTest", "equipNext"} => r.ret = "equipNext"
    /\ r.at \in {"writeTickets", "rewardWrite"} => r.count >= 1
    /\ r.count >= 0

Giving == act["room"].at \in {"give1", "give2", "giveTickets"} \cup Adding

(***************************************************************************)
(* A worker that has passed the test has a ticket to spend, whatever the   *)
(* room's thread writes meanwhile; and it passes the test only after the   *)
(* default number of tickets, 0, has been set.                             *)
(***************************************************************************)
HeldTicketExists ==
    /\ act["worker"].at \in Adding \cup {"spend"} =>
          tickets[act["worker"].kind] >= 1
    /\ Giving => /\ \A k \in TicketKind : tickets[k] = 0
                 /\ act["worker"].at \notin Adding \cup {"spend", "spendWrite"}

TicketInv ==
    /\ items \in [Slot -> Item]
    /\ tickets \in [TicketKind -> Int]
    /\ mCurRoomStatusType \in {"CutSceneStage", "ReadyStage", "BattleOrCreepStage"}
    /\ act \in [Actor -> Activation]
    /\ WorkerOK(act["worker"])
    /\ RoomOK(act["room"])
    /\ TicketsNeverNegative
    /\ HeldTicketExists

USE InventoryAssumption

LEMMA RestTyped ==
    ASSUME NEW place \in WorkerAt \cup RoomAt \cup SharedAt
    PROVE  Rest(place) \in Activation
<1>1. SlotCount \in Nat /\ SlotCount > 0
  BY DEF SlotCount
<1>2. 0 \in Slot /\ 0 \in 0 .. SlotCount
  BY <1>1 DEF Slot
<1>3. Empty \in Item
  BY DEF Empty, Item
<1>4. <<>> \in Seq(Slot) /\ <<>> \in Seq(ItemType \cup {EMPTY_ITEM})
  OBVIOUS
<1> QED
  BY <1>2, <1>3, <1>4 DEF Rest, Activation

LEMMA InitTickets == Init => TicketInv
<1> SUFFICES ASSUME Init PROVE TicketInv
  OBVIOUS
<1>1. Empty \in Item
  BY DEF Empty, Item
<1>2. items \in [Slot -> Item] /\ tickets \in [TicketKind -> Int]
  BY <1>1 DEF Init
<1>3. Rest("idle") \in Activation /\ Rest("give1") \in Activation
  BY RestTyped DEF WorkerAt, RoomAt
<1>4. /\ act["worker"] = Rest("idle") /\ act["room"] = Rest("give1")
      /\ act \in [Actor -> Activation]
  BY <1>3 DEF Init, Actor
<1>5. WorkerOK(act["worker"])
  BY <1>3, <1>4 DEF WorkerOK, Rest, WorkerAt, Adding, Swapping
<1>6. RoomOK(act["room"])
  BY <1>3, <1>4 DEF RoomOK, Rest, RoomAt, Adding, Swapping
<1>7. TicketsNeverNegative
  BY DEF Init, TicketsNeverNegative
<1>8. HeldTicketExists
  BY <1>4 DEF Init, HeldTicketExists, Rest, Adding
<1> QED
  BY <1>2, <1>4, <1>5, <1>6, <1>7, <1>8 DEF TicketInv, Init

LEMMA GoWorker ==
    ASSUME TicketInv, NEW w, w \in Activation, Go("worker", w)
    PROVE  act' \in [Actor -> Activation] /\ act'["worker"] = w /\ act'["room"] = act["room"]
  BY DEF TicketInv, Go, Actor

LEMMA GoRoom ==
    ASSUME TicketInv, NEW r, r \in Activation, Go("room", r)
    PROVE  act' \in [Actor -> Activation] /\ act'["room"] = r /\ act'["worker"] = act["worker"]
  BY DEF TicketInv, Go, Actor
(***************************************************************************)
(* What a step of either thread has to show.                               *)
(***************************************************************************)
LEMMA WorkerStep ==
    ASSUME TicketInv, NEW w, WorkerOK(w), Go("worker", w),
           items' \in [Slot -> Item], tickets' \in [TicketKind -> Int],
           UNCHANGED mCurRoomStatusType,
           \A k \in TicketKind : tickets'[k] >= 0,
           w.at \in Adding \cup {"spend"} => tickets'[w.kind] >= 1,
           Giving => UNCHANGED tickets /\ w.at \notin Adding \cup {"spend", "spendWrite"}
    PROVE  TicketInv'
<1>1. /\ act' \in [Actor -> Activation] /\ act'["worker"] = w
      /\ act'["room"] = act["room"]
  BY GoWorker DEF WorkerOK
<1>2. Giving' <=> Giving
  BY <1>1 DEF Giving
<1>3. HeldTicketExists'
  BY <1>1, <1>2 DEF HeldTicketExists, TicketInv
<1>4. TicketsNeverNegative'
  BY DEF TicketsNeverNegative
<1>5. WorkerOK(act["worker"])' /\ RoomOK(act["room"])'
  BY <1>1 DEF TicketInv, WorkerOK, RoomOK
<1> QED
  BY <1>1, <1>3, <1>4, <1>5 DEF TicketInv

\* A step of the worker outside the drawing of an item.
LEMMA QuietWorker ==
    ASSUME TicketInv, NEW w, WorkerOK(w), Go("worker", w),
           w.at \notin Adding \cup {"spend", "spendWrite"},
           items' \in [Slot -> Item], UNCHANGED <<tickets, mCurRoomStatusType>>
    PROVE  TicketInv'
  BY WorkerStep DEF TicketInv, TicketsNeverNegative

LEMMA RoomStep ==
    ASSUME TicketInv, NEW r, RoomOK(r), Go("room", r),
           items' \in [Slot -> Item], tickets' \in [TicketKind -> Int],
           mCurRoomStatusType' \in {"CutSceneStage", "ReadyStage", "BattleOrCreepStage"},
           \A k \in TicketKind : tickets'[k] >= 0,
           UNCHANGED tickets \/ Giving \/ \E k \in TicketKind :
              tickets' = [tickets EXCEPT ![k] = act["room"].count] /\ act["room"].count >= 1,
           r.at \in {"give1", "give2", "giveTickets"} \cup Adding =>
              Giving /\ UNCHANGED tickets
    PROVE  TicketInv'
<1>1. /\ act' \in [Actor -> Activation] /\ act'["room"] = r
      /\ act'["worker"] = act["worker"]
  BY GoRoom DEF RoomOK
<1>2. Giving' => Giving /\ UNCHANGED tickets
  BY <1>1 DEF Giving
<1>3. act["worker"].kind \in TicketKind
  BY DEF TicketInv, WorkerOK, Activation
<1>4. HeldTicketExists'
  <2>1. CASE UNCHANGED tickets
    BY <2>1, <1>1, <1>2 DEF HeldTicketExists, TicketInv
  <2>2. CASE Giving
    BY <2>2, <1>1, <1>2 DEF HeldTicketExists, TicketInv
  <2>3. ASSUME NEW k \in TicketKind, act["room"].count >= 1,
               tickets' = [tickets EXCEPT ![k] = act["room"].count]
        PROVE  HeldTicketExists'
    <3>1. ASSUME act["worker"].at \in Adding \cup {"spend"}
          PROVE  tickets'[act["worker"].kind] >= 1
      BY <2>3, <3>1, <1>3 DEF HeldTicketExists, TicketInv
    <3> QED
      BY <3>1, <1>1, <1>2 DEF HeldTicketExists, TicketInv
  <2> QED
    BY <2>1, <2>2, <2>3
<1>5. TicketsNeverNegative'
  BY DEF TicketsNeverNegative
<1>6. WorkerOK(act["worker"])' /\ RoomOK(act["room"])'
  BY <1>1 DEF TicketInv, WorkerOK, RoomOK
<1> QED
  BY <1>1, <1>4, <1>5, <1>6 DEF TicketInv

\* A step of the room's thread that changes no count.
LEMMA QuietRoom ==
    ASSUME TicketInv, NEW r, RoomOK(r), Go("room", r),
           r.at \in {"give1", "give2", "giveTickets"} \cup Adding => Giving,
           items' \in [Slot -> Item], UNCHANGED tickets,
           mCurRoomStatusType' \in {"CutSceneStage", "ReadyStage", "BattleOrCreepStage"}
    PROVE  TicketInv'
  BY RoomStep DEF TicketInv, TicketsNeverNegative

\* Between two pieces of work nothing is asked of the locals.
LEMMA WorkerRests ==
    ASSUME NEW place \in WorkerAt \ ({"combine", "clear"} \cup Adding)
    PROVE  /\ WorkerOK(Rest(place))
           /\ Rest(place).at = place
  BY RestTyped DEF WorkerOK, Rest, Adding, Swapping

LEMMA RoomRests ==
    ASSUME NEW place \in {"give2", "giveTickets"} \cup (Between \ {"idle"})
    PROVE  RoomOK(Rest(place)) /\ Rest(place).at = place
  BY RestTyped DEF RoomOK, Rest, Adding, Swapping, Between, RoomAt
-----------------------------------------------------------------------------
\* Items written to a slot, and the type of an item, keep the array typed.
LEMMA SetItem ==
    ASSUME items \in [Slot -> Item], NEW s, NEW item \in Item,
           items' = [items EXCEPT ![s] = item]
    PROVE  items' \in [Slot -> Item]
  OBVIOUS

\* What the locals of a thread are; SharedAt adds nothing to these.
LEMMA Locals ==
    ASSUME TicketInv, NEW a \in Actor
    PROVE  /\ act[a] \in Activation
           /\ act[a].one \in Slot /\ act[a].two \in Slot
           /\ act[a].item \in Item /\ act[a].kind \in TicketKind
           /\ act[a].scan \in 0 .. SlotCount /\ act[a].valid \subseteq Slot
  BY DEF TicketInv, Activation

LEMMA SwapItemStep ==
    ASSUME TicketInv, NEW a \in Actor, SwapItem(a)
    PROVE  TicketInv'
<1> DEFINE x == act[a]
<1>1. CASE At(a, "swap")
  <2> DEFINE y == [x EXCEPT !.item = items[x.two], !.at = "swapSecond"]
  <2>1. Go(a, y) /\ UNCHANGED <<items, tickets, mCurRoomStatusType>>
    BY <1>1 DEF SwapItem, At
  <2>2. items[x.two] \in Item
    BY Locals DEF TicketInv
  <2>3. y \in Activation /\ y.at = "swapSecond" /\ y.ret = x.ret /\ y.count = x.count
    BY Locals, <2>2 DEF Activation, SharedAt
  <2>4. CASE a = "worker"
    <3>1. WorkerOK(y)
      BY <1>1, <2>3, <2>4 DEF TicketInv, WorkerOK, At, Adding, Swapping, SharedAt
    <3> QED
      BY <2>1, <2>3, <2>4, <3>1, QuietWorker DEF TicketInv, Adding
  <2>5. CASE a = "room"
    <3>1. RoomOK(y)
      BY <1>1, <2>3, <2>5 DEF TicketInv, RoomOK, At, Adding, Swapping, SharedAt
    <3> QED
      BY <2>1, <2>3, <2>5, <3>1, QuietRoom DEF TicketInv, Adding
  <2> QED
    BY <2>4, <2>5 DEF Actor
<1>2. CASE At(a, "swapSecond")
  <2> DEFINE y == [x EXCEPT !.at = "swapFirst"]
  <2>1. /\ Go(a, y) /\ UNCHANGED <<tickets, mCurRoomStatusType>>
        /\ items' = [items EXCEPT ![x.two] = items[x.one]]
    BY <1>2 DEF SwapItem, At
  <2>2. items' \in [Slot -> Item]
    BY Locals, <2>1 DEF TicketInv
  <2>3. y \in Activation /\ y.at = "swapFirst" /\ y.ret = x.ret /\ y.count = x.count
    BY Locals DEF Activation, SharedAt
  <2>4. CASE a = "worker"
    <3>1. WorkerOK(y)
      BY <1>2, <2>3, <2>4 DEF TicketInv, WorkerOK, At, Adding, Swapping, SharedAt
    <3> QED
      BY <2>1, <2>2, <2>3, <2>4, <3>1, QuietWorker DEF Adding
  <2>5. CASE a = "room"
    <3>1. RoomOK(y)
      BY <1>2, <2>3, <2>5 DEF TicketInv, RoomOK, At, Adding, Swapping, SharedAt
    <3> QED
      BY <2>1, <2>2, <2>3, <2>5, <3>1, QuietRoom DEF TicketInv, Adding
  <2> QED
    BY <2>4, <2>5 DEF Actor
<1>3. CASE At(a, "swapFirst")
  <2>1. /\ Go(a, Return(a)) /\ UNCHANGED <<tickets, mCurRoomStatusType>>
        /\ items' = [items EXCEPT ![x.one] = x.item]
    BY <1>3 DEF SwapItem, At
  <2>2. items' \in [Slot -> Item]
    BY Locals, <2>1 DEF TicketInv
  <2>3. CASE a = "worker"
    <3>1. x.ret = "idle"
      BY <1>3, <2>3 DEF TicketInv, WorkerOK, At, Swapping
    <3>2. WorkerOK(Return(a)) /\ Return(a).at = "idle"
      BY <3>1, RestTyped, Locals
         DEF Return, Rest, WorkerOK, Activation, WorkerAt, Adding, Swapping
    <3> QED
      BY <2>1, <2>2, <2>3, <3>2, QuietWorker DEF Adding
  <2>4. CASE a = "room"
    <3>1. x.ret = "equipNext" /\ x.count >= 0
      BY <1>3, <2>4 DEF TicketInv, RoomOK, At, Swapping
    <3>2. RoomOK(Return(a)) /\ Return(a).at = "equipNext"
      BY <3>1, RestTyped, Locals
         DEF Return, Rest, RoomOK, Activation, RoomAt, Adding, Swapping
    <3> QED
      BY <2>1, <2>2, <2>4, <3>2, QuietRoom DEF TicketInv, Adding
  <2> QED
    BY <2>3, <2>4 DEF Actor
<1> QED
  BY <1>1, <1>2, <1>3 DEF SwapItem
LEMMA SearchOrderInSlot ==
    ASSUME NEW i \in 0 .. SlotCount, i < SlotCount
    PROVE  SearchOrder(i) \in Slot
  BY DEF SearchOrder, Slot, SlotCount

\* Where AddItem returns to.
LEMMA AddReturns ==
    ASSUME TicketInv, NEW a \in Actor, act[a].at \in Adding,
           Go(a, Return(a)), items' \in [Slot -> Item],
           UNCHANGED <<tickets, mCurRoomStatusType>>
    PROVE  TicketInv'
<1> DEFINE x == act[a]
<1>1. CASE a = "worker"
  <2>1. x.ret = "spend" /\ tickets[x.kind] >= 1 /\ ~Giving
    BY <1>1 DEF TicketInv, WorkerOK, HeldTicketExists
  <2>2. /\ WorkerOK(Return(a)) /\ Return(a).at = "spend"
        /\ Return(a).kind = x.kind
    BY <2>1, RestTyped, Locals
       DEF Return, Rest, WorkerOK, Activation, WorkerAt, Adding, Swapping
  <2> QED
    BY <1>1, <2>1, <2>2, WorkerStep DEF TicketInv, TicketsNeverNegative
<1>2. CASE a = "room"
  <2>1. x.ret \in {"give2", "giveTickets"} /\ x.count >= 0 /\ Giving
    BY <1>2 DEF TicketInv, RoomOK, Giving
  <2>2. RoomOK(Return(a)) /\ Return(a).at = x.ret
    BY <2>1, RestTyped, Locals
       DEF Return, Rest, RoomOK, Activation, RoomAt, Adding, Swapping
  <2> QED
    BY <1>2, <2>1, <2>2, QuietRoom DEF TicketInv
<1> QED
  BY <1>1, <1>2 DEF Actor

LEMMA FindEmptyStep ==
    ASSUME TicketInv, NEW a \in Actor, FindEmptyItemSlotIndex(a)
    PROVE  TicketInv'
<1> DEFINE x == act[a]
<1> USE DEF Adding, Swapping
<1>1. /\ x.at \in {"add", "find"} /\ x.scan \in 0 .. SlotCount
      /\ UNCHANGED <<items, tickets, mCurRoomStatusType>>
      /\ a = "room" => x.at = "add"
  BY Locals DEF FindEmptyItemSlotIndex, TicketInv, RoomOK, RoomAt, SharedAt, Between
<1>2. ASSUME NEW y, Go(a, y), y \in Activation, y.ret = x.ret, y.kind = x.kind,
             y.count = x.count,
             IF x.at = "add" THEN y.at \in {"add", "addSet"}
                             ELSE y.at \in {"find", "create"}
      PROVE  TicketInv'
  <2>1. CASE a = "worker"
    <3>1. WorkerOK(y)
      BY <1>1, <1>2, <2>1 DEF TicketInv, WorkerOK, WorkerAt, SharedAt
    <3>2. x.at = "add" => tickets[x.kind] >= 1 /\ ~Giving
      BY <2>1 DEF TicketInv, HeldTicketExists
    <3> QED
      BY <1>1, <1>2, <2>1, <3>1, <3>2, WorkerStep DEF TicketInv, TicketsNeverNegative
  <2>2. CASE a = "room"
    <3>1. RoomOK(y)
      BY <1>1, <1>2, <2>2 DEF TicketInv, RoomOK, SharedAt
    <3> QED
      BY <1>1, <1>2, <2>2, <3>1, QuietRoom DEF TicketInv, Giving
  <2> QED
    BY <2>1, <2>2 DEF Actor
<1>3. CASE /\ x.scan < SlotCount
           /\ Go(a, [x EXCEPT !.one = SearchOrder(x.scan),
                              !.at = IF @ = "add" THEN "addSet" ELSE "create"])
  <2> DEFINE y == [x EXCEPT !.one = SearchOrder(x.scan),
                            !.at = IF @ = "add" THEN "addSet" ELSE "create"]
  <2>1. SearchOrder(x.scan) \in Slot
    BY <1>1, <1>3, SearchOrderInSlot
  <2>2. /\ y \in Activation /\ y.ret = x.ret /\ y.kind = x.kind /\ y.count = x.count
        /\ y.at = IF x.at = "add" THEN "addSet" ELSE "create"
    BY <2>1, Locals, ZenonT(40) DEF Activation, WorkerAt, SharedAt
  <2> QED
    BY <1>1, <1>2, <1>3, <2>2
<1>4. CASE x.scan < SlotCount /\ Go(a, [x EXCEPT !.scan = x.scan + 1])
  <2> DEFINE y == [x EXCEPT !.scan = x.scan + 1]
  <2>1. x.scan + 1 \in 0 .. SlotCount
    BY <1>1, <1>4 DEF SlotCount
  <2>2. /\ y \in Activation /\ y.ret = x.ret /\ y.kind = x.kind /\ y.count = x.count
        /\ y.at = x.at
    BY <2>1, Locals DEF Activation
  <2> QED
    BY <1>1, <1>2, <1>4, <2>2
<1>5. CASE Go(a, IF At(a, "add") THEN Return(a) ELSE Rest("noSlot"))
  <2>1. CASE At(a, "add")
    BY <1>1, <1>5, <2>1, AddReturns DEF At, TicketInv
  <2>2. CASE ~At(a, "add")
    <3>1. a = "worker"
      BY <1>1, <2>2 DEF At, Actor
    <3> QED
      BY <1>1, <1>5, <2>2, <3>1, WorkerRests, QuietWorker DEF TicketInv, WorkerAt
  <2> QED
    BY <2>1, <2>2
<1> QED
  BY <1>3, <1>4, <1>5 DEF FindEmptyItemSlotIndex

LEMMA AddItemStep ==
    ASSUME TicketInv, NEW a \in Actor, AddItem(a)
    PROVE  TicketInv'
<1>1. /\ items' = [items EXCEPT ![act[a].one].type = act[a].item.type]
      /\ act[a].at \in Adding /\ Go(a, Return(a))
      /\ UNCHANGED <<tickets, mCurRoomStatusType>>
  BY DEF AddItem, At, Adding
<1>2. act[a].item.type \in ItemType \cup {EMPTY_ITEM}
  BY Locals DEF Item
<1>3. items' \in [Slot -> Item]
  BY <1>1, <1>2 DEF TicketInv, Item
<1> QED
  BY <1>1, <1>3, AddReturns
-----------------------------------------------------------------------------
\* A worker that has stopped asks for nothing more.
LEMMA WorkerDone ==
    ASSUME TicketInv, Go("worker", Rest("idle")), items' \in [Slot -> Item],
           UNCHANGED <<tickets, mCurRoomStatusType>>
    PROVE  TicketInv'
  BY WorkerRests, QuietWorker DEF WorkerAt, Adding

\* A worker whose locals change in nothing that WorkerOK speaks of.
LEMMA WorkerGoesTo ==
    ASSUME TicketInv, NEW place \in {"dropSet", "compare", "upgradeSet", "clearMaterial"},
           Go("worker", [act["worker"] EXCEPT !.at = place]),
           items' \in [Slot -> Item], UNCHANGED <<tickets, mCurRoomStatusType>>
    PROVE  TicketInv'
<1> DEFINE y == [act["worker"] EXCEPT !.at = place]
<1>1. y \in Activation /\ y.at = place
  BY Locals DEF Activation, WorkerAt, Actor
<1>2. WorkerOK(y)
  BY <1>1 DEF WorkerOK, WorkerAt, Adding, Swapping
<1> QED
  BY <1>1, <1>2, QuietWorker DEF Adding

LEMMA AskStep ==
    ASSUME TicketInv, NEW op \in Request, Ask(op)
    PROVE  TicketInv'
<1>1. PICK s \in Slot \X Slot \X Slot, k \in TicketKind :
        Go("worker", [Rest(op) EXCEPT
              !.one = s[1], !.two = s[2], !.kind = k,
              !.slots = IF op = "combine" THEN <<s[1], s[2], s[3]>> ELSE <<>>])
  BY DEF Ask
<1> DEFINE y == [Rest(op) EXCEPT
                    !.one = s[1], !.two = s[2], !.kind = k,
                    !.slots = IF op = "combine" THEN <<s[1], s[2], s[3]>> ELSE <<>>]
<1>2. /\ s[1] \in Slot /\ s[2] \in Slot
      /\ <<s[1], s[2], s[3]>> \in Seq(Slot) /\ Len(<<s[1], s[2], s[3]>>) = 3
  OBVIOUS
<1>3. /\ y \in Activation /\ y.at = op /\ y.ret = "idle" /\ y.types = <<>>
      /\ y.slots = IF op = "combine" THEN <<s[1], s[2], s[3]>> ELSE <<>>
  BY <1>2, RestTyped DEF Activation, Rest, WorkerAt
<1>4. WorkerOK(y)
  BY <1>2, <1>3 DEF WorkerOK, WorkerAt, Request, Adding, Swapping
<1>5. items' \in [Slot -> Item] /\ UNCHANGED <<tickets, mCurRoomStatusType>>
  BY DEF Ask, TicketInv
<1> QED
  BY <1>1, <1>3, <1>4, <1>5, QuietWorker DEF Request, Adding

LEMMA UseItemTicketStep ==
    ASSUME TicketInv, UseItemTicket
    PROVE  TicketInv'
<1> DEFINE x == act["worker"]
<1>1. CASE Go("worker", Rest("idle"))
  BY <1>1, WorkerDone DEF UseItemTicket, TicketInv
<1>2. ASSUME NEW t \in ItemType, tickets[x.kind] # 0,
             Go("worker", [x EXCEPT !.item.type = t, !.ret = "spend", !.at = "add"])
      PROVE  TicketInv'
  <2> DEFINE y == [x EXCEPT !.item.type = t, !.ret = "spend", !.at = "add"]
  <2>1. x \in Activation /\ x.item \in Item /\ x.kind \in TicketKind
    BY Locals DEF Actor
  <2>2. [x.item EXCEPT !.type = t] \in Item
    BY <2>1 DEF Item
  <2>3. /\ y \in Activation /\ y.at = "add" /\ y.ret = "spend" /\ y.kind = x.kind
    BY <2>1, <2>2 DEF Activation, SharedAt
  <2>4. WorkerOK(y)
    BY <2>3 DEF WorkerOK, SharedAt, Adding, Swapping
  <2>5. tickets[x.kind] >= 1
    BY <1>2, <2>1 DEF TicketInv, TicketsNeverNegative
  <2>6. ~Giving
    BY <1>2, <2>1 DEF TicketInv, HeldTicketExists
  <2> QED
    BY <1>2, <2>3, <2>4, <2>5, <2>6, WorkerStep
       DEF UseItemTicket, TicketInv, TicketsNeverNegative
<1> QED
  BY <1>1, <1>2 DEF UseItemTicket

LEMMA SpendTicketStep ==
    ASSUME TicketInv, SpendTicket
    PROVE  TicketInv'
<1> DEFINE x == act["worker"]
<1>1. x \in Activation /\ x.kind \in TicketKind
  BY Locals DEF Actor
<1>2. CASE /\ At("worker", "spend")
           /\ Go("worker", [x EXCEPT !.count = tickets[x.kind] - 1, !.at = "spendWrite"])
           /\ UNCHANGED <<items, tickets, mCurRoomStatusType>>
  <2>1. tickets[x.kind] \in Int /\ tickets[x.kind] >= 1 /\ ~Giving
    BY <1>1, <1>2 DEF TicketInv, HeldTicketExists, At
  <2>2. PICK n \in Int : n = tickets[x.kind] - 1 /\ n >= 0
    BY <2>1
  <2> DEFINE y == [x EXCEPT !.count = n, !.at = "spendWrite"]
  <2>3. y \in Activation /\ y.at = "spendWrite" /\ y.count = n
    BY <1>1 DEF Activation, WorkerAt
  <2>4. WorkerOK(y)
    BY <2>2, <2>3 DEF WorkerOK, WorkerAt, Adding, Swapping
  <2> QED
    BY <1>2, <2>1, <2>2, <2>3, <2>4, WorkerStep
       DEF TicketInv, TicketsNeverNegative, Adding
<1>3. CASE /\ At("worker", "spendWrite")
           /\ tickets' = [tickets EXCEPT ![x.kind] = x.count]
           /\ Go("worker", Rest("idle"))
           /\ UNCHANGED <<items, mCurRoomStatusType>>
  <2>1. x.count \in Int /\ x.count >= 0
    BY <1>1, <1>3 DEF TicketInv, WorkerOK, At, Activation
  <2>2. ~Giving
    BY <1>3 DEF TicketInv, HeldTicketExists, At
  <2>3. /\ tickets' \in [TicketKind -> Int]
        /\ \A k \in TicketKind : tickets'[k] >= 0
    BY <1>1, <1>3, <2>1 DEF TicketInv, TicketsNeverNegative
  <2>4. WorkerOK(Rest("idle")) /\ Rest("idle").at = "idle"
    BY WorkerRests DEF WorkerAt, Adding
  <2> QED
    BY <1>3, <2>2, <2>3, <2>4, WorkerStep DEF TicketInv, Adding
<1> QED
  BY <1>2, <1>3 DEF SpendTicket

LEMMA DropItemStep ==
    ASSUME TicketInv, DropItem
    PROVE  TicketInv'
<1>1. Empty \in Item
  BY DEF Empty, Item
<1>2. items' \in [Slot -> Item] /\ UNCHANGED <<tickets, mCurRoomStatusType>>
  BY <1>1 DEF DropItem, TicketInv
<1>3. \/ Go("worker", Rest("idle"))
      \/ Go("worker", [act["worker"] EXCEPT !.at = "dropSet"])
  BY DEF DropItem
<1> QED
  BY <1>2, <1>3, WorkerDone, WorkerGoesTo
LEMMA ReadTypesStep ==
    ASSUME TicketInv, ReadTypes
    PROVE  TicketInv'
<1> DEFINE x == act["worker"]
           n == Len(x.types) + 1
           types == Append(x.types, items[x.slots[n]].type)
<1>1. /\ x \in Activation /\ x.slots \in Seq(Slot)
      /\ x.types \in Seq(ItemType \cup {EMPTY_ITEM})
      /\ x.at = "combine" /\ Len(x.slots) = 3 /\ Len(x.types) < 3
  BY Locals DEF ReadTypes, At, TicketInv, WorkerOK, Activation, Actor
<1>2. n \in 1 .. 3 /\ x.slots[n] \in Slot
  BY <1>1
<1>3. items[x.slots[n]].type \in ItemType \cup {EMPTY_ITEM}
  BY <1>2 DEF TicketInv, Item
<1>4. types \in Seq(ItemType \cup {EMPTY_ITEM})
  BY <1>1, <1>3
<1>5. items' \in [Slot -> Item] /\ UNCHANGED <<tickets, mCurRoomStatusType>>
  BY DEF ReadTypes, TicketInv
<1>6. \/ Go("worker", Rest("idle"))
      \/ Len(types) < 3 /\ Go("worker", [x EXCEPT !.types = types])
      \/ Go("worker", [x EXCEPT !.types = types, !.at = "clear"])
  BY DEF ReadTypes
<1>7. CASE Go("worker", Rest("idle"))
  BY <1>5, <1>7, WorkerDone
<1> HIDE DEF types
<1>8. CASE Len(types) < 3 /\ Go("worker", [x EXCEPT !.types = types])
  <2> DEFINE y == [x EXCEPT !.types = types]
  <2>1. y \in Activation /\ y.at = "combine" /\ y.types = types /\ y.slots = x.slots
    BY <1>1, <1>4 DEF Activation
  <2>2. WorkerOK(y)
    BY <1>1, <1>8, <2>1 DEF WorkerOK, WorkerAt, Request, Adding, Swapping
  <2> QED
    BY <1>5, <1>8, <2>1, <2>2, QuietWorker DEF Adding
<1>9. CASE Go("worker", [x EXCEPT !.types = types, !.at = "clear"])
  <2> DEFINE y == [x EXCEPT !.types = types, !.at = "clear"]
  <2>1. y \in Activation /\ y.at = "clear" /\ y.slots = x.slots
    BY <1>1, <1>4 DEF Activation, WorkerAt
  <2>2. WorkerOK(y)
    <3> HIDE DEF y
    <3>1. y.slots \in Seq(Slot) /\ Len(y.slots) = 3
      BY <1>1, <2>1, Zenon
    <3> QED
      BY <2>1, <3>1 DEF WorkerOK, WorkerAt, Adding, Swapping
  <2> QED
    BY <1>5, <1>9, <2>1, <2>2, QuietWorker DEF Adding
<1> QED
  BY <1>6, <1>7, <1>8, <1>9

LEMMA ClearItemsStep ==
    ASSUME TicketInv, ClearItems
    PROVE  TicketInv'
<1> DEFINE x == act["worker"]
<1>1. /\ x \in Activation /\ x.slots \in Seq(Slot) /\ x.item \in Item
      /\ x.at = "clear" /\ Len(x.slots) > 0
  BY Locals DEF ClearItems, At, TicketInv, WorkerOK, Activation, Actor
<1>2. Empty \in Item
  BY DEF Empty, Item
<1>3. items' \in [Slot -> Item] /\ UNCHANGED <<tickets, mCurRoomStatusType>>
  BY <1>2 DEF ClearItems, TicketInv
<1>4. CASE Len(x.slots) > 1 /\ Go("worker", [x EXCEPT !.slots = Tail(x.slots)])
  <2> DEFINE y == [x EXCEPT !.slots = Tail(x.slots)]
  <2>1. Tail(x.slots) \in Seq(Slot) /\ Len(Tail(x.slots)) > 0
    BY <1>1, <1>4
  <2>2. y \in Activation /\ y.at = "clear" /\ y.slots = Tail(x.slots)
    BY <1>1, <2>1 DEF Activation
  <2>3. WorkerOK(y)
    BY <2>1, <2>2 DEF WorkerOK, WorkerAt, Adding, Swapping
  <2> QED
    BY <1>3, <1>4, <2>2, <2>3, QuietWorker DEF Adding
<1>5. ASSUME NEW t \in ItemType,
             Go("worker", [x EXCEPT !.item.type = t, !.at = "find"])
      PROVE  TicketInv'
  <2> DEFINE y == [x EXCEPT !.item.type = t, !.at = "find"]
  <2>1. [x.item EXCEPT !.type = t] \in Item
    BY <1>1 DEF Item
  <2>2. y \in Activation /\ y.at = "find"
    BY <1>1, <2>1 DEF Activation, WorkerAt
  <2>3. WorkerOK(y)
    BY <2>2 DEF WorkerOK, WorkerAt, Adding, Swapping
  <2> QED
    BY <1>3, <1>5, <2>2, <2>3, QuietWorker DEF Adding
<1> QED
  BY <1>4, <1>5 DEF ClearItems

LEMMA CreateItemStep ==
    ASSUME TicketInv, CreateItem
    PROVE  TicketInv'
<1>1. items' \in [Slot -> Item]
  BY Locals DEF CreateItem, TicketInv, Actor
<1> QED
  BY <1>1, WorkerDone DEF CreateItem

LEMMA UpgradeItemStep ==
    ASSUME TicketInv, UpgradeItem
    PROVE  TicketInv'
<1> DEFINE x == act["worker"]
<1>1. x \in Activation /\ x.one \in Slot /\ x.two \in Slot
  BY Locals DEF Actor
<1>2. CASE At("worker", "upgrade") /\ CompareItems
  <2> DEFINE y == [x EXCEPT !.item = items[x.one], !.at = "compare"]
  <2>1. items' \in [Slot -> Item] /\ UNCHANGED <<tickets, mCurRoomStatusType>>
    BY <1>2 DEF CompareItems, TicketInv
  <2>2. Go("worker", Rest("idle")) \/ Go("worker", y)
    BY <1>2 DEF CompareItems, At
  <2>3. items[x.one] \in Item
    BY <1>1 DEF TicketInv
  <2>4. y \in Activation /\ y.at = "compare"
    BY <1>1, <2>3 DEF Activation, WorkerAt
  <2>5. WorkerOK(y)
    BY <2>4 DEF WorkerOK, WorkerAt, Adding, Swapping
  <2> QED
    BY <2>1, <2>2, <2>4, <2>5, WorkerDone, QuietWorker DEF Adding
<1>3. CASE At("worker", "compare") /\ CompareItems
  <2>1. items' \in [Slot -> Item] /\ UNCHANGED <<tickets, mCurRoomStatusType>>
    BY <1>3 DEF CompareItems, TicketInv
  <2>2. \/ Go("worker", Rest("idle"))
        \/ Go("worker", [x EXCEPT !.at = "upgradeSet"])
    BY <1>3 DEF CompareItems, At
  <2> QED
    BY <2>1, <2>2, WorkerDone, WorkerGoesTo
<1>4. CASE /\ items' = [items EXCEPT ![x.one].upgrade = @ + 1]
           /\ Go("worker", [x EXCEPT !.at = "clearMaterial"])
           /\ UNCHANGED <<tickets, mCurRoomStatusType>>
  <2>1. items[x.one] \in Item
    BY <1>1 DEF TicketInv
  <2>2. [items[x.one] EXCEPT !.upgrade = @ + 1] \in Item
    BY <2>1 DEF Item
  <2>3. items' \in [Slot -> Item]
    BY <1>4, <2>2 DEF TicketInv
  <2> QED
    BY <1>4, <2>3, WorkerGoesTo
<1>5. CASE /\ items' = [items EXCEPT ![x.two] = Empty]
           /\ Go("worker", Rest("idle"))
           /\ UNCHANGED <<tickets, mCurRoomStatusType>>
  <2>1. Empty \in Item
    BY DEF Empty, Item
  <2>2. items' \in [Slot -> Item]
    BY <1>5, <2>1 DEF TicketInv
  <2> QED
    BY <1>5, <2>2, WorkerDone
<1> QED
  BY <1>2, <1>3, <1>4, <1>5 DEF UpgradeItem, CompareItems-----------------------------------------------------------------------------
LEMMA GiveDefaultItemsStep ==
    ASSUME TicketInv, GiveDefaultItems
    PROVE  TicketInv'
<1>1. ASSUME NEW t \in ItemType, NEW place \in {"give2", "giveTickets"}, Giving,
             Go("room", [Rest("add") EXCEPT !.item.type = t, !.ret = place]),
             UNCHANGED <<items, tickets, mCurRoomStatusType>>
      PROVE  TicketInv'
  <2> DEFINE y == [Rest("add") EXCEPT !.item.type = t, !.ret = place]
  <2>1. Rest("add") \in Activation /\ Rest("add").item \in Item
    BY RestTyped DEF SharedAt, Activation
  <2>2. [Rest("add").item EXCEPT !.type = t] \in Item
    BY <2>1 DEF Item
  <2>3. y \in Activation /\ y.at = "add" /\ y.ret = place /\ y.count = 0
    BY <2>1, <2>2 DEF Activation, Rest
  <2>4. RoomOK(y)
    BY <2>3 DEF RoomOK, SharedAt, Adding, Swapping
  <2> QED
    BY <1>1, <2>3, <2>4, QuietRoom DEF TicketInv, Adding
<1>2. CASE At("room", "giveTickets")
  <2>1. /\ tickets' = [k \in TicketKind |-> 0] /\ Go("room", Rest("enterReady"))
        /\ mCurRoomStatusType' = "ReadyStage" /\ UNCHANGED items /\ Giving
    BY <1>2 DEF GiveDefaultItems, At, Giving
  <2>2. RoomOK(Rest("enterReady")) /\ Rest("enterReady").at = "enterReady"
    BY RoomRests DEF Between
  <2>3. tickets' \in [TicketKind -> Int] /\ \A k \in TicketKind : tickets'[k] >= 0
    BY <2>1
  <2> QED
    BY <2>1, <2>2, <2>3, RoomStep DEF TicketInv, Adding
<1> QED
  BY <1>1, <1>2 DEF GiveDefaultItems, At, Giving

\* The room's thread goes to a place between two pieces of work.
LEMMA RoomGoesTo ==
    ASSUME TicketInv, NEW place \in Between \ {"idle"}, Go("room", Rest(place)),
           UNCHANGED <<items, tickets>>,
           mCurRoomStatusType' \in {"CutSceneStage", "ReadyStage", "BattleOrCreepStage"}
    PROVE  TicketInv'
<1>1. RoomOK(Rest(place)) /\ Rest(place).at = place
  BY RoomRests
<1> QED
  BY <1>1, QuietRoom DEF TicketInv, Between, Adding

\* It reads a count to increase it ...
LEMMA RoomReads ==
    ASSUME TicketInv, NEW k \in TicketKind, NEW n \in Nat \ {0},
           NEW place \in {"writeTickets", "rewardWrite"},
           Go("room", [Rest(place) EXCEPT !.kind = k, !.count = tickets[k] + n]),
           UNCHANGED <<items, tickets, mCurRoomStatusType>>
    PROVE  TicketInv'
<1>1. PICK m \in Int : m = tickets[k] + n /\ m >= 1
  BY DEF TicketInv, TicketsNeverNegative
<1> DEFINE y == [Rest(place) EXCEPT !.kind = k, !.count = m]
<1>2. Rest(place) \in Activation
  BY RestTyped DEF RoomAt
<1>3. y \in Activation /\ y.at = place /\ y.count = m
  BY <1>2 DEF Activation, Rest
<1>4. RoomOK(y)
  BY <1>1, <1>3 DEF RoomOK, RoomAt, Adding, Swapping
<1> QED
  BY <1>1, <1>3, <1>4, QuietRoom DEF TicketInv, Adding

\* ... and writes what it has read, increased.
LEMMA RoomWrites ==
    ASSUME TicketInv, NEW k \in TicketKind, NEW place \in Between \ {"idle"},
           act["room"].at \in {"writeTickets", "rewardWrite"},
           tickets' = [tickets EXCEPT ![k] = act["room"].count],
           Go("room", Rest(place)), UNCHANGED <<items, mCurRoomStatusType>>
    PROVE  TicketInv'
<1>1. act["room"].count \in Int /\ act["room"].count >= 1
  BY DEF TicketInv, RoomOK, Activation
<1>2. tickets' \in [TicketKind -> Int] /\ \A j \in TicketKind : tickets'[j] >= 0
  BY <1>1 DEF TicketInv, TicketsNeverNegative
<1>3. RoomOK(Rest(place)) /\ Rest(place).at = place
  BY RoomRests
<1> QED
  BY <1>1, <1>2, <1>3, RoomStep DEF TicketInv, Between, Adding

LEMMA GiveTicketsStep ==
    ASSUME TicketInv, GiveTickets
    PROVE  TicketInv'
<1>1. CASE At("room", "readTickets")
  <2>1. /\ Go("room", [Rest("writeTickets") EXCEPT !.kind = Normal,
                                                   !.count = tickets[Normal] + 2])
        /\ UNCHANGED <<items, tickets, mCurRoomStatusType>>
    BY <1>1 DEF GiveTickets, At
  <2>2. 2 \in Nat \ {0}
    OBVIOUS
  <2> QED
    BY <2>1, <2>2, RoomReads
<1>2. CASE At("room", "writeTickets")
  BY <1>2, RoomWrites DEF GiveTickets, At, Between
<1> QED
  BY <1>1, <1>2 DEF GiveTickets

LEMMA IncreaseItemTicketStep ==
    ASSUME TicketInv, IncreaseItemTicket
    PROVE  TicketInv'
<1>1. CASE At("room", "fight")
  <2>1. PICK k \in TicketKind, n \in RewardCount :
          Go("room", [Rest("rewardWrite") EXCEPT !.kind = k, !.count = tickets[k] + n])
    BY <1>1 DEF IncreaseItemTicket, At
  <2>2. UNCHANGED <<items, tickets, mCurRoomStatusType>>
    BY <1>1 DEF IncreaseItemTicket, At
  <2>3. n \in Nat \ {0}
    OBVIOUS
  <2> QED
    BY <2>1, <2>2, <2>3, RoomReads
<1>2. CASE At("room", "rewardWrite")
  <2>1. act["room"].kind \in TicketKind
    BY Locals DEF Actor
  <2> QED
    BY <1>2, <2>1, RoomWrites DEF IncreaseItemTicket, At, Between
<1> QED
  BY <1>1, <1>2 DEF IncreaseItemTicket

LEMMA SetDefaultUsingItemStep ==
    ASSUME TicketInv, SetDefaultUsingItem
    PROVE  TicketInv'
<1> DEFINE x == act["room"]
<1>1. x \in Activation /\ x.valid \subseteq Slot /\ x.count \in Int
  BY Locals DEF Actor, Activation
<1>2. /\ items' \in [Slot -> Item] /\ UNCHANGED <<items, tickets, mCurRoomStatusType>>
  BY DEF SetDefaultUsingItem, TicketInv
<1>3. CASE Go("room", Rest("leaveReady"))
  BY <1>2, <1>3, RoomGoesTo DEF TicketInv, Between
<1>4. CASE Go("room", [Rest("equipTest") EXCEPT
                          !.valid = FirstOfEachType(ValidUnUsingItems),
                          !.ret = "equipNext"])
  <2> DEFINE v == FirstOfEachType(ValidUnUsingItems)
             y == [Rest("equipTest") EXCEPT !.valid = v, !.ret = "equipNext"]
  <2>1. v \subseteq Slot
    BY DEF FirstOfEachType, ValidUnUsingItems
  <2>2. Rest("equipTest") \in Activation
    BY RestTyped DEF RoomAt
  <2> HIDE DEF v
  <2>3. y \in Activation /\ y.at = "equipTest" /\ y.ret = "equipNext" /\ y.count = 0
    BY <2>1, <2>2 DEF Activation, Rest
  <2>4. RoomOK(y)
    BY <2>3 DEF RoomOK, RoomAt, Adding, Swapping
  <2> QED
    BY <1>2, <1>4, <2>3, <2>4, QuietRoom DEF TicketInv, Adding, v
<1>5. CASE At("room", "equipTest") /\ Go("room", [x EXCEPT !.at = "equipNext"])
  <2> DEFINE y == [x EXCEPT !.at = "equipNext"]
  <2>1. y \in Activation /\ y.at = "equipNext" /\ y.ret = x.ret /\ y.count = x.count
    BY <1>1 DEF Activation, RoomAt
  <2>2. RoomOK(y)
    BY <1>5, <2>1 DEF TicketInv, RoomOK, RoomAt, At, Adding, Swapping
  <2> QED
    BY <1>2, <1>5, <2>1, <2>2, QuietRoom DEF TicketInv, Adding
<1>6. ASSUME NEW s \in x.valid, At("room", "equipNext"), x.count < MAX_USING_ITEM_COUNT,
             Go("room", [x EXCEPT !.one = x.count, !.two = s, !.count = x.count + 1,
                                  !.valid = x.valid \ {s}, !.at = "swap"])
      PROVE  TicketInv'
  <2>1. x.count >= 0 /\ x.ret = "equipNext"
    BY <1>6 DEF TicketInv, RoomOK, At
  <2>2. x.count \in Slot /\ s \in Slot /\ x.valid \ {s} \subseteq Slot
    BY <1>1, <1>6, <2>1 DEF Slot, SlotCount
  <2>3. PICK m \in Int : m = x.count + 1 /\ m >= 0
    BY <1>1, <2>1
  <2> DEFINE y == [x EXCEPT !.one = x.count, !.two = s, !.count = m,
                            !.valid = x.valid \ {s}, !.at = "swap"]
  <2>4. y \in Activation /\ y.at = "swap" /\ y.ret = x.ret /\ y.count = m
    BY <1>1, <2>2 DEF Activation, SharedAt
  <2>5. RoomOK(y)
    <3> HIDE DEF y
    <3> QED
      BY <2>1, <2>3, <2>4 DEF RoomOK, SharedAt, Adding, Swapping
  <2> QED
    BY <1>2, <1>6, <2>3, <2>4, <2>5, QuietRoom DEF TicketInv, Adding
<1> QED
  BY <1>3, <1>4, <1>5, <1>6 DEF SetDefaultUsingItem-----------------------------------------------------------------------------
LEMMA StepTickets == TicketInv /\ [Next]_vars => TicketInv'
<1> SUFFICES ASSUME TicketInv, [Next]_vars PROVE TicketInv'
  OBVIOUS
<1>1. CASE Worker
  BY <1>1, AskStep, UseItemTicketStep, SpendTicketStep, DropItemStep, ReadTypesStep,
     ClearItemsStep, CreateItemStep, UpgradeItemStep
     DEF Worker, CombineItems
<1>2. CASE ProgressThread
  <2>1. CASE EnterReadyStage
    BY <2>1, RoomGoesTo DEF EnterReadyStage, Between
  <2>2. CASE LeaveReadyStage
    BY <2>2, RoomGoesTo DEF LeaveReadyStage, Between
  <2>3. CASE NextStage
    BY <2>3, RoomGoesTo DEF NextStage, Between, TicketInv
  <2> QED
    BY <1>2, <2>1, <2>2, <2>3, GiveDefaultItemsStep, GiveTicketsStep,
       SetDefaultUsingItemStep, IncreaseItemTicketStep
       DEF ProgressThread
<1>3. CASE \E a \in Actor : SwapItem(a) \/ FindEmptyItemSlotIndex(a) \/ AddItem(a)
  BY <1>3, SwapItemStep, FindEmptyStep, AddItemStep
<1>4. CASE UNCHANGED vars
  BY <1>4 DEF vars, TicketInv, TicketsNeverNegative, HeldTicketExists, Giving
<1> QED
  BY <1>1, <1>2, <1>3, <1>4 DEF Next

(***************************************************************************)
(* Every variable of the code keeps its type: no loop over the slots runs  *)
(* past them, and the room's thread equips no slot that does not exist.    *)
(***************************************************************************)
THEOREM InventoryTypeCorrect == Spec => []TypeOK
<1>1. TicketInv => TypeOK
  BY DEF TicketInv, TypeOK, WorkerOK, RoomOK
<1> QED
  BY <1>1, InitTickets, StepTickets, PTL DEF Spec

(***************************************************************************)
(* The counts of tickets stay above zero although the worker's test of a   *)
(* count, its reading and its writing are interleaved with the reading and *)
(* writing of the room's thread: that one only ever writes an increase of  *)
(* what it has read.                                                       *)
(***************************************************************************)
THEOREM NoTicketIsOverdrawn == Spec => []TicketsNeverNegative
<1>1. TicketInv => TicketsNeverNegative
  BY DEF TicketInv
<1> QED
  BY <1>1, InitTickets, StepTickets, PTL DEF Spec
-----------------------------------------------------------------------------
(***************************************************************************)
(* Where work does not overlap: the thread that is at work, or the room's  *)
(* if none is.                                                             *)
(***************************************************************************)
Busy == IF act["worker"].at \in Between THEN act["room"] ELSE act["worker"]

OneAtWork == \E a \in Actor : act[a].at \in Between

\* Slots m as they will be when a swap or an upgrade begun by x is complete, and
\* the counts n when what x has read and changed is written.
Finished(x, m) ==
    IF x.at = "swapFirst" THEN [m EXCEPT ![x.one] = x.item]
    ELSE IF x.at = "clearMaterial" THEN [m EXCEPT ![x.two] = Empty]
    ELSE m

Settled(x, n) ==
    IF x.at \in {"spendWrite", "writeTickets", "rewardWrite"}
    THEN [n EXCEPT ![x.kind] = x.count] ELSE n

\* An empty slot is as good as new.
Clean(item) == item.type = EMPTY_ITEM => item = Empty

(***************************************************************************)
(* What the locals x of the thread at work have to do with the slots m.    *)
(***************************************************************************)
Knows(x, m) ==
    /\ x.at \in Adding \cup {"find", "create"} => x.item.type \in ItemType
    /\ x.at \in {"addSet", "create"} => m[x.one] = Empty
    /\ x.at = "swapSecond" => x.item = m[x.two]
    /\ x.at = "swapFirst" => Clean(x.item)
    /\ x.at \in {"combine", "clear", "find", "create"} => x.item.upgrade = 0
    /\ x.at \in {"compare", "upgradeSet"} => x.item = m[x.one]
    /\ x.at \in {"compare", "upgradeSet", "clearMaterial"} => x.one # x.two
    /\ x.at = "upgradeSet" => x.item = m[x.two] /\ x.item.type # EMPTY_ITEM
    /\ x.at = "writeTickets" => x.kind = Normal

(***************************************************************************)
(* TrySetDefaultUsingItem: of the slots, as they will be when the swap     *)
(* under way is complete, the first count are used, no other one, and      *)
(* those together with the items still to be used have no type twice.      *)
(***************************************************************************)
Exchanged(x, m) ==
    IF x.at \in {"swap", "swapSecond"}
    THEN [m EXCEPT ![x.one] = m[x.two], ![x.two] = m[x.one]] ELSE Finished(x, m)

Equipping(x) == x.at \in {"equipTest", "equipNext"} \cup Swapping /\ x.ret = "equipNext"

Chosen(x, m) ==
    /\ x.valid \subseteq Slot \ Using
    /\ \A s \in x.valid : m[s].type # EMPTY_ITEM
    /\ \A r, s \in {u \in Using : u < x.count} \cup x.valid :
          m[r].type = m[s].type => r = s

Equipped(x, m) ==
    /\ x.at = "equipTest" => x.count = 0
    /\ x.at # "equipTest" =>
          \A s \in Using : m[s].type # EMPTY_ITEM <=> s < x.count
    /\ x.count <= MAX_USING_ITEM_COUNT
    /\ x.count = 0 => x.valid # {}
    /\ x.at \in Swapping =>
          /\ x.one = x.count - 1 /\ x.two \in Slot \ Using /\ x.two \notin x.valid

Sound(x, m, n, o, d) ==
    /\ Knows(x, m)
    /\ Equipping(x) => LET f == Exchanged(x, m) IN Chosen(x, f) /\ Equipped(x, f)
    /\ o = [t \in ItemType |-> WorthIn(t, Finished(x, m))]
    /\ d = Settled(x, n)

AccountInv ==
    /\ TicketInv
    /\ OneAtWork
    /\ \A s \in Slot : Clean(items[s])
    /\ Sound(Busy, items, tickets, owed, due)

LEMMA PowerSteps ==
    Power[0] = 1 /\ \A n \in Nat : Power[n] \in Nat /\ Power[n + 1] = 2 * Power[n]
<1> DEFINE Is(w) == w = [n \in Nat |-> IF n = 0 THEN 1 ELSE 2 * w[n - 1]]
           Twice == [i \in Nat \ {0} |-> [x \in Nat |-> 2 * x]]
<1>1. /\ Twice \in [Nat \ {0} -> [Nat -> Nat]]
      /\ \A i \in Nat \ {0}, x \in Nat : Twice[i][x] = 2 * x
  OBVIOUS
<1> HIDE DEF Twice
<1>2. PICK g \in [Nat -> Nat] :
          g[0] = 1 /\ \A i \in Nat \ {0} : g[i] = Twice[i][g[i - 1]]
  <2> DEFINE S == Nat
             one == 1
  <2>1. one \in S /\ Twice \in [Nat \ {0} -> [S -> S]]
    BY <1>1
  <2> HIDE DEF S, one
  <2>2. \E g \in [Nat -> S] :
           g[0] = one /\ \A i \in Nat \ {0} : g[i] = Twice[i][g[i - 1]]
    BY <2>1, RecursionOnNat, SMTT(30)
  <2> QED BY <2>2 DEF S, one
<1>3. ASSUME NEW n \in Nat PROVE g[n] = IF n = 0 THEN 1 ELSE 2 * g[n - 1]
  <2>1. n # 0 => n \in Nat \ {0} /\ n - 1 \in Nat
    OBVIOUS
  <2> QED BY <1>1, <1>2, <2>1
<1>4. Is(g)
  BY <1>2, <1>3
<1>5. Power = CHOOSE w : Is(w)
  BY Zenon DEF Power
<1>6. Is(Power)
  <2> HIDE DEF Is
  <2> QED BY <1>4, <1>5
<1>7. ASSUME NEW n \in Nat PROVE Power[n] = IF n = 0 THEN 1 ELSE 2 * Power[n - 1]
  BY <1>6
<1> DEFINE I == {n \in Nat : Power[n] \notin Nat}
<1>8. ASSUME NEW n \in I PROVE \E i \in I : i < n
  <2>1. Power[n] = IF n = 0 THEN 1 ELSE 2 * Power[n - 1]
    BY <1>7
  <2>2. n \in Nat /\ n # 0 /\ n - 1 \in Nat /\ n - 1 < n
    BY <2>1
  <2> QED BY <2>1, <2>2
<1>9. I = {}
  <2>1. I \subseteq Nat
    OBVIOUS
  <2> HIDE DEF I
  <2> QED BY <1>8, <2>1, NoLeast
<1> QED
  <2>1. ASSUME NEW n \in Nat PROVE Power[n] \in Nat /\ Power[n + 1] = 2 * Power[n]
    <3>1. Power[n] \in Nat
      BY <1>9
    <3>2. n + 1 \in Nat /\ n + 1 # 0 /\ (n + 1) - 1 = n
      OBVIOUS
    <3>3. Power[n + 1] = IF n + 1 = 0 THEN 1 ELSE 2 * Power[(n + 1) - 1]
      BY <1>7, <3>2
    <3> QED BY <3>1, <3>2, <3>3
  <2>2. Power[0] = 1
    BY <1>7
  <2> QED BY <2>1, <2>2

LEMMA WorthTyped ==
    ASSUME NEW item \in Item, NEW t PROVE ItemWorth(t, item) \in Int
<1>1. item.upgrade \in Nat
  BY DEF Item
<1>2. Power[item.upgrade] \in Nat
  BY <1>1, PowerSteps
<1> QED BY <1>2 DEF ItemWorth

\* The sum, slot by slot.
LEMMA WorthSteps ==
    ASSUME NEW m \in [Slot -> Item], NEW t
    PROVE  \E g \in [0 .. SlotCount -> Int] :
              /\ g[0] = 0 /\ WorthIn(t, m) = g[SlotCount]
              /\ \A i \in 1 .. SlotCount : g[i] = g[i - 1] + ItemWorth(t, m[i - 1])
<1> DEFINE N == SlotCount
           Is(w) == w = [n \in 0 .. SlotCount |->
                            IF n = 0 THEN 0 ELSE w[n - 1] + ItemWorth(t, m[n - 1])]
           Add == [i \in 1 .. N |-> [x \in Int |-> x + ItemWorth(t, m[i - 1])]]
<1>0. N \in Nat
  BY DEF SlotCount
<1>1. \A i \in 1 .. N : ItemWorth(t, m[i - 1]) \in Int
  <2>1. \A i \in 1 .. N : i - 1 \in Slot
    BY <1>0 DEF Slot
  <2> QED BY <2>1, WorthTyped
<1>2. /\ Add \in [1 .. N -> [Int -> Int]]
      /\ \A i \in 1 .. N, x \in Int : Add[i][x] = x + ItemWorth(t, m[i - 1])
  BY <1>1
<1> HIDE DEF Add, N
<1>3. PICK f \in [0 .. N -> Int] : f[0] = 0 /\ \A i \in 1 .. N : f[i] = Add[i][f[i - 1]]
  <2> DEFINE S == Int
             none == 0
  <2>1. none \in S /\ Add \in [1 .. N -> [S -> S]]
    BY <1>2
  <2> HIDE DEF S, none
  <2>2. \E f \in [0 .. N -> S] : f[0] = none /\ \A i \in 1 .. N : f[i] = Add[i][f[i - 1]]
    BY <1>0, <2>1, Recursion, SMTT(30)
  <2> QED BY <2>2 DEF S, none
<1>4. ASSUME NEW n \in 0 .. N
      PROVE  f[n] = IF n = 0 THEN 0 ELSE f[n - 1] + ItemWorth(t, m[n - 1])
  <2>1. n # 0 => n \in 1 .. N /\ n - 1 \in 0 .. N
    BY <1>0
  <2> QED BY <1>2, <1>3, <2>1
<1>5. Is(f)
  BY <1>3, <1>4 DEF N
<1> DEFINE u == CHOOSE w : Is(w)
<1>6. Is(u)
  <2> HIDE DEF Is
  <2> QED BY <1>5
<1>7. WorthIn(t, m) = u[SlotCount]
  BY Zenon DEF WorthIn
<1> HIDE DEF u
<1>8. ASSUME NEW n \in 0 .. N
      PROVE  u[n] = IF n = 0 THEN 0 ELSE u[n - 1] + ItemWorth(t, m[n - 1])
  BY <1>6 DEF N
<1>9. \A n \in 0 .. N : u[n] \in Int
  <2>1. u[0] \in Int
    BY <1>0, <1>8
  <2>2. ASSUME NEW i \in 1 .. N, u[i - 1] \in Int PROVE u[i] \in Int
    <3>1. i \in 0 .. N /\ i # 0
      BY <1>0
    <3> QED BY <1>1, <1>8, <2>2, <3>1
  <2> QED BY <1>0, <2>1, <2>2, Stays
<1>10. u \in [0 .. N -> Int]
  <2>1. u = [n \in 0 .. N |-> IF n = 0 THEN 0 ELSE u[n - 1] + ItemWorth(t, m[n - 1])]
    BY <1>6 DEF N
  <2>2. u = [n \in 0 .. N |-> u[n]]
    BY <2>1
  <2> QED BY <1>9, <2>2
<1>11. \A i \in 1 .. N : u[i] = u[i - 1] + ItemWorth(t, m[i - 1])
  <2>1. \A i \in 1 .. N : i \in 0 .. N /\ i # 0
    BY <1>0
  <2> QED BY <1>8, <2>1
<1>12. u[0] = 0
  BY <1>0, <1>8
<1> QED BY <1>7, <1>10, <1>11, <1>12 DEF N

\* One slot more or less.
LEMMA SetWorth ==
    ASSUME NEW m \in [Slot -> Item], NEW t \in ItemType, NEW s \in Slot,
           NEW item \in Item
    PROVE  /\ WorthIn(t, m) \in Int
           /\ WorthIn(t, [m EXCEPT ![s] = item]) =
                 WorthIn(t, m) - ItemWorth(t, m[s]) + ItemWorth(t, item)
<1> DEFINE l == [m EXCEPT ![s] = item]
           N == SlotCount
           d == ItemWorth(t, item) - ItemWorth(t, m[s])
<1>0. N \in Nat /\ s \in 0 .. N - 1 /\ N \in 0 .. N
  BY DEF SlotCount, Slot
<1>1. l \in [Slot -> Item]
  OBVIOUS
<1>2. PICK f \in [0 .. N -> Int] :
          /\ f[0] = 0 /\ WorthIn(t, m) = f[N]
          /\ \A i \in 1 .. N : f[i] = f[i - 1] + ItemWorth(t, m[i - 1])
  BY WorthSteps
<1>3. PICK g \in [0 .. N -> Int] :
          /\ g[0] = 0 /\ WorthIn(t, l) = g[N]
          /\ \A i \in 1 .. N : g[i] = g[i - 1] + ItemWorth(t, l[i - 1])
  <2> HIDE DEF l
  <2> QED BY <1>1, WorthSteps
<1>4. \A r \in Slot : ItemWorth(t, l[r]) = IF r = s THEN ItemWorth(t, m[r]) + d
                                                   ELSE ItemWorth(t, m[r])
  <2>1. \A r \in Slot : l[r] = IF r = s THEN item ELSE m[r]
    OBVIOUS
  <2>2. ItemWorth(t, item) \in Int /\ ItemWorth(t, m[s]) \in Int
    BY WorthTyped
  <2> HIDE DEF l
  <2> QED BY <2>1, <2>2
<1>5. d \in Int /\ \A r \in Slot : ItemWorth(t, m[r]) \in Int
  BY WorthTyped
<1> HIDE DEF l, d
<1> DEFINE J == {i \in 0 .. N : g[i] # IF i > s THEN f[i] + d ELSE f[i]}
<1>6. ASSUME NEW i \in J PROVE \E j \in J : j < i
  <2>1. i # 0
    BY <1>0, <1>2, <1>3
  <2>2. i \in 1 .. N /\ i - 1 \in 0 .. N /\ i - 1 < i /\ i - 1 \in Slot
    BY <1>0, <2>1 DEF Slot
  <2>3. /\ f[i] = f[i - 1] + ItemWorth(t, m[i - 1]) /\ f[i - 1] \in Int
        /\ g[i] = g[i - 1] + ItemWorth(t, l[i - 1]) /\ g[i - 1] \in Int
    BY <1>2, <1>3, <2>2
  <2>4. ItemWorth(t, l[i - 1]) = IF i - 1 = s THEN ItemWorth(t, m[i - 1]) + d
                                              ELSE ItemWorth(t, m[i - 1])
    BY <1>4, <2>2
  <2>5. ItemWorth(t, m[i - 1]) \in Int
    BY <1>5, <2>2
  <2>6. g[i - 1] # IF i - 1 > s THEN f[i - 1] + d ELSE f[i - 1]
    <3>1. g[i] # IF i > s THEN f[i] + d ELSE f[i]
      OBVIOUS
    <3>2. i \in Int /\ s \in Int
      BY <1>0, <2>2
    <3> HIDE DEF J
    <3>3. CASE i - 1 = s
      BY <1>5, <2>3, <2>4, <2>5, <3>1, <3>2, <3>3
    <3>4. CASE i - 1 > s
      BY <1>5, <2>3, <2>4, <2>5, <3>1, <3>2, <3>4
    <3>5. CASE i - 1 < s
      BY <2>3, <2>4, <3>1, <3>2, <3>5
    <3> QED BY <3>2, <3>3, <3>4, <3>5
  <2> QED BY <2>2, <2>6
<1>7. J = {}
  <2>1. J \subseteq Nat
    OBVIOUS
  <2> HIDE DEF J
  <2> QED BY <1>6, <2>1, NoLeast
<1>8. g[N] = f[N] + d
  BY <1>0, <1>7
<1>9. ItemWorth(t, item) \in Int /\ ItemWorth(t, m[s]) \in Int /\ f[N] \in Int
  BY <1>0, WorthTyped
<1> QED BY <1>2, <1>3, <1>8, <1>9 DEF l, d

LEMMA EmptyIsItem == Empty \in Item /\ \A t \in ItemType : ItemWorth(t, Empty) = 0
  BY DEF Empty, Item, ItemWorth, EMPTY_ITEM

\* A new item.
LEMMA AddWorth ==
    ASSUME NEW m \in [Slot -> Item], NEW t \in ItemType, NEW s \in Slot, m[s] = Empty,
           NEW u \in ItemType
    PROVE  WorthIn(t, [m EXCEPT ![s] = [type |-> u, upgrade |-> 0]]) =
              IF t = u THEN WorthIn(t, m) + 1 ELSE WorthIn(t, m)
<1> DEFINE item == [type |-> u, upgrade |-> 0]
<1>1. item \in Item
  BY DEF Item
<1>2. ItemWorth(t, item) = IF t = u THEN 1 ELSE 0
  BY PowerSteps DEF ItemWorth
<1>3. ItemWorth(t, m[s]) = 0
  BY EmptyIsItem
<1> HIDE DEF item
<1>4. /\ WorthIn(t, m) \in Int
      /\ WorthIn(t, [m EXCEPT ![s] = item]) =
            WorthIn(t, m) - ItemWorth(t, m[s]) + ItemWorth(t, item)
  BY <1>1, SetWorth
<1>5. WorthIn(t, [m EXCEPT ![s] = item]) = IF t = u THEN WorthIn(t, m) + 1 ELSE WorthIn(t, m)
  BY <1>2, <1>3, <1>4
<1> QED BY <1>5 DEF item

\* A slot is emptied.
LEMMA DropWorth ==
    ASSUME NEW m \in [Slot -> Item], NEW t \in ItemType, NEW s \in Slot
    PROVE  WorthIn(t, [m EXCEPT ![s] = Empty]) = WorthIn(t, m) - ItemWorth(t, m[s])
<1>1. /\ WorthIn(t, m) \in Int
      /\ WorthIn(t, [m EXCEPT ![s] = Empty]) =
            WorthIn(t, m) - ItemWorth(t, m[s]) + ItemWorth(t, Empty)
  BY EmptyIsItem, SetWorth, ZenonT(40)
<1>2. ItemWorth(t, Empty) = 0 /\ ItemWorth(t, m[s]) \in Int
  BY EmptyIsItem, WorthTyped
<1> QED BY <1>1, <1>2

\* Two items change places.
LEMMA SwapWorth ==
    ASSUME NEW m \in [Slot -> Item], NEW t \in ItemType, NEW r \in Slot, NEW s \in Slot
    PROVE  WorthIn(t, [[m EXCEPT ![s] = m[r]] EXCEPT ![r] = m[s]]) = WorthIn(t, m)
<1> DEFINE one == m[r]
           two == m[s]
           l == [m EXCEPT ![s] = one]
<1>0. one \in Item /\ two \in Item /\ m[s] = two
  OBVIOUS
<1>1. l \in [Slot -> Item] /\ l[r] = one
  OBVIOUS
<1> HIDE DEF one, two
<1>2. /\ WorthIn(t, m) \in Int
      /\ WorthIn(t, l) = WorthIn(t, m) - ItemWorth(t, m[s]) + ItemWorth(t, one)
  BY <1>0, SetWorth, ZenonT(40)
<1> HIDE DEF l
<1>3. WorthIn(t, [l EXCEPT ![r] = two]) =
         WorthIn(t, l) - ItemWorth(t, l[r]) + ItemWorth(t, two)
  BY <1>0, <1>1, SetWorth
<1>4. ItemWorth(t, one) \in Int /\ ItemWorth(t, two) \in Int
  BY <1>0, WorthTyped
<1>5. WorthIn(t, [l EXCEPT ![r] = two]) = WorthIn(t, m)
  BY <1>0, <1>1, <1>2, <1>3, <1>4
<1> QED BY <1>5 DEF l, one, two

\* Two equal items become one of the next upgrade.
LEMMA UpgradeWorth ==
    ASSUME NEW m \in [Slot -> Item], NEW t \in ItemType, NEW r \in Slot, NEW s \in Slot,
           r # s, m[r] = m[s]
    PROVE  WorthIn(t, [[m EXCEPT ![r].upgrade = @ + 1] EXCEPT ![s] = Empty]) = WorthIn(t, m)
<1> DEFINE up == [m[r] EXCEPT !.upgrade = @ + 1]
           l == [m EXCEPT ![r] = up]
<1>1. m[r] \in Item /\ up \in Item /\ up.type = m[r].type /\ up.upgrade = m[r].upgrade + 1
      /\ m[r].upgrade \in Nat
  BY DEF Item
<1>2. ItemWorth(t, up) = ItemWorth(t, m[r]) + ItemWorth(t, m[r])
  <2> HIDE DEF up
  <2>1. /\ Power[m[r].upgrade] \in Nat
        /\ Power[m[r].upgrade + 1] = 2 * Power[m[r].upgrade]
    BY <1>1, PowerSteps
  <2> QED BY <1>1, <2>1 DEF ItemWorth
<1> HIDE DEF up
<1>3. l \in [Slot -> Item] /\ l[s] = m[r]
  BY <1>1
<1>4. /\ WorthIn(t, m) \in Int
      /\ WorthIn(t, l) = WorthIn(t, m) - ItemWorth(t, m[r]) + ItemWorth(t, up)
  BY <1>1, SetWorth
<1>5. l = [m EXCEPT ![r].upgrade = @ + 1]
  BY DEF up
<1> HIDE DEF l
<1>6. WorthIn(t, [l EXCEPT ![s] = Empty]) = WorthIn(t, l) - ItemWorth(t, l[s])
  BY <1>3, DropWorth
<1>7. ItemWorth(t, m[r]) \in Int
  BY <1>1, WorthTyped
<1>8. WorthIn(t, [l EXCEPT ![s] = Empty]) = WorthIn(t, m)
  BY <1>2, <1>3, <1>4, <1>6, <1>7
<1> QED BY <1>5, <1>8
-----------------------------------------------------------------------------
(***************************************************************************)
(* Between two pieces of work, and where a piece of work has only begun, a *)
(* thread has nothing in hand.                                             *)
(***************************************************************************)
Free == Between \cup {"give1", "give2", "giveTickets", "ticket", "spend", "drop", "dropSet",
                      "upgrade", "noSlot"}

LEMMA FreeIsSound ==
    ASSUME NEW x, NEW m, NEW n, NEW o, NEW d, x.at \in Free
    PROVE  Sound(x, m, n, o, d) <=> o = [t \in ItemType |-> WorthIn(t, m)] /\ d = n
<1>1. Knows(x, m) /\ ~Equipping(x) /\ Finished(x, m) = m /\ Settled(x, n) = n
  BY DEF Knows, Free, Between, Adding, Swapping, Equipping, Finished, Settled
<1> QED BY <1>1 DEF Sound

\* Who is at work, or begins to be, is the one the invariant speaks of.
LEMMA WhoWorks ==
    ASSUME ~Overlap, AccountInv, NEW a \in Actor, act[a].at \notin Between \/ MayBegin(a)
    PROVE  /\ Sound(act[a], items, tickets, owed, due)
           /\ \A b \in Actor \ {a} : act[b].at \in Between
<1>1. \A b \in Actor \ {a} : act[b].at \in Between
  <2>1. PICK c \in Actor : act[c].at \in Between
    BY DEF AccountInv, OneAtWork
  <2>2. CASE act[a].at \notin Between
    BY <2>1, <2>2 DEF Actor
  <2>3. CASE MayBegin(a)
    BY <2>3 DEF MayBegin
  <2> QED BY <2>2, <2>3
<1>2. CASE Busy = act[a]
  BY <1>1, <1>2 DEF AccountInv
<1>3. CASE Busy # act[a]
  <2>1. Busy.at \in Between /\ act[a].at \in Between
    BY <1>1, <1>3 DEF Busy, Actor
  <2> QED BY <1>1, <2>1, FreeIsSound DEF Free, AccountInv
<1> QED BY <1>2, <1>3

\* A step of the thread at work.
LEMMA WorkStep ==
    ASSUME ~Overlap, AccountInv, TicketInv', NEW a \in Actor, NEW x, Go(a, x),
           act[a].at \notin Between \/ MayBegin(a),
           \A s \in Slot : Clean(items'[s]), Sound(x, items', tickets', owed', due')
    PROVE  AccountInv'
<1>1. \A b \in Actor \ {a} : act[b].at \in Between
  BY WhoWorks
<1>2. act'[a] = x /\ \A b \in Actor \ {a} : act'[b] = act[b]
  BY DEF Go, AccountInv, TicketInv
<1>3. OneAtWork'
  BY <1>1, <1>2 DEF OneAtWork, Actor
<1>4. Sound(Busy', items', tickets', owed', due')
  <2>1. CASE Busy' = x
    BY <2>1
  <2>2. CASE Busy' # x
    <3>1. Busy'.at \in Between /\ x.at \in Between
      BY <1>1, <1>2, <2>2 DEF Busy, Actor
    <3> QED BY <3>1, FreeIsSound DEF Free
  <2> QED BY <2>1, <2>2
<1> QED BY <1>3, <1>4 DEF AccountInv

\* A step of the room's thread from one stage to the next.
LEMMA StageStep ==
    ASSUME AccountInv, TicketInv', NEW place \in Between, act["room"].at \in Between,
           Go("room", Rest(place)), UNCHANGED <<items, tickets, owing>>
    PROVE  AccountInv'
<1>1. act'["room"] = Rest(place) /\ act'["worker"] = act["worker"]
  BY DEF Go, AccountInv, TicketInv, Actor
<1>2. Rest(place).at = place
  BY DEF Rest
<1>3. OneAtWork'
  BY <1>1, <1>2 DEF OneAtWork, Actor
<1>4. UNCHANGED <<owed, due>>
  BY DEF owing
<1>5. Sound(Busy', items', tickets', owed', due')
  <2>1. CASE act["worker"].at \in Between
    <3>1. Busy.at \in Between /\ Busy'.at \in Between
      BY <1>1, <1>2, <2>1 DEF Busy
    <3> QED BY <1>4, <3>1, FreeIsSound DEF Free, AccountInv
  <2>2. CASE act["worker"].at \notin Between
    BY <1>1, <1>4, <2>2 DEF Busy, AccountInv
  <2> QED BY <2>1, <2>2
<1> QED BY <1>3, <1>5 DEF AccountInv

\* What a piece of work begins with is what there is.
LEMMA BeginsWith ==
    ASSUME ~Overlap, AccountInv, NEW a \in Actor, act[a].at \in Between, MayBegin(a)
    PROVE  Owed = owed /\ Due = due /\ Due = tickets
<1>1. Sound(act[a], items, tickets, owed, due) /\ AtRest
  BY WhoWorks DEF AtRest
<1>2. owed = [t \in ItemType |-> WorthIn(t, items)] /\ due = tickets
  BY <1>1, FreeIsSound DEF Free
<1> QED BY <1>1, <1>2 DEF Owed, Due, Worth

(***************************************************************************)
(* The steps of both threads.                                              *)
(***************************************************************************)
LEMMA Typed ==
    ASSUME AccountInv, NEW a \in Actor
    PROVE  /\ items \in [Slot -> Item] /\ tickets \in [TicketKind -> Int]
           /\ act[a].one \in Slot /\ act[a].two \in Slot /\ act[a].item \in Item
           /\ act[a].kind \in TicketKind /\ act[a].count \in Int
           /\ act[a].valid \subseteq Slot
           /\ \A s \in Slot : items[s] \in Item /\ Clean(items[s])
<1>1. TicketInv
  BY DEF AccountInv
<1>2. act[a].count \in Int
  BY <1>1, Locals DEF TicketInv, Activation
<1> QED BY <1>1, <1>2, Locals DEF TicketInv, AccountInv

LEMMA SwapItemSound ==
    ASSUME ~Overlap, AccountInv, TicketInv', NEW a \in Actor, SwapItem(a)
    PROVE  AccountInv'
<1> DEFINE x == act[a]
<1>1. x.at \in Swapping /\ x.at \notin Between /\ UNCHANGED <<tickets, owed, due>>
  BY DEF SwapItem, At, Swapping, Between, owing
<1>2. Sound(x, items, tickets, owed, due)
  BY <1>1, WhoWorks
<1>3. CASE At(a, "swap")
  <2> DEFINE y == [x EXCEPT !.item = items[x.two], !.at = "swapSecond"]
  <2>1. Go(a, y) /\ UNCHANGED items
    BY <1>3 DEF SwapItem, At
  <2>2. /\ y.at = "swapSecond" /\ y.item = items[x.two] /\ y.one = x.one /\ y.two = x.two
        /\ y.valid = x.valid /\ y.count = x.count /\ y.ret = x.ret
    BY DEF AccountInv, TicketInv, Activation
  <2>3. x.at = "swap"
    BY <1>3 DEF At
  <2> HIDE DEF y
  <2>4. Knows(y, items)
    BY <2>2 DEF Knows, Adding
  <2>5. Exchanged(y, items) = Exchanged(x, items)
    BY <2>2, <2>3 DEF Exchanged
  <2>6. Equipping(y) => Chosen(y, Exchanged(x, items)) /\ Equipped(y, Exchanged(x, items))
    BY <1>2, <2>2, <2>3 DEF Sound, Equipping, Chosen, Equipped, Swapping
  <2>7. Finished(y, items) = Finished(x, items) /\ Settled(y, tickets) = Settled(x, tickets)
    BY <2>2, <2>3 DEF Finished, Settled
  <2>8. Sound(y, items, tickets, owed, due)
    BY <1>2, <2>4, <2>5, <2>6, <2>7 DEF Sound
  <2> QED BY <1>1, <2>1, <2>8, WorkStep, Typed
<1>4. CASE At(a, "swapSecond")
  <2> DEFINE y == [x EXCEPT !.at = "swapFirst"]
  <2>1. Go(a, y) /\ items' = [items EXCEPT ![x.two] = items[x.one]]
    BY <1>4 DEF SwapItem, At
  <2>2. /\ y.at = "swapFirst" /\ y.item = x.item /\ y.one = x.one /\ y.two = x.two
        /\ y.valid = x.valid /\ y.count = x.count /\ y.ret = x.ret
    BY DEF AccountInv, TicketInv, Activation
  <2>3. x.at = "swapSecond" /\ x.item = items[x.two]
    BY <1>2, <1>4 DEF At, Sound, Knows
  <2>4. Clean(x.item) /\ \A s \in Slot : Clean(items'[s])
    BY <2>1, <2>3, Typed
  <2> HIDE DEF y
  <2>5. Knows(y, items')
    BY <2>2, <2>4 DEF Knows, Adding
  <2>6. Finished(y, items') = [[items EXCEPT ![x.two] = items[x.one]]
                                      EXCEPT ![x.one] = items[x.two]]
    BY <2>1, <2>2, <2>3 DEF Finished
  <2>7. Exchanged(x, items) = Finished(y, items')
    BY <2>3, <2>6, Typed, ZenonT(40) DEF Exchanged
  <2>8. Exchanged(y, items') = Exchanged(x, items)
    BY <2>2, <2>7 DEF Exchanged
  <2>9. Equipping(y) => Chosen(y, Exchanged(x, items)) /\ Equipped(y, Exchanged(x, items))
    BY <1>2, <2>2, <2>3 DEF Sound, Equipping, Chosen, Equipped, Swapping
  <2>10. \A t \in ItemType : WorthIn(t, Finished(y, items')) = WorthIn(t, Finished(x, items))
    <3>1. Finished(x, items) = items
      BY <2>3 DEF Finished
    <3>2. items \in [Slot -> Item] /\ x.one \in Slot /\ x.two \in Slot
      BY Typed
    <3>3. ASSUME NEW t \in ItemType
          PROVE  WorthIn(t, [[items EXCEPT ![x.two] = items[x.one]]
                                    EXCEPT ![x.one] = items[x.two]]) = WorthIn(t, items)
      BY <3>2, SwapWorth
    <3> QED BY <2>6, <3>1, <3>3
  <2>11. owed = [t \in ItemType |-> WorthIn(t, Finished(y, items'))]
    BY <1>2, <2>10 DEF Sound
  <2>12. due = Settled(y, tickets)
    BY <1>2, <2>2, <2>3 DEF Sound, Settled
  <2>13. Sound(y, items', tickets, owed, due)
    BY <2>5, <2>8, <2>9, <2>11, <2>12 DEF Sound
  <2> QED BY <1>1, <2>1, <2>4, <2>13, WorkStep
<1>5. CASE At(a, "swapFirst")
  <2> DEFINE y == Return(a)
  <2>1. Go(a, y) /\ items' = [items EXCEPT ![x.one] = x.item]
    BY <1>5 DEF SwapItem, At
  <2>2. y.at = x.ret /\ y.ret = x.ret /\ y.valid = x.valid /\ y.count = x.count
    BY DEF Return, Rest
  <2>3. x.at = "swapFirst" /\ Clean(x.item) /\ x.ret \in {"idle", "equipNext"}
    <3>1. x.at = "swapFirst" /\ Clean(x.item)
      BY <1>2, <1>5 DEF At, Sound, Knows
    <3> QED BY <3>1 DEF AccountInv, TicketInv, WorkerOK, RoomOK, Swapping, Actor
  <2>4. \A s \in Slot : Clean(items'[s])
    BY <2>1, <2>3, Typed
  <2> HIDE DEF y
  <2>5. /\ Finished(x, items) = items' /\ Exchanged(x, items) = items'
        /\ Settled(x, tickets) = tickets
    BY <2>1, <2>3 DEF Finished, Exchanged, Settled
  <2>6. /\ Finished(y, items') = items' /\ Exchanged(y, items') = items'
        /\ Settled(y, tickets) = tickets /\ Knows(y, items')
    BY <2>2, <2>3 DEF Finished, Exchanged, Settled, Knows, Adding
  <2>7. ASSUME Equipping(y) PROVE Chosen(y, items') /\ Equipped(y, items')
    <3>1. x.ret = "equipNext" /\ y.at = "equipNext"
      BY <2>2, <2>7 DEF Equipping
    <3>2. Chosen(x, items') /\ Equipped(x, items')
      BY <1>2, <2>3, <2>5, <3>1 DEF Sound, Equipping, Swapping
    <3> QED BY <2>2, <2>3, <3>1, <3>2 DEF Chosen, Equipped, Swapping
  <2>8. Sound(y, items', tickets, owed, due)
    BY <1>2, <2>5, <2>6, <2>7 DEF Sound
  <2> QED BY <1>1, <2>1, <2>4, <2>8, WorkStep
<1> QED BY <1>3, <1>4, <1>5 DEF SwapItem

\* Where AddItem returns to nothing is in hand.
LEMMA AddReturnsFree ==
    ASSUME AccountInv, NEW a \in Actor, act[a].at \in Adding
    PROVE  Return(a).at \in Free
<1>1. act[a].ret \in {"spend", "give2", "giveTickets"}
  BY DEF AccountInv, TicketInv, WorkerOK, RoomOK, Actor
<1> QED BY <1>1 DEF Return, Rest, Free

LEMMA FindEmptySound ==
    ASSUME ~Overlap, AccountInv, TicketInv', NEW a \in Actor, FindEmptyItemSlotIndex(a)
    PROVE  AccountInv'
<1> DEFINE x == act[a]
           i == x.scan
<1>1. /\ x.at \in {"add", "find"} /\ x.at \notin Between
      /\ UNCHANGED <<items, tickets, owed, due>>
  BY DEF FindEmptyItemSlotIndex, Between, owing
<1>2. Sound(x, items, tickets, owed, due)
  BY <1>1, WhoWorks
<1>3. owed = [t \in ItemType |-> WorthIn(t, items)] /\ due = tickets
  BY <1>1, <1>2 DEF Sound, Finished, Settled
<1>4. x.item.type \in ItemType /\ (x.at = "find" => x.item.upgrade = 0)
  BY <1>1, <1>2 DEF Sound, Knows, Adding
<1>5. CASE /\ i < SlotCount /\ items[SearchOrder(i)].type = EMPTY_ITEM
           /\ Go(a, [x EXCEPT !.one = SearchOrder(i),
                              !.at = IF @ = "add" THEN "addSet" ELSE "create"])
  <2> DEFINE y == [x EXCEPT !.one = SearchOrder(i),
                            !.at = IF @ = "add" THEN "addSet" ELSE "create"]
  <2>1. /\ y.at = (IF x.at = "add" THEN "addSet" ELSE "create")
        /\ y.item = x.item /\ y.one = SearchOrder(i)
    BY DEF AccountInv, TicketInv, Activation
  <2>2. SearchOrder(i) \in Slot
    BY <1>5, Locals, SearchOrderInSlot DEF AccountInv
  <2>3. items[y.one] = Empty
    BY <1>5, <2>1, <2>2, Typed DEF Clean
  <2>4. y.at \in {"addSet", "create"}
    BY <2>1
  <2>5. y.at = "create" => x.at = "find"
    BY <1>1, <2>1
  <2> HIDE DEF y
  <2>6. Knows(y, items) /\ ~Equipping(y)
    BY <1>4, <2>1, <2>3, <2>4, <2>5 DEF Knows, Equipping, Swapping
  <2>7. Sound(y, items, tickets, owed, due)
    BY <1>3, <2>4, <2>6 DEF Sound, Finished, Settled
  <2> QED BY <1>1, <1>5, <2>7, WorkStep, Typed DEF y
<1>6. CASE Go(a, [x EXCEPT !.scan = i + 1])
  <2> DEFINE y == [x EXCEPT !.scan = i + 1]
  <2>1. y.at = x.at /\ y.item = x.item
    BY DEF AccountInv, TicketInv, Activation
  <2> HIDE DEF y
  <2>2. Knows(y, items) /\ ~Equipping(y)
    BY <1>1, <1>4, <2>1 DEF Knows, Equipping, Swapping
  <2>3. Sound(y, items, tickets, owed, due)
    BY <1>1, <1>3, <2>1, <2>2 DEF Sound, Finished, Settled
  <2> QED BY <1>1, <1>6, <2>3, WorkStep, Typed DEF y
<1>7. CASE Go(a, IF At(a, "add") THEN Return(a) ELSE Rest("noSlot"))
  <2> DEFINE y == IF At(a, "add") THEN Return(a) ELSE Rest("noSlot")
  <2>1. At(a, "add") => Return(a).at \in Free
    BY AddReturnsFree DEF At, Adding
  <2>2. Rest("noSlot").at \in Free
    BY DEF Rest, Free
  <2>3. y.at \in Free
    BY <2>1, <2>2
  <2> HIDE DEF y
  <2>4. Sound(y, items, tickets, owed, due)
    BY <1>3, <2>3, FreeIsSound
  <2> QED BY <1>1, <1>7, <2>4, WorkStep, Typed DEF y
<1> QED BY <1>5, <1>6, <1>7 DEF FindEmptyItemSlotIndex

LEMMA AddItemSound ==
    ASSUME ~Overlap, AccountInv, TicketInv', NEW a \in Actor, AddItem(a)
    PROVE  AccountInv'
<1> DEFINE x == act[a]
           u == x.item.type
           new == [type |-> u, upgrade |-> 0]
<1>1. /\ x.at = "addSet" /\ x.at \notin Between
      /\ UNCHANGED tickets /\ Go(a, Return(a))
      /\ items' = [items EXCEPT ![x.one].type = u]
      /\ owed' = [owed EXCEPT ![u] = @ + 1] /\ due' = due
  BY DEF AddItem, At, Between, Owing
<1>2. Sound(x, items, tickets, owed, due)
  BY <1>1, WhoWorks
<1>3. owed = [t \in ItemType |-> WorthIn(t, items)] /\ due = tickets
  BY <1>1, <1>2 DEF Sound, Finished, Settled
<1>4. u \in ItemType /\ items[x.one] = Empty
  BY <1>1, <1>2 DEF Sound, Knows, Adding
<1>5. items \in [Slot -> Item] /\ x.one \in Slot
  BY Typed
<1>6. items' = [items EXCEPT ![x.one] = new]
  <2>1. [items[x.one] EXCEPT !.type = u] = new
    BY <1>4 DEF Empty
  <2> QED BY <1>1, <2>1
<1>7. \A s \in Slot : Clean(items'[s])
  <2>1. u # EMPTY_ITEM
    BY <1>4 DEF EMPTY_ITEM
  <2>2. Clean(new)
    BY <2>1 DEF Clean
  <2> QED BY <1>5, <1>6, <2>2, Typed
<1>8. \A t \in ItemType : WorthIn(t, items') = IF t = u THEN WorthIn(t, items) + 1
                                                        ELSE WorthIn(t, items)
  BY <1>4, <1>5, <1>6, AddWorth
<1>9. owed' = [t \in ItemType |-> WorthIn(t, items')]
  BY <1>1, <1>3, <1>4, <1>8
<1>10. Return(a).at \in Free
  BY <1>1, AddReturnsFree DEF Adding
<1>11. Sound(Return(a), items', tickets', owed', due')
  <2>1. due' = tickets'
    BY <1>1, <1>3
  <2> QED BY <1>9, <1>10, <2>1, FreeIsSound
<1> QED BY <1>1, <1>7, <1>11, WorkStep

\* A step to a place where nothing is in hand.
LEMMA FreeStep ==
    ASSUME ~Overlap, AccountInv, TicketInv', NEW a \in Actor, NEW x, x.at \in Free, Go(a, x),
           act[a].at \notin Between \/ MayBegin(a), \A s \in Slot : Clean(items'[s]),
           owed' = [t \in ItemType |-> WorthIn(t, items')], due' = tickets'
    PROVE  AccountInv'
<1>1. Sound(x, items', tickets', owed', due')
  BY FreeIsSound
<1> QED BY <1>1, WorkStep

\* A step that changes neither what there is nor what there should be.
LEMMA QuietStep ==
    ASSUME ~Overlap, AccountInv, TicketInv', NEW a \in Actor, NEW x, Go(a, x),
           act[a].at \notin Between \/ MayBegin(a), UNCHANGED <<items, tickets, owed, due>>,
           Knows(x, items), ~Equipping(x),
           Finished(act[a], items) = items, Settled(act[a], tickets) = tickets,
           Finished(x, items) = items, Settled(x, tickets) = tickets
    PROVE  AccountInv'
<1>1. Sound(act[a], items, tickets, owed, due)
  BY WhoWorks
<1>2. Sound(x, items, tickets, owed, due)
  BY <1>1 DEF Sound
<1>3. Sound(x, items', tickets', owed', due') /\ \A s \in Slot : Clean(items'[s])
  BY <1>2, Typed
<1> QED BY <1>3, WorkStep

LEMMA AskSound ==
    ASSUME ~Overlap, AccountInv, TicketInv', NEW op \in Request, Ask(op)
    PROVE  AccountInv'
<1>1. PICK s \in Slot \X Slot \X Slot, k \in TicketKind :
        Go("worker", [Rest(op) EXCEPT
              !.one = s[1], !.two = s[2], !.kind = k,
              !.slots = IF op = "combine" THEN <<s[1], s[2], s[3]>> ELSE <<>>])
  BY DEF Ask
<1> DEFINE y == [Rest(op) EXCEPT
                    !.one = s[1], !.two = s[2], !.kind = k,
                    !.slots = IF op = "combine" THEN <<s[1], s[2], s[3]>> ELSE <<>>]
           x == act["worker"]
<1>2. y.at = op /\ y.item = Empty /\ y.ret = "idle"
  BY DEF Rest
<1>3. x.at = "idle" /\ MayBegin("worker") /\ UNCHANGED <<items, tickets>> /\ Owing(Owed, Due)
  BY DEF Ask, At
<1>4. UNCHANGED <<owed, due>>
  BY <1>3, BeginsWith DEF Owing, Between, Actor
<1> HIDE DEF y
<1>5. Knows(y, items) /\ ~Equipping(y)
  BY <1>2 DEF Knows, Equipping, Request, Adding, Empty
<1>6. /\ Finished(x, items) = items /\ Settled(x, tickets) = tickets
      /\ Finished(y, items) = items /\ Settled(y, tickets) = tickets
  BY <1>2, <1>3 DEF Finished, Settled, Request
<1> QED BY <1>1, <1>3, <1>4, <1>5, <1>6, QuietStep DEF Actor, y

LEMMA UseItemTicketSound ==
    ASSUME ~Overlap, AccountInv, TicketInv', UseItemTicket
    PROVE  AccountInv'
<1> DEFINE x == act["worker"]
<1>1. x.at = "ticket" /\ x.at \notin Between /\ UNCHANGED <<items, tickets, owed, due>>
  BY DEF UseItemTicket, At, Between, owing
<1>2. Finished(x, items) = items /\ Settled(x, tickets) = tickets
  BY <1>1 DEF Finished, Settled
<1>3. ASSUME NEW y, Go("worker", y), Knows(y, items), y.at \in {"idle", "add"} PROVE AccountInv'
  <2>1. Finished(y, items) = items /\ Settled(y, tickets) = tickets /\ ~Equipping(y)
    BY <1>3 DEF Finished, Settled, Equipping, Swapping
  <2> QED BY <1>1, <1>2, <1>3, <2>1, QuietStep DEF Actor
<1>4. CASE Go("worker", Rest("idle"))
  <2>1. Rest("idle").at = "idle"
    BY DEF Rest
  <2>2. Knows(Rest("idle"), items)
    BY <2>1 DEF Knows, Adding
  <2> QED BY <1>3, <1>4, <2>1, <2>2
<1>5. ASSUME NEW t \in ItemType,
             Go("worker", [x EXCEPT !.item.type = t, !.ret = "spend", !.at = "add"])
      PROVE  AccountInv'
  <2> DEFINE y == [x EXCEPT !.item.type = t, !.ret = "spend", !.at = "add"]
  <2>1. y.at = "add" /\ y.item.type = t
    BY DEF AccountInv, TicketInv, Activation, Actor, Item
  <2> HIDE DEF y
  <2>2. Knows(y, items)
    BY <2>1 DEF Knows, Adding
  <2> QED BY <1>3, <1>5, <2>1, <2>2 DEF y
<1> QED BY <1>4, <1>5 DEF UseItemTicket

LEMMA SpendTicketSound ==
    ASSUME ~Overlap, AccountInv, TicketInv', SpendTicket
    PROVE  AccountInv'
<1> DEFINE x == act["worker"]
           k == x.kind
<1>1. x.at \in {"spend", "spendWrite"} /\ x.at \notin Between /\ UNCHANGED items
  BY DEF SpendTicket, At, Between
<1>2. Sound(x, items, tickets, owed, due)
  BY <1>1, WhoWorks DEF Actor
<1>3. owed = [t \in ItemType |-> WorthIn(t, items)] /\ due = Settled(x, tickets)
  BY <1>1, <1>2 DEF Sound, Finished
<1>4. CASE At("worker", "spend")
  <2> DEFINE y == [x EXCEPT !.count = tickets[k] - 1, !.at = "spendWrite"]
  <2>1. /\ Go("worker", y) /\ UNCHANGED tickets
        /\ owed' = owed /\ due' = [due EXCEPT ![k] = @ - 1]
    BY <1>4 DEF SpendTicket, At, Owing
  <2>2. y.at = "spendWrite" /\ y.count = tickets[k] - 1 /\ y.kind = k
    BY DEF AccountInv, TicketInv, Activation, Actor
  <2> HIDE DEF y
  <2>3. due = tickets
    BY <1>3, <1>4 DEF At, Settled
  <2>4. due' = Settled(y, tickets)
    BY <2>1, <2>2, <2>3 DEF Settled
  <2>5. Knows(y, items) /\ ~Equipping(y) /\ Finished(y, items) = items
    BY <2>2 DEF Knows, Adding, Equipping, Swapping, Finished
  <2>6. Sound(y, items', tickets', owed', due')
    BY <1>1, <1>3, <2>1, <2>4, <2>5 DEF Sound
  <2>7. \A s \in Slot : Clean(items'[s])
    BY <1>1, Typed DEF Actor
  <2> QED BY <1>1, <2>1, <2>6, <2>7, WorkStep DEF Actor
<1>5. CASE At("worker", "spendWrite")
  <2>1. /\ Go("worker", Rest("idle")) /\ tickets' = [tickets EXCEPT ![k] = x.count]
        /\ UNCHANGED <<owed, due>>
    BY <1>5 DEF SpendTicket, At, owing
  <2>2. due' = tickets'
    BY <1>3, <1>5, <2>1 DEF At, Settled
  <2>3. Rest("idle").at \in Free
    BY DEF Rest, Free, Between
  <2>4. \A s \in Slot : Clean(items'[s])
    BY <1>1, Typed DEF Actor
  <2> QED BY <1>1, <1>3, <2>1, <2>2, <2>3, <2>4, FreeStep DEF Actor
<1> QED BY <1>4, <1>5 DEF SpendTicket

\* A slot is emptied, and what it held is owed no more.
LEMMA LessIsOwed ==
    ASSUME items \in [Slot -> Item], NEW s \in Slot,
           owed = [t \in ItemType |-> WorthIn(t, items)],
           items' = [items EXCEPT ![s] = Empty], \A r \in Slot : Clean(items[r])
    PROVE  /\ Less(s) = [t \in ItemType |-> WorthIn(t, items')]
           /\ \A r \in Slot : Clean(items'[r])
<1>1. \A t \in ItemType : WorthIn(t, items') = WorthIn(t, items) - ItemWorth(t, items[s])
  BY DropWorth
<1>2. Clean(Empty)
  BY DEF Clean
<1> QED BY <1>1, <1>2 DEF Less

LEMMA DropItemSound ==
    ASSUME ~Overlap, AccountInv, TicketInv', DropItem
    PROVE  AccountInv'
<1> DEFINE x == act["worker"]
           s == x.one
<1>1. x.at \in {"drop", "dropSet"} /\ x.at \notin Between /\ UNCHANGED tickets
  BY DEF DropItem, At, Between
<1>2. Sound(x, items, tickets, owed, due)
  BY <1>1, WhoWorks DEF Actor
<1>3. owed = [t \in ItemType |-> WorthIn(t, items)] /\ due = tickets
  BY <1>1, <1>2, FreeIsSound DEF Free
<1>4. CASE At("worker", "drop")
  <2>1. /\ UNCHANGED <<items, owed, due>>
        /\ Go("worker", IF items[s].type = EMPTY_ITEM THEN Rest("idle")
                        ELSE [x EXCEPT !.at = "dropSet"])
    BY <1>4 DEF DropItem, At, owing
  <2> DEFINE y == IF items[s].type = EMPTY_ITEM THEN Rest("idle") ELSE [x EXCEPT !.at = "dropSet"]
  <2>2. y.at \in Free
    BY DEF Rest, Free, Between, AccountInv, TicketInv, Activation, Actor
  <2> HIDE DEF y
  <2>3. \A r \in Slot : Clean(items'[r])
    BY <2>1, Typed DEF Actor
  <2> QED BY <1>1, <1>3, <2>1, <2>2, <2>3, FreeStep DEF Actor, y
<1>5. CASE At("worker", "dropSet")
  <2>1. /\ Go("worker", Rest("idle")) /\ items' = [items EXCEPT ![s] = Empty]
        /\ owed' = Less(s) /\ due' = due
    BY <1>5 DEF DropItem, At, Owing
  <2>2. items \in [Slot -> Item] /\ s \in Slot /\ \A r \in Slot : Clean(items[r])
    BY Typed DEF Actor
  <2>3. /\ owed' = [t \in ItemType |-> WorthIn(t, items')]
        /\ \A r \in Slot : Clean(items'[r])
    BY <1>3, <2>1, <2>2, LessIsOwed
  <2>4. Rest("idle").at \in Free
    BY DEF Rest, Free, Between
  <2> QED BY <1>1, <1>3, <2>1, <2>3, <2>4, FreeStep DEF Actor
<1> QED BY <1>4, <1>5 DEF DropItem

LEMMA ReadTypesSound ==
    ASSUME ~Overlap, AccountInv, TicketInv', ReadTypes
    PROVE  AccountInv'
<1> DEFINE x == act["worker"]
           types == Append(x.types, items[x.slots[Len(x.types) + 1]].type)
<1>1. x.at = "combine" /\ x.at \notin Between /\ UNCHANGED <<items, tickets, owed, due>>
  BY DEF ReadTypes, At, Between, owing
<1>2. Sound(x, items, tickets, owed, due)
  BY <1>1, WhoWorks DEF Actor
<1>3. x.item.upgrade = 0
  BY <1>1, <1>2 DEF Sound, Knows
<1>4. Finished(x, items) = items /\ Settled(x, tickets) = tickets
  BY <1>1 DEF Finished, Settled
<1>5. \/ Go("worker", [x EXCEPT !.types = types])
      \/ Go("worker", Rest("idle"))
      \/ Go("worker", [x EXCEPT !.types = types, !.at = "clear"])
  BY DEF ReadTypes
<1> HIDE DEF types
<1>6. ASSUME NEW y, Go("worker", y), y.at \in {"idle", "combine", "clear"},
             y.at # "idle" => y.item = x.item
      PROVE  AccountInv'
  <2>1. Knows(y, items) /\ ~Equipping(y)
    BY <1>3, <1>6 DEF Knows, Adding, Equipping, Swapping
  <2>2. Finished(y, items) = items /\ Settled(y, tickets) = tickets
    BY <1>6 DEF Finished, Settled
  <2> QED BY <1>1, <1>4, <1>6, <2>1, <2>2, QuietStep DEF Actor
<1>7. x \in Activation
  BY DEF AccountInv, TicketInv, Actor
<1>8. CASE Go("worker", [x EXCEPT !.types = types])
  <2> DEFINE y == [x EXCEPT !.types = types]
  <2>1. y.at = "combine" /\ y.item = x.item
    BY <1>1, <1>7 DEF Activation
  <2> HIDE DEF y
  <2> QED BY <1>6, <1>8, <2>1 DEF y
<1>9. CASE Go("worker", [x EXCEPT !.types = types, !.at = "clear"])
  <2> DEFINE y == [x EXCEPT !.types = types, !.at = "clear"]
  <2>1. y.at = "clear" /\ y.item = x.item
    BY <1>7 DEF Activation
  <2> HIDE DEF y
  <2> QED BY <1>6, <1>9, <2>1 DEF y
<1>10. CASE Go("worker", Rest("idle"))
  <2>1. Rest("idle").at = "idle"
    BY DEF Rest
  <2> QED BY <1>6, <1>10, <2>1
<1> QED BY <1>5, <1>8, <1>9, <1>10

LEMMA ClearItemsSound ==
    ASSUME ~Overlap, AccountInv, TicketInv', ClearItems
    PROVE  AccountInv'
<1> DEFINE x == act["worker"]
           s == Head(x.slots)
<1>1. /\ x.at = "clear" /\ x.at \notin Between /\ UNCHANGED tickets
      /\ items' = [items EXCEPT ![s] = Empty] /\ owed' = Less(s) /\ due' = due
  BY DEF ClearItems, At, Between, Owing
<1>2. Sound(x, items, tickets, owed, due)
  BY <1>1, WhoWorks DEF Actor
<1>3. /\ owed = [t \in ItemType |-> WorthIn(t, items)] /\ due = tickets
      /\ x.item.upgrade = 0
  BY <1>1, <1>2 DEF Sound, Knows, Finished, Settled
<1>4. x \in Activation /\ s \in Slot
  BY <1>1 DEF AccountInv, TicketInv, WorkerOK, Actor, Activation
<1>5. /\ owed' = [t \in ItemType |-> WorthIn(t, items')]
      /\ \A r \in Slot : Clean(items'[r])
  <2>1. items \in [Slot -> Item] /\ \A r \in Slot : Clean(items[r])
    BY Typed DEF Actor
  <2> QED BY <1>1, <1>3, <1>4, <2>1, LessIsOwed
<1>6. ASSUME NEW y, Go("worker", y), y.at \in {"clear", "find"}, y.item.upgrade = 0,
             y.at = "find" => y.item.type \in ItemType
      PROVE  AccountInv'
  <2>1. Knows(y, items') /\ ~Equipping(y)
    BY <1>6 DEF Knows, Adding, Equipping, Swapping
  <2>2. Finished(y, items') = items' /\ Settled(y, tickets') = tickets'
    BY <1>6 DEF Finished, Settled
  <2>3. due' = tickets'
    BY <1>1, <1>3
  <2>4. Sound(y, items', tickets', owed', due')
    BY <1>5, <2>1, <2>2, <2>3 DEF Sound
  <2> QED BY <1>1, <1>5, <1>6, <2>4, WorkStep DEF Actor
<1>7. CASE Go("worker", [x EXCEPT !.slots = Tail(x.slots)])
  <2> DEFINE y == [x EXCEPT !.slots = Tail(x.slots)]
  <2>1. y.at = "clear" /\ y.item = x.item
    BY <1>1, <1>4 DEF Activation
  <2> HIDE DEF y
  <2> QED BY <1>3, <1>6, <1>7, <2>1 DEF y
<1>8. ASSUME NEW t \in ItemType, Go("worker", [x EXCEPT !.item.type = t, !.at = "find"])
      PROVE  AccountInv'
  <2> DEFINE y == [x EXCEPT !.item.type = t, !.at = "find"]
  <2>1. y.at = "find" /\ y.item.type = t /\ y.item.upgrade = x.item.upgrade
    BY <1>4 DEF Activation, Item
  <2> HIDE DEF y
  <2> QED BY <1>3, <1>6, <1>8, <2>1 DEF y
<1> QED BY <1>7, <1>8 DEF ClearItems

LEMMA CreateItemSound ==
    ASSUME ~Overlap, AccountInv, TicketInv', CreateItem
    PROVE  AccountInv'
<1> DEFINE x == act["worker"]
           u == x.item.type
<1>1. /\ x.at \in {"create", "noSlot"} /\ x.at \notin Between /\ UNCHANGED tickets
      /\ Go("worker", Rest("idle"))
  BY DEF CreateItem, At, Between
<1>2. Sound(x, items, tickets, owed, due)
  BY <1>1, WhoWorks DEF Actor
<1>3. owed = [t \in ItemType |-> WorthIn(t, items)] /\ due = tickets
  BY <1>1, <1>2 DEF Sound, Finished, Settled
<1>4. Rest("idle").at \in Free
  BY DEF Rest, Free, Between
<1>5. CASE At("worker", "noSlot")
  <2>1. UNCHANGED <<items, owed, due>>
    BY <1>5 DEF CreateItem, At, owing
  <2>2. \A s \in Slot : Clean(items'[s])
    BY <2>1, Typed DEF Actor
  <2> QED BY <1>1, <1>3, <1>4, <2>1, <2>2, FreeStep DEF Actor
<1>6. CASE At("worker", "create")
  <2>1. /\ items' = [items EXCEPT ![x.one] = x.item]
        /\ owed' = [owed EXCEPT ![u] = @ + 1] /\ due' = due
    BY <1>6 DEF CreateItem, At, Owing
  <2>2. u \in ItemType /\ x.item.upgrade = 0 /\ items[x.one] = Empty
    BY <1>2, <1>6 DEF At, Sound, Knows
  <2>3. /\ items \in [Slot -> Item] /\ x.one \in Slot /\ x.item \in Item
        /\ \A s \in Slot : Clean(items[s])
    BY Typed DEF Actor
  <2>4. x.item = [type |-> u, upgrade |-> 0]
    BY <2>2, <2>3 DEF Item
  <2>5. \A t \in ItemType : WorthIn(t, items') = IF t = u THEN WorthIn(t, items) + 1
                                                          ELSE WorthIn(t, items)
    <3>1. items' = [items EXCEPT ![x.one] = [type |-> u, upgrade |-> 0]]
      BY <2>1, <2>4
    <3>2. /\ items \in [Slot -> Item] /\ x.one \in Slot
          /\ items[x.one] = Empty /\ u \in ItemType
      BY <2>2, <2>3
    <3> HIDE DEF u
    <3> QED BY <3>1, <3>2, AddWorth
  <2>6. owed' = [t \in ItemType |-> WorthIn(t, items')]
    BY <1>3, <2>1, <2>2, <2>5
  <2>7. \A s \in Slot : Clean(items'[s])
    BY <2>1, <2>2, <2>3 DEF Clean, EMPTY_ITEM
  <2>8. due' = tickets'
    BY <1>1, <1>3, <2>1
  <2> QED BY <1>1, <1>4, <2>6, <2>7, <2>8, FreeStep DEF Actor
<1> QED BY <1>5, <1>6 DEF CreateItem

LEMMA UpgradeItemSound ==
    ASSUME ~Overlap, AccountInv, TicketInv', UpgradeItem
    PROVE  AccountInv'
<1> DEFINE x == act["worker"]
           one == x.one
           two == x.two
<1>1. /\ x.at \in {"upgrade", "compare", "upgradeSet", "clearMaterial"} /\ x.at \notin Between
      /\ UNCHANGED <<tickets, owed, due>>
  BY DEF UpgradeItem, CompareItems, At, Between, owing
<1>2. Sound(x, items, tickets, owed, due)
  BY <1>1, WhoWorks DEF Actor
<1>3. /\ x \in Activation /\ items \in [Slot -> Item] /\ one \in Slot /\ two \in Slot
      /\ \A s \in Slot : Clean(items[s])
  BY Typed DEF AccountInv, TicketInv, Actor
<1>4. Settled(x, tickets) = tickets
  BY <1>1 DEF Settled
<1>5. ASSUME NEW y, Go("worker", y), UNCHANGED items, x.at \in {"upgrade", "compare"},
             y.at \in {"idle", "compare", "upgradeSet"}, Knows(y, items)
      PROVE  AccountInv'
  <2>1. /\ Finished(y, items) = items /\ Settled(y, tickets) = tickets /\ ~Equipping(y)
        /\ Finished(x, items) = items
    BY <1>5 DEF Finished, Settled, Equipping, Swapping
  <2> QED BY <1>1, <1>4, <1>5, <2>1, QuietStep DEF Actor
<1>6. CASE Go("worker", Rest("idle")) /\ x.at \in {"upgrade", "compare"}
  <2>1. Rest("idle").at = "idle"
    BY DEF Rest
  <2>2. Knows(Rest("idle"), items)
    BY <2>1 DEF Knows, Adding
  <2>3. UNCHANGED items
    BY <1>6 DEF UpgradeItem, CompareItems, At
  <2> QED BY <1>5, <1>6, <2>1, <2>2, <2>3
<1>7. CASE At("worker", "upgrade") /\ CompareItems /\ one # two
  <2> DEFINE y == [x EXCEPT !.item = items[one], !.at = "compare"]
  <2>1. Go("worker", y) /\ UNCHANGED items
    BY <1>7 DEF CompareItems, At
  <2>2. y.at = "compare" /\ y.item = items[one] /\ y.one = one /\ y.two = two
    BY <1>3 DEF Activation
  <2> HIDE DEF y
  <2>3. Knows(y, items)
    BY <1>7, <2>2 DEF Knows, Adding
  <2> QED BY <1>5, <1>7, <2>1, <2>2, <2>3 DEF At
<1>8. CASE /\ At("worker", "compare") /\ CompareItems
           /\ Go("worker", [x EXCEPT !.at = "upgradeSet"])
           /\ items[two] = x.item /\ items[two].type # EMPTY_ITEM
  <2> DEFINE y == [x EXCEPT !.at = "upgradeSet"]
  <2>1. y.at = "upgradeSet" /\ y.item = x.item /\ y.one = one /\ y.two = two
    BY <1>3 DEF Activation
  <2>2. x.item = items[one] /\ one # two
    BY <1>2, <1>8 DEF At, Sound, Knows
  <2> HIDE DEF y
  <2>3. Knows(y, items)
    BY <1>8, <2>1, <2>2 DEF Knows, Adding
  <2>4. UNCHANGED items
    BY <1>8 DEF CompareItems
  <2> QED BY <1>5, <1>8, <2>1, <2>3, <2>4 DEF At, y
<1>9. CASE At("worker", "upgradeSet")
  <2> DEFINE y == [x EXCEPT !.at = "clearMaterial"]
  <2>1. Go("worker", y) /\ items' = [items EXCEPT ![one].upgrade = @ + 1]
    BY <1>9 DEF UpgradeItem, CompareItems, At
  <2>2. y.at = "clearMaterial" /\ y.one = one /\ y.two = two
    BY <1>3 DEF Activation
  <2>3. /\ items[one] = items[two] /\ one # two /\ items[one].type # EMPTY_ITEM
        /\ owed = [t \in ItemType |-> WorthIn(t, items)] /\ due = tickets
    BY <1>2, <1>9 DEF At, Sound, Knows, Finished, Settled
  <2> HIDE DEF y
  <2>4. Knows(y, items') /\ ~Equipping(y) /\ Settled(y, tickets) = tickets
    BY <2>2, <2>3 DEF Knows, Adding, Equipping, Swapping, Settled
  <2>5. Finished(y, items') = [[items EXCEPT ![one].upgrade = @ + 1] EXCEPT ![two] = Empty]
    BY <2>1, <2>2 DEF Finished
  <2>6. \A t \in ItemType : WorthIn(t, Finished(y, items')) = WorthIn(t, items)
    <3>1. ASSUME NEW t \in ItemType
          PROVE  WorthIn(t, [[items EXCEPT ![one].upgrade = @ + 1] EXCEPT ![two] = Empty])
                    = WorthIn(t, items)
      BY <1>3, <2>3, UpgradeWorth
    <3> QED BY <2>5, <3>1
  <2>7. owed = [t \in ItemType |-> WorthIn(t, Finished(y, items'))]
    BY <2>3, <2>6
  <2>8. Sound(y, items', tickets', owed', due')
    BY <1>1, <2>3, <2>4, <2>7 DEF Sound
  <2>9. \A s \in Slot : Clean(items'[s])
    <3>1. Clean([items[one] EXCEPT !.upgrade = @ + 1])
      BY <1>3, <2>3 DEF Clean, Item
    <3> QED BY <1>3, <2>1, <3>1
  <2> QED BY <1>1, <2>1, <2>8, <2>9, WorkStep DEF Actor
<1>10. CASE At("worker", "clearMaterial")
  <2>1. Go("worker", Rest("idle")) /\ items' = [items EXCEPT ![two] = Empty]
    BY <1>10 DEF UpgradeItem, CompareItems, At
  <2>2. Finished(x, items) = items'
    BY <1>10, <2>1 DEF At, Finished
  <2>3. owed' = [t \in ItemType |-> WorthIn(t, items')] /\ due' = tickets'
    BY <1>1, <1>2, <1>4, <2>2 DEF Sound
  <2>4. \A s \in Slot : Clean(items'[s])
    BY <1>3, <2>1 DEF Clean
  <2>5. Rest("idle").at \in Free
    BY DEF Rest, Free, Between
  <2> QED BY <1>1, <2>1, <2>3, <2>4, <2>5, FreeStep DEF Actor
<1>11. CASE At("worker", "upgrade") /\ one = two
  BY <1>6, <1>11 DEF UpgradeItem, CompareItems, At
<1>12. CASE At("worker", "compare") /\ ~Go("worker", Rest("idle"))
  BY <1>8, <1>12 DEF UpgradeItem, CompareItems, At
<1>13. CASE At("worker", "compare") /\ Go("worker", Rest("idle"))
  BY <1>6, <1>13 DEF At
<1>14. CASE At("worker", "upgrade") /\ one # two
  BY <1>7, <1>14 DEF UpgradeItem, At
<1> QED BY <1>1, <1>9, <1>10, <1>11, <1>12, <1>13, <1>14 DEF At

LEMMA GiveDefaultItemsSound ==
    ASSUME ~Overlap, AccountInv, TicketInv', GiveDefaultItems
    PROVE  AccountInv'
<1> DEFINE x == act["room"]
<1>1. x.at \in {"give1", "give2", "giveTickets"} /\ x.at \notin Between
      /\ UNCHANGED <<items, owed, due>>
  BY DEF GiveDefaultItems, At, Between, owing
<1>2. Sound(x, items, tickets, owed, due)
  BY <1>1, WhoWorks DEF Actor
<1>3. owed = [t \in ItemType |-> WorthIn(t, items)] /\ due = tickets
  BY <1>1, <1>2, FreeIsSound DEF Free
<1>4. ASSUME NEW t \in ItemType, NEW place,
             Go("room", [Rest("add") EXCEPT !.item.type = t, !.ret = place]), UNCHANGED tickets
      PROVE  AccountInv'
  <2> DEFINE y == [Rest("add") EXCEPT !.item.type = t, !.ret = place]
  <2>1. y.at = "add" /\ y.item.type = t
    BY DEF Rest, Empty
  <2> HIDE DEF y
  <2>2. /\ Knows(y, items) /\ ~Equipping(y) /\ Finished(y, items) = items
        /\ Settled(y, tickets) = tickets
    BY <2>1 DEF Knows, Adding, Equipping, Swapping, Finished, Settled
  <2>3. Finished(x, items) = items /\ Settled(x, tickets) = tickets
    BY <1>1 DEF Finished, Settled
  <2> QED BY <1>1, <1>4, <2>2, <2>3, QuietStep DEF Actor, y
<1>5. CASE At("room", "giveTickets")
  <2>1. tickets' = [k \in TicketKind |-> 0] /\ Go("room", Rest("enterReady"))
    BY <1>5 DEF GiveDefaultItems, At
  <2>2. \A k \in TicketKind : tickets[k] = 0
    BY <1>5 DEF AccountInv, TicketInv, HeldTicketExists, Giving, At
  <2>3. tickets' = tickets
    BY <2>1, <2>2, Typed DEF Actor
  <2>4. Rest("enterReady").at \in Free
    BY DEF Rest, Free, Between
  <2>5. \A s \in Slot : Clean(items'[s])
    BY <1>1, Typed DEF Actor
  <2> QED BY <1>1, <1>3, <2>1, <2>3, <2>4, <2>5, FreeStep DEF Actor
<1> QED BY <1>4, <1>5 DEF GiveDefaultItems, At

\* The room's thread reads a count and begins to increase it, or writes it.
LEMMA IncreaseSound ==
    ASSUME ~Overlap, AccountInv, TicketInv', NEW k \in TicketKind, NEW n \in Nat,
           NEW place \in {"writeTickets", "rewardWrite"}, place = "writeTickets" => k = Normal,
           act["room"].at \in Between, MayBegin("room"),
           Go("room", [Rest(place) EXCEPT !.kind = k, !.count = tickets[k] + n]),
           Owing(Owed, [Due EXCEPT ![k] = @ + n]), UNCHANGED <<items, tickets>>
    PROVE  AccountInv'
<1> DEFINE y == [Rest(place) EXCEPT !.kind = k, !.count = tickets[k] + n]
<1>1. y.at = place /\ y.kind = k /\ y.count = tickets[k] + n
  BY DEF Rest
<1>2. Owed = owed /\ Due = tickets
  BY BeginsWith DEF Actor
<1>3. Sound(act["room"], items, tickets, owed, due)
  BY WhoWorks DEF Actor
<1>4. owed = [t \in ItemType |-> WorthIn(t, items)]
  BY <1>3, FreeIsSound DEF Free
<1>5. owed' = owed /\ due' = [tickets EXCEPT ![k] = @ + n]
  BY <1>2 DEF Owing
<1> HIDE DEF y
<1>6. Knows(y, items) /\ ~Equipping(y) /\ Finished(y, items) = items
  BY <1>1 DEF Knows, Adding, Equipping, Swapping, Finished
<1>7. Settled(y, tickets) = due'
  BY <1>1, <1>5 DEF Settled
<1>8. Sound(y, items', tickets', owed', due')
  BY <1>4, <1>5, <1>6, <1>7 DEF Sound
<1>9. \A s \in Slot : Clean(items'[s])
  BY Typed DEF Actor
<1> QED BY <1>8, <1>9, WorkStep DEF Actor, y

LEMMA WriteSound ==
    ASSUME ~Overlap, AccountInv, TicketInv', NEW place \in Between,
           act["room"].at \in {"writeTickets", "rewardWrite"},
           tickets' = [tickets EXCEPT ![act["room"].kind] = act["room"].count],
           Go("room", Rest(place)), UNCHANGED <<items, owed, due>>
    PROVE  AccountInv'
<1>1. act["room"].at \notin Between
  BY DEF Between
<1>2. Sound(act["room"], items, tickets, owed, due)
  BY <1>1, WhoWorks DEF Actor
<1>3. owed = [t \in ItemType |-> WorthIn(t, items)] /\ due = tickets'
  BY <1>2 DEF Sound, Finished, Settled
<1>4. Rest(place).at \in Free
  BY DEF Rest, Free
<1>5. \A s \in Slot : Clean(items'[s])
  BY Typed DEF Actor
<1> QED BY <1>1, <1>3, <1>4, <1>5, FreeStep DEF Actor

LEMMA GiveTicketsSound ==
    ASSUME ~Overlap, AccountInv, TicketInv', GiveTickets
    PROVE  AccountInv'
<1>1. CASE At("room", "readTickets")
  <2>1. /\ act["room"].at \in Between /\ MayBegin("room") /\ UNCHANGED <<items, tickets>>
        /\ Go("room", [Rest("writeTickets") EXCEPT !.kind = Normal,
                                                   !.count = tickets[Normal] + 2])
        /\ Owing(Owed, [Due EXCEPT ![Normal] = @ + 2])
    BY <1>1 DEF GiveTickets, At, Between
  <2>2. 2 \in Nat /\ Normal \in TicketKind
    OBVIOUS
  <2> QED BY <2>1, <2>2, IncreaseSound
<1>2. CASE At("room", "writeTickets")
  <2>1. Sound(act["room"], items, tickets, owed, due)
    BY <1>2, WhoWorks DEF Actor, At, Between
  <2>2. act["room"].kind = Normal
    BY <1>2, <2>1 DEF At, Sound, Knows
  <2> QED BY <1>2, <2>2, WriteSound DEF GiveTickets, At, Between, owing
<1> QED BY <1>1, <1>2 DEF GiveTickets

LEMMA IncreaseItemTicketSound ==
    ASSUME ~Overlap, AccountInv, TicketInv', IncreaseItemTicket
    PROVE  AccountInv'
<1>1. CASE At("room", "fight")
  <2>1. /\ act["room"].at \in Between /\ MayBegin("room") /\ UNCHANGED <<items, tickets>>
    BY <1>1 DEF IncreaseItemTicket, At, Between
  <2>2. PICK k \in TicketKind, n \in RewardCount :
          /\ Go("room", [Rest("rewardWrite") EXCEPT !.kind = k, !.count = tickets[k] + n])
          /\ Owing(Owed, [Due EXCEPT ![k] = @ + n])
    BY <1>1 DEF IncreaseItemTicket, At
  <2>3. n \in Nat
    OBVIOUS
  <2> QED BY <2>1, <2>2, <2>3, IncreaseSound
<1>2. CASE At("room", "rewardWrite")
  BY <1>2, WriteSound DEF IncreaseItemTicket, At, Between, owing
<1> QED BY <1>1, <1>2 DEF IncreaseItemTicket

-----------------------------------------------------------------------------
\* Of some items the first of each type are some, and no two of a type.
LEMMA FirstOfEachTypeIsSome ==
    ASSUME NEW S, S \subseteq Slot, S # {}
    PROVE  /\ FirstOfEachType(S) \subseteq S /\ FirstOfEachType(S) # {}
           /\ \A r, s \in FirstOfEachType(S) : items[r].type = items[s].type => r = s
<1>1. S \subseteq Nat /\ \A s \in S : s \in Int
  BY DEF Slot, SlotCount
<1>2. PICK m \in S : \A s \in S : m <= s
  BY <1>1, MinIsIn
<1>3. m \in FirstOfEachType(S)
  BY <1>2 DEF FirstOfEachType
<1>4. ASSUME NEW r \in FirstOfEachType(S), NEW s \in FirstOfEachType(S),
             items[r].type = items[s].type
      PROVE  r = s
  <2>1. r \in S /\ s \in S /\ r <= s /\ s <= r
    BY <1>4 DEF FirstOfEachType
  <2> QED BY <1>1, <2>1
<1> QED BY <1>3, <1>4 DEF FirstOfEachType

\* A used slot and an item for it change places.
LEMMA EquipNext ==
    ASSUME AccountInv, NEW x, NEW y, x.at = "equipNext", y.at = "swap",
           x.valid \subseteq Slot, x.count \in Nat, x.count < MAX_USING_ITEM_COUNT,
           Chosen(x, items), Equipped(x, items), NEW s \in x.valid,
           y.one = x.count, y.two = s, y.count = x.count + 1, y.valid = x.valid \ {s}
    PROVE  Chosen(y, Exchanged(y, items)) /\ Equipped(y, Exchanged(y, items))
<1> DEFINE c == x.count
           f == [items EXCEPT ![c] = items[s], ![s] = items[c]]
<1>1. /\ items \in [Slot -> Item] /\ c \in Using /\ c \in Slot /\ s \in Slot \ Using
      /\ Using \subseteq Slot /\ \A u \in Using : u \in Nat /\ u < MAX_USING_ITEM_COUNT
  BY Typed DEF Using, Slot, SlotCount, Chosen, Actor
<1>2. /\ f[c] = items[s] /\ \A r \in Slot \ {c, s} : f[r] = items[r]
  BY <1>1
<1>3. Exchanged(y, items) = f
  BY DEF Exchanged
<1> HIDE DEF f
<1>4. /\ x.valid \subseteq Slot \ Using /\ \A v \in x.valid : items[v].type # EMPTY_ITEM
      /\ \A u \in Using : items[u].type # EMPTY_ITEM <=> u < c
      /\ \A r, q \in {u \in Using : u < c} \cup x.valid :
            items[r].type = items[q].type => r = q
  BY DEF Chosen, Equipped
<1>5. Chosen(y, f)
  <2> DEFINE D == {u \in Using : u < y.count} \cup y.valid
             Of(r) == IF r = c THEN s ELSE r
  <2>1. ASSUME NEW r \in D
        PROVE  /\ f[r] = items[Of(r)] /\ Of(r) \in {u \in Using : u < c} \cup x.valid
               /\ r # s
    <3>1. CASE r = c
      BY <1>1, <1>2, <3>1
    <3>2. CASE r # c /\ r \in Using
      <4>1. r < c + 1 /\ r \in Nat
        BY <1>1, <1>4, <3>2
      <4> QED BY <1>1, <1>2, <3>2, <4>1
    <3>3. CASE r \in y.valid
      BY <1>1, <1>2, <1>4, <3>3
    <3> QED BY <3>1, <3>2, <3>3
  <2>2. ASSUME NEW r \in D, NEW q \in D, f[r].type = f[q].type PROVE r = q
    <3>1. /\ f[r] = items[Of(r)] /\ Of(r) \in {u \in Using : u < c} \cup x.valid /\ r # s
          /\ f[q] = items[Of(q)] /\ Of(q) \in {u \in Using : u < c} \cup x.valid /\ q # s
      BY <2>1
    <3>2. Of(r) = Of(q)
      <4> HIDE DEF Of, D
      <4> QED BY <1>4, <2>2, <3>1
    <3> QED BY <3>1, <3>2
  <2>3. ASSUME NEW v \in y.valid PROVE f[v].type # EMPTY_ITEM
    BY <1>1, <1>2, <1>4
  <2>4. y.valid \subseteq Slot \ Using
    BY <1>4
  <2> QED BY <2>2, <2>3, <2>4 DEF Chosen
<1>6. Equipped(y, f)
  <2>1. ASSUME NEW u \in Using PROVE f[u].type # EMPTY_ITEM <=> u < y.count
    <3>1. CASE u = c
      BY <1>1, <1>2, <1>4, <3>1
    <3>2. CASE u # c
      <4>1. f[u] = items[u]
        BY <1>1, <1>2, <3>2
      <4> QED BY <1>1, <1>4, <3>2, <4>1
    <3> QED BY <3>1, <3>2
  <2>2. /\ y.count <= MAX_USING_ITEM_COUNT /\ y.count # 0 /\ y.one = y.count - 1
        /\ y.two \in Slot \ Using /\ y.two \notin y.valid
    BY <1>1
  <2> QED BY <2>1, <2>2 DEF Equipped
<1> QED BY <1>3, <1>5, <1>6

LEMMA SetDefaultUsingItemSound ==
    ASSUME ~Overlap, AccountInv, TicketInv', SetDefaultUsingItem
    PROVE  AccountInv'
<1> DEFINE x == act["room"]
<1>1. UNCHANGED <<items, tickets>> /\ x \in Activation
  BY DEF SetDefaultUsingItem, AccountInv, TicketInv, Actor
<1>2. x.at \in {"wait", "equipTest", "equipNext"}
  BY DEF SetDefaultUsingItem, At
<1>3. x.at = "wait" => MayBegin("room") /\ Owing(Owed, Due)
  BY DEF SetDefaultUsingItem, At
<1>4. UNCHANGED <<owed, due>>
  <2>1. CASE x.at = "wait"
    BY <1>3, <2>1, BeginsWith DEF Owing, Between, Actor
  <2>2. CASE x.at # "wait"
    BY <1>2, <2>2 DEF SetDefaultUsingItem, At, owing
  <2> QED BY <2>1, <2>2
<1>5. x.at \notin Between \/ MayBegin("room")
  BY <1>2, <1>3 DEF Between
<1>6. Sound(x, items, tickets, owed, due)
  BY <1>5, WhoWorks DEF Actor
<1>7. /\ Finished(x, items) = items /\ Settled(x, tickets) = tickets
      /\ Exchanged(x, items) = items
  BY <1>2 DEF Finished, Settled, Exchanged
<1>8. owed = [t \in ItemType |-> WorthIn(t, items)] /\ due = tickets
  BY <1>6, <1>7 DEF Sound
<1>9. \A s \in Slot : Clean(items'[s])
  BY <1>1, Typed DEF Actor
<1>10. CASE Go("room", Rest("leaveReady"))
  <2>1. Rest("leaveReady").at \in Free
    BY DEF Rest, Free, Between
  <2> QED BY <1>1, <1>4, <1>5, <1>8, <1>9, <1>10, <2>1, FreeStep DEF Actor
<1>11. ASSUME NEW y, Go("room", y), y.at \in {"equipTest", "equipNext", "swap"},
              y.ret = "equipNext" => Chosen(y, Exchanged(y, items)) /\ Equipped(y, Exchanged(y, items))
       PROVE  AccountInv'
  <2>1. Knows(y, items) /\ Finished(y, items) = items /\ Settled(y, tickets) = tickets
    BY <1>11 DEF Knows, Adding, Finished, Settled
  <2>2. Sound(y, items, tickets, owed, due)
    BY <1>8, <1>11, <2>1 DEF Sound, Equipping
  <2>3. Sound(y, items', tickets', owed', due')
    BY <1>1, <1>4, <2>2
  <2> QED BY <1>5, <1>9, <1>11, <2>3, WorkStep DEF Actor
<1>12. CASE /\ ValidUnUsingItems # {}
            /\ Go("room", [Rest("equipTest") EXCEPT
                              !.valid = FirstOfEachType(ValidUnUsingItems),
                              !.ret = "equipNext"])
  <2> DEFINE v == FirstOfEachType(ValidUnUsingItems)
             y == [Rest("equipTest") EXCEPT !.valid = v, !.ret = "equipNext"]
  <2>1. /\ v \subseteq ValidUnUsingItems /\ v # {} /\ ValidUnUsingItems \subseteq Slot
        /\ \A r, s \in v : items[r].type = items[s].type => r = s
    <3>1. ValidUnUsingItems \subseteq Slot
      BY DEF ValidUnUsingItems
    <3> QED BY <1>12, <3>1, FirstOfEachTypeIsSome
  <2> HIDE DEF v
  <2>2. y.at = "equipTest" /\ y.valid = v /\ y.count = 0
    BY DEF Rest
  <2> HIDE DEF y
  <2>3. Exchanged(y, items) = items
    BY <2>2 DEF Exchanged, Finished
  <2>4. Chosen(y, items)
    <3>1. {u \in Using : u < y.count} = {}
      BY <2>2 DEF Using
    <3>2. v \subseteq Slot \ Using /\ \A s \in v : items[s].type # EMPTY_ITEM
      BY <2>1 DEF ValidUnUsingItems
    <3> QED BY <2>1, <2>2, <3>1, <3>2 DEF Chosen
  <2>5. Equipped(y, items)
    BY <2>1, <2>2 DEF Equipped, Swapping
  <2> QED BY <1>11, <1>12, <2>2, <2>3, <2>4, <2>5 DEF y, v
<1>13. CASE x.at # "wait"
  <2>1. x.at \in {"equipTest", "equipNext"}
    BY <1>2, <1>13
  <2>2. x.ret = "equipNext" /\ x.count >= 0
    BY <2>1 DEF AccountInv, TicketInv, RoomOK
  <2>3. x.count \in Nat /\ x.valid \subseteq Slot
    BY <1>1, <2>2 DEF Activation
  <2>4. Chosen(x, items) /\ Equipped(x, items)
    BY <1>6, <1>7, <2>1, <2>2 DEF Sound, Equipping
  <2>5. CASE /\ x.at = "equipTest" /\ \A s \in Using : items[s].type = EMPTY_ITEM
             /\ Go("room", [x EXCEPT !.at = "equipNext"])
    <3> DEFINE y == [x EXCEPT !.at = "equipNext"]
    <3>1. y.at = "equipNext" /\ y.valid = x.valid /\ y.count = x.count
      BY <1>1 DEF Activation
    <3>2. x.count = 0
      BY <2>4, <2>5 DEF Equipped
    <3> HIDE DEF y
    <3>3. Exchanged(y, items) = items
      BY <3>1 DEF Exchanged, Finished
    <3>4. Chosen(y, items)
      BY <2>4, <3>1 DEF Chosen
    <3>5. Equipped(y, items)
      <4>1. \A s \in Using : ~(s < y.count)
        BY <3>1, <3>2 DEF Using
      <4> QED BY <2>4, <2>5, <3>1, <4>1 DEF Equipped, Swapping
    <3> QED BY <1>11, <2>5, <3>1, <3>3, <3>4, <3>5 DEF y
  <2>6. ASSUME x.at = "equipNext", x.count < MAX_USING_ITEM_COUNT, NEW s \in x.valid,
               Go("room", [x EXCEPT !.one = x.count, !.two = s, !.count = x.count + 1,
                                    !.valid = x.valid \ {s}, !.at = "swap"])
        PROVE  AccountInv'
    <3> DEFINE y == [x EXCEPT !.one = x.count, !.two = s, !.count = x.count + 1,
                              !.valid = x.valid \ {s}, !.at = "swap"]
    <3>1. /\ y.at = "swap" /\ y.one = x.count /\ y.two = s /\ y.count = x.count + 1
          /\ y.valid = x.valid \ {s}
      BY <1>1 DEF Activation
    <3> HIDE DEF y
    <3>2. Chosen(y, Exchanged(y, items)) /\ Equipped(y, Exchanged(y, items))
      BY <2>3, <2>4, <2>6, <3>1, EquipNext
    <3> QED BY <1>11, <2>6, <3>1, <3>2 DEF y
  <2> QED BY <1>10, <1>13, <2>5, <2>6 DEF SetDefaultUsingItem, At
<1> QED BY <1>10, <1>12, <1>13 DEF SetDefaultUsingItem, At

LEMMA InitAccounts == Init => AccountInv
<1> SUFFICES ASSUME Init PROVE AccountInv
  OBVIOUS
<1>1. /\ act["worker"].at = "idle" /\ act["room"].at = "give1"
  BY DEF Init, Actor, Rest
<1>2. OneAtWork
  BY <1>1 DEF OneAtWork, Actor, Between
<1>3. \A s \in Slot : Clean(items[s])
  BY DEF Init, Clean
<1>4. Busy.at \in Free
  BY <1>1 DEF Busy, Free, Between
<1>5. \A t \in ItemType : WorthIn(t, items) = 0
  <2> TAKE t \in ItemType
  <2>1. items \in [Slot -> Item]
    BY InitTickets DEF TicketInv
  <2>2. PICK g \in [0 .. SlotCount -> Int] :
            /\ g[0] = 0 /\ WorthIn(t, items) = g[SlotCount]
            /\ \A i \in 1 .. SlotCount : g[i] = g[i - 1] + ItemWorth(t, items[i - 1])
    BY <2>1, WorthSteps
  <2>3. SlotCount \in Nat
    BY DEF SlotCount
  <2>4. \A i \in 1 .. SlotCount : ItemWorth(t, items[i - 1]) = 0
    <3>1. ASSUME NEW i \in 1 .. SlotCount PROVE items[i - 1] = Empty
      BY <2>3 DEF Init, Slot
    <3> QED BY <3>1, EmptyIsItem
  <2>5. \A i \in 0 .. SlotCount : g[i] = 0
    <3> DEFINE Zero == {0}
    <3>1. \A i \in 1 .. SlotCount : g[i - 1] \in Zero => g[i] \in Zero
      BY <2>2, <2>4
    <3>2. g[0] \in Zero
      BY <2>2
    <3> HIDE DEF Zero
    <3>3. \A i \in 0 .. SlotCount : g[i] \in Zero
      BY <2>3, <3>1, <3>2, Stays
    <3> QED BY <3>3 DEF Zero
  <2> QED BY <2>2, <2>3, <2>5
<1>6. /\ owed = [t \in ItemType |-> WorthIn(t, items)] /\ due = tickets
  BY <1>5 DEF Init
<1>7. Sound(Busy, items, tickets, owed, due)
  BY <1>4, <1>6, FreeIsSound
<1> QED BY <1>2, <1>3, <1>7, InitTickets DEF AccountInv

LEMMA StepAccounts == ~Overlap /\ AccountInv /\ [Next]_vars => AccountInv'
<1> SUFFICES ASSUME ~Overlap, AccountInv, [Next]_vars PROVE AccountInv'
  OBVIOUS
<1>0. TicketInv'
  BY StepTickets DEF AccountInv
<1>1. CASE Worker
  BY <1>0, <1>1, AskSound, UseItemTicketSound, SpendTicketSound, DropItemSound,
     ReadTypesSound, ClearItemsSound, CreateItemSound, UpgradeItemSound
     DEF Worker, CombineItems
<1>2. CASE ProgressThread
  <2>1. CASE EnterReadyStage
    BY <1>0, <2>1, StageStep DEF EnterReadyStage, At, Between
  <2>2. CASE LeaveReadyStage
    BY <1>0, <2>2, StageStep DEF LeaveReadyStage, At, Between
  <2>3. CASE NextStage
    BY <1>0, <2>3, StageStep DEF NextStage, At, Between
  <2> QED
    BY <1>0, <1>2, <2>1, <2>2, <2>3, GiveDefaultItemsSound, GiveTicketsSound,
       SetDefaultUsingItemSound, IncreaseItemTicketSound
       DEF ProgressThread
<1>3. CASE \E a \in Actor : SwapItem(a) \/ FindEmptyItemSlotIndex(a) \/ AddItem(a)
  BY <1>0, <1>3, SwapItemSound, FindEmptySound, AddItemSound
<1>4. CASE UNCHANGED vars
  <2>1. Busy' = Busy /\ UNCHANGED <<items, tickets, owed, due, act>>
    BY <1>4 DEF vars, Busy
  <2> QED BY <1>0, <2>1 DEF AccountInv, OneAtWork
<1> QED BY <1>1, <1>2, <1>3, <1>4 DEF Next

LEMMA AccountInvHolds ==
    ASSUME ~Overlap
    PROVE  Spec => []AccountInv
<1>1. AccountInv /\ [Next]_vars => AccountInv'
  BY StepAccounts
<1> QED BY InitAccounts, <1>1, PTL DEF Spec

(***************************************************************************)
(* Drawing, combining, upgrading, dropping, swapping and equipping change  *)
(* the worth of a player's items by exactly what they are for, whichever   *)
(* slots are asked for (twice the same, or an empty one), and also when    *)
(* the inventory is full.                                                  *)
(***************************************************************************)
THEOREM EveryItemIsAccountedFor ==
    ASSUME ~Overlap
    PROVE  Spec => []ItemsAccountedFor
<1>1. AccountInv => ItemsAccountedFor
  <2> SUFFICES ASSUME AccountInv, AtRest PROVE \A t \in ItemType : Worth(t) = owed[t]
    BY DEF ItemsAccountedFor
  <2>1. Busy.at \in Free
    BY DEF AtRest, Busy, Actor, Free
  <2>2. owed = [t \in ItemType |-> WorthIn(t, items)]
    BY <2>1, FreeIsSound DEF AccountInv
  <2> QED BY <2>2 DEF Worth
<1> QED BY AccountInvHolds, <1>1, PTL

(***************************************************************************)
(* Every ticket given is there until it is used, and none is used twice:   *)
(* of the reading and the writing of a count, which are two steps, no      *)
(* other write comes between as long as the two threads take turns.        *)
(***************************************************************************)
THEOREM EveryTicketIsAccountedFor ==
    ASSUME ~Overlap
    PROVE  Spec => []TicketsAccountedFor
<1>1. AccountInv => TicketsAccountedFor
  <2> SUFFICES ASSUME AccountInv, AtRest PROVE tickets = due
    BY DEF TicketsAccountedFor
  <2>1. Busy.at \in Free
    BY DEF AtRest, Busy, Actor, Free
  <2> QED BY <2>1, FreeIsSound DEF AccountInv
<1> QED BY AccountInvHolds, <1>1, PTL

\* When TrySetDefaultUsingItem returns.
LEMMA WhenEquipped ==
    ASSUME ~Overlap, AccountInv, [Next]_vars,
           ~At("room", "leaveReady"), At("room", "leaveReady")'
    PROVE  /\ InUse' = {} => \A s \in Slot : items'[s].type = EMPTY_ITEM
           /\ At("room", "equipNext") =>
                 \A r, s \in InUse' : items'[r].type = items'[s].type => r = s
<1> DEFINE x == act["room"]
<1>1. x.at # "leaveReady" /\ act'["room"].at = "leaveReady" /\ act' \in [Actor -> Activation]
      /\ act \in [Actor -> Activation]
  BY StepTickets DEF At, AccountInv, TicketInv
<1>0. x \in Activation
  BY <1>1 DEF Actor
<1>2. ASSUME NEW y, Go("room", y) PROVE y.at = "leaveReady"
  BY <1>1, <1>2 DEF Go, Actor
<1>3. ASSUME NEW y, Go("worker", y) PROVE FALSE
  BY <1>1, <1>3 DEF Go, Actor
<1>4. SetDefaultUsingItem
  <2>1. ~Worker
    BY <1>3 DEF Worker, Ask, UseItemTicket, SpendTicket, DropItem, CombineItems, ReadTypes,
                ClearItems, CreateItem, UpgradeItem, CompareItems
  <2>2. ASSUME NEW a \in Actor, SwapItem(a) \/ FindEmptyItemSlotIndex(a) \/ AddItem(a)
        PROVE  FALSE
    <3>1. a = "room"
      BY <1>3, <2>2 DEF Actor, SwapItem, FindEmptyItemSlotIndex, AddItem
    <3>2. CASE Go("room", Return("room")) /\ x.at \in Adding \cup Swapping
      <4>1. Return("room").at = x.ret
        BY DEF Return, Rest
      <4>2. x.ret = "leaveReady"
        BY <1>2, <3>2, <4>1
      <4> QED BY <1>0, <4>2 DEF Activation
    <3>3. CASE SwapItem("room")
      <4>1. ~At("room", "swapFirst")
        BY <3>2, <3>3 DEF SwapItem, At, Swapping
      <4> DEFINE y == [x EXCEPT !.item = items[x.two], !.at = "swapSecond"]
                 z == [x EXCEPT !.at = "swapFirst"]
      <4>2. y.at = "swapSecond" /\ z.at = "swapFirst"
        BY <1>0 DEF Activation
      <4>3. Go("room", y) \/ Go("room", z)
        BY <3>3, <4>1 DEF SwapItem
      <4> HIDE DEF y, z
      <4> QED BY <1>2, <4>2, <4>3
    <3>4. CASE AddItem("room")
      BY <3>2, <3>4 DEF AddItem, At, Adding
    <3>5. CASE FindEmptyItemSlotIndex("room")
      <4>1. x.at \in {"add", "find"}
        BY <3>5 DEF FindEmptyItemSlotIndex
      <4> DEFINE y == [x EXCEPT !.one = SearchOrder(x.scan),
                                !.at = IF @ = "add" THEN "addSet" ELSE "create"]
                 z == [x EXCEPT !.scan = x.scan + 1]
      <4>2. y.at \in {"addSet", "create"} /\ z.at = x.at
        BY <1>0 DEF Activation
      <4>3. Rest("noSlot").at = "noSlot"
        BY DEF Rest
      <4>4. \/ Go("room", y) \/ Go("room", z) \/ Go("room", Rest("noSlot"))
            \/ Go("room", Return("room")) /\ At("room", "add")
        BY <3>5 DEF FindEmptyItemSlotIndex
      <4>5. ~(Go("room", Return("room")) /\ At("room", "add"))
        BY <3>2 DEF At, Adding
      <4> HIDE DEF y, z
      <4> QED BY <1>2, <4>1, <4>2, <4>3, <4>4, <4>5
    <3> QED BY <2>2, <3>1, <3>3, <3>4, <3>5
  <2>3. ~UNCHANGED vars
    BY <1>1 DEF vars
  <2>4. ASSUME NEW place, Go("room", Rest(place)) PROVE place = "leaveReady"
    BY <1>2, <2>4 DEF Rest
  <2>5. ~EnterReadyStage /\ ~LeaveReadyStage /\ ~NextStage
    BY <2>4 DEF EnterReadyStage, LeaveReadyStage, NextStage
  <2>6. ~GiveDefaultItems
    <3>1. ASSUME NEW t, NEW place,
                 Go("room", [Rest("add") EXCEPT !.item.type = t, !.ret = place])
          PROVE  FALSE
      <4> DEFINE y == [Rest("add") EXCEPT !.item.type = t, !.ret = place]
      <4>1. y.at = "add"
        BY DEF Rest
      <4> HIDE DEF y
      <4> QED BY <1>2, <3>1, <4>1 DEF y
    <3> QED BY <2>4, <3>1 DEF GiveDefaultItems
  <2>7. ~GiveTickets /\ ~IncreaseItemTicket
    <3>1. ASSUME NEW k, NEW n, NEW place \in {"writeTickets", "rewardWrite"},
                 Go("room", [Rest(place) EXCEPT !.kind = k, !.count = n])
          PROVE  FALSE
      <4> DEFINE y == [Rest(place) EXCEPT !.kind = k, !.count = n]
      <4>1. y.at = place
        BY DEF Rest
      <4> HIDE DEF y
      <4> QED BY <1>2, <3>1, <4>1 DEF y
    <3> QED BY <2>4, <3>1 DEF GiveTickets, IncreaseItemTicket
  <2> QED BY <2>1, <2>2, <2>3, <2>5, <2>6, <2>7 DEF Next, ProgressThread
<1>5. UNCHANGED items /\ x.at \in {"wait", "equipTest", "equipNext"}
  BY <1>4 DEF SetDefaultUsingItem, At
<1>6. InUse' = {s \in Using : items[s].type # EMPTY_ITEM}
  BY <1>5 DEF InUse
<1>7. CASE x.at = "wait"
  <2>1. ValidUnUsingItems = {}
    <3>1. ASSUME Go("room", [Rest("equipTest") EXCEPT
                              !.valid = FirstOfEachType(ValidUnUsingItems),
                              !.ret = "equipNext"])
          PROVE  FALSE
      <4> DEFINE y == [Rest("equipTest") EXCEPT !.valid = FirstOfEachType(ValidUnUsingItems),
                                                !.ret = "equipNext"]
      <4>1. y.at = "equipTest"
        BY DEF Rest
      <4> HIDE DEF y
      <4> QED BY <1>2, <3>1, <4>1 DEF y
    <3> QED BY <1>4, <1>7, <3>1 DEF SetDefaultUsingItem, At
  <2> QED BY <1>5, <1>6, <1>7, <2>1 DEF ValidUnUsingItems, At
<1>8. CASE x.at = "equipTest"
  <2>1. ~(\A s \in Using : items[s].type = EMPTY_ITEM)
    <3>1. ASSUME Go("room", [x EXCEPT !.at = "equipNext"]) PROVE FALSE
      <4> DEFINE y == [x EXCEPT !.at = "equipNext"]
      <4>1. y.at = "equipNext"
        BY <1>0 DEF Activation
      <4> HIDE DEF y
      <4> QED BY <1>2, <3>1, <4>1 DEF y
    <3> QED BY <1>4, <1>8, <3>1 DEF SetDefaultUsingItem, At
  <2> QED BY <1>6, <1>8, <2>1 DEF At
<1>9. CASE x.at = "equipNext"
  <2>1. Sound(x, items, tickets, owed, due) /\ x.ret = "equipNext"
    BY <1>9, WhoWorks DEF Between, Actor, AccountInv, TicketInv, RoomOK
  <2>2. Chosen(x, items) /\ Equipped(x, items)
    BY <1>9, <2>1 DEF Sound, Equipping, Exchanged, Finished
  <2>3. x.valid = {} \/ x.count = MAX_USING_ITEM_COUNT
    <3>1. ASSUME NEW s \in x.valid,
                 Go("room", [x EXCEPT !.one = x.count, !.two = s, !.count = x.count + 1,
                                      !.valid = x.valid \ {s}, !.at = "swap"])
          PROVE  FALSE
      <4> DEFINE y == [x EXCEPT !.one = x.count, !.two = s, !.count = x.count + 1,
                                !.valid = x.valid \ {s}, !.at = "swap"]
      <4>1. y.at = "swap"
        BY <1>0 DEF Activation
      <4> HIDE DEF y
      <4> QED BY <1>2, <3>1, <4>1 DEF y
    <3> QED BY <1>4, <1>9, <3>1 DEF SetDefaultUsingItem, At
  <2>4. x.count \in Nat /\ x.count > 0
    <3>1. x.count \in Int /\ x.count >= 0
      BY DEF AccountInv, TicketInv, RoomOK, Activation
    <3> QED BY <1>9, <2>2, <2>3, <3>1 DEF Equipped
  <2>5. 0 \in Using /\ items[0].type # EMPTY_ITEM
    BY <1>9, <2>2, <2>4 DEF Using, Equipped
  <2>6. \A s \in InUse' : s \in {u \in Using : u < x.count}
    BY <1>6, <1>9, <2>2 DEF Equipped
  <2> QED BY <1>5, <1>6, <2>2, <2>5, <2>6 DEF Chosen
<1> QED BY <1>5, <1>7, <1>8, <1>9

(***************************************************************************)
(* When TrySetDefaultUsingItem returns, a player that has items uses at    *)
(* least one of them, and if nothing was used before no two of a type: of  *)
(* each type one item is chosen, and the swaps keep the chosen ones apart. *)
(***************************************************************************)
THEOREM DefaultItemsAreSet ==
    ASSUME ~Overlap
    PROVE  Spec => DefaultItemsAreUsed
<1>1. AccountInv /\ [Next]_vars =>
        [~At("room", "leaveReady") /\ At("room", "leaveReady")' =>
          /\ InUse' = {} => \A s \in Slot : items'[s].type = EMPTY_ITEM
          /\ At("room", "equipNext") =>
                \A r, s \in InUse' : items'[r].type = items'[s].type => r = s]_vars
  BY WhenEquipped
<1> QED BY AccountInvHolds, <1>1, PTL DEF Spec, DefaultItemsAreUsed
=============================================================================
