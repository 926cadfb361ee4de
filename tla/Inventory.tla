----------------------------- MODULE Inventory -----------------------------
(***************************************************************************)
(* The items and tickets of one player, from the default items on.         *)
(*                                                                         *)
(* Two threads change them, and neither takes a lock: the worker that      *)
(* handles the player's packets, one at a time (OneReceive of Server), and *)
(* the thread of the room, which gives tickets when a ready stage begins,  *)
(* equips the player when it ends and gives rewards in the other stages.   *)
(* A step reads or writes one item or one count, except that each of the   *)
(* two looks of TrySetDefaultUsingItem over the slots is one step.         *)
(*                                                                         *)
(* With Overlap the two are interleaved as the program does.  Without it   *)
(* one begins a piece of work only when the other is between two: this is  *)
(* what the operations promise by themselves.                              *)
(***************************************************************************)
EXTENDS Integers, Sequences, FiniteSets, SequencesExt

CONSTANTS
    MAX_USING_ITEM_COUNT, MAX_UN_USING_ITEM_COUNT,
    ItemType, Tier,              \* the codes of the items, and their tiers
    defaultItemCode1, defaultItemCode2,
    TicketKind, Normal,
    RewardCount,                 \* how many tickets a reward may have
    Overlap,
    MaxTicket,                   \* bound: tickets of a kind
    MaxUpgrade                   \* bound: upgrades of an item, in Overlap only

ASSUME InventoryAssumption ==
    /\ MAX_USING_ITEM_COUNT \in Nat \ {0} /\ MAX_UN_USING_ITEM_COUNT \in Nat \ {0}
    /\ ItemType \subseteq Nat \ {0}
    /\ {defaultItemCode1, defaultItemCode2} \subseteq ItemType
    /\ Tier \in [ItemType -> Nat]
    /\ Normal \in TicketKind /\ RewardCount \subseteq Nat \ {0}
    /\ Overlap \in BOOLEAN
    /\ MaxTicket \in Nat /\ MaxUpgrade \in Nat

VARIABLES
    items,                 \* mUsingItems, then mUnUsingItems
    tickets,
    mCurRoomStatusType,
    act,                   \* where each thread is, with its locals
    owed, due              \* ghosts: what items and tickets should be worth

vars == <<items, tickets, mCurRoomStatusType, act, owed, due>>

Using == 0 .. MAX_USING_ITEM_COUNT - 1
SlotCount == MAX_USING_ITEM_COUNT + MAX_UN_USING_ITEM_COUNT
Slot == 0 .. SlotCount - 1

EMPTY_ITEM == 0
Item == [type : ItemType \cup {EMPTY_ITEM}, upgrade : Nat]
Empty == [type |-> EMPTY_ITEM, upgrade |-> 0]

Actor == {"worker", "room"}
Request == {"swap", "ticket", "drop", "combine", "upgrade"}

\* The places where a thread is between two pieces of work.
Between == {"idle", "enterReady", "readTickets", "wait", "leaveReady", "fight"}

WorkerAt == {"idle", "spend", "spendWrite", "dropSet", "clear", "find",
             "create", "noSlot", "compare", "upgradeSet", "clearMaterial"} \cup Request
RoomAt == {"give1", "give2", "giveTickets", "equipTest", "equipNext", "writeTickets",
           "rewardWrite"} \cup (Between \ {"idle"})
SharedAt == {"swap", "swapSecond", "swapFirst", "add", "addSet"}

Activation ==
    [at : WorkerAt \cup RoomAt \cup SharedAt,
     ret : {"idle", "spend", "give2", "giveTickets", "equipNext"},
     slots : Seq(Slot), valid : SUBSET Slot, types : Seq(ItemType \cup {EMPTY_ITEM}),
     one : Slot, two : Slot, scan : 0 .. SlotCount,
     item : Item,                      \* a saved item, or the type of a new one
     kind : TicketKind, count : Int]

TypeOK ==
    /\ items \in [Slot -> Item]
    /\ tickets \in [TicketKind -> Int]
    /\ mCurRoomStatusType \in {"CutSceneStage", "ReadyStage", "BattleOrCreepStage"}
    /\ act \in [Actor -> Activation]
    /\ act["worker"].at \in WorkerAt \cup SharedAt
    /\ act["room"].at \in RoomAt \cup SharedAt

Rest(place) ==
    [at |-> place, ret |-> "idle", slots |-> <<>>, valid |-> {}, types |-> <<>>,
     one |-> 0, two |-> 0, scan |-> 0, item |-> Empty, kind |-> Normal, count |-> 0]

Init ==
    /\ items = [s \in Slot |-> Empty]
    /\ tickets = [k \in TicketKind |-> 0]
    /\ mCurRoomStatusType = "CutSceneStage"
    /\ act = [a \in Actor |-> IF a = "worker" THEN Rest("idle") ELSE Rest("give1")]
    /\ owed = [t \in ItemType |-> 0] /\ due = [k \in TicketKind |-> 0]
-----------------------------------------------------------------------------
\* An upgraded item is worth the items that went into it.
Power[n \in Nat] == IF n = 0 THEN 1 ELSE 2 * Power[n - 1]
ItemWorth(t, item) == IF item.type = t THEN Power[item.upgrade] ELSE 0

\* What all of type t in the slots m are worth together.
WorthIn(t, m) ==
    LET upTo[n \in 0 .. SlotCount] ==
            IF n = 0 THEN 0 ELSE upTo[n - 1] + ItemWorth(t, m[n - 1])
    IN  upTo[SlotCount]
Worth(t) == WorthIn(t, items)

AtRest == \A a \in Actor : act[a].at \in Between

\* A thread may begin a piece of work; what there is then is what there
\* should be (the ghosts count from here, unless the other is at work).
MayBegin(a) == Overlap \/ \A b \in Actor \ {a} : act[b].at \in Between

Owed == IF AtRest THEN [t \in ItemType |-> Worth(t)] ELSE owed
Due == IF AtRest THEN tickets ELSE due

\* The ghosts are kept where work does not overlap.
Owing(o, d) == /\ owed' = IF Overlap THEN owed ELSE o
               /\ due' = IF Overlap THEN due ELSE d

At(a, place) == act[a].at = place
\* Where the caller goes on, with what it still needs.
Return(a) == [Rest(act[a].ret) EXCEPT !.ret = act[a].ret, !.valid = act[a].valid,
                                      !.kind = act[a].kind, !.count = act[a].count]
Go(a, activation) == act' = [act EXCEPT ![a] = activation]

owing == <<owed, due>>
-----------------------------------------------------------------------------
\* Variant: the second item is not saved.
SwapItem_Unsaved(a) ==
    \/ /\ At(a, "swap")
       /\ Go(a, [act[a] EXCEPT !.item = items[act[a].one], !.at = "swapSecond"])
       /\ UNCHANGED <<items, tickets, mCurRoomStatusType, owing>>
    \/ /\ At(a, "swapSecond")
       /\ items' = [items EXCEPT ![act[a].two] = items[act[a].one]]
       /\ Go(a, [act[a] EXCEPT !.at = "swapFirst"])
       /\ UNCHANGED <<tickets, mCurRoomStatusType, owing>>
    \/ /\ At(a, "swapFirst")
       /\ items' = [items EXCEPT ![act[a].one] = act[a].item]
       /\ Go(a, Return(a))
       /\ UNCHANGED <<tickets, mCurRoomStatusType, owing>>

SwapItem(a) ==
    \/ /\ At(a, "swap")
       /\ Go(a, [act[a] EXCEPT !.item = items[act[a].two], !.at = "swapSecond"])
       /\ UNCHANGED <<items, tickets, mCurRoomStatusType, owing>>
    \/ /\ At(a, "swapSecond")
       /\ items' = [items EXCEPT ![act[a].two] = items[act[a].one]]
       /\ Go(a, [act[a] EXCEPT !.at = "swapFirst"])
       /\ UNCHANGED <<tickets, mCurRoomStatusType, owing>>
    \/ /\ At(a, "swapFirst")
       /\ items' = [items EXCEPT ![act[a].one] = act[a].item]
       /\ Go(a, Return(a))
       /\ UNCHANGED <<tickets, mCurRoomStatusType, owing>>

\* The slots in the order in which an empty one is looked for.
SearchOrder(i) == IF i < MAX_UN_USING_ITEM_COUNT THEN i + MAX_USING_ITEM_COUNT
                                                 ELSE i - MAX_UN_USING_ITEM_COUNT

\* The loops of AddItem (at "add") and FindEmptyItemSlotIndex (at "find").
FindEmptyItemSlotIndex(a) ==
    /\ act[a].at \in {"add", "find"}
    /\ LET i == act[a].scan IN
       \/ /\ i < SlotCount /\ items[SearchOrder(i)].type = EMPTY_ITEM
          /\ Go(a, [act[a] EXCEPT !.one = SearchOrder(i),
                                  !.at = IF @ = "add" THEN "addSet" ELSE "create"])
       \/ /\ i < SlotCount /\ items[SearchOrder(i)].type # EMPTY_ITEM
          /\ Go(a, [act[a] EXCEPT !.scan = i + 1])
       \/ /\ i = SlotCount
          /\ Go(a, IF At(a, "add") THEN Return(a) ELSE Rest("noSlot"))
    /\ UNCHANGED <<items, tickets, mCurRoomStatusType, owing>>

\* AddItem sets the type only: an empty slot has no upgrade.
AddItem(a) ==
    /\ At(a, "addSet")
    /\ items' = [items EXCEPT ![act[a].one].type = act[a].item.type]
    /\ Owing([owed EXCEPT ![act[a].item.type] = @ + 1], due)
    /\ Go(a, Return(a))
    /\ UNCHANGED <<tickets, mCurRoomStatusType>>
-----------------------------------------------------------------------------
\* A packet of the player: what it asks for, for which slots or kind.  (Of a
\* combination the order of the slots makes no difference.)  Every request is
\* for the ready stage; cs_requestCombinationItem is answered and then carried
\* out in any stage.
Ask(op) ==
    /\ At("worker", "idle") /\ MayBegin("worker")
    /\ mCurRoomStatusType = "ReadyStage" \/ op = "combine"
    /\ \E s \in Slot \X Slot \X Slot, k \in TicketKind :
          /\ IF op = "combine" THEN s[1] <= s[2] /\ s[2] <= s[3] ELSE s[3] = 0
          /\ op \in {"drop", "ticket"} => s[2] = 0
          /\ op = "ticket" => s[1] = 0
          /\ op # "ticket" => k = Normal
          /\ Go("worker", [Rest(op) EXCEPT
                  !.one = s[1], !.two = s[2], !.kind = k,
                  !.slots = IF op = "combine" THEN <<s[1], s[2], s[3]>> ELSE <<>>])
    /\ Owing(Owed, Due)
    /\ UNCHANGED <<items, tickets, mCurRoomStatusType>>

\* Variant: no test of the count.
UseItemTicket_Untested ==
    /\ At("worker", "ticket")
    /\ \E t \in ItemType :
          Go("worker", [act["worker"] EXCEPT !.item.type = t, !.ret = "spend", !.at = "add"])
    /\ UNCHANGED <<items, tickets, mCurRoomStatusType, owing>>

\* GetRandomItemTypeOf...ItemTicket: no item without a ticket.
UseItemTicket ==
    /\ At("worker", "ticket")
    /\ \/ /\ tickets[act["worker"].kind] = 0
          /\ Go("worker", Rest("idle"))
       \/ /\ tickets[act["worker"].kind] # 0
          /\ \E t \in ItemType :
                Go("worker", [act["worker"] EXCEPT !.item.type = t, !.ret = "spend",
                                                   !.at = "add"])
    /\ UNCHANGED <<items, tickets, mCurRoomStatusType, owing>>

\* Variant: the count is passed on before it is decremented.
SpendTicket_PostDecrement ==
    LET k == act["worker"].kind IN
    \/ /\ At("worker", "spend")
       /\ Go("worker", [act["worker"] EXCEPT !.count = tickets[k], !.at = "spendWrite"])
       /\ Owing(owed, [due EXCEPT ![k] = @ - 1])
       /\ UNCHANGED <<items, tickets, mCurRoomStatusType>>
    \/ /\ At("worker", "spendWrite")
       /\ tickets' = [tickets EXCEPT ![k] = act["worker"].count]
       /\ Go("worker", Rest("idle"))
       /\ UNCHANGED <<items, mCurRoomStatusType, owing>>

\* The ticket is spent whether or not there was room for the item.
SpendTicket ==
    LET k == act["worker"].kind IN
    \/ /\ At("worker", "spend")
       /\ Go("worker", [act["worker"] EXCEPT !.count = tickets[k] - 1, !.at = "spendWrite"])
       /\ Owing(owed, [due EXCEPT ![k] = @ - 1])
       /\ UNCHANGED <<items, tickets, mCurRoomStatusType>>
    \/ /\ At("worker", "spendWrite")
       /\ tickets' = [tickets EXCEPT ![k] = act["worker"].count]
       /\ Go("worker", Rest("idle"))
       /\ UNCHANGED <<items, mCurRoomStatusType, owing>>

\* What the item in slot s takes with it when the slot is emptied.
Less(s) == [t \in ItemType |-> owed[t] - ItemWorth(t, items[s])]

DropItem ==
    LET s == act["worker"].one IN
    \/ /\ At("worker", "drop")
       /\ Go("worker", IF items[s].type = EMPTY_ITEM THEN Rest("idle")
                       ELSE [act["worker"] EXCEPT !.at = "dropSet"])
       /\ UNCHANGED <<items, tickets, mCurRoomStatusType, owing>>
    \/ /\ At("worker", "dropSet")
       /\ items' = [items EXCEPT ![s] = Empty]
       /\ Owing(Less(s), due)
       /\ Go("worker", Rest("idle"))
       /\ UNCHANGED <<tickets, mCurRoomStatusType>>

\* cs_requestCombinationItem: three types are read ...
ReadTypes ==
    LET types == Append(act["worker"].types,
                        items[act["worker"].slots[Len(act["worker"].types) + 1]].type) IN
    /\ At("worker", "combine")
    /\ Go("worker", IF Len(types) < 3 THEN [act["worker"] EXCEPT !.types = types]
                    ELSE IF EMPTY_ITEM \in ToSet(types) THEN Rest("idle")
                    ELSE [act["worker"] EXCEPT !.types = types, !.at = "clear"])
    /\ UNCHANGED <<items, tickets, mCurRoomStatusType, owing>>

\* ... the three items emptied, and one of a tier between theirs chosen.  (Ten
\* attempts are made to get another one than the three.)
ClearItems ==
    LET s == Head(act["worker"].slots)
        tiers == {Tier[t] : t \in ToSet(act["worker"].types)} IN
    /\ At("worker", "clear")
    /\ items' = [items EXCEPT ![s] = Empty]
    /\ Owing(Less(s), due)
    /\ IF Len(act["worker"].slots) > 1
       THEN Go("worker", [act["worker"] EXCEPT !.slots = Tail(@)])
       ELSE \E t \in {u \in ItemType : \E low, high \in tiers :
                                          low <= Tier[u] /\ Tier[u] <= high} :
               Go("worker", [act["worker"] EXCEPT !.item.type = t, !.at = "find"])
    /\ UNCHANGED <<tickets, mCurRoomStatusType>>

CreateItem ==
    /\ \/ /\ At("worker", "create")
          /\ items' = [items EXCEPT ![act["worker"].one] = act["worker"].item]
          /\ Owing([owed EXCEPT ![act["worker"].item.type] = @ + 1], due)
       \/ \* behind the last slot
          /\ At("worker", "noSlot") /\ UNCHANGED <<items, owing>>
    /\ Go("worker", Rest("idle"))
    /\ UNCHANGED <<tickets, mCurRoomStatusType>>

CombineItems == ReadTypes \/ ClearItems \/ CreateItem

\* cs_requestUpgradeItem: two items of one type and upgrade become one.
CompareItems ==
    LET one == act["worker"].one
        two == act["worker"].two IN
    \/ /\ At("worker", "upgrade")
       /\ Go("worker", IF one = two THEN Rest("idle")
                       ELSE [act["worker"] EXCEPT !.item = items[one], !.at = "compare"])
       /\ UNCHANGED <<items, tickets, mCurRoomStatusType, owing>>
    \/ /\ At("worker", "compare")
       /\ Go("worker", IF /\ items[two] = act["worker"].item
                          /\ items[two].type # EMPTY_ITEM
                          /\ items[two].upgrade < 2
                       THEN [act["worker"] EXCEPT !.at = "upgradeSet"]
                       ELSE Rest("idle"))
       /\ UNCHANGED <<items, tickets, mCurRoomStatusType, owing>>

UpgradeItem ==
    \/ CompareItems
    \/ /\ At("worker", "upgradeSet")
       /\ Overlap => items[act["worker"].one].upgrade < MaxUpgrade
       /\ items' = [items EXCEPT ![act["worker"].one].upgrade = @ + 1]
       /\ Go("worker", [act["worker"] EXCEPT !.at = "clearMaterial"])
       /\ UNCHANGED <<tickets, mCurRoomStatusType, owing>>
    \/ /\ At("worker", "clearMaterial")
       /\ items' = [items EXCEPT ![act["worker"].two] = Empty]
       /\ Go("worker", Rest("idle"))
       /\ UNCHANGED <<tickets, mCurRoomStatusType, owing>>

Worker ==
    \/ \E op \in Request : Ask(op)
    \/ UseItemTicket \/ SpendTicket \/ DropItem
    \/ CombineItems \/ UpgradeItem
-----------------------------------------------------------------------------
\* The default items, and the default number of tickets, 0.
GiveDefaultItems ==
    \/ /\ At("room", "give1")
       /\ Go("room", [Rest("add") EXCEPT !.item.type = defaultItemCode1, !.ret = "give2"])
       /\ UNCHANGED <<items, tickets, mCurRoomStatusType, owing>>
    \/ /\ At("room", "give2")
       /\ Go("room", [Rest("add") EXCEPT !.item.type = defaultItemCode2, !.ret = "giveTickets"])
       /\ UNCHANGED <<items, tickets, mCurRoomStatusType, owing>>
    \/ /\ At("room", "giveTickets")
       /\ tickets' = [k \in TicketKind |-> 0]
       /\ mCurRoomStatusType' = "ReadyStage"
       /\ Go("room", Rest("enterReady"))
       /\ UNCHANGED <<items, owing>>

\* ReadyStage: two tickets each time.
EnterReadyStage ==
    /\ At("room", "enterReady")
    /\ tickets[Normal] + 2 <= MaxTicket
    /\ mCurRoomStatusType' = "ReadyStage"
    /\ Go("room", Rest("readTickets"))
    /\ UNCHANGED <<items, tickets, owing>>

GiveTickets ==
    \/ /\ At("room", "readTickets") /\ MayBegin("room")
       /\ Go("room", [Rest("writeTickets") EXCEPT !.kind = Normal,
                                                  !.count = tickets[Normal] + 2])
       /\ Owing(Owed, [Due EXCEPT ![Normal] = @ + 2])
       /\ UNCHANGED <<items, tickets, mCurRoomStatusType>>
    \/ /\ At("room", "writeTickets")
       /\ tickets' = [tickets EXCEPT ![Normal] = act["room"].count]
       /\ Go("room", Rest("wait"))
       /\ UNCHANGED <<items, mCurRoomStatusType, owing>>

\* TrySetDefaultUsingItem: the items of the inventory, one of each type and no
\* more than can be used, if nothing is used.
ValidUnUsingItems == {s \in Slot \ Using : items[s].type # EMPTY_ITEM}

\* Variant: no test for a type that is used already.
FirstOfEachType_All(S) == S

FirstOfEachType(S) ==
    {s \in S : \A r \in S : items[r].type = items[s].type => s <= r}

SetDefaultUsingItem ==
    \/ /\ At("room", "wait") /\ MayBegin("room")
       /\ Go("room", IF ValidUnUsingItems = {} THEN Rest("leaveReady")
                     ELSE [Rest("equipTest") EXCEPT
                              !.valid = FirstOfEachType(ValidUnUsingItems),
                              !.ret = "equipNext"])
       /\ Owing(Owed, Due)
       /\ UNCHANGED <<items, tickets, mCurRoomStatusType>>
    \/ /\ At("room", "equipTest")
       /\ Go("room", IF \A s \in Using : items[s].type = EMPTY_ITEM
                     THEN [act["room"] EXCEPT !.at = "equipNext"] ELSE Rest("leaveReady"))
       /\ UNCHANGED <<items, tickets, mCurRoomStatusType, owing>>
    \/ /\ At("room", "equipNext")
       /\ act["room"].count < MAX_USING_ITEM_COUNT
       /\ \E s \in act["room"].valid :
             /\ \A r \in act["room"].valid : s <= r
             /\ Go("room", [act["room"] EXCEPT !.one = act["room"].count, !.two = s,
                                               !.count = @ + 1, !.valid = @ \ {s},
                                               !.at = "swap"])
       /\ UNCHANGED <<items, tickets, mCurRoomStatusType, owing>>
    \/ /\ At("room", "equipNext")
       /\ act["room"].valid = {} \/ act["room"].count = MAX_USING_ITEM_COUNT
       /\ Go("room", Rest("leaveReady"))
       /\ UNCHANGED <<items, tickets, mCurRoomStatusType, owing>>

LeaveReadyStage ==
    /\ At("room", "leaveReady")
    /\ mCurRoomStatusType' = "BattleOrCreepStage"
    /\ Go("room", Rest("fight"))
    /\ UNCHANGED <<items, tickets, owing>>

\* A reward of a creep stage, or a ticket from an item's effect.
IncreaseItemTicket ==
    \/ /\ At("room", "fight") /\ MayBegin("room")
       /\ \E k \in TicketKind, n \in RewardCount :
             /\ tickets[k] + n <= MaxTicket
             /\ Go("room", [Rest("rewardWrite") EXCEPT !.kind = k, !.count = tickets[k] + n])
             /\ Owing(Owed, [Due EXCEPT ![k] = @ + n])
       /\ UNCHANGED <<items, tickets, mCurRoomStatusType>>
    \/ /\ At("room", "rewardWrite")
       /\ tickets' = [tickets EXCEPT ![act["room"].kind] = act["room"].count]
       /\ Go("room", Rest("fight"))
       /\ UNCHANGED <<items, mCurRoomStatusType, owing>>

NextStage ==
    /\ At("room", "fight")
    /\ Go("room", Rest("enterReady"))
    /\ UNCHANGED <<items, tickets, mCurRoomStatusType, owing>>

ProgressThread ==
    \/ GiveDefaultItems \/ EnterReadyStage \/ GiveTickets \/ SetDefaultUsingItem
    \/ LeaveReadyStage \/ IncreaseItemTicket \/ NextStage

Next ==
    \/ Worker
    \/ ProgressThread
    \/ \E a \in Actor : SwapItem(a) \/ FindEmptyItemSlotIndex(a) \/ AddItem(a)

Spec == Init /\ [][Next]_vars
-----------------------------------------------------------------------------
(***************************************************************************)
(* Swapping, upgrading and equipping neither create nor destroy anything,  *)
(* an upgraded item being worth the two it was made of; drawing,           *)
(* combining and dropping change exactly what they are for.                *)
(***************************************************************************)
ItemsAccountedFor == AtRest => \A t \in ItemType : Worth(t) = owed[t]

(***************************************************************************)
(* Every ticket given is there until it is used, and none is used twice.   *)
(***************************************************************************)
TicketsAccountedFor == AtRest => tickets = due

(***************************************************************************)
(* When TrySetDefaultUsingItem returns, a player that has items uses at    *)
(* least one, and if nothing was used before, no two of a type.            *)
(***************************************************************************)
InUse == {s \in Using : items[s].type # EMPTY_ITEM}

DefaultItemsAreUsed ==
    [][~At("room", "leaveReady") /\ At("room", "leaveReady")' =>
          /\ InUse' = {} => \A s \in Slot : items'[s].type = EMPTY_ITEM
          /\ At("room", "equipNext") =>
                \A r, s \in InUse' : items'[r].type = items'[s].type => r = s]_vars

(***************************************************************************)
(* No ticket is used that the player does not have: the count, which is    *)
(* signed, stays above zero, although the test, the reading and the        *)
(* writing of it are interleaved with those of the room's thread.          *)
(***************************************************************************)
TicketsNeverNegative == \A k \in TicketKind : tickets[k] >= 0
=============================================================================
