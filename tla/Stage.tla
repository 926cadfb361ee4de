------------------------------- MODULE Stage -------------------------------
(***************************************************************************)
(* One battle stage or creep stage of a room: Room::BattleStage and        *)
(* Room::CreepStage.  Avatars 0 and 1 fight, 2 and 3, and so on: players,  *)
(* and ghosts of players, in a battle; a player and a creep each in a      *)
(* creep stage.  The room's thread plays the fights; while it sleeps, and  *)
(* at any other time, players leave.  CreepStage reads the room's list     *)
(* without its lock, one player at a time: it may read, behind the end of  *)
(* the list, what the erasure of a player has left there (release build).  *)
(*                                                                         *)
(* Client::Init is one step here (Room has its parts), nobody uses a       *)
(* ticket meanwhile, the room is not opened again (see Room), and a slot   *)
(* whose client has left stays free until the stage ends (see Server).     *)
(***************************************************************************)
EXTENDS Items

CONSTANTS
    Opponents,          \* the pairings there may be: sequences of Fighter
    Players,            \* the room's list when the stage begins
    Loadouts,           \* the items the players may use
    StartHp,            \* the hp they may have left
    CreepRounds,        \* the creep rounds there may be
    Round,              \* GetRound()
    BATTLE_LOOP,        \* the cycles of a battle
    MAX_CHARACTER_MAX_HP

Fighter == [client : Client, ghost : BOOLEAN]

\* Nobody fights twice, unless as a ghost (see BattleManager); nobody is listed twice.
ASSUME StageAssumption ==
    /\ \A o \in Opponents :
          /\ o \in Seq(Fighter) /\ Len(o) > 0 /\ Len(o) % 2 = 0
          /\ \A i, j \in DOMAIN o :
                ~o[i].ghost /\ ~o[j].ghost /\ o[i].client = o[j].client => i = j
    /\ Players \in Seq(Client)
    /\ \A i, j \in DOMAIN Players : Players[i] = Players[j] => i = j
    /\ Loadouts \subseteq [Client -> [Slots -> Item]]
    /\ MAX_CHARACTER_MAX_HP \in Nat
    /\ StartHp \subseteq [Client -> 1..MAX_CHARACTER_MAX_HP]
    /\ CreepRounds \subseteq Nat /\ Round \in Nat /\ BATTLE_LOOP \in Nat

VARIABLES
    stage, pc, part,        \* which stage, and where its thread is
    avatars,                \* from 0 on
    battleLoop, activeItemIndex, k,
    disconnectNetworkIdList, lastClientNetworkID,
    mBattleOpponents, mCreepRound,
    cells, mSize,           \* the memory of mClients, and how much of it is in use
    mStatus, mHp, mUsingItems, tickets,     \* of a slot and its client
    hurt, rewarded          \* ghosts: how often a player lost hp, and won tickets

threadVars == <<stage, pc, part, battleLoop, activeItemIndex, k,
                lastClientNetworkID, mBattleOpponents, mCreepRound>>
roomVars   == <<cells, mSize>>
slotVars   == <<mStatus, mUsingItems>>
playVars   == <<avatars, disconnectNetworkIdList, mHp, tickets, hurt, rewarded>>
vars == <<threadVars, roomVars, slotVars, playVars>>

TicketType == {"Normal", "Advanced", "Top", "Supreme"}
NoTickets  == [t \in TicketType |-> 0]

TypeOK ==
    /\ stage \in {"battle", "creep"}
    /\ pc \in {"enter", "setup", "fitment", "check", "loop", "use", "heal",
               "counter", "cycle", "timeout", "kick", "finish", "last",
               "end", "goOn", "over"}
    /\ part \in {"even", "odd", "cycle", "timeout"}
    /\ \A i \in DOMAIN avatars : avatars[i] \in Avatar /\ avatars[i].mHp <= avatars[i].mMaxHp
    /\ battleLoop \in 0..BATTLE_LOOP
    /\ activeItemIndex \in Slots
    /\ k \in 0..Cardinality(DOMAIN avatars)
    /\ disconnectNetworkIdList \subseteq Client
    /\ lastClientNetworkID \in Client \cup {NoClient}
    /\ cells \in Seq(Client) /\ mSize \in 0..Len(cells)
    /\ mStatus \in [Client -> {"playing", "free"}]
    /\ mHp \in [Client -> 0..MAX_CHARACTER_MAX_HP]
    /\ mUsingItems \in [Client -> [Slots -> Item]]
    /\ tickets \in [Client -> [TicketType -> Nat]]

Init ==
    /\ stage \in {"battle", "creep"}
    /\ pc = "enter" /\ part = "even"
    /\ avatars = << >>
    /\ battleLoop = 0 /\ activeItemIndex = 0 /\ k = 0
    /\ disconnectNetworkIdList = {} /\ lastClientNetworkID = NoClient
    /\ mBattleOpponents \in Opponents
    /\ mCreepRound \in CreepRounds
    /\ cells = Players /\ mSize = Len(Players)
    /\ mStatus = [c \in Client |-> "playing"]
    /\ mHp \in StartHp
    /\ mUsingItems \in Loadouts
    /\ tickets = [c \in Client |-> NoTickets]
    /\ hurt = [c \in Client |-> 0] /\ rewarded = [c \in Client |-> 0]
-----------------------------------------------------------------------------
IsBattle == stage = "battle"
avatarCount == Cardinality(DOMAIN avatars)
Opponent(i) == IF i % 2 = 0 THEN i + 1 ELSE i - 1

\* The test between the sleeps.
GoesOn == mSize >= 2

IsValidClientInThisRoom(c) == c # NoClient /\ mStatus[c] = "playing"

\* The next avatar after i, of the same half, that still fights.
NextFrom(av, i) ==
    LET rest == {j \in DOMAIN av : j >= i /\ j % 2 = i % 2 /\ ~av[j].mIsFinish}
    IN IF rest = {} THEN Cardinality(DOMAIN av)
       ELSE CHOOSE j \in rest : \A l \in rest : j <= l

AllFinished == \A i \in DOMAIN avatars : avatars[i].mIsFinish

(***************************************************************************)
(* Client::Init, when the client of slot c has gone: the slot is reset,    *)
(* and the client erased from the room's list if it is there.              *)
(***************************************************************************)
Erase(c) ==
    LET i == CHOOSE j \in 1..mSize : cells[j] = c
    IN /\ cells' = [j \in DOMAIN cells |->
                      IF i <= j /\ j < mSize THEN cells[j + 1] ELSE cells[j]]
       /\ mSize' = mSize - 1

ClientInit(c) ==
    /\ IF \E j \in 1..mSize : cells[j] = c THEN Erase(c) ELSE UNCHANGED roomVars
    /\ mStatus' = [mStatus EXCEPT ![c] = "free"]
    /\ mHp' = [mHp EXCEPT ![c] = MAX_CHARACTER_MAX_HP]
    /\ mUsingItems' = [mUsingItems EXCEPT ![c] = [s \in Slots |-> EmptyItem]]
    /\ tickets' = [tickets EXCEPT ![c] = NoTickets]

\* Server::Disconnect, unless the slot is free.
Disconnect(c) ==
    IF mStatus[c] = "free" THEN UNCHANGED <<roomVars, slotVars, mHp, tickets>>
                           ELSE ClientInit(c)

Leave(c) ==
    /\ mStatus[c] = "playing"
    /\ ClientInit(c)
    /\ UNCHANGED <<threadVars, avatars, disconnectNetworkIdList, hurt, rewarded>>
-----------------------------------------------------------------------------
(***************************************************************************)
(* Getting ready.                                                          *)
(***************************************************************************)
GiveUp ==
    /\ pc \in {"enter", "check", "end"} /\ ~GoesOn
    /\ pc' = "over"
    /\ UNCHANGED <<stage, part, battleLoop, activeItemIndex, k, lastClientNetworkID,
                   mBattleOpponents, mCreepRound, roomVars, slotVars, playVars>>

At(where, to) ==
    /\ pc = where /\ pc' = to
    /\ UNCHANGED <<stage, lastClientNetworkID, mBattleOpponents>>

BattleEnter ==
    /\ IsBattle /\ GoesOn /\ At("enter", "fitment")
    /\ avatars' = [i \in 0..Len(mBattleOpponents) - 1 |->
                     LET o == mBattleOpponents[i + 1]
                     IN SetAvatar(o.client, mUsingItems[o.client], o.ghost, Round)]
    /\ UNCHANGED <<part, battleLoop, activeItemIndex, k, mCreepRound, roomVars,
                   slotVars, disconnectNetworkIdList, mHp, tickets, hurt, rewarded>>

\* GetCreepMonster: its items, by slot, and its hp.
Creep(round) ==
    CASE round = 0 -> <<38, 38, 20>>
      [] round = 1 -> <<39, 39, 20>>
      [] round = 2 -> <<40, 40, 20>>
      [] round = 3 -> <<41, 41, 30>>
      [] round = 4 -> <<42, 43, 30>>
      [] round = 5 -> <<44, 44, 25>>
      [] OTHER     -> <<45, 45, 100>>

GetCreepMonster ==
    LET creep == Creep(mCreepRound)
        items == [s \in Slots |-> [type |-> creep[(s % 2) + 1], upgrade |-> 0]]
    IN SetMaxHP(creep[3], [BattleAvatar0 EXCEPT !.mIsGhost = TRUE, !.mUsingItem = items])

CreepEnter ==
    /\ ~IsBattle /\ GoesOn /\ At("enter", "setup")
    /\ avatars' = [i \in 0..2 * mSize - 1 |->
                     IF i % 2 = 1 THEN GetCreepMonster ELSE BattleAvatar0]
    /\ mCreepRound' = mCreepRound + 1
    /\ UNCHANGED <<part, battleLoop, activeItemIndex, k, roomVars, slotVars,
                   disconnectNetworkIdList, mHp, tickets, hurt, rewarded>>

\* Reads the list again for each player, whatever its length is by now.
CreepSetAvatar ==
    LET c == cells[k \div 2 + 1] IN
    /\ At("setup", IF k + 2 = avatarCount THEN "fitment" ELSE "setup")
    /\ avatars' = [avatars EXCEPT ![k] = SetAvatar(c, mUsingItems[c], FALSE, Round)]
    /\ k' = IF k + 2 = avatarCount THEN 0 ELSE k + 2
    /\ UNCHANGED <<part, battleLoop, activeItemIndex, mCreepRound, roomVars, slotVars,
                   disconnectNetworkIdList, mHp, tickets, hurt, rewarded>>

\* The doctor's tool becomes one of the opponent's items.
Copied(items, i) ==
    {u \in [Slots -> GetRandomCopyItem(avatars[Opponent(i)]) \cup {items[s] : s \in Slots}] :
        \A s \in Slots : IF items[s].type = 16
                         THEN u[s] \in GetRandomCopyItem(avatars[Opponent(i)])
                         ELSE u[s] = items[s]}

Burgers(a) == IF \E s \in Slots : a.mUsingItem[s].type = 7 THEN Hamburger
                                                          ELSE {a.mHamburgerType}

Fitment(step) ==
    /\ At("fitment", IF k + step >= avatarCount THEN "check" ELSE "fitment")
    /\ \E burger \in Burgers(avatars[k]),
          items \in IF IsBattle THEN Copied(avatars[k].mUsingItem, k)
                                ELSE {avatars[k].mUsingItem} :
          avatars' = [avatars EXCEPT ![k] =
              [FitmentEffect(@) EXCEPT !.mHamburgerType = burger, !.mUsingItem = items]]
    /\ k' = IF k + step >= avatarCount THEN 0 ELSE k + step
    /\ UNCHANGED <<part, battleLoop, activeItemIndex, mCreepRound, roomVars, slotVars,
                   disconnectNetworkIdList, mHp, tickets, hurt, rewarded>>

BattleFitment == IsBattle /\ Fitment(1)
CreepFitment  == ~IsBattle /\ Fitment(2)

\* Mutant: only the avatar of who has left is finished.
BattleCheck_OneSided ==
    LET swapped(i) == LET even == i - (i % 2) IN
            avatars[even].mFirstAttackState < avatars[even + 1].mFirstAttackState
    IN /\ IsBattle /\ GoesOn /\ At("check", "loop")
       /\ avatars' = [i \in DOMAIN avatars |->
              LET a == avatars[IF swapped(i) THEN Opponent(i) ELSE i]
              IN [a EXCEPT !.mIsFinish = ~IsValidClientInThisRoom(a.mClient)]]
       /\ UNCHANGED <<part, battleLoop, activeItemIndex, k, mCreepRound, roomVars,
                      slotVars, disconnectNetworkIdList, mHp, tickets, hurt, rewarded>>

(***************************************************************************)
(* No fight with somebody who has left; the better first attack begins.    *)
(***************************************************************************)
BattleCheck ==
    LET cancelled(i) == \E j \in {i, Opponent(i)} :
                            ~IsValidClientInThisRoom(avatars[j].mClient)
        swapped(i) == LET even == i - (i % 2) IN
            avatars[even].mFirstAttackState < avatars[even + 1].mFirstAttackState
    IN /\ IsBattle /\ GoesOn /\ At("check", "loop")
       /\ avatars' = [i \in DOMAIN avatars |->
              LET a == avatars[IF swapped(i) THEN Opponent(i) ELSE i]
              IN [a EXCEPT !.mIsFinish = cancelled(i)]]
       /\ UNCHANGED <<part, battleLoop, activeItemIndex, k, mCreepRound, roomVars,
                      slotVars, disconnectNetworkIdList, mHp, tickets, hurt, rewarded>>

CreepCheck ==
    /\ ~IsBattle /\ GoesOn /\ At("check", "loop")
    /\ UNCHANGED <<part, battleLoop, activeItemIndex, k, mCreepRound, roomVars,
                   slotVars, playVars>>
-----------------------------------------------------------------------------
(***************************************************************************)
(* A cycle: the order of the items is drawn, then each item is used, first *)
(* by the even avatars and then by the odd ones.                           *)
(***************************************************************************)
Orders == {q \in [Slots -> Slots] : \A s, t \in Slots : q[s] = q[t] => s = t}

BeginCycle(drawn) ==
    /\ battleLoop < BATTLE_LOOP
    /\ At("loop", IF AllFinished THEN "kick" ELSE "use")
    /\ \E queue \in [drawn -> Orders] :
          avatars' = [i \in DOMAIN avatars |->
              IF i \in drawn THEN [avatars[i] EXCEPT !.mActiveQueue = queue[i]]
                             ELSE avatars[i]]
    /\ part' = "even" /\ activeItemIndex' = 0 /\ k' = NextFrom(avatars, 0)
    /\ UNCHANGED <<battleLoop, mCreepRound, roomVars, slotVars,
                   disconnectNetworkIdList, mHp, tickets, hurt, rewarded>>

BattleBeginCycle ==
    IsBattle /\ BeginCycle({i \in DOMAIN avatars : ~avatars[i].mIsFinish})
CreepBeginCycle == ~IsBattle /\ BeginCycle({i \in DOMAIN avatars : i % 2 = 0})

TimeIsUp ==
    /\ battleLoop = BATTLE_LOOP
    /\ At("loop", IF AllFinished THEN "kick" ELSE "timeout")
    /\ part' = "timeout" /\ k' = NextFrom(avatars, 0)
    /\ UNCHANGED <<battleLoop, activeItemIndex, mCreepRound, roomVars, slotVars, playVars>>

\* ActiveItem, as far as the item goes.
ActiveItem ==
    LET me == [avatars[k] EXCEPT !.mEffectItemCount = @ + 1]
        c == me.mClient
        item == me.mUsingItem[me.mActiveQueue[activeItemIndex]]
        sum(t) == t["Normal"] + t["Advanced"] + t["Top"] + t["Supreme"]
        fight == [me |-> me, opponents |-> avatars[Opponent(k)], ticket |-> 0,
                  isValid |-> IsValidClientInThisRoom(c),
                  sumTicket |-> IF c = NoClient THEN 0 ELSE sum(tickets[c])]
    IN /\ At("use", "heal")
       /\ \E f \in Active(item, fight) :
             /\ avatars' = [avatars EXCEPT ![k] = f.me, ![Opponent(k)] = f.opponents]
             /\ tickets' = IF f.ticket = 0 THEN tickets
                           ELSE [tickets EXCEPT ![c]["Normal"] = @ + f.ticket]
       /\ UNCHANGED <<part, battleLoop, activeItemIndex, k, mCreepRound, roomVars,
                      slotVars, disconnectNetworkIdList, mHp, hurt, rewarded>>

\* Mutants: who has paid pays again; the winner pays, too.
ToDamageCharacter_Again(av, i, isNotFinishBattle) ==
    /\ ~av[i].mIsGhost
    /\ isNotFinishBattle \/ av[i].mHp = 0
    /\ IsValidClientInThisRoom(av[i].mClient)

ToDamageCharacter_Both(av, i, isNotFinishBattle) ==
    /\ ~av[i].mIsGhost /\ ~av[i].mIsCharacterDamage
    /\ IsValidClientInThisRoom(av[i].mClient)

(***************************************************************************)
(* The end of a fight, tested after each thing that may bring an avatar    *)
(* down.  ToDamageCharacter: the loser, if it is no ghost, has not paid    *)
(* yet, and is still there, loses hp; it is disconnected if none is left.  *)
(***************************************************************************)
ToDamageCharacter(av, i, isNotFinishBattle) ==
    /\ ~av[i].mIsGhost /\ ~av[i].mIsCharacterDamage
    /\ isNotFinishBattle \/ av[i].mHp = 0
    /\ IsValidClientInThisRoom(av[i].mClient)

Settle(av, P, isNotFinishBattle, damage, finish) ==
    LET losers == {i \in P : ToDamageCharacter(av, i, isNotFinishBattle)}
        mine(c) == {i \in losers : av[i].mClient = c}
        hp == [c \in Client |-> IF mine(c) = {} THEN mHp[c]
                                ELSE AtLeast0(mHp[c] - damage[CHOOSE i \in mine(c) : TRUE])]
    IN /\ mHp' = hp
       /\ hurt' = [c \in Client |-> hurt[c] + Cardinality(mine(c))]
       /\ disconnectNetworkIdList' = disconnectNetworkIdList \cup
             {c \in {av[i].mClient : i \in P} : IsValidClientInThisRoom(c) /\ hp[c] = 0}
       /\ avatars' = [i \in DOMAIN av |->
             IF i \in P THEN [av[i] EXCEPT !.mIsCharacterDamage = @ \/ i \in losers,
                                           !.mIsFinish = @ \/ finish]
                        ELSE av[i]]

GetCreepRewardTicketType ==
    CASE mCreepRound \in 0..2 -> {<<"Advanced", 1>>}
      [] mCreepRound = 3      -> {<<"Advanced", 3>>}
      [] mCreepRound = 4      -> {<<"Top", 2>>}
      [] mCreepRound = 5      -> {<<"Top", 3>>}
      [] OTHER                -> {<<"Supreme", 1>>, <<"Top", 4>>}

NoReward == UNCHANGED <<tickets, rewarded>>

\* i is the player's avatar.
CreepReward(av, i) ==
    LET c == av[i].mClient IN
    IF ~av[i].mIsFinish /\ av[i + 1].mHp = 0 /\ IsValidClientInThisRoom(c)
    THEN \E r \in GetCreepRewardTicketType :
            /\ tickets' = [tickets EXCEPT ![c][r[1]] = @ + r[2]]
            /\ rewarded' = [rewarded EXCEPT ![c] = @ + 1]
    ELSE NoReward

FinishIfDown(av, i) ==
    LET P == {i, Opponent(i)}
        damage == [j \in P |-> GetDamage(av[Opponent(j)]) + 2 * Round]
    IN IF \E j \in P : av[j].mHp = 0
       THEN /\ Settle(av, P, FALSE, damage, TRUE)
            /\ IF IsBattle THEN NoReward ELSE CreepReward(av, i - (i % 2))
       ELSE /\ avatars' = av
            /\ UNCHANGED <<disconnectNetworkIdList, mHp, hurt, tickets, rewarded>>

\* Mutant: the heal for each item does not ask for hp.
EffectHeal_Revives ==
    LET me == avatars[k]
        healed == IF me.mEffectHeal > 0 THEN ToHeal(me.mEffectHeal, me) ELSE me
    IN /\ At("heal", "counter")
       /\ FinishIfDown([avatars EXCEPT ![k] = healed], k)
       /\ UNCHANGED <<part, battleLoop, activeItemIndex, k, mCreepRound, roomVars, slotVars>>

\* The end of ActiveItem, and the first test.
EffectHeal ==
    LET me == avatars[k]
        healed == IF me.mEffectHeal > 0 /\ me.mHp > 0 THEN ToHeal(me.mEffectHeal, me) ELSE me
    IN /\ At("heal", "counter")
       /\ FinishIfDown([avatars EXCEPT ![k] = healed], k)
       /\ UNCHANGED <<part, battleLoop, activeItemIndex, k, mCreepRound, roomVars, slotVars>>

\* The counter attack, the bleeding, the second test; then the next avatar.
Counter(av) ==
    LET bled == IF av[k].mIsFinish \/ av[Opponent(k)].mIsFinish THEN av
                ELSE [av EXCEPT ![k] = EffectBleeding(@)]
        next == NextFrom(av, k + 2)
    IN /\ At("counter", IF next = avatarCount THEN "kick" ELSE "use")
       /\ FinishIfDown(bled, k)
       /\ k' = next
       /\ UNCHANGED <<part, battleLoop, activeItemIndex, mCreepRound, roomVars, slotVars>>

WasAttack ==
    IsAttack(avatars[k].mUsingItem[avatars[k].mActiveQueue[activeItemIndex]].type)

Countered ==
    LET f == EffectCounter([me |-> avatars[k], opponents |-> avatars[Opponent(k)]])
    IN IF WasAttack
       THEN [avatars EXCEPT ![k] = f.me, ![Opponent(k)] = f.opponents]
       ELSE avatars

BattleCounter == IsBattle /\ Counter(Countered)

\* A creep has no counter attack to its name, and is not asked for one.
CreepCounter == ~IsBattle /\ Counter(IF k % 2 = 1 THEN Countered ELSE avatars)
-----------------------------------------------------------------------------
(***************************************************************************)
(* The packet has been sent and the thread has slept; those in the list    *)
(* are disconnected.                                                       *)
(***************************************************************************)
Kick(c) ==
    /\ pc = "kick" /\ c \in disconnectNetworkIdList
    /\ disconnectNetworkIdList' = disconnectNetworkIdList \ {c}
    /\ Disconnect(c)
    /\ UNCHANGED <<threadVars, avatars, hurt, rewarded>>

\* After Kick, wherever the thread is: what comes next, and with which avatar.
Then(from, to) ==
    /\ disconnectNetworkIdList = {} /\ part = from
    /\ At("kick", to)
    /\ UNCHANGED <<mCreepRound, roomVars, slotVars, playVars>>

EndEven ==
    /\ Then("even", IF AllFinished THEN "finish" ELSE "use")
    /\ part' = "odd" /\ k' = NextFrom(avatars, 1)
    /\ UNCHANGED <<battleLoop, activeItemIndex>>

EndOdd ==
    LET more == activeItemIndex + 1 < MAX_USING_ITEM_COUNT IN
    /\ Then("odd", IF AllFinished THEN "finish" ELSE IF ~GoesOn THEN "over"
                   ELSE IF more THEN "use" ELSE "cycle")
    /\ part' = IF more THEN "even" ELSE "cycle"
    /\ activeItemIndex' = IF more THEN activeItemIndex + 1 ELSE 0
    /\ k' = NextFrom(avatars, 0)
    /\ UNCHANGED battleLoop

\* Mutant: the cycles are not counted.
EndCycle_NotCounted ==
    /\ Then("cycle", "loop")
    /\ UNCHANGED <<part, k, activeItemIndex, battleLoop>>

EndCycle ==
    /\ Then("cycle", "loop")
    /\ battleLoop' = battleLoop + 1
    /\ UNCHANGED <<part, k, activeItemIndex>>

\* Mutant: those who lose because time is up are not disconnected.
EndTime_NoKick ==
    /\ part = "timeout" /\ At("kick", "finish")
    /\ disconnectNetworkIdList' = {}
    /\ UNCHANGED <<part, battleLoop, activeItemIndex, k, mCreepRound, roomVars, slotVars,
                   avatars, mHp, tickets, hurt, rewarded>>

\* Mutant: the loop is not left.
EndTime_NoBreak ==
    /\ Then("timeout", "loop")
    /\ UNCHANGED <<part, battleLoop, activeItemIndex, k>>

EndTime ==
    /\ Then("timeout", "finish")
    /\ UNCHANGED <<part, battleLoop, activeItemIndex, k>>

\* The bombs go off, and what lasts for a cycle ends.
Cycle ==
    LET next == NextFrom(avatars, k + 2)
        over(a) == InitCycle(EffectBomb(a))
    IN /\ At("cycle", IF next = avatarCount THEN "kick" ELSE "cycle")
       /\ FinishIfDown([avatars EXCEPT ![k] = over(@), ![Opponent(k)] = over(@)], k)
       /\ k' = next
       /\ UNCHANGED <<part, battleLoop, activeItemIndex, mCreepRound, roomVars, slotVars>>

BattleCycle == IsBattle /\ Cycle
CreepCycle  == ~IsBattle /\ Cycle

\* Time is up: in an undecided fight everybody loses.
Timeout(P) ==
    LET next == NextFrom(avatars, k + 2) IN
    /\ At("timeout", IF next = avatarCount THEN "kick" ELSE "timeout")
    /\ Settle(avatars, P, TRUE, [i \in P |-> 10 + 2 * Round], FALSE)
    /\ k' = next
    /\ UNCHANGED <<part, battleLoop, activeItemIndex, mCreepRound, roomVars, slotVars,
                   tickets, rewarded>>

BattleTimeout == IsBattle /\ Timeout({k, Opponent(k)})
CreepTimeout  == ~IsBattle /\ Timeout({k})

\* FinishBattle: the last player is disconnected, too.
FinishBattle ==
    /\ pc = "finish"
    /\ pc' = IF mSize = 1 THEN "last" ELSE "end"
    /\ lastClientNetworkID' = IF mSize = 1 THEN cells[1] ELSE NoClient
    /\ UNCHANGED <<stage, part, battleLoop, activeItemIndex, k, mBattleOpponents,
                   mCreepRound, roomVars, slotVars, playVars>>

KickLast ==
    /\ At("last", "end")
    /\ Disconnect(lastClientNetworkID)
    /\ UNCHANGED <<part, battleLoop, activeItemIndex, k, mCreepRound, avatars,
                   disconnectNetworkIdList, hurt, rewarded>>

NextStage ==
    /\ GoesOn /\ At("end", "goOn")
    /\ UNCHANGED <<part, battleLoop, activeItemIndex, k, mCreepRound, roomVars,
                   slotVars, playVars>>
-----------------------------------------------------------------------------
RoomThread ==
    \/ GiveUp \/ BattleEnter \/ CreepEnter \/ CreepSetAvatar
    \/ BattleFitment \/ CreepFitment \/ BattleCheck \/ CreepCheck
    \/ BattleBeginCycle \/ CreepBeginCycle \/ TimeIsUp
    \/ ActiveItem \/ EffectHeal \/ BattleCounter \/ CreepCounter
    \/ EndEven \/ EndOdd \/ BattleCycle \/ CreepCycle \/ EndCycle
    \/ BattleTimeout \/ CreepTimeout \/ EndTime
    \/ FinishBattle \/ KickLast \/ NextStage
    \/ \E c \in Client : Kick(c)

Next == RoomThread \/ \E c \in Client : Leave(c)

\* The thread runs; nobody has to leave.
Spec == Init /\ [][Next]_vars /\ WF_vars(RoomThread)
-----------------------------------------------------------------------------
(***************************************************************************)
(* The two avatars of a fight are finished together: the loops ask only    *)
(* one of them (the even ones, and in a creep stage's second half the      *)
(* creep), and would let a finished avatar be hit.                         *)
(***************************************************************************)
PairEndsTogether ==
    \A i \in DOMAIN avatars : avatars[i].mIsFinish = avatars[Opponent(i)].mIsFinish

(***************************************************************************)
(* Who is down stays down: neither the heal for each item, nor a counter   *)
(* heal, nor the end of the cycle brings an avatar with hp 0 back before   *)
(* the test that ends its fight.                                           *)
(***************************************************************************)
Fighting == pc \in {"use", "heal", "counter", "kick", "cycle", "timeout"}

NoRevival ==
    [][\A i \in DOMAIN avatars :
          Fighting /\ avatars[i].mHp = 0 => avatars'[i].mHp = 0]_vars

(***************************************************************************)
(* A stage costs a player hp at most once, and gives it at most one        *)
(* reward, however often its fight is tested.  The exception: a player     *)
(* that left while CreepStage read the list, so that the list was erased   *)
(* from and somebody was read twice.                                       *)
(***************************************************************************)
Own(c) == {i \in DOMAIN avatars : avatars[i].mClient = c /\ ~avatars[i].mIsGhost}

OncePerStage ==
    \A c \in Client : (hurt[c] > 1 \/ rewarded[c] > 1) =>
        /\ ~IsBattle /\ mSize < Len(cells)
        /\ Cardinality(Own(c)) > 1

(***************************************************************************)
(* When the fights are over, exactly those players have lost hp that have  *)
(* been brought down, or whose fight was undecided when time was up; who   *)
(* brought down a creep has a reward, also when it went down itself.       *)
(***************************************************************************)
LosersPay ==
    pc = "finish" =>
    \A c \in Client : mStatus[c] = "playing" =>
    \A i \in Own(c) :
        /\ avatars[i].mIsCharacterDamage <=>
             (avatars[i].mHp = 0 \/ ~avatars[i].mIsFinish)
        /\ ~IsBattle => (rewarded[c] > 0 <=> \E j \in Own(c) : avatars[j + 1].mHp = 0)

(***************************************************************************)
(* Nobody without hp is left when the next stage begins: whoever lost its  *)
(* last hp has been disconnected, as the fight's loser, as its winner      *)
(* (both may go down), or when time was up.                                *)
(***************************************************************************)
DefeatedAreGone ==
    pc \in {"finish", "goOn"} =>
        \A c \in Client : mStatus[c] = "playing" => mHp[c] > 0

(***************************************************************************)
(* The stage comes to an end.                                              *)
(***************************************************************************)
StageEnds == <>(pc \in {"goOn", "over"})

(***************************************************************************)
(* How far the thread has come: which part of the stage, which cycle,      *)
(* which item, which half of a turn, which avatar.                         *)
(***************************************************************************)
Phase == CASE pc = "enter" -> 0
           [] pc = "setup" -> 1
           [] pc = "fitment" -> 2
           [] pc = "check" -> 3
           [] pc \in {"loop", "use", "heal", "counter", "cycle"} -> 4
           [] pc = "kick" /\ part # "timeout" -> 4
           [] pc = "kick" /\ part = "timeout" -> 5
           [] pc = "timeout" -> 5
           [] pc = "finish" -> 6
           [] pc = "last" -> 7
           [] pc = "end" -> 8
           [] OTHER -> 9

Section == IF pc = "loop" THEN 0 ELSE IF part = "cycle" THEN 2 ELSE 1
Half    == IF part = "odd" THEN 1 ELSE 0
Turn    == CASE pc = "heal" -> 1 [] pc = "counter" -> 2 [] OTHER -> 0

Place == <<Phase, battleLoop, Section, activeItemIndex, Half, k, Turn>>

Before(p, q) == \E i \in 1..7 : p[i] < q[i] /\ \A j \in 1..i - 1 : p[j] = q[j]

(***************************************************************************)
(* The stage only goes forward: each step of its thread brings it to a     *)
(* later place, but for the disconnection of a player on the list, which   *)
(* has one less then, and the steps of others leave it where it is.  No    *)
(* finished avatar, no player that leaves and no empty list makes a loop   *)
(* turn without an end, which is what StageEnds rests on.                  *)
(***************************************************************************)
OnlyForward ==
    [][\/ Before(Place, Place')
       \/ Place' = Place /\ \E c \in Client : Leave(c) \/ Kick(c)]_vars
=============================================================================
