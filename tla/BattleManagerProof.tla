------------------------- MODULE BattleManagerProof -------------------------
(***************************************************************************)
(* For every number of players and of rounds: a round is a pairing in      *)
(* which everybody who plays fights, players agree on how often they have  *)
(* fought each other, and only players are matched.  A round is then what  *)
(* Stage assumes of the opponents it is given.                             *)
(***************************************************************************)
EXTENDS BattleManager, FiniteSetTheorems, TLAPS

Known == mUnMatchingClients \cup mMatchingClients

(***************************************************************************)
(* Who is where.  The room's thread exists once the worker is done; a      *)
(* player of the room is known to the battle manager, or SetClients has    *)
(* still to come to it; and whoever is known plays or has left too early.  *)
(***************************************************************************)
PlayersInv ==
    /\ thread # "none" => worker = "done"
    /\ worker = "done" => toSet = {}
    /\ thread # "matching" => mMatchingClients = {}
    /\ worker \in {"set", "done"} =>
          /\ mClients \subseteq Known \cup toSet
          /\ Known \cup toSet \subseteq mClients \cup late
    /\ worker = "clear" => toSet = Client /\ Client \subseteq mClients \cup late

(***************************************************************************)
(* The pairs made so far are those of the players already matched, and     *)
(* there is no ghost in them before the last turn of the loop.             *)
(***************************************************************************)
PairsInv ==
    /\ RoundIsPairing
    /\ thread = "matching" => \A c \in Client : InFight(c) <=> c \in mMatchingClients
    /\ thread = "matching" /\ mUnMatchingClients # {} =>
          \A i \in Fights, a \in {1, 2} : ~mBattleOpponents[i][a].ghost
    /\ thread = "battle" => \A c \in mUnMatchingClients : InFight(c)

(***************************************************************************)
(* Everybody known knows everybody else who did not leave too early; and   *)
(* nobody has fought before the last one is known.                         *)
(***************************************************************************)
CountsInv ==
    /\ worker \in {"set", "done"} =>
          \A c \in Known, d \in (Known \cup toSet) \ late :
              c # d => d \in DOMAIN mBattleInfos[c]
    /\ worker = "set" => \A c \in Known : \A d \in DOMAIN mBattleInfos[c] :
                             mBattleInfos[c][d] = 0
    /\ CountsAgree

BattleInv == TypeOK /\ PlayersInv /\ PairsInv /\ CountsInv

LEMMA InitBattle == Init => BattleInv
<1> SUFFICES ASSUME Init PROVE BattleInv
  OBVIOUS
<1>1. TypeOK
  BY DEF Init, TypeOK
<1>2. PlayersInv
  BY DEF Init, PlayersInv, Known
<1>3. PairsInv
  BY DEF Init, PairsInv, RoundIsPairing, Fights
<1>4. CountsInv
  BY DEF Init, CountsInv, CountsAgree
<1> QED BY <1>1, <1>2, <1>3, <1>4 DEF BattleInv
-----------------------------------------------------------------------------
(***************************************************************************)
(* Opening the room.                                                       *)
(***************************************************************************)
LEMMA OpenRoomBattle ==
    ASSUME BattleInv, OpenRoom
    PROVE  BattleInv'
<1> USE DEF BattleInv, TypeOK, PlayersInv, Known, roomVars, workerVars
<1>1. CASE AddClients
  <2>1. TypeOK' /\ PlayersInv'
    BY <1>1 DEF AddClients
  <2>2. PairsInv'
    BY <1>1 DEF AddClients, PairsInv, RoundIsPairing, Fights, InFight
  <2>3. CountsInv'
    BY <1>1 DEF AddClients, CountsInv, CountsAgree
  <2> QED BY <2>1, <2>2, <2>3
<1>2. CASE ClearClients
  <2>1. TypeOK' /\ PlayersInv'
    BY <1>2 DEF ClearClients
  <2>2. PairsInv'
    BY <1>2 DEF ClearClients, PairsInv, RoundIsPairing, Fights, InFight
  <2>3. CountsInv'
    BY <1>2 DEF ClearClients, CountsInv, CountsAgree
  <2> QED BY <2>1, <2>2, <2>3
<1>3. CASE StartThread
  <2>1. TypeOK' /\ PlayersInv'
    BY <1>3 DEF StartThread
  <2>2. PairsInv'
    BY <1>3 DEF StartThread, PairsInv, RoundIsPairing, Fights, InFight
  <2>3. \A c, d \in Client : GetBattleCount(c, d)' = GetBattleCount(c, d)
    BY <1>3 DEF StartThread, GetBattleCount
  <2>4. \A c, d \in Known \ late : c # d => GetBattleCount(c, d) = 0
    BY <1>3 DEF StartThread, CountsInv, GetBattleCount
  <2>5. CountsInv'
    BY <1>3, <2>3, <2>4 DEF StartThread, CountsInv, CountsAgree
  <2> QED BY <2>1, <2>2, <2>5
<1>4. ASSUME NEW c \in Client, SetClients(c) PROVE BattleInv'
  <2> DEFINE others == [d \in Client \ {c} |-> 0]
  <2>1. /\ DOMAIN mBattleInfos' = Client
        /\ \A d \in Client : mBattleInfos'[d] = IF d = c THEN others ELSE mBattleInfos[d]
    BY <1>4 DEF SetClients
  <2>2. TypeOK'
    BY <1>4, <2>1 DEF SetClients
  <2>3. PlayersInv'
    BY <1>4 DEF SetClients
  <2>4. PairsInv'
    BY <1>4 DEF SetClients, PairsInv, RoundIsPairing, Fights, InFight
  <2>5. CountsInv'
    BY <1>4, <2>1 DEF SetClients, CountsInv, CountsAgree
  <2> QED BY <2>2, <2>3, <2>4, <2>5
<1> QED BY <1>1, <1>2, <1>3, <1>4 DEF OpenRoom

(***************************************************************************)
(* A player leaves, while nobody is being matched.                         *)
(***************************************************************************)
LEMMA RemoveClientBattle ==
    ASSUME BattleInv, NEW c \in Client, RemoveClient(c)
    PROVE  BattleInv'
<1> USE DEF BattleInv, TypeOK, PlayersInv, Known, roomVars, workerVars
<1>1. /\ DOMAIN mBattleInfos' = Client
      /\ mBattleInfos'[c] = << >>
      /\ \A d \in Client \ {c} : mBattleInfos'[d] =
            [e \in DOMAIN mBattleInfos[d] \ {c} |-> mBattleInfos[d][e]]
  BY DEF RemoveClient
<1>2. TypeOK'
  BY <1>1 DEF RemoveClient
<1>3. PlayersInv'
  BY DEF RemoveClient
<1>4. PairsInv'
  BY DEF RemoveClient, PairsInv, RoundIsPairing, Fights, InFight
<1>5. CountsInv'
  <2>1. \A a \in Client \ {c}, b \in Client \ {c} :
           GetBattleCount(a, b)' = GetBattleCount(a, b)
    BY <1>1, ZenonT(40) DEF GetBattleCount
  <2>2. c \notin Known' /\ Known' \subseteq Known /\ late \subseteq late'
    BY DEF RemoveClient
  <2>3. CountsAgree'
    BY <2>1, <2>2 DEF RemoveClient, CountsInv, CountsAgree
  <2>4. ASSUME worker' \in {"set", "done"}, NEW a \in Known',
               NEW b \in (Known' \cup toSet') \ late', a # b
        PROVE  b \in DOMAIN mBattleInfos'[a]
    <3>1. b # c
      BY <2>2, <2>4 DEF RemoveClient
    <3>2. b \in DOMAIN mBattleInfos[a]
      BY <2>2, <2>4 DEF RemoveClient, CountsInv
    <3>3. a \in Client \ {c}
      BY <2>2, <2>4
    <3>4. DOMAIN mBattleInfos'[a] = DOMAIN mBattleInfos[a] \ {c}
      BY <1>1, <3>3
    <3> QED BY <3>1, <3>2, <3>4
  <2>5. ASSUME worker' = "set", NEW a \in Known', NEW b \in DOMAIN mBattleInfos'[a]
        PROVE  mBattleInfos'[a][b] = 0
    BY <1>1, <2>2, <2>5 DEF RemoveClient, CountsInv
  <2> QED BY <2>3, <2>4, <2>5 DEF CountsInv
<1> QED BY <1>2, <1>3, <1>4, <1>5
-----------------------------------------------------------------------------
(***************************************************************************)
(* Two players are matched.                                                *)
(***************************************************************************)
LEMMA FighterFields ==
    ASSUME NEW c \in Client
    PROVE  /\ Real(c) \in Fighter /\ Real(c).client = c /\ ~Real(c).ghost
           /\ Ghost(c) \in Fighter /\ Ghost(c).client = c /\ Ghost(c).ghost
<1>1. Real(c) \in Fighter
  BY DEF Fighter, Real
<1>2. Ghost(c) \in Fighter
  BY DEF Fighter, Ghost
<1>3. Real(c).client = c /\ Ghost(c).client = c
  BY DEF Real, Ghost
<1>4. ~Real(c).ghost
  BY DEF Real
<1>5. Ghost(c).ghost
  BY DEF Ghost
<1> QED BY <1>1, <1>2, <1>3, <1>4, <1>5

LEMMA FightAppends ==
    ASSUME TypeOK, NEW f \in Fighter, NEW g \in Fighter, Fight(f, g)
    PROVE  /\ mBattleOpponents' \in Seq(Fighter \X Fighter)
           /\ Fights' = 1..Len(mBattleOpponents) + 1
           /\ Fights = 1..Len(mBattleOpponents)
           /\ Len(mBattleOpponents) \in Nat
           /\ \A i \in Fights : mBattleOpponents'[i] = mBattleOpponents[i]
           /\ \/ mBattleOpponents'[Len(mBattleOpponents) + 1] = <<f, g>>
              \/ mBattleOpponents'[Len(mBattleOpponents) + 1] = <<g, f>>
<1> DEFINE Pairs == Fighter \X Fighter
           s == mBattleOpponents
<1>1. s \in Seq(Pairs) /\ <<f, g>> \in Pairs /\ <<g, f>> \in Pairs
  BY DEF TypeOK
<1>2. PICK e \in Pairs : /\ e = <<f, g>> \/ e = <<g, f>>
                         /\ s' = Append(s, e)
  BY <1>1 DEF Fight
<1> HIDE DEF Pairs
<1>3. /\ Append(s, e) \in Seq(Pairs)
      /\ Len(Append(s, e)) = Len(s) + 1 /\ Len(s) \in Nat
      /\ \A i \in 1..Len(s) : Append(s, e)[i] = s[i]
      /\ Append(s, e)[Len(s) + 1] = e
      /\ DOMAIN s = 1..Len(s) /\ DOMAIN Append(s, e) = 1..Len(Append(s, e))
  BY <1>1, <1>2
<1> QED BY <1>2, <1>3 DEF Fights, Pairs

\* One more fight, between a player that has none yet and somebody else.
LEMMA FightIsPairing ==
    ASSUME TypeOK, RoundIsPairing, NEW c \in Client, NEW m \in Client, c # m,
           NEW h \in {Real(m), Ghost(m)},
           Fight(Real(c), h), ~InFight(c), ~(h = Real(m) /\ InFight(m)),
           \A i \in Fights, a \in {1, 2} : ~mBattleOpponents[i][a].ghost
    PROVE  /\ RoundIsPairing'
           /\ \A d \in Client : InFight(d)' <=> InFight(d) \/ d = c \/ h = Real(d)
<1> DEFINE n == Len(mBattleOpponents) + 1
           pair == mBattleOpponents'[n]
<1>1. Real(c) \in Fighter /\ h \in Fighter
  BY FighterFields
<1>2. /\ Fights' = Fights \cup {n} /\ n \notin Fights
      /\ \A i \in Fights : mBattleOpponents'[i] = mBattleOpponents[i]
      /\ pair = <<Real(c), h>> \/ pair = <<h, Real(c)>>
  BY <1>1, FightAppends
<1> HIDE DEF n
<1>3. /\ \A a \in {1, 2} : pair[a] \in {Real(c), h}
      /\ \E a \in {1, 2} : pair[a] = Real(c)
      /\ \E a \in {1, 2} : pair[a] = h
      /\ pair[1].client # pair[2].client
      /\ pair[1].ghost => ~pair[2].ghost
  BY <1>2, FighterFields
<1> HIDE DEF pair
<1>4. \A i \in Fights, a \in {1, 2} :
         mBattleOpponents[i][a] # Real(c) /\ mBattleOpponents[i][a] # h
  BY FighterFields DEF InFight
<1>5. RoundIsPairing'
  <2>1. ASSUME NEW i \in Fights', NEW a \in {1, 2}, NEW b \in {1, 2}, a # b
        PROVE  /\ mBattleOpponents'[i][a].client # mBattleOpponents'[i][b].client
               /\ mBattleOpponents'[i][a].ghost => ~mBattleOpponents'[i][b].ghost
    BY <1>2, <1>3, <2>1 DEF RoundIsPairing, pair
  <2>2. ASSUME NEW i \in Fights', NEW j \in Fights', NEW a \in {1, 2}, NEW b \in {1, 2},
               mBattleOpponents'[i][a] = mBattleOpponents'[j][b]
        PROVE  i = j
    BY <1>2, <1>3, <1>4, <2>2 DEF RoundIsPairing, pair
  <2>3. ASSUME NEW i \in Fights', NEW j \in Fights', NEW a \in {1, 2}, NEW b \in {1, 2},
               mBattleOpponents'[i][a].ghost, mBattleOpponents'[j][b].ghost
        PROVE  i = j
    BY <1>2, <2>3
  <2> QED BY <2>1, <2>2, <2>3 DEF RoundIsPairing
<1>6. \A d \in Client : InFight(d)' <=> InFight(d) \/ d = c \/ h = Real(d)
  <2>1. \A d \in Client : Real(d) = Real(c) <=> d = c
    BY FighterFields
  <2> QED BY <1>2, <1>3, <2>1 DEF InFight, pair
<1> QED BY <1>5, <1>6

LEMMA AddBattleCountAdds ==
    ASSUME TypeOK, NEW c \in Client, NEW d \in Client
    PROVE  /\ DOMAIN AddBattleCount(d, c) = DOMAIN mBattleInfos[d]
           /\ AddBattleCount(d, c) \in [DOMAIN mBattleInfos[d] -> Nat]
           /\ \A e \in DOMAIN mBattleInfos[d] :
                 AddBattleCount(d, c)[e] =
                    IF e = c THEN mBattleInfos[d][e] + 1 ELSE mBattleInfos[d][e]
BY DEF TypeOK, AddBattleCount

LEMMA MatchTwoBattle ==
    ASSUME BattleInv, NEW c \in Client, NEW m \in Client, MatchTwo(c, m)
    PROVE  BattleInv'
<1> USE DEF BattleInv, roomVars, workerVars
<1>1. /\ thread = "matching" /\ c # m
      /\ c \in mUnMatchingClients /\ m \in mUnMatchingClients
      /\ Fight(Real(c), Real(m))
      /\ mMatchingClients' = mMatchingClients \cup {c, m}
      /\ mUnMatchingClients' = mUnMatchingClients \ {c, m}
      /\ UNCHANGED <<mClients, late, worker, toSet, thread, round>>
  BY DEF MatchTwo, Least
<1>2. /\ DOMAIN mBattleInfos' = Client
      /\ mBattleInfos'[c] = AddBattleCount(c, m)
      /\ mBattleInfos'[m] = AddBattleCount(m, c)
      /\ \A d \in Client \ {c, m} : mBattleInfos'[d] = mBattleInfos[d]
  BY <1>1 DEF MatchTwo, TypeOK
<1>3. \A d \in Client : /\ DOMAIN mBattleInfos'[d] = DOMAIN mBattleInfos[d]
                        /\ mBattleInfos'[d] \in [DOMAIN mBattleInfos'[d] -> Nat]
  <2> SUFFICES ASSUME NEW d \in Client
               PROVE  /\ DOMAIN mBattleInfos'[d] = DOMAIN mBattleInfos[d]
                      /\ mBattleInfos'[d] \in [DOMAIN mBattleInfos'[d] -> Nat]
    OBVIOUS
  <2>1. CASE d = c
    BY <1>2, <2>1, AddBattleCountAdds
  <2>2. CASE d = m
    BY <1>2, <2>2, AddBattleCountAdds
  <2>3. CASE d \notin {c, m}
    BY <1>2, <2>3 DEF TypeOK
  <2> QED BY <2>1, <2>2, <2>3
<1>4. TypeOK'
  <2>1. mBattleOpponents' \in Seq(Fighter \X Fighter)
    BY <1>1, FightAppends, FighterFields
  <2> QED BY <1>1, <1>2, <1>3, <2>1 DEF TypeOK
<1>5. PlayersInv'
  BY <1>1 DEF PlayersInv, Known
<1>6. PairsInv'
  <2>1. ~InFight(c) /\ ~InFight(m)
    BY <1>1 DEF PairsInv, PlayersInv, TypeOK
  <2>2. \A i \in Fights, a \in {1, 2} : ~mBattleOpponents[i][a].ghost
    BY <1>1 DEF PairsInv
  <2>3. /\ RoundIsPairing'
        /\ \A d \in Client : InFight(d)' <=> InFight(d) \/ d = c \/ Real(m) = Real(d)
    BY <1>1, <2>1, <2>2, FightIsPairing DEF PairsInv
  <2>4. \A d \in Client : InFight(d)' <=> d \in mMatchingClients'
    BY <1>1, <2>3, FighterFields DEF PairsInv
  <2>5. \A i \in Fights', a \in {1, 2} : ~mBattleOpponents'[i][a].ghost
    BY <1>1, <2>2, FightAppends, FighterFields
  <2> QED BY <1>1, <2>3, <2>4, <2>5 DEF PairsInv
<1>7. CountsInv'
  <2>1. Known' = Known
    BY <1>1 DEF Known
  <2>2. worker = "done"
    BY <1>1 DEF PlayersInv
  <2>3. \A d \in Known, e \in (Known \cup toSet) \ late :
           d # e => e \in DOMAIN mBattleInfos'[d]
    BY <1>3, <2>2 DEF CountsInv, Known, TypeOK
  <2>4. ASSUME NEW d \in Known \ late, NEW e \in Known \ late, d # e
        PROVE  GetBattleCount(d, e)' = GetBattleCount(e, d)'
    <3>1. /\ d \in Client /\ e \in Client
          /\ e \in DOMAIN mBattleInfos[d] /\ d \in DOMAIN mBattleInfos[e]
      BY <2>2, <2>4 DEF CountsInv, Known, TypeOK
    <3>2. mBattleInfos[d][e] = mBattleInfos[e][d]
      BY <2>2, <2>4, <3>1 DEF CountsInv, CountsAgree, Known, GetBattleCount
    <3>3. mBattleInfos'[d][e] = mBattleInfos'[e][d]
      BY <1>1, <1>2, <2>4, <3>1, <3>2, AddBattleCountAdds
    <3> QED BY <1>3, <3>1, <3>3 DEF GetBattleCount
  <2>5. CountsAgree'
    BY <1>1, <2>1, <2>4 DEF CountsAgree, Known
  <2> QED BY <1>1, <2>1, <2>2, <2>3, <2>5 DEF CountsInv
<1> QED BY <1>4, <1>5, <1>6, <1>7

LEMMA MatchGhostBattle ==
    ASSUME BattleInv, NEW c \in Client, NEW m \in Client, MatchGhost(c, m)
    PROVE  BattleInv'
<1> USE DEF BattleInv, roomVars, workerVars
<1>1. /\ thread = "matching" /\ mUnMatchingClients = {c}
      /\ m \in mMatchingClients
      /\ Fight(Real(c), Ghost(m))
      /\ mMatchingClients' = mMatchingClients \cup {c}
      /\ mUnMatchingClients' = {}
      /\ UNCHANGED <<mClients, late, worker, toSet, thread, round, mBattleInfos>>
  BY DEF MatchGhost, Least
<1>2. c # m
  BY <1>1 DEF PlayersInv, TypeOK
<1>3. TypeOK'
  <2>1. mBattleOpponents' \in Seq(Fighter \X Fighter)
    BY <1>1, FightAppends, FighterFields
  <2> QED BY <1>1, <2>1 DEF TypeOK
<1>4. PlayersInv'
  BY <1>1 DEF PlayersInv, Known
<1>5. PairsInv'
  <2>1. ~InFight(c)
    BY <1>1 DEF PairsInv, PlayersInv, TypeOK
  <2>2. \A d \in Client : Ghost(m) # Real(d)
    BY FighterFields
  <2>3. \A i \in Fights, a \in {1, 2} : ~mBattleOpponents[i][a].ghost
    BY <1>1 DEF PairsInv
  <2>4. /\ RoundIsPairing'
        /\ \A d \in Client : InFight(d)' <=> InFight(d) \/ d = c \/ Ghost(m) = Real(d)
    BY <1>1, <1>2, <2>1, <2>2, <2>3, FightIsPairing DEF PairsInv
  <2> QED BY <1>1, <2>2, <2>4 DEF PairsInv
<1>6. CountsInv'
  <2>1. Known' = Known
    BY <1>1 DEF Known
  <2> QED BY <1>1, <2>1 DEF CountsInv, CountsAgree, Known, GetBattleCount
<1> QED BY <1>3, <1>4, <1>5, <1>6
-----------------------------------------------------------------------------
LEMMA ProgressBattle ==
    ASSUME BattleInv, ProgressThread
    PROVE  BattleInv'
<1> USE DEF BattleInv, TypeOK, PlayersInv, Known, roomVars, workerVars
<1>1. CASE ApplyRandomBattleOpponent
  <2>1. Fights' = {}
    BY <1>1 DEF ApplyRandomBattleOpponent, Fights
  <2>2. TypeOK' /\ PlayersInv'
    BY <1>1 DEF ApplyRandomBattleOpponent
  <2>3. PairsInv'
    BY <1>1, <2>1 DEF ApplyRandomBattleOpponent, PairsInv, RoundIsPairing, InFight
  <2>4. CountsInv'
    BY <1>1 DEF ApplyRandomBattleOpponent, CountsInv, CountsAgree, GetBattleCount
  <2> QED BY <2>2, <2>3, <2>4
<1>2. CASE AllMatched
  <2>1. TypeOK' /\ PlayersInv'
    BY <1>2 DEF AllMatched
  <2>2. PairsInv'
    BY <1>2 DEF AllMatched, PairsInv, RoundIsPairing, InFight, Fights
  <2>3. CountsInv'
    BY <1>2 DEF AllMatched, CountsInv, CountsAgree, GetBattleCount
  <2> QED BY <2>1, <2>2, <2>3
<1>3. CASE NextStage
  <2>1. TypeOK' /\ PlayersInv'
    BY <1>3 DEF NextStage
  <2>2. PairsInv'
    BY <1>3 DEF NextStage, PairsInv, RoundIsPairing, InFight, Fights
  <2>3. CountsInv'
    BY <1>3 DEF NextStage, CountsInv, CountsAgree, GetBattleCount
  <2> QED BY <2>1, <2>2, <2>3
<1>4. CASE GameOver
  <2>1. TypeOK' /\ PlayersInv'
    BY <1>4 DEF GameOver
  <2>2. PairsInv'
    BY <1>4 DEF GameOver, PairsInv, RoundIsPairing, InFight, Fights
  <2>3. CountsInv'
    BY <1>4 DEF GameOver, CountsInv, CountsAgree
  <2> QED BY <2>1, <2>2, <2>3
<1>5. CASE GetBattleOpponent
  BY <1>2, <1>5, MatchTwoBattle, MatchGhostBattle DEF GetBattleOpponent
<1> QED BY <1>1, <1>3, <1>4, <1>5 DEF ProgressThread

LEMMA NextBattle ==
    ASSUME BattleInv, [Next]_vars
    PROVE  BattleInv'
<1>1. CASE UNCHANGED vars
  BY <1>1 DEF vars, roomVars, workerVars, BattleInv, TypeOK, PlayersInv, Known,
              PairsInv, RoundIsPairing, InFight, Fights, CountsInv, CountsAgree,
              GetBattleCount
<1> QED BY <1>1, OpenRoomBattle, ProgressBattle, RemoveClientBattle DEF Next

LEMMA BattleInvHolds == Spec => []BattleInv
BY InitBattle, NextBattle, PTL DEF Spec

(***************************************************************************)
(* Every variable keeps its type.                                          *)
(***************************************************************************)
THEOREM BattleTypeCorrect == Spec => []TypeOK
<1>1. BattleInv => TypeOK
  BY DEF BattleInv
<1> QED BY BattleInvHolds, <1>1, PTL

(***************************************************************************)
(* However many play, GetBattleOpponent makes a pairing: nobody fights     *)
(* twice or itself, and there is one ghost at most.                        *)
(***************************************************************************)
THEOREM RoundsArePairings == Spec => []RoundIsPairing
<1>1. BattleInv => RoundIsPairing
  BY DEF BattleInv, PairsInv
<1> QED BY BattleInvHolds, <1>1, PTL

(***************************************************************************)
(* Whoever is in the room when a battle begins, and has not left since,    *)
(* has an opponent in it.                                                  *)
(***************************************************************************)
THEOREM PlayersFight == Spec => []EverybodyFights
<1>1. BattleInv => EverybodyFights
  BY DEF BattleInv, PlayersInv, PairsInv, TypeOK, Known, EverybodyFights
<1> QED BY BattleInvHolds, <1>1, PTL

(***************************************************************************)
(* Two players agree on how often they have fought each other.             *)
(***************************************************************************)
THEOREM PlayersAgreeOnCounts == Spec => []CountsAgree
<1>1. BattleInv => CountsAgree
  BY DEF BattleInv, CountsInv
<1> QED BY BattleInvHolds, <1>1, PTL

(***************************************************************************)
(* Nobody who has left is matched, unless it left before SetClients.       *)
(***************************************************************************)
THEOREM OnlyPlayersAreMatched == Spec => []DepartedAreNotMatched
<1>1. BattleInv => DepartedAreNotMatched
  BY DEF BattleInv, PlayersInv, Known, DepartedAreNotMatched
<1> QED BY BattleInvHolds, <1>1, PTL
-----------------------------------------------------------------------------
(***************************************************************************)
(* The pairs as BattleStage has them: one list of fighters, of which it    *)
(* takes two at a time.                                                    *)
(***************************************************************************)
Half(i) == (i + 1) \div 2
Side(i) == IF i % 2 = 1 THEN 1 ELSE 2

TwoByTwo == [i \in 1..2 * Len(mBattleOpponents) |-> mBattleOpponents[Half(i)][Side(i)]]

\* Somebody is matched, and has fought once all are.
SomebodyInv ==
    /\ thread = "matching" => Known # {}
    /\ thread = "battle" => Fights # {}

LEMMA NextSomebody ==
    ASSUME BattleInv, SomebodyInv, [Next]_vars
    PROVE  SomebodyInv'
<1> USE DEF BattleInv, TypeOK, PlayersInv, SomebodyInv, Known, roomVars, workerVars
<1>1. CASE OpenRoom
  BY <1>1 DEF OpenRoom, AddClients, ClearClients, StartThread, SetClients, Fights
<1>2. CASE ApplyRandomBattleOpponent
  <2>1. Cardinality(mClients) >= 2 /\ mClients \subseteq Known /\ thread' = "matching"
    BY <1>2 DEF ApplyRandomBattleOpponent
  <2>2. mClients # {}
    <3> SUFFICES ASSUME mClients = {} PROVE FALSE
      OBVIOUS
    <3>1. Cardinality(mClients) = 0
      BY FS_EmptySet
    <3> QED BY <2>1, <3>1
  <2> QED BY <1>2, <2>1, <2>2 DEF ApplyRandomBattleOpponent
<1>3. ASSUME NEW c \in Client, NEW m \in Client, MatchTwo(c, m) \/ MatchGhost(c, m)
      PROVE  SomebodyInv'
  BY <1>3 DEF MatchTwo, MatchGhost
<1>4. CASE AllMatched
  <2>1. PICK c \in mMatchingClients : InFight(c)
    BY <1>4 DEF AllMatched, PairsInv
  <2>2. Fights # {}
    BY <2>1 DEF InFight
  <2> QED BY <1>4, <2>2 DEF AllMatched, Fights
<1>5. CASE NextStage \/ GameOver
  BY <1>5 DEF NextStage, GameOver
<1>6. ASSUME NEW c \in Client, RemoveClient(c) PROVE SomebodyInv'
  BY <1>6 DEF RemoveClient, Fights
<1>7. CASE UNCHANGED vars
  BY <1>7 DEF vars, Fights
<1> QED BY <1>1, <1>2, <1>3, <1>4, <1>5, <1>6, <1>7
        DEF Next, ProgressThread, GetBattleOpponent

(***************************************************************************)
(* A round can be fought: BattleStage gets a list of fighters of even      *)
(* length, not empty, in which no player stands twice but as a ghost. This *)
(* is what StageAssumption asks of Opponents.                              *)
(***************************************************************************)
THEOREM RoundsCanBeFought ==
    Spec => [](thread = "battle" =>
                  /\ TwoByTwo \in Seq(Fighter) /\ Len(TwoByTwo) > 0 /\ Len(TwoByTwo) % 2 = 0
                  /\ \A i, j \in DOMAIN TwoByTwo :
                        /\ ~TwoByTwo[i].ghost /\ ~TwoByTwo[j].ghost
                        /\ TwoByTwo[i].client = TwoByTwo[j].client
                        => i = j)
<1> DEFINE Playable ==
              /\ TwoByTwo \in Seq(Fighter) /\ Len(TwoByTwo) > 0 /\ Len(TwoByTwo) % 2 = 0
              /\ \A i, j \in DOMAIN TwoByTwo :
                    /\ ~TwoByTwo[i].ghost /\ ~TwoByTwo[j].ghost
                    /\ TwoByTwo[i].client = TwoByTwo[j].client
                    => i = j
<1>1. Init => SomebodyInv
  BY DEF Init, SomebodyInv
<1>2. BattleInv /\ SomebodyInv => (thread = "battle" => Playable)
  <2> SUFFICES ASSUME BattleInv, SomebodyInv, thread = "battle" PROVE Playable
    OBVIOUS
  <2> DEFINE n == Len(mBattleOpponents)
             o == TwoByTwo
  <2>1. /\ mBattleOpponents \in Seq(Fighter \X Fighter) /\ n \in Nat
        /\ \A i \in 1..n, a \in {1, 2} : mBattleOpponents[i][a] \in Fighter
    BY DEF BattleInv, TypeOK
  <2>2. n > 0
    BY <2>1 DEF SomebodyInv, Fights
  <2> HIDE DEF n
  <2>3. \A i \in 1..2 * n : Half(i) \in 1..n /\ Side(i) \in {1, 2}
    BY <2>1 DEF Half, Side
  <2>4. \A i, j \in 1..2 * n : Half(i) = Half(j) /\ Side(i) = Side(j) => i = j
    BY <2>1 DEF Half, Side
  <2>5. \A i \in 1..2 * n : o[i] = mBattleOpponents[Half(i)][Side(i)]
    BY DEF TwoByTwo, n
  <2>6. o \in Seq(Fighter) /\ Len(o) = 2 * n /\ DOMAIN o = 1..2 * n
    <3>1. o = [i \in 1..2 * n |-> mBattleOpponents[Half(i)][Side(i)]]
      BY DEF TwoByTwo, n
    <3>2. \A i \in 1..2 * n : o[i] \in Fighter
      BY <2>1, <2>3, <2>5
    <3>3. 2 * n \in Nat
      BY <2>1
    <3> QED BY <3>1, <3>2, <3>3
  <2>7. 2 * n > 0 /\ (2 * n) % 2 = 0
    BY <2>1, <2>2
  <2>8. ASSUME NEW i \in 1..2 * n, NEW j \in 1..2 * n,
               ~o[i].ghost, ~o[j].ghost, o[i].client = o[j].client
        PROVE  i = j
    <3> DEFINE x == Half(i)
               y == Half(j)
               a == Side(i)
               b == Side(j)
    <3>1. x \in Fights /\ y \in Fights /\ a \in {1, 2} /\ b \in {1, 2}
      BY <2>1, <2>3 DEF Fights, n
    <3>2. mBattleOpponents[x][a] = mBattleOpponents[y][b]
      <4>1. o[i] \in Fighter /\ o[j] \in Fighter
        BY <2>1, <2>3, <2>5
      <4>2. o[i] = o[j]
        BY <2>8, <4>1 DEF Fighter
      <4> QED BY <2>5, <4>2
    <3>3. x = y
      BY <3>1, <3>2 DEF BattleInv, PairsInv, RoundIsPairing
    <3>4. a = b
      <4> SUFFICES ASSUME a # b PROVE FALSE
        OBVIOUS
      <4>1. mBattleOpponents[x][a].client # mBattleOpponents[x][b].client
        BY <3>1 DEF BattleInv, PairsInv, RoundIsPairing
      <4> QED BY <3>2, <3>3, <4>1
    <3> QED BY <2>4, <3>3, <3>4
  <2> QED BY <2>6, <2>7, <2>8
<1> HIDE DEF Playable
<1>3. Spec => [](thread = "battle" => Playable)
  BY <1>1, <1>2, BattleInvHolds, NextSomebody, PTL DEF Spec
<1> QED BY <1>3 DEF Playable
=============================================================================
