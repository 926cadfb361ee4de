--------------------------- MODULE BattleManager ---------------------------
(***************************************************************************)
(* BattleManager.cpp, and what Room.cpp does with it: who fights whom.     *)
(*                                                                         *)
(* The worker that opens a room puts the players into the room's list      *)
(* under cLock, and then hands them to the battle manager one by one with  *)
(* no lock held; a player may leave meanwhile.  Before each battle the     *)
(* room's thread pairs the players, under cLock, each one with somebody it *)
(* has fought least.  With an odd number the last one fights the ghost of  *)
(* a player that has a real opponent as well.                              *)
(*                                                                         *)
(* The lists are shuffled before they are used, so that they are sets      *)
(* here: the first one is any one, and so is the first of several least    *)
(* fought ones.  (Of the ghosts that is a little more than the code can    *)
(* choose.)  How the room is opened, and the resets that race with         *)
(* players leaving, are in Room.                                           *)
(***************************************************************************)
EXTENDS Naturals, Sequences, FiniteSets

CONSTANTS Client,     \* the players of the game
          MaxRound    \* bound: the battles of a game

ASSUME BattleAssumption == MaxRound \in Nat

VARIABLES
    mClients,             \* the room's list
    toSet,                \* the players SetClients has still to come to
    worker,               \* the worker that opens the room
    mUnMatchingClients, mMatchingClients,
    mBattleInfos,         \* of who is in a list: its battles with each one it knows
    mBattleOpponents,     \* the pairs of the round
    thread,               \* where the room's thread is
    round,
    late        \* ghost: left before SetClients came to them

roomVars   == <<mClients, late>>
workerVars == <<worker, toSet>>
vars == <<roomVars, workerVars, mUnMatchingClients, mMatchingClients,
          mBattleInfos, mBattleOpponents, thread, round>>

\* A player, or its ghost: its networkID, or the complement of it.
Fighter == [client : Client, ghost : BOOLEAN]
Real(c) == [client |-> c, ghost |-> FALSE]
Ghost(c) == [client |-> c, ghost |-> TRUE]

TypeOK ==
    /\ mClients \subseteq Client /\ toSet \subseteq Client /\ late \subseteq Client
    /\ worker \in {"add", "clear", "set", "done"}
    /\ mUnMatchingClients \subseteq Client /\ mMatchingClients \subseteq Client
    /\ mUnMatchingClients \cap mMatchingClients = {}
    /\ DOMAIN mBattleInfos = Client
    /\ \A c \in Client :
          /\ DOMAIN mBattleInfos[c] \subseteq Client
          /\ mBattleInfos[c] \in [DOMAIN mBattleInfos[c] -> Nat]
    /\ mBattleOpponents \in Seq(Fighter \X Fighter)
    /\ thread \in {"none", "ready", "matching", "battle"}
    /\ round \in Nat

Init ==
    /\ mClients = {} /\ toSet = {} /\ late = {}
    /\ worker = "add"
    /\ mUnMatchingClients = {} /\ mMatchingClients = {}
    /\ mBattleInfos = [c \in Client |-> << >>]
    /\ mBattleOpponents = <<>>
    /\ thread = "none"
    /\ round = 0
-----------------------------------------------------------------------------
\* Room::AddClients, as far as cLock goes.
AddClients ==
    /\ worker = "add"
    /\ mClients' = Client
    /\ toSet' = Client
    /\ late' = {}
    /\ worker' = "clear"
    /\ UNCHANGED <<mUnMatchingClients, mMatchingClients, mBattleInfos,
                   mBattleOpponents, thread, round>>

\* SetClients: both lists cleared, then one BattleInfo per player.
ClearClients ==
    /\ worker = "clear"
    /\ mUnMatchingClients' = {} /\ mMatchingClients' = {}
    /\ mBattleInfos' = [c \in Client |-> << >>]
    /\ worker' = "set"
    /\ UNCHANGED <<roomVars, toSet, mBattleOpponents, thread, round>>

SetClients(c) ==
    /\ worker = "set" /\ c \in toSet
    /\ toSet' = toSet \ {c}
    /\ mUnMatchingClients' = mUnMatchingClients \cup {c}
    /\ mBattleInfos' = [mBattleInfos EXCEPT ![c] = [d \in Client \ {c} |-> 0]]
    /\ UNCHANGED <<roomVars, worker, mMatchingClients, mBattleOpponents,
                   thread, round>>

\* The worker starts the room's thread.
StartThread ==
    /\ worker = "set" /\ toSet = {}
    /\ worker' = "done"
    /\ thread' = "ready"
    /\ round' = 0
    /\ UNCHANGED <<roomVars, toSet, mUnMatchingClients, mMatchingClients,
                   mBattleInfos, mBattleOpponents>>
-----------------------------------------------------------------------------
\* Mutant: the battle manager is not told.
RemoveClient_StaysMatched(c) ==
    /\ thread # "matching" /\ c \in mClients
    /\ mClients' = mClients \ {c}
    /\ late' = late \cup ({c} \cap toSet)
    /\ UNCHANGED <<workerVars, mUnMatchingClients, mBattleInfos,
                   mMatchingClients, mBattleOpponents, thread, round>>

(***************************************************************************)
(* Room::RemoveClient, under cLock: out of the room's list, out of the     *)
(* list of the battle manager and out of the infos of the others in it.    *)
(***************************************************************************)
RemoveClient(c) ==
    /\ thread # "matching" /\ c \in mClients
    /\ mClients' = mClients \ {c}
    /\ late' = late \cup ({c} \cap toSet)
    /\ mUnMatchingClients' = mUnMatchingClients \ {c}
    /\ mBattleInfos' = [d \in Client |->
          IF d = c THEN << >>
                   ELSE [e \in DOMAIN mBattleInfos[d] \ {c} |-> mBattleInfos[d][e]]]
    /\ UNCHANGED <<workerVars, mMatchingClients, mBattleOpponents, thread, round>>
-----------------------------------------------------------------------------
\* ReadyStage; ApplyRandomBattleOpponent takes cLock and keeps it.
ApplyRandomBattleOpponent ==
    /\ thread = "ready" /\ Cardinality(mClients) >= 2
    /\ round < MaxRound
    /\ mBattleOpponents' = <<>>
    /\ round' = round + 1
    /\ thread' = "matching"
    /\ UNCHANGED <<roomVars, workerVars, mUnMatchingClients, mMatchingClients,
                   mBattleInfos>>

\* What d knows of its battles with c; what it does not know counts as 0.
GetBattleCount(d, c) ==
    IF c \in DOMAIN mBattleInfos[d] THEN mBattleInfos[d][c] ELSE 0

Least(c, S) ==
    {m \in S : \A d \in S : GetBattleCount(m, c) <= GetBattleCount(d, c)}

\* d's infos with one more battle against c, if it knows c.
AddBattleCount(d, c) ==
    [e \in DOMAIN mBattleInfos[d] |->
        IF e = c THEN mBattleInfos[d][e] + 1 ELSE mBattleInfos[d][e]]

\* The two in the order of their first attack states, or of a coin.
Fight(f, g) == \/ mBattleOpponents' = Append(mBattleOpponents, <<f, g>>)
               \/ mBattleOpponents' = Append(mBattleOpponents, <<g, f>>)

\* Mutants: the opponent stays in the list; only one side counts the battle.
MatchTwo_KeepsOpponent(c, m) ==
    /\ thread = "matching" /\ c \in mUnMatchingClients
    /\ m \in Least(c, mUnMatchingClients \ {c})
    /\ Fight(Real(c), Real(m))
    /\ mBattleInfos' = [mBattleInfos EXCEPT ![c] = AddBattleCount(c, m),
                                            ![m] = AddBattleCount(m, c)]
    /\ mMatchingClients' = mMatchingClients \cup {c, m}
    /\ mUnMatchingClients' = mUnMatchingClients \ {c}
    /\ UNCHANGED <<roomVars, workerVars, thread, round>>

MatchTwo_OneCounts(c, m) ==
    /\ thread = "matching" /\ c \in mUnMatchingClients
    /\ m \in Least(c, mUnMatchingClients \ {c})
    /\ Fight(Real(c), Real(m))
    /\ mBattleInfos' = [mBattleInfos EXCEPT ![c] = AddBattleCount(c, m)]
    /\ mMatchingClients' = mMatchingClients \cup {c, m}
    /\ mUnMatchingClients' = mUnMatchingClients \ {c, m}
    /\ UNCHANGED <<roomVars, workerVars, thread, round>>

(***************************************************************************)
(* GetBattleOpponent, one turn of its loop: the first player fights one of *)
(* the others that has fought it least.                                    *)
(***************************************************************************)
MatchTwo(c, m) ==
    /\ thread = "matching" /\ c \in mUnMatchingClients
    /\ m \in Least(c, mUnMatchingClients \ {c})
    /\ Fight(Real(c), Real(m))
    /\ mBattleInfos' = [mBattleInfos EXCEPT ![c] = AddBattleCount(c, m),
                                            ![m] = AddBattleCount(m, c)]
    /\ mMatchingClients' = mMatchingClients \cup {c, m}
    /\ mUnMatchingClients' = mUnMatchingClients \ {c, m}
    /\ UNCHANGED <<roomVars, workerVars, thread, round>>

\* The last of an odd number: a ghost of one already matched, not counted.
MatchGhost(c, m) ==
    /\ thread = "matching" /\ mUnMatchingClients = {c}
    /\ m \in Least(c, mMatchingClients)
    /\ Fight(Real(c), Ghost(m))
    /\ mMatchingClients' = mMatchingClients \cup {c}
    /\ mUnMatchingClients' = {}
    /\ UNCHANGED <<roomVars, workerVars, mBattleInfos, thread, round>>

\* Mutant: the loop ends when no two are left, and the last one sits out.
AllMatched_LeavesOne ==
    /\ thread = "matching" /\ Cardinality(mUnMatchingClients) < 2
    /\ mUnMatchingClients' = mUnMatchingClients \cup mMatchingClients
    /\ mMatchingClients' = {}
    /\ thread' = "battle"
    /\ UNCHANGED <<roomVars, workerVars, mBattleInfos, mBattleOpponents, round>>

\* All are matched: the lists are swapped back and cLock released.
AllMatched ==
    /\ thread = "matching" /\ mUnMatchingClients = {}
    /\ mUnMatchingClients' = mMatchingClients
    /\ mMatchingClients' = {}
    /\ thread' = "battle"
    /\ UNCHANGED <<roomVars, workerVars, mBattleInfos, mBattleOpponents, round>>

GetBattleOpponent ==
    \/ \E c, m \in Client : MatchTwo(c, m) \/ MatchGhost(c, m)
    \/ AllMatched

NextStage ==
    /\ thread = "battle" /\ Cardinality(mClients) >= 2
    /\ thread' = "ready"
    /\ UNCHANGED <<roomVars, workerVars, mUnMatchingClients, mMatchingClients,
                   mBattleInfos, mBattleOpponents, round>>

\* Fewer than two are left: Room::Init, and the room can be opened again.
GameOver ==
    /\ thread \in {"ready", "battle"} /\ Cardinality(mClients) < 2
    /\ mClients' = {}
    /\ thread' = "none"
    /\ worker' = "add"
    /\ UNCHANGED <<toSet, late, mUnMatchingClients, mMatchingClients,
                   mBattleInfos, mBattleOpponents, round>>

ProgressThread ==
    ApplyRandomBattleOpponent \/ GetBattleOpponent \/ NextStage \/ GameOver

OpenRoom == AddClients \/ ClearClients \/ StartThread \/ \E c \in Client : SetClients(c)

Next == OpenRoom \/ ProgressThread \/ \E c \in Client : RemoveClient(c)

Spec == Init /\ [][Next]_vars
-----------------------------------------------------------------------------
(***************************************************************************)
(* A round is a pairing: nobody fights itself, nobody fights twice, a      *)
(* ghost fights only a player, and there is at most one ghost, of somebody *)
(* else than its opponent.  BattleStage takes the list two by two and      *)
(* relies on it.                                                           *)
(***************************************************************************)
Fights == DOMAIN mBattleOpponents

RoundIsPairing ==
    /\ \A i \in Fights, a, b \in {1, 2} :
          a # b => /\ mBattleOpponents[i][a].client # mBattleOpponents[i][b].client
                   /\ mBattleOpponents[i][a].ghost => ~mBattleOpponents[i][b].ghost
    /\ \A i, j \in Fights, a, b \in {1, 2} :
          mBattleOpponents[i][a] = mBattleOpponents[j][b] => i = j
    /\ \A i, j \in Fights, a, b \in {1, 2} :
          mBattleOpponents[i][a].ghost /\ mBattleOpponents[j][b].ghost => i = j

(***************************************************************************)
(* Both sides of a fight count it: two players agree on how often they     *)
(* have fought each other, which is what the choice of the least fought    *)
(* one rests on.  Players that left while the room was being opened are    *)
(* exempt: some of the others never learn of them.                         *)
(***************************************************************************)
CountsAgree == worker = "done" =>
    \A c, d \in (mUnMatchingClients \cup mMatchingClients) \ late :
        c # d => GetBattleCount(c, d) = GetBattleCount(d, c)

(***************************************************************************)
(* Everybody who plays fights, in every round.                             *)
(***************************************************************************)
InFight(c) == \E i \in Fights, a \in {1, 2} : mBattleOpponents[i][a] = Real(c)

EverybodyFights == thread = "battle" => \A c \in mClients : InFight(c)

(***************************************************************************)
(* Nobody who has left is matched, except for who left after AddClients    *)
(* and before SetClients: the battle manager keeps that one.               *)
(***************************************************************************)
DepartedAreNotMatched ==
    thread = "matching" =>
        mUnMatchingClients \cup mMatchingClients \subseteq mClients \cup late
=============================================================================
