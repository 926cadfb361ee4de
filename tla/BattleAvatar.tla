---------------------------- MODULE BattleAvatar ----------------------------
(***************************************************************************)
(* BattleAvatar.cpp and BattleAvatar.h: what a fighter is, and what may    *)
(* happen to it.  An avatar is a record; each member function that changes *)
(* it is an operator that returns the changed avatar.                      *)
(*                                                                         *)
(* The flags that say whether a counter attack, a counter heal, a heal for *)
(* each item or a bomb is set are left out: the flag is set exactly when   *)
(* its amount is not zero.                                                 *)
(***************************************************************************)
EXTENDS Integers, FiniteSets

CONSTANTS
    Client, NoClient,         \* NoClient: the null pointer of a creep
    MAX_USING_ITEM_COUNT,
    INT_MAX

ASSUME AvatarAssumption ==
    /\ NoClient \notin Client
    /\ MAX_USING_ITEM_COUNT \in Nat \ {0}
    /\ INT_MAX \in Nat

Slots == 0..MAX_USING_ITEM_COUNT - 1
Item  == [type : 0..45, upgrade : 0..2]
EMPTY_ITEM == 0
EmptyItem  == [type |-> EMPTY_ITEM, upgrade |-> 0]

Hamburger == {"Fillet", "Guinness", "WhiteGarlic", "Rice"}

AtLeast0(n)  == IF n > 0 THEN n ELSE 0
AtMost(m, n) == IF n < m THEN n ELSE m

\* An int that overflows wraps round, as the compiler's arithmetic does.
AsInt(n) == ((n + INT_MAX + 1) % (2 * (INT_MAX + 1))) - (INT_MAX + 1)

Avatar ==
    [mClient : Client \cup {NoClient}, mIsGhost : BOOLEAN,
     mMaxHp : Nat, mHp : Nat, mDefensive : Nat, mOffensePower : Nat,
     mAdditionDefensive : Nat, mWeakening : Nat, mBleeding : Nat,
     mReducedHealing : Nat, mUsingItem : [Slots -> Item],
     mActiveQueue : [Slots -> Slots], mIsFinish : BOOLEAN,
     mCounterAttackDamage : Nat, mCounterHeal : Nat,
     mHamburgerType : Hamburger, mEffectHeal : Nat,
     mInstallBombDamage : Nat, mEffectItemCount : Nat,
     mUseKeyCapCount : Nat, mCanDefendNegativeEffect : BOOLEAN,
     mIsIgnoreNextDamage : BOOLEAN, mIsCharacterDamage : BOOLEAN,
     mFirstAttackState : Nat]

BattleAvatar0 ==
    [mClient |-> NoClient, mIsGhost |-> FALSE,
     mMaxHp |-> 0, mHp |-> 0, mDefensive |-> 0, mOffensePower |-> 0,
     mAdditionDefensive |-> 0, mWeakening |-> 0, mBleeding |-> 0,
     mReducedHealing |-> 0, mUsingItem |-> [s \in Slots |-> EmptyItem],
     mActiveQueue |-> [s \in Slots |-> s], mIsFinish |-> FALSE,
     mCounterAttackDamage |-> 0, mCounterHeal |-> 0,
     mHamburgerType |-> "Fillet", mEffectHeal |-> 0,
     mInstallBombDamage |-> 0, mEffectItemCount |-> 0,
     mUseKeyCapCount |-> 0, mCanDefendNegativeEffect |-> FALSE,
     mIsIgnoreNextDamage |-> FALSE, mIsCharacterDamage |-> FALSE,
     mFirstAttackState |-> 0]

\* mFirstAttackState of a client is never set to anything but 0.
SetAvatar(client, items, isGhost, round) ==
    LET maxHp == 50 + 10 * AtMost(5, round) IN
    [BattleAvatar0 EXCEPT !.mClient = client, !.mIsGhost = isGhost,
                          !.mMaxHp = maxHp, !.mHp = maxHp,
                          !.mUsingItem = items]

\* Mutant: the maximum is not set.
SetMaxHP_OnlyHp(n, a) == [a EXCEPT !.mHp = n]

SetMaxHP(n, a) == [a EXCEPT !.mMaxHp = n, !.mHp = n]
-----------------------------------------------------------------------------
(***************************************************************************)
(* Damage: increased and weakened by what the attacker carries, then taken *)
(* by the defence and, what is left of it, by the hp.                      *)
(***************************************************************************)
IgnoringDamage(a, damaged) ==
    IF a.mIsIgnoreNextDamage THEN [a EXCEPT !.mIsIgnoreNextDamage = FALSE]
                             ELSE damaged

ForceOf(damage, by) == AtLeast0(damage + by.mOffensePower - by.mWeakening)

Absorb(damage, a) ==
    [a EXCEPT !.mDefensive = AtLeast0(@ - damage),
              !.mHp = AtLeast0(@ - AtLeast0(damage - a.mDefensive))]

ToJustDamage(damage, a) == [a EXCEPT !.mHp = AtLeast0(@ - damage)]

ToDamage(damage, a, by) == IgnoringDamage(a, Absorb(ForceOf(damage, by), a))

ToPiercingDamage(damage, a, by) ==
    IgnoringDamage(a, ToJustDamage(ForceOf(damage, by), a))

EffectBleeding(a) == ToJustDamage(a.mBleeding, a)

EffectBomb(a) ==
    IgnoringDamage(a, [Absorb(a.mInstallBombDamage, a) EXCEPT !.mInstallBombDamage = 0])

ToHeal(heal, a) ==
    [a EXCEPT !.mHp = AtMost(a.mMaxHp, @ + AtLeast0(heal - a.mReducedHealing))]
-----------------------------------------------------------------------------
ToDefensive(n, a) ==
    [a EXCEPT !.mDefensive = AtLeast0(AsInt(@ + n + a.mAdditionDefensive))]

ToOffensePower(n, a)      == [a EXCEPT !.mOffensePower = @ + n]
ToAdditionDefensive(n, a) == [a EXCEPT !.mAdditionDefensive = @ + n]
SetCounterAttack(n, a)    == [a EXCEPT !.mCounterAttackDamage = @ + n]
SetCounterHeal(n, a)      == [a EXCEPT !.mCounterHeal = @ + n]
SetEffectHeal(n, a)       == [a EXCEPT !.mEffectHeal = @ + n]

\* What is bad for an avatar, unless it has a defence against one such thing.
Negative(a, harmed) ==
    IF a.mCanDefendNegativeEffect THEN [a EXCEPT !.mCanDefendNegativeEffect = FALSE]
                                  ELSE harmed

ToWeakening(n, a)      == Negative(a, [a EXCEPT !.mWeakening = @ + n])
ToBleeding(n, a)       == Negative(a, [a EXCEPT !.mBleeding = @ + n])
ToReducedHealing(n, a) == Negative(a, [a EXCEPT !.mReducedHealing = @ + n])
SetInstallBomb(n, a)   == Negative(a, [a EXCEPT !.mInstallBombDamage = @ + n])

Clear(a) == [a EXCEPT !.mBleeding = 0, !.mWeakening = 0, !.mReducedHealing = 0,
                      !.mInstallBombDamage = 0]

InitCycle(a) ==
    [Clear(a) EXCEPT !.mOffensePower = 0, !.mAdditionDefensive = 0,
                     !.mCounterAttackDamage = 0, !.mCounterHeal = 0,
                     !.mEffectHeal = 0, !.mEffectItemCount = 0,
                     !.mCanDefendNegativeEffect = FALSE,
                     !.mIsIgnoreNextDamage = FALSE]
-----------------------------------------------------------------------------
(***************************************************************************)
(* Two avatars that fight: me, who acts, and opponents.                    *)
(***************************************************************************)
\* EffectCounter of the opponent, who has been attacked.
EffectCounter(f) ==
    LET you == f.opponents
        hit == IF you.mCounterAttackDamage = 0 THEN f.me
               ELSE ToDamage(you.mCounterAttackDamage, f.me, you)
        healed == IF you.mCounterHeal = 0 THEN you ELSE ToHeal(you.mCounterHeal, you)
    IN IF you.mIsFinish THEN f
       ELSE [f EXCEPT !.me = hit,
                      !.opponents = [healed EXCEPT !.mCounterAttackDamage = 0,
                                                   !.mCounterHeal = 0]]
=============================================================================
