------------------------------- MODULE Items -------------------------------
(***************************************************************************)
(* Items.h: what each item does when it is its turn (Active) and when the  *)
(* battle begins (FitmentEffect).  ItemNNN is named as in the source.      *)
(*                                                                         *)
(* An item acts on a fight f: f.me, who owns it, f.opponents, f.sumTicket, *)
(* the tickets the owner has, f.isValid, whether the owner is still in the *)
(* room, and f.ticket, the tickets the item makes.  u is its upgrade; a    *)
(* triple gives the amounts for the upgrades 0, 1 and 2.  An item that     *)
(* draws a random number has a set of outcomes.                            *)
(***************************************************************************)
EXTENDS BattleAvatar, Sequences

Hit(n, f)    == [f EXCEPT !.opponents = ToDamage(n, @, f.me)]
Guard(n, f)  == [f EXCEPT !.me = ToDefensive(n, @)]
Weaken(n, f) == [f EXCEPT !.opponents = ToWeakening(n, @)]
Heal(n, f)   == [f EXCEPT !.me = ToHeal(n, @)]
Power(n, f)  == [f EXCEPT !.me = ToOffensePower(n, @)]
Bleed(n, f)  == [f EXCEPT !.opponents = ToBleeding(n, @)]

Hits(times, n, f) ==
    LET g[i \in 0..times] == IF i = 0 THEN f ELSE Hit(n, g[i - 1]) IN g[times]

Early(f) == f.me.mEffectItemCount < 4
-----------------------------------------------------------------------------
Item001(u, f) == Hit(<<5, 8, 12>>[u + 1], f)
Item002(u, f) == Guard(<<3, 5, 7>>[u + 1], f)
Item003(u, f) == Weaken(u + 1, f)
Item004(u, f) == Hits(2, <<3, 4, 6>>[u + 1], f)
Item005(u, f) == Hit(AsInt(5 + f.me.mDefensive * <<3, 4, 6>>[u + 1]), f)
Item006(u, f) == [f EXCEPT !.me = Clear(@)]
Item007(u, f) ==
    CASE f.me.mHamburgerType = "Fillet"      -> Weaken(u + 2, f)
      [] f.me.mHamburgerType = "Guinness"    -> Hit(<<7, 9, 12>>[u + 1], f)
      [] f.me.mHamburgerType = "WhiteGarlic" -> Heal(<<4, 6, 9>>[u + 1], f)
      [] f.me.mHamburgerType = "Rice"        -> Guard(<<4, 6, 9>>[u + 1], f)
Item008(u, f) == Power(<<2, 3, 5>>[u + 1], f)
Item009(u, f) == [Guard(4, f) EXCEPT !.me = SetCounterAttack(<<5, 7, 10>>[u + 1], @)]
Item010(u, f) == [Guard(4, f) EXCEPT !.me = SetCounterHeal(<<6, 8, 11>>[u + 1], @)]
Item011(u, f) == [f EXCEPT !.me = ToAdditionDefensive(2 * (u + 1), @)]
Item012(u, f) == [f EXCEPT !.me = SetEffectHeal(<<1, 3, 4>>[u + 1], @)]
Item013(u, f) == [f EXCEPT !.opponents = SetInstallBomb(<<15, 20, 30>>[u + 1], @)]
Item014(u, f) == Guard(3 * (u + 3), [f EXCEPT !.me = ToJustDamage(u + 3, @)])
Item015(u, f) == Hits(f.me.mEffectItemCount, 10 * (u + 1), f)
Item016(u, f) == Hit(5, f)
Item017(u, f) == Hit(<<f.sumTicket \div 2, f.sumTicket, 2 * f.sumTicket>>[u + 1], f)
Item018(u, f) ==
    Hit(5 * (u + 2) * (IF f.opponents.mDefensive = 0 THEN 1 ELSE 2), f)
Item019(u, f) == Hit(<<6, 9, 13>>[u + 1], Weaken(1, f))
Item020(u, f) ==
    LET weaker == Weaken(u + 2, f)
    IN IF u = 0 THEN weaker ELSE [weaker EXCEPT !.me = ToWeakening(u, @)]
Item021(u, f) == {Hit(<<6, 9, 13>>[u + 1], f), Heal(<<7, 10, 14>>[u + 1], f)}
Item022(u, f) == Hit(<<3, 6, 11>>[u + 1], Bleed(2, f))
Item023(u, f) == [f EXCEPT !.opponents.mOffensePower = 0, !.me.mWeakening = 0]
Item024(u, f) ==
    LET you == f.opponents
    IN Hit(4 * u + 7 + (you.mMaxHp - you.mHp) \div (you.mMaxHp \div 5), f)
Item025(u, f) == Power(u + (IF Early(f) THEN 3 ELSE 5), f)
Item026(u, f) ==
    [Hit(10, f) EXCEPT !.opponents = ToReducedHealing(2 * (u + 1), @)]
Item027(u, f) ==
    LET once == Guard(<<3, 5, 10>>[u + 1], f) IN Guard(once.me.mDefensive, once)
Item028(u, f) == Hit(6, Bleed(<<2, 3, 5>>[u + 1], f))
Item029(u, f) ==
    LET made == IF f.isValid THEN [f EXCEPT !.ticket = @ + 1] ELSE f
    IN IF u = 2 THEN {made} ELSE {f, made}
Item030(u, f) == [f EXCEPT !.me.mIsIgnoreNextDamage = TRUE]
Item031(u, f) ==
    [f EXCEPT !.opponents = ToPiercingDamage(<<6, 9, 13>>[u + 1], @, f.me)]
Item032(u, f) ==
    Heal(((f.me.mMaxHp - f.me.mHp) * <<25, 40, 50>>[u + 1]) \div 100, f)
Item033(u, f) == Heal(<<3, 5, 7>>[u + 1], f)
Item034(u, f) ==
    LET used == [f EXCEPT !.me.mUseKeyCapCount = @ + 1]
    IN Hits(used.me.mUseKeyCapCount, <<3, 4, 6>>[u + 1], used)
Item035(u, f) == Guard(4 * u + 5, f)
Item036(u, f) == Guard(IF Early(f) THEN 4 ELSE 2 * u + 7, f)
Item037(u, f) == [f EXCEPT !.me.mCanDefendNegativeEffect = TRUE]

\* The creeps' items, the same for every upgrade.
Item038(u, f) == Hit(1, f)
Item039(u, f) == Hit(2, f)
Item040(u, f) == Hit(3, f)
Item041(u, f) == Heal(3, Hit(2, f))
Item042(u, f) == Hit(10, f)
Item043(u, f) == Guard(8, f)
Item044(u, f) == Hit(20, f)
Item045(u, f) == Hit(2 ^ (f.me.mEffectItemCount - 1), f)

\* sItems[type]->Active: the possible outcomes.
Active(item, f) ==
    LET u == item.upgrade  n == item.type IN
    IF n = EMPTY_ITEM THEN {f}
    ELSE IF n = 21 THEN Item021(u, f)
    ELSE IF n = 29 THEN Item029(u, f)
    ELSE {CASE n = 1 -> Item001(u, f)  [] n = 2 -> Item002(u, f)
            [] n = 3 -> Item003(u, f)  [] n = 4 -> Item004(u, f)
            [] n = 5 -> Item005(u, f)  [] n = 6 -> Item006(u, f)
            [] n = 7 -> Item007(u, f)  [] n = 8 -> Item008(u, f)
            [] n = 9 -> Item009(u, f)  [] n = 10 -> Item010(u, f)
            [] n = 11 -> Item011(u, f) [] n = 12 -> Item012(u, f)
            [] n = 13 -> Item013(u, f) [] n = 14 -> Item014(u, f)
            [] n = 15 -> Item015(u, f) [] n = 16 -> Item016(u, f)
            [] n = 17 -> Item017(u, f) [] n = 18 -> Item018(u, f)
            [] n = 19 -> Item019(u, f) [] n = 20 -> Item020(u, f)
            [] n = 22 -> Item022(u, f) [] n = 23 -> Item023(u, f)
            [] n = 24 -> Item024(u, f) [] n = 25 -> Item025(u, f)
            [] n = 26 -> Item026(u, f) [] n = 27 -> Item027(u, f)
            [] n = 28 -> Item028(u, f) [] n = 30 -> Item030(u, f)
            [] n = 31 -> Item031(u, f) [] n = 32 -> Item032(u, f)
            [] n = 33 -> Item033(u, f) [] n = 34 -> Item034(u, f)
            [] n = 35 -> Item035(u, f) [] n = 36 -> Item036(u, f)
            [] n = 37 -> Item037(u, f) [] n = 38 -> Item038(u, f)
            [] n = 39 -> Item039(u, f) [] n = 40 -> Item040(u, f)
            [] n = 41 -> Item041(u, f) [] n = 42 -> Item042(u, f)
            [] n = 43 -> Item043(u, f) [] n = 44 -> Item044(u, f)
            [] n = 45 -> Item045(u, f)}
-----------------------------------------------------------------------------
\* The effect of having the item, once, before the battle.
Passive(item, a) ==
    LET u == item.upgrade  n == item.type IN
    CASE n \in {6, 16, 36} -> SetMaxHP(a.mMaxHp + 5 + 5 * u, a)
      [] n = 32            -> SetMaxHP(a.mMaxHp + <<7, 12, 20>>[u + 1], a)
      [] n \in {7, 30, 37} -> ToDefensive(3 + 3 * u, a)
      [] n = 27            -> ToDefensive(5 + 5 * u, a)
      [] n = 15            -> [a EXCEPT !.mFirstAttackState = @ + 2 + u]
      [] n = 23            -> [a EXCEPT !.mFirstAttackState = @ + 1 + u]
      [] OTHER             -> a

FitmentEffect(a) ==
    LET after[i \in 0..MAX_USING_ITEM_COUNT] ==
          IF i = 0 THEN a ELSE Passive(a.mUsingItem[i - 1], after[i - 1])
    IN after[MAX_USING_ITEM_COUNT]

\* TIER_TYPE + 1 and TYPE = Attack.
Tier(n) ==
    CASE n \in {5, 13, 17, 18, 25}                     -> 4
      [] n \in {15, 27, 32}                            -> 5
      [] n \in {6, 11, 23, 24, 28, 29, 34, 35, 36}     -> 3
      [] n \in {0, 1, 2, 3, 4, 8, 33, 38, 39, 40}      -> 1
      [] OTHER                                         -> 2

IsAttack(n) == n \in {1, 4, 5, 13, 15, 18, 19, 21, 22, 24, 26, 28, 31,
                      38, 39, 40, 41, 42, 44, 45}

\* What the loser of a battle loses of its hp: the tiers of the winner's items.
GetDamage(a) ==
    LET sum[i \in 0..MAX_USING_ITEM_COUNT] ==
          IF i = 0 THEN 0
          ELSE sum[i - 1] + (IF a.mUsingItem[i - 1].type = EMPTY_ITEM THEN 0
                             ELSE Tier(a.mUsingItem[i - 1].type))
    IN sum[MAX_USING_ITEM_COUNT]

\* What the doctor's tool may become: an item of the opponent, or itself.
GetRandomCopyItem(a) ==
    LET copied == {a.mUsingItem[s] : s \in {t \in Slots :
                      a.mUsingItem[t].type \notin {7, 16, EMPTY_ITEM}}}
    IN IF copied = {} THEN {[type |-> 16, upgrade |-> 0]} ELSE copied
=============================================================================
