----------------------------- MODULE StageProof -----------------------------
(***************************************************************************)
(* A stage of a room, whatever the players, their items and the number of  *)
(* cycles.                                                                 *)
(*                                                                         *)
(* First what a blow, a heal and an item can do to the two avatars of a    *)
(* fight (they stay Like themselves: only numbers that belong to the fight *)
(* change, and hp stays between zero and its maximum).  Then the inductive *)
(* invariant StageInv, and one lemma for each action.  Then the theorems,  *)
(* each of which follows from StageInv, and at the end that the stage only *)
(* goes forward.                                                           *)
(***************************************************************************)
EXTENDS Stage, QueueLemmas

(***************************************************************************)
(* Numbers.                                                                *)
(***************************************************************************)
LEMMA Wraps == \A n \in Int : AsInt(n) \in Int
  BY AvatarAssumption DEF AsInt

\* The amounts for the three upgrades.
LEMMA Amounts == \A u \in 0..2 : \A x, y, z \in Nat : <<x, y, z>>[u + 1] \in Nat
  OBVIOUS

(***************************************************************************)
(* What a fight may make of an avatar: its client, and whether it is a     *)
(* ghost, is finished and has paid, stay what they are.                    *)
(***************************************************************************)
Sound == {a \in Avatar : a.mHp <= a.mMaxHp /\ a.mMaxHp >= 5}

Like(a) ==
    {b \in Sound : /\ b.mClient = a.mClient /\ b.mIsGhost = a.mIsGhost
                   /\ b.mIsFinish = a.mIsFinish
                   /\ b.mIsCharacterDamage = a.mIsCharacterDamage}

\* The numbers of an avatar.
LEMMA Fields ==
    ASSUME NEW a, NEW b \in Like(a)
    PROVE  /\ b \in Avatar
           /\ b.mHp \in Nat /\ b.mMaxHp \in Nat /\ b.mHp <= b.mMaxHp /\ b.mMaxHp >= 5
           /\ b.mDefensive \in Nat /\ b.mAdditionDefensive \in Nat
           /\ b.mOffensePower \in Nat /\ b.mWeakening \in Nat /\ b.mBleeding \in Nat
           /\ b.mReducedHealing \in Nat /\ b.mCounterAttackDamage \in Nat
           /\ b.mCounterHeal \in Nat /\ b.mEffectHeal \in Nat /\ b.mInstallBombDamage \in Nat
           /\ b.mEffectItemCount \in Nat /\ b.mUseKeyCapCount \in Nat
           /\ b.mHamburgerType \in Hamburger
  BY DEF Like, Sound, Avatar

LEMMA HpSet ==
    ASSUME NEW a, NEW b \in Like(a), NEW n \in Nat, n <= b.mMaxHp
    PROVE  [b EXCEPT !.mHp = n] \in Like(a) /\ [b EXCEPT !.mHp = n].mHp = n
  BY DEF Like, Sound, Avatar

\* Setting a number, or a flag, of an avatar.
LEMMA NumberSet ==
    ASSUME NEW a, NEW b \in Like(a), NEW n \in Nat
    PROVE  /\ [b EXCEPT !.mDefensive = n] \in Like(a)
           /\ [b EXCEPT !.mOffensePower = n] \in Like(a)
           /\ [b EXCEPT !.mAdditionDefensive = n] \in Like(a)
           /\ [b EXCEPT !.mWeakening = n] \in Like(a)
           /\ [b EXCEPT !.mBleeding = n] \in Like(a)
           /\ [b EXCEPT !.mReducedHealing = n] \in Like(a)
           /\ [b EXCEPT !.mCounterAttackDamage = n] \in Like(a)
           /\ [b EXCEPT !.mCounterHeal = n] \in Like(a)
           /\ [b EXCEPT !.mEffectHeal = n] \in Like(a)
           /\ [b EXCEPT !.mInstallBombDamage = n] \in Like(a)
           /\ [b EXCEPT !.mEffectItemCount = n] \in Like(a)
           /\ [b EXCEPT !.mUseKeyCapCount = n] \in Like(a)
  BY DEF Like, Sound, Avatar

LEMMA FlagSet ==
    ASSUME NEW a, NEW b \in Like(a), NEW f \in BOOLEAN
    PROVE  /\ [b EXCEPT !.mCanDefendNegativeEffect = f] \in Like(a)
           /\ [b EXCEPT !.mIsIgnoreNextDamage = f] \in Like(a)
  BY DEF Like, Sound, Avatar

\* No such change is one of the hp.
LEMMA HpKept ==
    ASSUME NEW a, NEW b \in Like(a), NEW x
    PROVE  /\ [b EXCEPT !.mDefensive = x].mHp = b.mHp
           /\ [b EXCEPT !.mInstallBombDamage = x].mHp = b.mHp
           /\ [b EXCEPT !.mIsIgnoreNextDamage = x].mHp = b.mHp
           /\ [b EXCEPT !.mCounterAttackDamage = x].mHp = b.mHp
           /\ [b EXCEPT !.mCounterHeal = x].mHp = b.mHp
           /\ [b EXCEPT !.mDefensive = x].mMaxHp = b.mMaxHp
  BY DEF Like, Sound, Avatar

(***************************************************************************)
(* Damage never raises the hp; whoever has none keeps none.                *)
(***************************************************************************)
LEMMA JustDamage ==
    ASSUME NEW a, NEW b \in Like(a), NEW n \in Nat
    PROVE  ToJustDamage(n, b) \in Like(a) /\ ToJustDamage(n, b).mHp <= b.mHp
<1>1. b.mHp \in Nat /\ b.mMaxHp \in Nat /\ b.mHp <= b.mMaxHp
  BY Fields
<1>2. AtLeast0(b.mHp - n) \in Nat /\ AtLeast0(b.mHp - n) <= b.mHp
  BY <1>1 DEF AtLeast0
<1>3. AtLeast0(b.mHp - n) <= b.mMaxHp
  BY <1>1, <1>2
<1> QED BY <1>2, <1>3, HpSet DEF ToJustDamage

LEMMA Absorbed ==
    ASSUME NEW a, NEW b \in Like(a), NEW n \in Nat
    PROVE  Absorb(n, b) \in Like(a) /\ Absorb(n, b).mHp <= b.mHp
<1> DEFINE c == [b EXCEPT !.mDefensive = AtLeast0(@ - n)]
           h == AtLeast0(b.mHp - AtLeast0(n - b.mDefensive))
<1>1. b.mHp \in Nat /\ b.mDefensive \in Nat /\ b.mMaxHp \in Nat /\ b.mHp <= b.mMaxHp
  BY Fields
<1>2. AtLeast0(b.mDefensive - n) \in Nat
  BY <1>1 DEF AtLeast0
<1>3. c \in Like(a) /\ c.mHp = b.mHp /\ c.mMaxHp = b.mMaxHp
  BY <1>2, NumberSet, HpKept
<1>4. h \in Nat /\ h <= b.mHp /\ h <= b.mMaxHp
  BY <1>1 DEF AtLeast0
<1> HIDE DEF c, h
<1>5. [c EXCEPT !.mHp = h] \in Like(a) /\ [c EXCEPT !.mHp = h].mHp = h
  BY <1>3, <1>4, HpSet
<1>6. Absorb(n, b) = [c EXCEPT !.mHp = h]
  BY <1>3 DEF Absorb, c, h
<1> QED BY <1>4, <1>5, <1>6

LEMMA Ignoring ==
    ASSUME NEW a, NEW b \in Like(a), NEW c \in Like(a), c.mHp <= b.mHp
    PROVE  IgnoringDamage(b, c) \in Like(a) /\ IgnoringDamage(b, c).mHp <= b.mHp
<1>1. b.mHp \in Nat
  BY Fields
<1>2. [b EXCEPT !.mIsIgnoreNextDamage = FALSE] \in Like(a)
  BY FlagSet
<1>3. [b EXCEPT !.mIsIgnoreNextDamage = FALSE].mHp = b.mHp
  BY HpKept
<1> QED BY <1>1, <1>2, <1>3 DEF IgnoringDamage

LEMMA Forces == ASSUME NEW a, NEW by \in Like(a), NEW n \in Int PROVE ForceOf(n, by) \in Nat
<1>1. by.mOffensePower \in Nat /\ by.mWeakening \in Nat
  BY Fields
<1> QED BY <1>1 DEF ForceOf, AtLeast0

LEMMA Damage ==
    ASSUME NEW a, NEW b \in Like(a), NEW d, NEW by \in Like(d), NEW n \in Int
    PROVE  /\ ToDamage(n, b, by) \in Like(a) /\ ToDamage(n, b, by).mHp <= b.mHp
           /\ ToPiercingDamage(n, b, by) \in Like(a)
           /\ ToPiercingDamage(n, b, by).mHp <= b.mHp
<1>1. ForceOf(n, by) \in Nat
  BY Forces
<1> DEFINE m == ForceOf(n, by)
<1> HIDE DEF m
<1>2. m \in Nat
  BY <1>1 DEF m
<1>3. /\ Absorb(m, b) \in Like(a) /\ Absorb(m, b).mHp <= b.mHp
      /\ ToJustDamage(m, b) \in Like(a) /\ ToJustDamage(m, b).mHp <= b.mHp
  BY <1>2, Absorbed, JustDamage
<1>4. /\ ToDamage(n, b, by) = IgnoringDamage(b, Absorb(m, b))
      /\ ToPiercingDamage(n, b, by) = IgnoringDamage(b, ToJustDamage(m, b))
  BY DEF ToDamage, ToPiercingDamage, m
<1> QED BY <1>3, <1>4, Ignoring

LEMMA Bombs ==
    ASSUME NEW a, NEW b \in Like(a)
    PROVE  EffectBomb(b) \in Like(a) /\ EffectBomb(b).mHp <= b.mHp
<1> DEFINE n == b.mInstallBombDamage
           c == Absorb(n, b)
<1>1. n \in Nat
  BY Fields
<1> HIDE DEF n
<1>2. c \in Like(a) /\ c.mHp <= b.mHp
  BY <1>1, Absorbed
<1> HIDE DEF c
<1>3. [c EXCEPT !.mInstallBombDamage = 0] \in Like(a)
  BY <1>2, NumberSet
<1>4. [c EXCEPT !.mInstallBombDamage = 0].mHp <= b.mHp
  BY <1>2, HpKept
<1>5. EffectBomb(b) = IgnoringDamage(b, [c EXCEPT !.mInstallBombDamage = 0])
  BY DEF EffectBomb, c, n
<1> QED BY <1>3, <1>4, <1>5, Ignoring

LEMMA Healed == ASSUME NEW a, NEW b \in Like(a), NEW n \in Int PROVE ToHeal(n, b) \in Like(a)
<1> DEFINE h == AtMost(b.mMaxHp, b.mHp + AtLeast0(n - b.mReducedHealing))
<1>1. b.mHp \in Nat /\ b.mMaxHp \in Nat /\ b.mReducedHealing \in Nat
  BY Fields
<1>2. h \in Nat /\ h <= b.mMaxHp
  BY <1>1 DEF AtLeast0, AtMost
<1> QED BY <1>2, HpSet DEF ToHeal

LEMMA Defended == ASSUME NEW a, NEW b \in Like(a), NEW n \in Int
                  PROVE  ToDefensive(n, b) \in Like(a)
<1> DEFINE d == AtLeast0(AsInt(b.mDefensive + n + b.mAdditionDefensive))
<1>1. b.mDefensive \in Nat /\ b.mAdditionDefensive \in Nat
  BY Fields
<1>2. AsInt(b.mDefensive + n + b.mAdditionDefensive) \in Int
  BY <1>1, Wraps
<1>3. d \in Nat
  BY <1>2 DEF AtLeast0
<1> HIDE DEF d
<1> QED BY <1>3, NumberSet DEF ToDefensive, d

LEMMA Changed ==
    ASSUME NEW a, NEW b \in Like(a), NEW n \in Nat
    PROVE  /\ ToOffensePower(n, b) \in Like(a) /\ ToAdditionDefensive(n, b) \in Like(a)
           /\ SetCounterAttack(n, b) \in Like(a) /\ SetCounterHeal(n, b) \in Like(a)
           /\ SetEffectHeal(n, b) \in Like(a)
  BY DEF ToOffensePower, ToAdditionDefensive, SetCounterAttack, SetCounterHeal, SetEffectHeal,
         Like, Sound, Avatar

LEMMA Harmed ==
    ASSUME NEW a, NEW b \in Like(a), NEW n \in Nat
    PROVE  /\ ToWeakening(n, b) \in Like(a) /\ ToBleeding(n, b) \in Like(a)
           /\ ToReducedHealing(n, b) \in Like(a) /\ SetInstallBomb(n, b) \in Like(a)
<1>1. [b EXCEPT !.mCanDefendNegativeEffect = FALSE] \in Like(a)
  BY FlagSet
<1>2. /\ [b EXCEPT !.mWeakening = @ + n] \in Like(a)
      /\ [b EXCEPT !.mBleeding = @ + n] \in Like(a)
      /\ [b EXCEPT !.mReducedHealing = @ + n] \in Like(a)
      /\ [b EXCEPT !.mInstallBombDamage = @ + n] \in Like(a)
  BY DEF Like, Sound, Avatar
<1> QED BY <1>1, <1>2 DEF ToWeakening, ToBleeding, ToReducedHealing, SetInstallBomb, Negative

LEMMA Cleared ==
    ASSUME NEW a, NEW b \in Like(a)
    PROVE  Clear(b) \in Like(a) /\ Clear(b).mHp = b.mHp
  BY DEF Clear, Like, Sound, Avatar

LEMMA CycleOver ==
    ASSUME NEW a, NEW b \in Like(a)
    PROVE  InitCycle(b) \in Like(a) /\ InitCycle(b).mHp = b.mHp
<1> DEFINE c == Clear(b)
<1>1. c \in Like(a) /\ c.mHp = b.mHp
  BY Cleared
<1> HIDE DEF c
<1>2. /\ [c EXCEPT !.mOffensePower = 0, !.mAdditionDefensive = 0,
                   !.mCounterAttackDamage = 0, !.mCounterHeal = 0,
                   !.mEffectHeal = 0, !.mEffectItemCount = 0,
                   !.mCanDefendNegativeEffect = FALSE,
                   !.mIsIgnoreNextDamage = FALSE] \in Like(a)
      /\ [c EXCEPT !.mOffensePower = 0, !.mAdditionDefensive = 0,
                   !.mCounterAttackDamage = 0, !.mCounterHeal = 0,
                   !.mEffectHeal = 0, !.mEffectItemCount = 0,
                   !.mCanDefendNegativeEffect = FALSE,
                   !.mIsIgnoreNextDamage = FALSE].mHp = c.mHp
  BY <1>1 DEF Like, Sound, Avatar
<1> QED BY <1>1, <1>2 DEF InitCycle, c
-----------------------------------------------------------------------------
(***************************************************************************)
(* The items, all alike: they change the two avatars as a fight may.       *)
(***************************************************************************)
Fights(a, b) ==
    [me : Like(a), opponents : Like(b), ticket : Nat, isValid : BOOLEAN, sumTicket : Nat]

LEMMA Both ==
    ASSUME NEW a, NEW b, NEW f \in Fights(a, b)
    PROVE  /\ f.me \in Like(a) /\ f.opponents \in Like(b)
           /\ \A x \in Like(a) : [f EXCEPT !.me = x] \in Fights(a, b)
           /\ \A x \in Like(b) : [f EXCEPT !.opponents = x] \in Fights(a, b)
           /\ f.sumTicket \in Nat /\ f.ticket \in Nat /\ f.isValid \in BOOLEAN
  BY DEF Fights

LEMMA Blows ==
    ASSUME NEW a, NEW b, NEW f \in Fights(a, b), NEW n \in Int
    PROVE  Hit(n, f) \in Fights(a, b) /\ Guard(n, f) \in Fights(a, b) /\ Heal(n, f) \in Fights(a, b)
<1>1. f.me \in Like(a) /\ f.opponents \in Like(b)
  BY Both
<1>2. /\ ToDamage(n, f.opponents, f.me) \in Like(b)
      /\ ToDefensive(n, f.me) \in Like(a) /\ ToHeal(n, f.me) \in Like(a)
  BY <1>1, Damage, Defended, Healed
<1> QED BY <1>2, Both DEF Hit, Guard, Heal

LEMMA Effects ==
    ASSUME NEW a, NEW b, NEW f \in Fights(a, b), NEW n \in Nat
    PROVE  Weaken(n, f) \in Fights(a, b) /\ Power(n, f) \in Fights(a, b) /\ Bleed(n, f) \in Fights(a, b)
<1>1. f.me \in Like(a) /\ f.opponents \in Like(b)
  BY Both
<1>2. /\ ToWeakening(n, f.opponents) \in Like(b) /\ ToBleeding(n, f.opponents) \in Like(b)
      /\ ToOffensePower(n, f.me) \in Like(a)
  BY <1>1, Harmed, Changed
<1> QED BY <1>2, Both DEF Weaken, Power, Bleed

\* A function that satisfies the recursion is what Hits defines.
LEMMA ManyHits ==
    ASSUME NEW a, NEW b, NEW f \in Fights(a, b), NEW times \in Nat, NEW n \in Int
    PROVE  Hits(times, n, f) \in Fights(a, b)
<1> DEFINE S == Fights(a, b)
           Is(g) == g = [i \in 0..times |-> IF i = 0 THEN f ELSE Hit(n, g[i - 1])]
           g0 == CHOOSE g : Is(g)
<1>0. \A x \in S : Hit(n, x) \in S
  BY Blows
<1> HIDE DEF S
<1>1. \E g : Is(g)
  <2> DEFINE F == [i \in 1..times |-> [x \in S |-> Hit(n, x)]]
  <2>1. F \in [1..times -> [S -> S]]
    BY <1>0
  <2>2. \A i \in 1..times : \A x \in S : F[i][x] = Hit(n, x)
    OBVIOUS
  <2>3. f \in S
    BY DEF S
  <2> HIDE DEF F
  <2>4. PICK g \in [0..times -> S] : g[0] = f /\ \A i \in 1..times : g[i] = F[i][g[i - 1]]
    BY <2>1, <2>3, Recursion
  <2> DEFINE h == [i \in 0..times |-> IF i = 0 THEN f ELSE Hit(n, g[i - 1])]
  <2>5. \A i \in 0..times : g[i] = h[i]
    <3> TAKE i \in 0..times
    <3>1. CASE i = 0
      BY <2>4, <3>1
    <3>2. CASE i # 0
      <4>1. i \in 1..times /\ g[i - 1] \in S
        BY <3>2
      <4>2. g[i] = F[i][g[i - 1]]
        BY <2>4, <3>2
      <4> QED BY <2>2, <4>1, <4>2, <3>2
    <3> QED BY <3>1, <3>2
  <2>6. h = [i \in 0..times |-> h[i]] /\ g = [i \in 0..times |-> g[i]]
    OBVIOUS
  <2> HIDE DEF h
  <2>7. g = h
    BY <2>5, <2>6
  <2> QED BY <2>7 DEF h
<1>2. Is(g0)
  BY <1>1
<1> HIDE DEF g0
<1>3. g0[0] \in S /\ \A i \in 1..times : g0[i - 1] \in S => g0[i] \in S
  <2>1. g0[0] \in S
    BY <1>2 DEF S
  <2> QED BY <1>0, <1>2, <2>1
<1>4. \A i \in 0..times : g0[i] \in S
  BY <1>3, Stays
<1> QED BY <1>4 DEF Hits, g0, S

\* What an item acts on.
LEMMA Acting ==
    ASSUME NEW a, NEW b, NEW f \in Fights(a, b)
    PROVE  /\ f.me.mHp \in Nat /\ f.me.mMaxHp \in Nat /\ f.me.mHp <= f.me.mMaxHp
           /\ f.me.mDefensive \in Nat /\ f.me.mEffectItemCount \in Nat
           /\ f.me.mUseKeyCapCount \in Nat /\ f.me.mHamburgerType \in Hamburger
           /\ f.opponents.mHp \in Nat /\ f.opponents.mMaxHp \in Nat
           /\ f.opponents.mHp <= f.opponents.mMaxHp /\ f.opponents.mMaxHp >= 5
  BY Both, Fields

\* Items that do one thing, by an amount that depends on the upgrade.
LEMMA SimpleItems ==
    ASSUME NEW a, NEW b, NEW f \in Fights(a, b), NEW u \in 0..2
    PROVE  \A g \in {Item001(u, f), Item002(u, f), Item003(u, f), Item004(u, f), Item008(u, f),
                     Item016(u, f), Item033(u, f), Item035(u, f), Item036(u, f),
                     Item038(u, f), Item039(u, f), Item040(u, f), Item042(u, f),
                     Item043(u, f), Item044(u, f)} : g \in Fights(a, b)
<1> DEFINE S == Fights(a, b)
<1>1. ASSUME NEW n \in Int PROVE Hit(n, f) \in S /\ Guard(n, f) \in S /\ Heal(n, f) \in S
                                 /\ Hits(2, n, f) \in S
  BY Blows, ManyHits
<1>2. ASSUME NEW n \in Nat PROVE Weaken(n, f) \in S /\ Power(n, f) \in S
  BY Effects
<1>3. /\ <<5, 8, 12>>[u + 1] \in Nat /\ <<3, 5, 7>>[u + 1] \in Nat /\ <<3, 4, 6>>[u + 1] \in Nat
      /\ <<2, 3, 5>>[u + 1] \in Nat /\ u + 1 \in Nat /\ 4 * u + 5 \in Nat /\ 2 * u + 7 \in Nat
  BY Amounts
<1>4. Item001(u, f) \in S /\ Item002(u, f) \in S /\ Item003(u, f) \in S /\ Item004(u, f) \in S
  BY <1>1, <1>2, <1>3 DEF Item001, Item002, Item003, Item004
<1>5. Item008(u, f) \in S /\ Item016(u, f) \in S /\ Item033(u, f) \in S /\ Item035(u, f) \in S
  BY <1>1, <1>2, <1>3 DEF Item008, Item016, Item033, Item035
<1>6. Item036(u, f) \in S /\ Item038(u, f) \in S /\ Item039(u, f) \in S /\ Item040(u, f) \in S
  BY <1>1, <1>3 DEF Item036, Item038, Item039, Item040, Early
<1>7. Item042(u, f) \in S /\ Item043(u, f) \in S /\ Item044(u, f) \in S
  BY <1>1, <1>3 DEF Item042, Item043, Item044
<1> QED BY <1>4, <1>5, <1>6, <1>7

\* Items that do several things, one after the other.
LEMMA DoubleItems ==
    ASSUME NEW a, NEW b, NEW f \in Fights(a, b), NEW u \in 0..2
    PROVE  \A g \in {Item019(u, f), Item020(u, f), Item022(u, f), Item026(u, f), Item027(u, f),
                     Item028(u, f), Item041(u, f)} : g \in Fights(a, b)
<1> DEFINE S == Fights(a, b)
<1>1. ASSUME NEW n \in Int, NEW g \in S
      PROVE  Hit(n, g) \in S /\ Guard(n, g) \in S /\ Heal(n, g) \in S
  BY <1>1, Blows
<1>2. ASSUME NEW n \in Nat, NEW g \in S PROVE Weaken(n, g) \in S /\ Bleed(n, g) \in S
  BY <1>2, Effects
<1>3. /\ <<6, 9, 13>>[u + 1] \in Nat /\ <<3, 6, 11>>[u + 1] \in Nat /\ <<3, 5, 10>>[u + 1] \in Nat
      /\ <<2, 3, 5>>[u + 1] \in Nat /\ u + 2 \in Nat /\ u \in Nat /\ 2 * (u + 1) \in Nat
  BY Amounts
<1>4. Item019(u, f) \in S /\ Item022(u, f) \in S /\ Item028(u, f) \in S /\ Item041(u, f) \in S
  BY <1>1, <1>2, <1>3 DEF Item019, Item022, Item028, Item041
<1>5. Item020(u, f) \in S
  <2> DEFINE g == Weaken(u + 2, f)
  <2>1. g \in S
    BY <1>2, <1>3
  <2> HIDE DEF g
  <2>2. ToWeakening(u, g.me) \in Like(a)
    BY <1>3, <2>1, Both, Harmed
  <2>3. [g EXCEPT !.me = ToWeakening(u, @)] \in S
    BY <2>1, <2>2, Both
  <2> QED BY <2>1, <2>3 DEF Item020, g
<1>6. Item026(u, f) \in S
  <2> DEFINE g == Hit(10, f)
  <2>1. g \in S
    BY <1>1
  <2> HIDE DEF g
  <2>2. ToReducedHealing(2 * (u + 1), g.opponents) \in Like(b)
    BY <1>3, <2>1, Both, Harmed
  <2> QED BY <2>1, <2>2, Both DEF Item026, g
<1>7. Item027(u, f) \in S
  <2> DEFINE g == Guard(<<3, 5, 10>>[u + 1], f)
  <2>1. g \in S
    BY <1>1, <1>3
  <2> HIDE DEF g
  <2>2. g.me.mDefensive \in Int
    BY <2>1, Acting
  <2> QED BY <1>1, <2>1, <2>2 DEF Item027, g
<1> QED BY <1>4, <1>5, <1>6, <1>7

\* Items whose effect depends on the avatars.
LEMMA DependentItems ==
    ASSUME NEW a, NEW b, NEW f \in Fights(a, b), NEW u \in 0..2, f.me.mEffectItemCount > 0
    PROVE  \A g \in {Item005(u, f), Item007(u, f), Item015(u, f), Item017(u, f), Item018(u, f),
                     Item024(u, f), Item025(u, f), Item032(u, f), Item034(u, f),
                     Item045(u, f)} : g \in Fights(a, b)
<1> DEFINE S == Fights(a, b)
<1>0. /\ f.me.mHp \in Nat /\ f.me.mMaxHp \in Nat /\ f.me.mHp <= f.me.mMaxHp
      /\ f.me.mDefensive \in Nat /\ f.me.mEffectItemCount \in Nat
      /\ f.me.mUseKeyCapCount \in Nat /\ f.me.mHamburgerType \in Hamburger
      /\ f.opponents.mHp \in Nat /\ f.opponents.mMaxHp \in Nat
      /\ f.opponents.mHp <= f.opponents.mMaxHp /\ f.opponents.mMaxHp >= 5
      /\ f.sumTicket \in Nat
  BY Acting, Both
<1>1. ASSUME NEW n \in Int, NEW g \in S
      PROVE  /\ Hit(n, g) \in S /\ Guard(n, g) \in S /\ Heal(n, g) \in S
             /\ \A times \in Nat : Hits(times, n, g) \in S
  BY <1>1, Blows, ManyHits
<1>2. ASSUME NEW n \in Nat PROVE Weaken(n, f) \in S /\ Power(n, f) \in S
  BY <1>2, Effects
<1>3. /\ <<3, 4, 6>>[u + 1] \in Nat /\ <<7, 9, 12>>[u + 1] \in Nat /\ <<4, 6, 9>>[u + 1] \in Nat
      /\ <<25, 40, 50>>[u + 1] \in Nat /\ u + 2 \in Nat
  BY Amounts
<1>4. Item005(u, f) \in S
  <2> DEFINE t == <<3, 4, 6>>[u + 1]
  <2>1. t \in Int
    BY <1>3
  <2> HIDE DEF t
  <2>2. 5 + f.me.mDefensive * t \in Int
    BY <1>0, <2>1
  <2>3. AsInt(5 + f.me.mDefensive * t) \in Int
    BY <2>2, Wraps
  <2> QED BY <1>1, <2>3 DEF Item005, t
<1>5. Item007(u, f) \in S
  BY <1>0, <1>1, <1>2, <1>3 DEF Item007, Hamburger
<1>6. Item015(u, f) \in S
  <2>1. 10 * (u + 1) \in Int
    OBVIOUS
  <2> QED BY <1>0, <1>1, <2>1 DEF Item015
<1>7. Item017(u, f) \in S
  <2> DEFINE t == <<f.sumTicket \div 2, f.sumTicket, 2 * f.sumTicket>>[u + 1]
  <2>1. f.sumTicket \div 2 \in Nat /\ 2 * f.sumTicket \in Nat
    BY <1>0
  <2>2. t \in Nat
    BY <1>0, <2>1, Amounts
  <2> HIDE DEF t
  <2> QED BY <1>1, <2>2 DEF Item017, t
<1>8. Item018(u, f) \in S
  <2>1. 5 * (u + 2) * (IF f.opponents.mDefensive = 0 THEN 1 ELSE 2) \in Int
    OBVIOUS
  <2> QED BY <1>1, <2>1 DEF Item018
<1>9. Item024(u, f) \in S
  <2> DEFINE y == f.opponents.mMaxHp \div 5
             d == f.opponents.mMaxHp - f.opponents.mHp
  <2>1. y \in Nat /\ y > 0 /\ d \in Nat
    BY <1>0
  <2> HIDE DEF y, d
  <2>2. d \div y \in Int
    BY <2>1
  <2>3. 4 * u + 7 + d \div y \in Int
    BY <2>2
  <2> QED BY <1>1, <2>3 DEF Item024, y, d
<1>10. Item025(u, f) \in S
  <2>1. u + (IF Early(f) THEN 3 ELSE 5) \in Nat
    OBVIOUS
  <2> QED BY <1>2, <2>1 DEF Item025
<1>11. Item032(u, f) \in S
  <2> DEFINE t == <<25, 40, 50>>[u + 1]
             d == f.me.mMaxHp - f.me.mHp
  <2>1. t \in Nat /\ d \in Nat
    BY <1>0, <1>3
  <2> HIDE DEF t, d
  <2>2. (d * t) \div 100 \in Int
    BY <2>1
  <2> QED BY <1>1, <2>2 DEF Item032, t, d
<1>12. Item034(u, f) \in S
  <2> DEFINE g == [f EXCEPT !.me.mUseKeyCapCount = @ + 1]
  <2> DEFINE c == f.me.mUseKeyCapCount + 1
  <2>a. c \in Nat
    BY <1>0
  <2> HIDE DEF c
  <2>1. [f.me EXCEPT !.mUseKeyCapCount = c] \in Like(a)
    BY <2>a, Both, NumberSet
  <2>2. g = [f EXCEPT !.me = [f.me EXCEPT !.mUseKeyCapCount = c]]
    BY DEF Fights, c
  <2>3. g \in S
    BY <2>1, <2>2, Both
  <2> HIDE DEF g
  <2>4. g.me.mUseKeyCapCount \in Nat
    BY <2>3, Acting
  <2> QED BY <1>1, <1>3, <2>3, <2>4 DEF Item034, g
<1>13. Item045(u, f) \in S
  <2>1. f.me.mEffectItemCount - 1 \in Nat
    BY <1>0
  <2>2. 2 ^ (f.me.mEffectItemCount - 1) \in Int
    BY <2>1
  <2> QED BY <1>1, <2>2 DEF Item045
<1> QED BY <1>4, <1>5, <1>6, <1>7, <1>8, <1>9, <1>10, <1>11, <1>12, <1>13

\* Items that set something of one of the avatars.
LEMMA SettingItems ==
    ASSUME NEW a, NEW b, NEW f \in Fights(a, b), NEW u \in 0..2
    PROVE  \A g \in {Item006(u, f), Item009(u, f), Item010(u, f), Item011(u, f), Item012(u, f),
                     Item013(u, f), Item014(u, f), Item023(u, f), Item030(u, f), Item031(u, f),
                     Item037(u, f)} : g \in Fights(a, b)
<1> DEFINE S == Fights(a, b)
<1>0. f.me \in Like(a) /\ f.opponents \in Like(b)
  BY Both
<1>1. \A x \in Like(a) : [f EXCEPT !.me = x] \in S
  BY Both
<1>2. \A x \in Like(b) : [f EXCEPT !.opponents = x] \in S
  BY Both
<1>3. ASSUME NEW n \in Int PROVE Guard(n, f) \in S
  BY Blows
<1>4. /\ <<5, 7, 10>>[u + 1] \in Nat /\ <<6, 8, 11>>[u + 1] \in Nat /\ <<1, 3, 4>>[u + 1] \in Nat
      /\ <<15, 20, 30>>[u + 1] \in Nat /\ <<6, 9, 13>>[u + 1] \in Nat
      /\ 2 * (u + 1) \in Nat /\ u + 3 \in Nat /\ 3 * (u + 3) \in Nat
  BY Amounts
<1>5. Item006(u, f) \in S /\ Item011(u, f) \in S /\ Item012(u, f) \in S /\ Item013(u, f) \in S
  <2>1. /\ Clear(f.me) \in Like(a) /\ ToAdditionDefensive(2 * (u + 1), f.me) \in Like(a)
        /\ SetEffectHeal(<<1, 3, 4>>[u + 1], f.me) \in Like(a)
        /\ SetInstallBomb(<<15, 20, 30>>[u + 1], f.opponents) \in Like(b)
    BY <1>0, <1>4, Cleared, Changed, Harmed
  <2> QED BY <1>1, <1>2, <2>1 DEF Item006, Item011, Item012, Item013
<1>6. Item009(u, f) \in S /\ Item010(u, f) \in S
  <2> DEFINE g == Guard(4, f)
  <2>1. g \in S
    BY <1>3
  <2> HIDE DEF g
  <2>2. /\ SetCounterAttack(<<5, 7, 10>>[u + 1], g.me) \in Like(a)
        /\ SetCounterHeal(<<6, 8, 11>>[u + 1], g.me) \in Like(a)
    BY <1>4, <2>1, Both, Changed
  <2> QED BY <2>1, <2>2, Both DEF Item009, Item010, g
<1>7. Item014(u, f) \in S
  <2> DEFINE g == [f EXCEPT !.me = ToJustDamage(u + 3, @)]
  <2>1. ToJustDamage(u + 3, f.me) \in Like(a)
    BY <1>0, <1>4, JustDamage
  <2>2. g \in S
    BY <1>1, <2>1
  <2> HIDE DEF g
  <2> QED BY <1>4, <2>2, Blows DEF Item014, g
<1>8. Item023(u, f) \in S
  <2>1. [f.me EXCEPT !.mWeakening = 0] \in Like(a) /\ [f.opponents EXCEPT !.mOffensePower = 0] \in Like(b)
    BY <1>0, NumberSet
  <2> DEFINE g == [f EXCEPT !.opponents = [f.opponents EXCEPT !.mOffensePower = 0]]
             x == [f.me EXCEPT !.mWeakening = 0]
  <2>2. g \in S /\ x \in Like(a)
    BY <1>2, <2>1
  <2>3. Item023(u, f) = [g EXCEPT !.me = x]
    BY DEF Item023, Fights
  <2> HIDE DEF g, x
  <2> QED BY <2>2, <2>3, Both
<1>9. Item030(u, f) \in S /\ Item037(u, f) \in S
  <2>1. /\ [f.me EXCEPT !.mIsIgnoreNextDamage = TRUE] \in Like(a)
        /\ [f.me EXCEPT !.mCanDefendNegativeEffect = TRUE] \in Like(a)
    BY <1>0, FlagSet
  <2>2. /\ Item030(u, f) = [f EXCEPT !.me = [f.me EXCEPT !.mIsIgnoreNextDamage = TRUE]]
        /\ Item037(u, f) = [f EXCEPT !.me = [f.me EXCEPT !.mCanDefendNegativeEffect = TRUE]]
    BY DEF Item030, Item037, Fights
  <2> QED BY <1>1, <2>1, <2>2
<1>10. Item031(u, f) \in S
  <2> DEFINE t == <<6, 9, 13>>[u + 1]
  <2>1. t \in Int
    BY <1>4
  <2> HIDE DEF t
  <2>2. ToPiercingDamage(t, f.opponents, f.me) \in Like(b)
    BY <1>0, <2>1, Damage
  <2> QED BY <1>2, <2>2 DEF Item031, t
<1> QED BY <1>5, <1>6, <1>7, <1>8, <1>9, <1>10

LEMMA RandomItems ==
    ASSUME NEW a, NEW b, NEW f \in Fights(a, b), NEW u \in 0..2
    PROVE  Item021(u, f) \subseteq Fights(a, b) /\ Item029(u, f) \subseteq Fights(a, b)
<1>1. Hit(<<6, 9, 13>>[u + 1], f) \in Fights(a, b) /\ Heal(<<7, 10, 14>>[u + 1], f) \in Fights(a, b)
  <2> DEFINE t == <<6, 9, 13>>[u + 1]
             h == <<7, 10, 14>>[u + 1]
  <2>1. t \in Nat /\ h \in Nat
    BY Amounts
  <2>2. t \in Int /\ h \in Int
    BY <2>1
  <2> HIDE DEF t, h
  <2>3. Hit(t, f) \in Fights(a, b) /\ Heal(h, f) \in Fights(a, b)
    BY <2>2, Blows
  <2> QED BY <2>3 DEF t, h
<1>2. [f EXCEPT !.ticket = @ + 1] \in Fights(a, b)
  BY DEF Fights
<1> QED BY <1>1, <1>2 DEF Item021, Item029

\* Whatever is used: both stay avatars of the same clients, in the same state.
LEMMA ItemsKeepFighters ==
    ASSUME NEW a, NEW b, NEW f \in Fights(a, b), f.me.mEffectItemCount > 0, NEW item \in Item
    PROVE  Active(item, f) \subseteq Fights(a, b)
<1> DEFINE u == item.upgrade
           n == item.type
           S == Fights(a, b)
<1>1. u \in 0..2 /\ n \in 0..45
  BY DEF Item
<1>2. CASE n = 0
  BY <1>2 DEF Active, EMPTY_ITEM
<1>3. CASE n \in {21, 29}
  BY <1>1, <1>3, RandomItems DEF Active, EMPTY_ITEM
<1>4. CASE n \notin {0, 21, 29}
  <2> HIDE DEF S
  <2>1. \A g \in {Item001(u, f), Item002(u, f), Item003(u, f), Item004(u, f), Item008(u, f),
                  Item016(u, f), Item033(u, f), Item035(u, f), Item036(u, f),
                  Item038(u, f), Item039(u, f), Item040(u, f), Item042(u, f),
                  Item043(u, f), Item044(u, f)} : g \in S
    BY <1>1, SimpleItems DEF S
  <2>2. \A g \in {Item019(u, f), Item020(u, f), Item022(u, f), Item026(u, f), Item027(u, f),
                  Item028(u, f), Item041(u, f)} : g \in S
    BY <1>1, DoubleItems DEF S
  <2>3. \A g \in {Item005(u, f), Item007(u, f), Item015(u, f), Item017(u, f), Item018(u, f),
                  Item024(u, f), Item025(u, f), Item032(u, f), Item034(u, f),
                  Item045(u, f)} : g \in S
    BY <1>1, DependentItems DEF S
  <2>4. \A g \in {Item006(u, f), Item009(u, f), Item010(u, f), Item011(u, f), Item012(u, f),
                  Item013(u, f), Item014(u, f), Item023(u, f), Item030(u, f), Item031(u, f),
                  Item037(u, f)} : g \in S
    BY <1>1, SettingItems DEF S
  <2>5. n \in 1..20 \cup 22..28 \cup 30..45
    BY <1>1, <1>4
  <2> HIDE DEF u, n
  <2>6. CASE n \in 1..7
    <3>1. ASSUME n = 1 PROVE Active(item, f) = {Item001(u, f)} /\ Item001(u, f) \in S
      BY <3>1, <2>1 DEF Active, EMPTY_ITEM, u, n
    <3>2. ASSUME n = 2 PROVE Active(item, f) = {Item002(u, f)} /\ Item002(u, f) \in S
      BY <3>2, <2>1 DEF Active, EMPTY_ITEM, u, n
    <3>3. ASSUME n = 3 PROVE Active(item, f) = {Item003(u, f)} /\ Item003(u, f) \in S
      BY <3>3, <2>1 DEF Active, EMPTY_ITEM, u, n
    <3>4. ASSUME n = 4 PROVE Active(item, f) = {Item004(u, f)} /\ Item004(u, f) \in S
      BY <3>4, <2>1 DEF Active, EMPTY_ITEM, u, n
    <3>5. ASSUME n = 5 PROVE Active(item, f) = {Item005(u, f)} /\ Item005(u, f) \in S
      BY <3>5, <2>3 DEF Active, EMPTY_ITEM, u, n
    <3>6. ASSUME n = 6 PROVE Active(item, f) = {Item006(u, f)} /\ Item006(u, f) \in S
      BY <3>6, <2>4 DEF Active, EMPTY_ITEM, u, n
    <3>7. ASSUME n = 7 PROVE Active(item, f) = {Item007(u, f)} /\ Item007(u, f) \in S
      BY <3>7, <2>3 DEF Active, EMPTY_ITEM, u, n
    <3> QED BY <2>6, <3>1, <3>2, <3>3, <3>4, <3>5, <3>6, <3>7 DEF S
  <2>7. CASE n \in 8..14
    <3>1. ASSUME n = 8 PROVE Active(item, f) = {Item008(u, f)} /\ Item008(u, f) \in S
      BY <3>1, <2>1 DEF Active, EMPTY_ITEM, u, n
    <3>2. ASSUME n = 9 PROVE Active(item, f) = {Item009(u, f)} /\ Item009(u, f) \in S
      BY <3>2, <2>4 DEF Active, EMPTY_ITEM, u, n
    <3>3. ASSUME n = 10 PROVE Active(item, f) = {Item010(u, f)} /\ Item010(u, f) \in S
      BY <3>3, <2>4 DEF Active, EMPTY_ITEM, u, n
    <3>4. ASSUME n = 11 PROVE Active(item, f) = {Item011(u, f)} /\ Item011(u, f) \in S
      BY <3>4, <2>4 DEF Active, EMPTY_ITEM, u, n
    <3>5. ASSUME n = 12 PROVE Active(item, f) = {Item012(u, f)} /\ Item012(u, f) \in S
      BY <3>5, <2>4 DEF Active, EMPTY_ITEM, u, n
    <3>6. ASSUME n = 13 PROVE Active(item, f) = {Item013(u, f)} /\ Item013(u, f) \in S
      BY <3>6, <2>4 DEF Active, EMPTY_ITEM, u, n
    <3>7. ASSUME n = 14 PROVE Active(item, f) = {Item014(u, f)} /\ Item014(u, f) \in S
      BY <3>7, <2>4 DEF Active, EMPTY_ITEM, u, n
    <3> QED BY <2>7, <3>1, <3>2, <3>3, <3>4, <3>5, <3>6, <3>7 DEF S
  <2>8. CASE n \in 15..20
    <3>1. ASSUME n = 15 PROVE Active(item, f) = {Item015(u, f)} /\ Item015(u, f) \in S
      BY <3>1, <2>3 DEF Active, EMPTY_ITEM, u, n
    <3>2. ASSUME n = 16 PROVE Active(item, f) = {Item016(u, f)} /\ Item016(u, f) \in S
      BY <3>2, <2>1 DEF Active, EMPTY_ITEM, u, n
    <3>3. ASSUME n = 17 PROVE Active(item, f) = {Item017(u, f)} /\ Item017(u, f) \in S
      BY <3>3, <2>3 DEF Active, EMPTY_ITEM, u, n
    <3>4. ASSUME n = 18 PROVE Active(item, f) = {Item018(u, f)} /\ Item018(u, f) \in S
      BY <3>4, <2>3 DEF Active, EMPTY_ITEM, u, n
    <3>5. ASSUME n = 19 PROVE Active(item, f) = {Item019(u, f)} /\ Item019(u, f) \in S
      BY <3>5, <2>2 DEF Active, EMPTY_ITEM, u, n
    <3>6. ASSUME n = 20 PROVE Active(item, f) = {Item020(u, f)} /\ Item020(u, f) \in S
      BY <3>6, <2>2 DEF Active, EMPTY_ITEM, u, n
    <3> QED BY <2>8, <3>1, <3>2, <3>3, <3>4, <3>5, <3>6 DEF S
  <2>9. CASE n \in 22..28
    <3>1. ASSUME n = 22 PROVE Active(item, f) = {Item022(u, f)} /\ Item022(u, f) \in S
      BY <3>1, <2>2 DEF Active, EMPTY_ITEM, u, n
    <3>2. ASSUME n = 23 PROVE Active(item, f) = {Item023(u, f)} /\ Item023(u, f) \in S
      BY <3>2, <2>4 DEF Active, EMPTY_ITEM, u, n
    <3>3. ASSUME n = 24 PROVE Active(item, f) = {Item024(u, f)} /\ Item024(u, f) \in S
      BY <3>3, <2>3 DEF Active, EMPTY_ITEM, u, n
    <3>4. ASSUME n = 25 PROVE Active(item, f) = {Item025(u, f)} /\ Item025(u, f) \in S
      BY <3>4, <2>3 DEF Active, EMPTY_ITEM, u, n
    <3>5. ASSUME n = 26 PROVE Active(item, f) = {Item026(u, f)} /\ Item026(u, f) \in S
      BY <3>5, <2>2 DEF Active, EMPTY_ITEM, u, n
    <3>6. ASSUME n = 27 PROVE Active(item, f) = {Item027(u, f)} /\ Item027(u, f) \in S
      BY <3>6, <2>2 DEF Active, EMPTY_ITEM, u, n
    <3>7. ASSUME n = 28 PROVE Active(item, f) = {Item028(u, f)} /\ Item028(u, f) \in S
      BY <3>7, <2>2 DEF Active, EMPTY_ITEM, u, n
    <3> QED BY <2>9, <3>1, <3>2, <3>3, <3>4, <3>5, <3>6, <3>7 DEF S
  <2>10. CASE n \in 30..37
    <3>1. ASSUME n = 30 PROVE Active(item, f) = {Item030(u, f)} /\ Item030(u, f) \in S
      BY <3>1, <2>4 DEF Active, EMPTY_ITEM, u, n
    <3>2. ASSUME n = 31 PROVE Active(item, f) = {Item031(u, f)} /\ Item031(u, f) \in S
      BY <3>2, <2>4 DEF Active, EMPTY_ITEM, u, n
    <3>3. ASSUME n = 32 PROVE Active(item, f) = {Item032(u, f)} /\ Item032(u, f) \in S
      BY <3>3, <2>3 DEF Active, EMPTY_ITEM, u, n
    <3>4. ASSUME n = 33 PROVE Active(item, f) = {Item033(u, f)} /\ Item033(u, f) \in S
      BY <3>4, <2>1 DEF Active, EMPTY_ITEM, u, n
    <3>5. ASSUME n = 34 PROVE Active(item, f) = {Item034(u, f)} /\ Item034(u, f) \in S
      BY <3>5, <2>3 DEF Active, EMPTY_ITEM, u, n
    <3>6. ASSUME n = 35 PROVE Active(item, f) = {Item035(u, f)} /\ Item035(u, f) \in S
      BY <3>6, <2>1 DEF Active, EMPTY_ITEM, u, n
    <3>7. ASSUME n = 36 PROVE Active(item, f) = {Item036(u, f)} /\ Item036(u, f) \in S
      BY <3>7, <2>1 DEF Active, EMPTY_ITEM, u, n
    <3>8. ASSUME n = 37 PROVE Active(item, f) = {Item037(u, f)} /\ Item037(u, f) \in S
      BY <3>8, <2>4 DEF Active, EMPTY_ITEM, u, n
    <3> QED BY <2>10, <3>1, <3>2, <3>3, <3>4, <3>5, <3>6, <3>7, <3>8 DEF S
  <2>11. CASE n \in 38..45
    <3>1. ASSUME n = 38 PROVE Active(item, f) = {Item038(u, f)} /\ Item038(u, f) \in S
      BY <3>1, <2>1 DEF Active, EMPTY_ITEM, u, n
    <3>2. ASSUME n = 39 PROVE Active(item, f) = {Item039(u, f)} /\ Item039(u, f) \in S
      BY <3>2, <2>1 DEF Active, EMPTY_ITEM, u, n
    <3>3. ASSUME n = 40 PROVE Active(item, f) = {Item040(u, f)} /\ Item040(u, f) \in S
      BY <3>3, <2>1 DEF Active, EMPTY_ITEM, u, n
    <3>4. ASSUME n = 41 PROVE Active(item, f) = {Item041(u, f)} /\ Item041(u, f) \in S
      BY <3>4, <2>2 DEF Active, EMPTY_ITEM, u, n
    <3>5. ASSUME n = 42 PROVE Active(item, f) = {Item042(u, f)} /\ Item042(u, f) \in S
      BY <3>5, <2>1 DEF Active, EMPTY_ITEM, u, n
    <3>6. ASSUME n = 43 PROVE Active(item, f) = {Item043(u, f)} /\ Item043(u, f) \in S
      BY <3>6, <2>1 DEF Active, EMPTY_ITEM, u, n
    <3>7. ASSUME n = 44 PROVE Active(item, f) = {Item044(u, f)} /\ Item044(u, f) \in S
      BY <3>7, <2>1 DEF Active, EMPTY_ITEM, u, n
    <3>8. ASSUME n = 45 PROVE Active(item, f) = {Item045(u, f)} /\ Item045(u, f) \in S
      BY <3>8, <2>3 DEF Active, EMPTY_ITEM, u, n
    <3> QED BY <2>11, <3>1, <3>2, <3>3, <3>4, <3>5, <3>6, <3>7, <3>8 DEF S
  <2> QED BY <2>5, <2>6, <2>7, <2>8, <2>9, <2>10, <2>11
<1> QED BY <1>2, <1>3, <1>4
-----------------------------------------------------------------------------
(***************************************************************************)
(* Before the fight.                                                       *)
(***************************************************************************)
Alive(a) == {b \in Like(a) : b.mHp > 0}

LEMMA PassiveEffect ==
    ASSUME NEW a, NEW b \in Alive(a), NEW item \in Item
    PROVE  Passive(item, b) \in Alive(a)
<1> DEFINE u == item.upgrade
           n == item.type
<1>1. u \in 0..2
  BY DEF Item
<1>2. b \in Like(a) /\ b.mMaxHp \in Nat /\ b.mMaxHp >= 5 /\ b.mFirstAttackState \in Nat
      /\ b.mHp > 0
  BY DEF Alive, Like, Sound, Avatar
<1>3. ASSUME NEW x \in Nat, x >= 5 PROVE SetMaxHP(x, b) \in Alive(a)
  <2> DEFINE c == [b EXCEPT !.mMaxHp = x]
             d == [c EXCEPT !.mHp = x]
  <2>1. /\ c \in Avatar /\ c.mMaxHp = x
        /\ c.mClient = b.mClient /\ c.mIsGhost = b.mIsGhost
        /\ c.mIsFinish = b.mIsFinish /\ c.mIsCharacterDamage = b.mIsCharacterDamage
    BY <1>2 DEF Like, Sound, Avatar
  <2> HIDE DEF c
  <2>2. /\ d \in Avatar /\ d.mMaxHp = x /\ d.mHp = x
        /\ d.mClient = b.mClient /\ d.mIsGhost = b.mIsGhost
        /\ d.mIsFinish = b.mIsFinish /\ d.mIsCharacterDamage = b.mIsCharacterDamage
    BY <2>1 DEF Avatar
  <2>3. SetMaxHP(x, b) = d
    BY DEF SetMaxHP, c
  <2> HIDE DEF d
  <2> QED BY <1>2, <1>3, <2>2, <2>3 DEF Alive, Like, Sound
<1>4. ASSUME NEW x \in Int PROVE ToDefensive(x, b) \in Alive(a)
  <2>1. ToDefensive(x, b) \in Like(a)
    BY <1>2, Defended
  <2>2. ToDefensive(x, b).mHp = b.mHp
    BY <1>2, HpKept DEF ToDefensive
  <2> QED BY <1>2, <2>1, <2>2 DEF Alive
<1>5. ASSUME NEW x \in Nat PROVE [b EXCEPT !.mFirstAttackState = x] \in Alive(a)
  BY DEF Alive, Like, Sound, Avatar
<1>6. CASE n \in {6, 16, 36}
  <2> DEFINE x == b.mMaxHp + 5 + 5 * u
  <2>1. x \in Nat /\ x >= 5
    BY <1>1, <1>2
  <2> HIDE DEF x
  <2>2. SetMaxHP(x, b) \in Alive(a)
    BY <1>3, <2>1
  <2> QED BY <1>6, <2>2 DEF Passive, x
<1>7. CASE n = 32
  <2> DEFINE t == <<7, 12, 20>>[u + 1]
             x == b.mMaxHp + t
  <2>1. t \in Nat
    BY <1>1, Amounts
  <2> HIDE DEF t
  <2>2. x \in Nat /\ x >= 5
    BY <1>2, <2>1
  <2> HIDE DEF x
  <2>3. SetMaxHP(x, b) \in Alive(a)
    BY <1>3, <2>2
  <2> QED BY <1>7, <2>3 DEF Passive, x, t
<1>8. CASE n \in {7, 27, 30, 37}
  <2> DEFINE x == 3 + 3 * u
             y == 5 + 5 * u
  <2>1. x \in Int /\ y \in Int
    BY <1>1
  <2> HIDE DEF x, y
  <2>2. ToDefensive(x, b) \in Alive(a) /\ ToDefensive(y, b) \in Alive(a)
    BY <1>4, <2>1
  <2> QED BY <1>8, <2>2 DEF Passive, x, y
<1>9. CASE n \in {15, 23}
  <2> DEFINE x == b.mFirstAttackState + 2 + u
             y == b.mFirstAttackState + 1 + u
  <2>1. x \in Nat /\ y \in Nat
    BY <1>1, <1>2
  <2>2. [b EXCEPT !.mFirstAttackState = x] \in Alive(a) /\ [b EXCEPT !.mFirstAttackState = y] \in Alive(a)
    <3> HIDE DEF x, y
    <3> QED BY <1>5, <2>1
  <2> QED BY <1>9, <2>2 DEF Passive
<1>10. CASE n \notin {6, 7, 15, 16, 23, 27, 30, 32, 36, 37}
  BY <1>10 DEF Passive
<1> QED BY <1>6, <1>7, <1>8, <1>9, <1>10

\* What all the items one has do to one who is up.
LEMMA Fitted ==
    ASSUME NEW a \in Sound, a.mHp > 0
    PROVE  FitmentEffect(a) \in Alive(a)
<1> DEFINE S == Alive(a)
           N == MAX_USING_ITEM_COUNT
           it(i) == a.mUsingItem[i - 1]
           Is(g) == g = [i \in 0..N |-> IF i = 0 THEN a ELSE Passive(it(i), g[i - 1])]
           g0 == CHOOSE g : Is(g)
<1>a. N \in Nat
  BY AvatarAssumption
<1>b. a \in S
  BY DEF Alive, Like
<1>c. \A i \in 1..N : it(i) \in Item
  BY AvatarAssumption DEF Sound, Avatar, Slots
<1>0. \A i \in 1..N : \A x \in S : Passive(it(i), x) \in S
  BY <1>c, PassiveEffect
<1> HIDE DEF S, N, it
<1>1. \E g : Is(g)
  <2> DEFINE F == [i \in 1..N |-> [x \in S |-> Passive(it(i), x)]]
  <2>1. F \in [1..N -> [S -> S]]
    BY <1>0
  <2>2. \A i \in 1..N : \A x \in S : F[i][x] = Passive(it(i), x)
    OBVIOUS
  <2> HIDE DEF F
  <2>4. PICK g \in [0..N -> S] : g[0] = a /\ \A i \in 1..N : g[i] = F[i][g[i - 1]]
    BY <1>a, <1>b, <2>1, Recursion
  <2> DEFINE h == [i \in 0..N |-> IF i = 0 THEN a ELSE Passive(it(i), g[i - 1])]
  <2>5. \A i \in 0..N : g[i] = h[i]
    <3> TAKE i \in 0..N
    <3>1. CASE i = 0
      BY <2>4, <3>1
    <3>2. CASE i # 0
      <4>1. i \in 1..N /\ g[i - 1] \in S
        BY <1>a, <3>2
      <4>2. g[i] = F[i][g[i - 1]]
        BY <2>4, <3>2
      <4> QED BY <2>2, <4>1, <4>2, <3>2
    <3> QED BY <3>1, <3>2
  <2>6. h = [i \in 0..N |-> h[i]] /\ g = [i \in 0..N |-> g[i]]
    OBVIOUS
  <2> HIDE DEF h
  <2>7. g = h
    BY <2>5, <2>6
  <2> QED BY <2>7 DEF h
<1>2. Is(g0)
  BY <1>1
<1> HIDE DEF g0
<1>3. g0[0] \in S /\ \A i \in 1..N : g0[i - 1] \in S => g0[i] \in S
  <2>1. g0[0] \in S
    BY <1>2, <1>a, <1>b
  <2> QED BY <1>0, <1>a, <1>2, <2>1
<1>4. g0[N] \in S
  <2>1. \A i \in 0..N : g0[i] \in S
    BY <1>3, <1>a, Stays
  <2> QED BY <1>a, <2>1
<1> QED BY <1>4 DEF FitmentEffect, g0, S, N, it

\* What a lost fight costs.
LEMMA DamageIsNat == ASSUME NEW a PROVE GetDamage(a) \in Nat
<1> DEFINE S == Nat
           N == MAX_USING_ITEM_COUNT
           t(i) == IF a.mUsingItem[i - 1].type = EMPTY_ITEM THEN 0
                   ELSE Tier(a.mUsingItem[i - 1].type)
           Is(g) == g = [i \in 0..N |-> IF i = 0 THEN 0 ELSE g[i - 1] + t(i)]
           g0 == CHOOSE g : Is(g)
<1>a. N \in Nat
  BY AvatarAssumption
<1>0. \A i : t(i) \in Nat
  BY DEF Tier
<1>b. 0 \in S /\ \A i : \A x \in S : x + t(i) \in S
  BY <1>0
<1> HIDE DEF S, N, t
<1>1. \E g : Is(g)
  <2> DEFINE F == [i \in 1..N |-> [x \in S |-> x + t(i)]]
  <2>1. F \in [1..N -> [S -> S]]
    BY <1>b
  <2>2. \A i \in 1..N : \A x \in S : F[i][x] = x + t(i)
    OBVIOUS
  <2> HIDE DEF F
  <2>3. 0 \in S
    BY <1>b
  <2>4. PICK g \in [0..N -> S] : g[0] = 0 /\ \A i \in 1..N : g[i] = F[i][g[i - 1]]
    BY <1>a, <2>1, <2>3, Recursion
  <2> DEFINE h == [i \in 0..N |-> IF i = 0 THEN 0 ELSE g[i - 1] + t(i)]
  <2>5. \A i \in 0..N : g[i] = h[i]
    <3> TAKE i \in 0..N
    <3>1. CASE i = 0
      BY <2>4, <3>1
    <3>2. CASE i # 0
      <4>1. i \in 1..N /\ g[i - 1] \in S
        BY <1>a, <3>2
      <4>2. g[i] = F[i][g[i - 1]]
        BY <2>4, <3>2
      <4> QED BY <2>2, <4>1, <4>2, <3>2
    <3> QED BY <3>1, <3>2
  <2>6. h = [i \in 0..N |-> h[i]] /\ g = [i \in 0..N |-> g[i]]
    OBVIOUS
  <2> HIDE DEF h
  <2>7. g = h
    BY <2>5, <2>6
  <2> QED BY <2>7 DEF h
<1>2. Is(g0)
  BY <1>1
<1> HIDE DEF g0
<1>3. g0[0] \in S /\ \A i \in 1..N : g0[i - 1] \in S => g0[i] \in S
  BY <1>b, <1>a, <1>2
<1>4. g0[N] \in S
  <2>1. \A i \in 0..N : g0[i] \in S
    BY <1>3, <1>a, Stays
  <2> QED BY <1>a, <2>1
<1> QED BY <1>4 DEF GetDamage, g0, S, N, t

LEMMA CopiesAreItems == ASSUME NEW a \in Avatar PROVE GetRandomCopyItem(a) \subseteq Item
<1>1. \A s \in Slots : a.mUsingItem[s] \in Item
  BY DEF Avatar
<1>2. [type |-> 16, upgrade |-> 0] \in Item
  BY DEF Item
<1> QED BY <1>1, <1>2 DEF GetRandomCopyItem

Fresh(a, c, g, m, h) ==
    /\ a \in Avatar /\ a.mClient = c /\ a.mIsGhost = g /\ a.mMaxHp = m /\ a.mHp = h
    /\ ~a.mIsFinish /\ ~a.mIsCharacterDamage

LEMMA EmptyAvatar == Fresh(BattleAvatar0, NoClient, FALSE, 0, 0)
<1>1. [s \in Slots |-> EmptyItem] \in [Slots -> Item] /\ [s \in Slots |-> s] \in [Slots -> Slots]
  BY DEF EmptyItem, EMPTY_ITEM, Item
<1> QED BY <1>1 DEF BattleAvatar0, Avatar, Hamburger, Fresh

\* Who enters a fight: up, and neither finished nor made to pay.
LEMMA Entering ==
    ASSUME NEW c \in Client, NEW items \in [Slots -> Item], NEW g \in BOOLEAN
    PROVE  \E h \in Nat : h >= 5 /\ Fresh(SetAvatar(c, items, g, Round), c, g, h, h)
<1> DEFINE h == 50 + 10 * AtMost(5, Round)
           a1 == [BattleAvatar0 EXCEPT !.mClient = c]
           a2 == [a1 EXCEPT !.mIsGhost = g]
           a3 == [a2 EXCEPT !.mMaxHp = h]
           a4 == [a3 EXCEPT !.mHp = h]
           a5 == [a4 EXCEPT !.mUsingItem = items]
<1>1. h \in Nat /\ h >= 5
  BY StageAssumption DEF AtMost
<1>2. SetAvatar(c, items, g, Round) = a5
  BY DEF SetAvatar
<1> HIDE DEF h, a5
<1>3. Fresh(a1, c, FALSE, 0, 0)
  BY EmptyAvatar DEF Fresh, Avatar
<1> HIDE DEF a1
<1>4. Fresh(a2, c, g, 0, 0)
  BY <1>3 DEF Fresh, Avatar
<1> HIDE DEF a2
<1>5. Fresh(a3, c, g, h, 0)
  BY <1>1, <1>4 DEF Fresh, Avatar
<1> HIDE DEF a3
<1>6. Fresh(a4, c, g, h, h)
  BY <1>1, <1>5 DEF Fresh, Avatar
<1> HIDE DEF a4
<1>7. Fresh(a5, c, g, h, h)
  BY <1>6 DEF Fresh, Avatar, a5
<1> QED BY <1>1, <1>2, <1>7

LEMMA CreepEntering ==
    ASSUME mCreepRound \in Nat
    PROVE  \E h \in Nat : h >= 5 /\ Fresh(GetCreepMonster, NoClient, TRUE, h, h)
<1> DEFINE creep == Creep(mCreepRound)
           h == creep[3]
           items == [s \in Slots |-> [type |-> creep[(s % 2) + 1], upgrade |-> 0]]
           a1 == [BattleAvatar0 EXCEPT !.mIsGhost = TRUE]
           a2 == [a1 EXCEPT !.mUsingItem = items]
           a3 == [a2 EXCEPT !.mMaxHp = h]
           a4 == [a3 EXCEPT !.mHp = h]
<1>1. h \in Nat /\ h >= 5 /\ creep[1] \in 0..45 /\ creep[2] \in 0..45
  BY DEF Creep
<1>2. \A s \in Slots : s % 2 \in {0, 1}
  BY AvatarAssumption DEF Slots
<1>3. items \in [Slots -> Item]
  <2> HIDE DEF creep
  <2>1. \A s \in Slots : creep[(s % 2) + 1] \in 0..45
    BY <1>1, <1>2
  <2> QED BY <2>1 DEF Item
<1>4. GetCreepMonster = a4
  BY DEF GetCreepMonster, SetMaxHP
<1> HIDE DEF creep, h, items, a4
<1>5. Fresh(a1, NoClient, TRUE, 0, 0)
  BY EmptyAvatar DEF Fresh, Avatar
<1> HIDE DEF a1
<1>6. Fresh(a2, NoClient, TRUE, 0, 0)
  BY <1>3, <1>5 DEF Fresh, Avatar
<1> HIDE DEF a2
<1>7. Fresh(a3, NoClient, TRUE, h, 0)
  BY <1>1, <1>6 DEF Fresh, Avatar
<1> HIDE DEF a3
<1>8. Fresh(a4, NoClient, TRUE, h, h)
  BY <1>1, <1>7 DEF Fresh, Avatar, a4
<1> QED BY <1>1, <1>4, <1>8

\* A counter attack, and a counter heal, unless the fight is over.
LEMMA Counters ==
    ASSUME NEW a, NEW b \in Like(a), NEW d, NEW e \in Like(d)
    PROVE  LET f == EffectCounter([me |-> b, opponents |-> e]) IN
           /\ f.me \in Like(a) /\ f.me.mHp <= b.mHp
           /\ f.opponents \in Like(d)
           /\ e.mIsFinish => f.me = b /\ f.opponents = e
<1> DEFINE f0 == [me |-> b, opponents |-> e]
           hit == IF e.mCounterAttackDamage = 0 THEN b
                  ELSE ToDamage(e.mCounterAttackDamage, b, e)
           healed == IF e.mCounterHeal = 0 THEN e ELSE ToHeal(e.mCounterHeal, e)
           x == [healed EXCEPT !.mCounterAttackDamage = 0]
           y == [x EXCEPT !.mCounterHeal = 0]
<1>1. e.mCounterAttackDamage \in Int /\ e.mCounterHeal \in Int /\ b.mHp \in Nat
  BY Fields
<1>2. hit \in Like(a) /\ hit.mHp <= b.mHp
  <2> DEFINE n == e.mCounterAttackDamage
  <2>1. n \in Int
    BY <1>1
  <2> HIDE DEF n
  <2>2. ToDamage(n, b, e) \in Like(a) /\ ToDamage(n, b, e).mHp <= b.mHp
    BY <2>1, Damage
  <2> QED BY <1>1, <2>2 DEF n
<1>3. healed \in Like(d)
  <2> DEFINE n == e.mCounterHeal
  <2>1. n \in Int
    BY <1>1
  <2> HIDE DEF n
  <2>2. ToHeal(n, e) \in Like(d)
    BY <2>1, Healed
  <2> QED BY <2>2 DEF n
<1>4. y \in Like(d)
  <2> HIDE DEF healed
  <2>1. x \in Like(d)
    BY <1>3, NumberSet
  <2> HIDE DEF x
  <2> QED BY <2>1, NumberSet
<1>5. y = [healed EXCEPT !.mCounterAttackDamage = 0, !.mCounterHeal = 0]
  OBVIOUS
<1>a. EffectCounter(f0) =
        IF e.mIsFinish THEN f0
        ELSE [f0 EXCEPT !.me = hit,
                        !.opponents = [healed EXCEPT !.mCounterAttackDamage = 0, !.mCounterHeal = 0]]
  BY DEF EffectCounter
<1> HIDE DEF y, x, healed, hit
<1>6. EffectCounter(f0) = IF e.mIsFinish THEN f0 ELSE [me |-> hit, opponents |-> y]
  BY <1>a, <1>5
<1>7. CASE e.mIsFinish
  BY <1>1, <1>6, <1>7
<1>8. CASE ~e.mIsFinish
  BY <1>2, <1>4, <1>6, <1>8
<1> QED BY <1>7, <1>8
-----------------------------------------------------------------------------
(***************************************************************************)
(* The inductive invariant.                                                *)
(***************************************************************************)
Types ==
    /\ stage \in {"battle", "creep"}
    /\ pc \in {"enter", "setup", "fitment", "check", "loop", "use", "heal",
               "counter", "cycle", "timeout", "kick", "finish", "last",
               "end", "goOn", "over"}
    /\ part \in {"even", "odd", "cycle", "timeout"}
    /\ battleLoop \in 0..BATTLE_LOOP
    /\ activeItemIndex \in Slots
    /\ disconnectNetworkIdList \subseteq Client
    /\ lastClientNetworkID \in Client \cup {NoClient}
    /\ cells \in Seq(Client) /\ mSize \in 0..Len(cells)
    /\ mStatus \in [Client -> {"playing", "free"}]
    /\ mHp \in [Client -> 0..MAX_CHARACTER_MAX_HP]
    /\ mUsingItems \in [Client -> [Slots -> Item]]
    /\ tickets \in [Client -> [TicketType -> Nat]]
    /\ mBattleOpponents \in Opponents /\ mCreepRound \in Nat
    /\ hurt \in [Client -> Nat] /\ rewarded \in [Client -> Nat]

\* Two avatars for each fight, and fights unless the stage has not begun.
Shape ==
    /\ avatarCount \in Nat /\ avatarCount % 2 = 0
    /\ DOMAIN avatars = 0..avatarCount - 1
    /\ pc \notin {"enter", "over"} => avatarCount > 0

\* Where the thread is: which avatar it is at, and what it knows of it.
WhereInv ==
    /\ k \in 0..avatarCount
    /\ pc = "enter" => k = 0 /\ DOMAIN avatars = {}
    /\ pc \in {"setup", "fitment", "use", "heal", "counter", "cycle", "timeout"} =>
          k < avatarCount
    /\ pc = "setup" => ~IsBattle /\ k % 2 = 0
    /\ pc \in {"use", "heal", "cycle", "timeout"} => ~avatars[k].mIsFinish
    /\ pc = "timeout" => part = "timeout" /\ k % 2 = 0
    /\ part = "timeout" =>
          /\ pc \notin {"enter", "setup", "fitment", "check", "loop", "use", "heal",
                        "counter", "cycle"}
          /\ pc \in {"kick", "finish"} => k = avatarCount
    /\ pc = "finish" => part = "timeout" \/ AllFinished
    /\ pc \in {"use", "heal", "counter", "cycle"} \/ (pc = "kick" /\ part # "timeout") =>
          battleLoop < BATTLE_LOOP
    /\ pc = "last" => lastClientNetworkID \in Client

AvatarInv ==
    \A i \in DOMAIN avatars :
        /\ avatars[i] \in Avatar /\ avatars[i].mHp <= avatars[i].mMaxHp
        /\ pc # "setup" \/ i % 2 = 1 \/ i < k => avatars[i] \in Sound
        /\ pc \in {"setup", "fitment", "check"} =>
              ~avatars[i].mIsFinish /\ ~avatars[i].mIsCharacterDamage

\* Whoever still fights is up, but for the moment between a blow and the test.
AliveInv ==
    \A i \in DOMAIN avatars :
        \/ avatars[i].mIsFinish
        \/ avatars[i].mHp > 0
        \/ pc = "setup" /\ i % 2 = 0 /\ i >= k
        \/ pc = "heal" /\ i \in {k, Opponent(k)}

\* Who is in the room, and has fought to the end, has paid if it went down;
\* when time is up those pay that still fight, one pair after the other.
PayInv ==
    \A i \in DOMAIN avatars :
        ~avatars[i].mIsGhost /\ IsValidClientInThisRoom(avatars[i].mClient) =>
            (avatars[i].mIsCharacterDamage <=>
                IF avatars[i].mIsFinish THEN avatars[i].mHp = 0
                ELSE part = "timeout" /\ i - (i % 2) < k)

\* Each loss is one of an own avatar that has paid, each reward one of an own
\* avatar whose fight is over.
Paid(c)  == {i \in Own(c) : avatars[i].mIsCharacterDamage}
Ended(c) == {i \in Own(c) : avatars[i].mIsFinish}

CountInv ==
    \A c \in Client : hurt[c] <= Cardinality(Paid(c)) /\ rewarded[c] <= Cardinality(Ended(c))

RewardInv ==
    ~IsBattle =>
    \A c \in Client : mStatus[c] = "playing" =>
        (rewarded[c] > 0 <=> \E j \in Ended(c) : avatars[j + 1].mHp = 0)

\* Nobody fights twice, unless the list has been erased from while it was read.
CreepInv ==
    ~IsBattle =>
        /\ avatarCount <= 2 * Len(Players)
        /\ \A i \in DOMAIN avatars : IF i % 2 = 1 THEN avatars[i].mClient = NoClient
                                                  ELSE ~avatars[i].mIsGhost
        /\ mSize = Len(cells) =>
              \A i \in DOMAIN avatars :
                  avatars[i].mClient \in {NoClient, Players[(i \div 2) + 1]}

BattleInv == IsBattle => \A c \in Client : \A i, j \in Own(c) : i = j

CellsInv == Len(cells) = Len(Players) /\ (mSize = Len(cells) => cells = Players)

\* Whoever has no hp left, and is still there, is going to be disconnected.
ListInv ==
    /\ \A c \in Client : mStatus[c] = "playing" /\ mHp[c] = 0 => c \in disconnectNetworkIdList
    /\ pc \notin {"use", "heal", "counter", "cycle", "timeout", "kick"} =>
          disconnectNetworkIdList = {}

FightInv == Shape /\ WhereInv /\ AvatarInv /\ AliveInv /\ PairEndsTogether /\ PayInv
BookInv  == CountInv /\ RewardInv /\ CreepInv /\ BattleInv
StageInv == Types /\ FightInv /\ BookInv /\ CellsInv /\ ListInv
-----------------------------------------------------------------------------
LEMMA OpponentOf ==
    ASSUME Shape, NEW i \in DOMAIN avatars
    PROVE  /\ i \in Nat /\ i < avatarCount
           /\ Opponent(i) \in DOMAIN avatars /\ Opponent(i) # i /\ Opponent(Opponent(i)) = i
           /\ i - (i % 2) \in {i, Opponent(i)} /\ i - (i % 2) \in DOMAIN avatars
           /\ i - (i % 2) = Opponent(i) - (Opponent(i) % 2)
           /\ (i - (i % 2)) % 2 = 0 /\ i % 2 \in {0, 1}
           /\ i % 2 = 0 => Opponent(i) = i + 1 /\ i - (i % 2) = i
           /\ i % 2 = 1 => Opponent(i) = i - 1 /\ i - (i % 2) = i - 1
<1>1. i \in Nat /\ i < avatarCount /\ avatarCount \in Nat /\ avatarCount % 2 = 0
      /\ \A j \in Nat : j \in DOMAIN avatars <=> j < avatarCount
  BY DEF Shape
<1> HIDE DEF avatarCount
<1>2. CASE i % 2 = 0
  <2>1. i + 1 < avatarCount /\ (i + 1) % 2 = 1 /\ i + 1 \in Nat
    BY <1>1, <1>2
  <2> QED BY <1>1, <1>2, <2>1 DEF Opponent
<1>3. CASE i % 2 # 0
  <2>1. i % 2 = 1 /\ (i - 1) % 2 = 0 /\ i - 1 \in Nat
    BY <1>1, <1>3
  <2> QED BY <1>1, <1>3, <2>1 DEF Opponent
<1> QED BY <1>2, <1>3

\* The search for the next avatar finds the first one that still fights.
LEMMA NextFound ==
    ASSUME NEW av, NEW n \in Nat, DOMAIN av = 0..n - 1, Cardinality(DOMAIN av) = n, NEW i \in Nat
    PROVE  /\ NextFrom(av, i) \in 0..n
           /\ NextFrom(av, i) < n =>
                 /\ NextFrom(av, i) \in DOMAIN av /\ NextFrom(av, i) >= i
                 /\ NextFrom(av, i) % 2 = i % 2 /\ ~av[NextFrom(av, i)].mIsFinish
           /\ \A l \in DOMAIN av :
                 l >= i /\ l < NextFrom(av, i) /\ l % 2 = i % 2 => av[l].mIsFinish
<1> DEFINE rest == {j \in DOMAIN av : j >= i /\ j % 2 = i % 2 /\ ~av[j].mIsFinish}
           m == CHOOSE j \in rest : \A l \in rest : j <= l
<1>1. NextFrom(av, i) = IF rest = {} THEN n ELSE m
  BY DEF NextFrom
<1>2. CASE rest = {}
  BY <1>1, <1>2
<1>3. CASE rest # {}
  <2>1. rest \subseteq Nat
    OBVIOUS
  <2>2. \E j \in rest : \A l \in rest : j <= l
    <3> HIDE DEF rest
    <3> QED BY <1>3, <2>1, MinIsIn
  <2>3. m \in rest /\ \A l \in rest : m <= l
    <3> HIDE DEF rest
    <3> QED BY <2>2
  <2>4. NextFrom(av, i) = m
    BY <1>1, <1>3
  <2>5. m \in DOMAIN av /\ m >= i /\ m % 2 = i % 2 /\ ~av[m].mIsFinish
    BY <2>3
  <2>6. \A l \in DOMAIN av : l >= i /\ l < m /\ l % 2 = i % 2 => av[l].mIsFinish
    <3> HIDE DEF m
    <3> SUFFICES ASSUME NEW l \in DOMAIN av, l >= i, l < m, l % 2 = i % 2, ~av[l].mIsFinish
                 PROVE  FALSE
      OBVIOUS
    <3>1. l \in rest
      OBVIOUS
    <3>2. m <= l
      BY <2>3, <3>1
    <3> QED BY <2>5, <3>2
  <2> HIDE DEF m, rest
  <2>7. m \in 0..n
    BY <2>5
  <2> QED BY <2>4, <2>5, <2>6, <2>7
<1> QED BY <1>2, <1>3

(***************************************************************************)
(* What a test of a fight does, field by field.                            *)
(***************************************************************************)
LEMMA Settled ==
    ASSUME Types, NEW av, NEW P \in SUBSET DOMAIN av,
           \A i \in DOMAIN av : av[i] \in Sound,
           NEW b \in BOOLEAN, NEW damage \in [P -> Nat], NEW finish \in BOOLEAN,
           Settle(av, P, b, damage, finish)
    PROVE  /\ mHp' \in [Client -> 0..MAX_CHARACTER_MAX_HP]
           /\ disconnectNetworkIdList' \subseteq Client
           /\ disconnectNetworkIdList \subseteq disconnectNetworkIdList'
           /\ \A c \in Client : mStatus[c] = "playing" /\ mHp'[c] = 0 =>
                                   mHp[c] = 0 \/ c \in disconnectNetworkIdList'
           /\ hurt' = [c \in Client |-> hurt[c] + Cardinality(
                           {i \in P : ToDamageCharacter(av, i, b) /\ av[i].mClient = c})]
           /\ DOMAIN avatars' = DOMAIN av
           /\ \A i \in DOMAIN av :
                 /\ avatars'[i] \in Sound /\ avatars'[i].mClient = av[i].mClient
                 /\ avatars'[i].mIsGhost = av[i].mIsGhost /\ avatars'[i].mHp = av[i].mHp
                 /\ avatars'[i].mIsFinish <=> av[i].mIsFinish \/ (i \in P /\ finish)
                 /\ avatars'[i].mIsCharacterDamage <=>
                       av[i].mIsCharacterDamage \/ (i \in P /\ ToDamageCharacter(av, i, b))
<1> DEFINE losers == {i \in P : ToDamageCharacter(av, i, b)}
           mine(c) == {i \in losers : av[i].mClient = c}
           hp == [c \in Client |-> IF mine(c) = {} THEN mHp[c]
                              ELSE AtLeast0(mHp[c] - damage[CHOOSE i \in mine(c) : TRUE])]
           f(i) == av[i].mIsCharacterDamage \/ i \in losers
           g(i) == av[i].mIsFinish \/ finish
           c1(i) == [av[i] EXCEPT !.mIsCharacterDamage = f(i)]
           c2(i) == [c1(i) EXCEPT !.mIsFinish = g(i)]
<1>1. /\ mHp' = hp
      /\ hurt' = [c \in Client |-> hurt[c] + Cardinality(mine(c))]
      /\ disconnectNetworkIdList' = disconnectNetworkIdList \cup
            {c \in {av[i].mClient : i \in P} : IsValidClientInThisRoom(c) /\ hp[c] = 0}
  BY DEF Settle
<1>2. avatars' = [i \in DOMAIN av |-> IF i \in P THEN c2(i) ELSE av[i]]
  <2>1. \A i \in DOMAIN av : c1(i).mIsFinish = av[i].mIsFinish
    BY DEF Sound, Avatar
  <2> QED BY <2>1 DEF Settle
<1>3. ASSUME NEW i \in P
      PROVE  /\ c2(i) \in Sound /\ c2(i).mClient = av[i].mClient
             /\ c2(i).mIsGhost = av[i].mIsGhost /\ c2(i).mHp = av[i].mHp
             /\ c2(i).mIsFinish = g(i) /\ c2(i).mIsCharacterDamage = f(i)
  <2>0. f(i) \in BOOLEAN /\ g(i) \in BOOLEAN
    <3>1. av[i].mIsCharacterDamage \in BOOLEAN /\ av[i].mIsFinish \in BOOLEAN
      BY DEF Sound, Avatar
    <3> QED BY <3>1
  <2>1. PICK x \in BOOLEAN, y \in BOOLEAN : x = f(i) /\ y = g(i)
    BY <2>0
  <2>2. av[i] \in Sound
    OBVIOUS
  <2> DEFINE d == [av[i] EXCEPT !.mIsCharacterDamage = x]
             e == [d EXCEPT !.mIsFinish = y]
  <2>3. c2(i) = e
    BY <2>1
  <2>4. /\ d \in Sound /\ d.mClient = av[i].mClient
        /\ d.mIsGhost = av[i].mIsGhost /\ d.mHp = av[i].mHp
        /\ d.mIsFinish = av[i].mIsFinish /\ d.mIsCharacterDamage = x
    <3> HIDE DEF d
    <3> DEFINE v == av[i]
    <3>1. v \in Sound
      BY <2>2
    <3>2. d = [v EXCEPT !.mIsCharacterDamage = x]
      BY DEF d
    <3> HIDE DEF v
    <3>3. d \in Sound /\ d.mIsFinish = v.mIsFinish /\ d.mIsCharacterDamage = x
      BY <3>1, <3>2 DEF Sound, Avatar
    <3>4. d.mClient = v.mClient /\ d.mIsGhost = v.mIsGhost /\ d.mHp = v.mHp
      BY <3>1, <3>2 DEF Sound, Avatar
    <3> QED BY <3>3, <3>4 DEF v
  <2> HIDE DEF d
  <2>5. /\ e \in Sound /\ e.mClient = d.mClient
        /\ e.mIsGhost = d.mIsGhost /\ e.mHp = d.mHp
        /\ e.mIsFinish = y /\ e.mIsCharacterDamage = d.mIsCharacterDamage
    <3>1. d \in Sound
      BY <2>4
    <3> HIDE DEF e
    <3>2. e = [d EXCEPT !.mIsFinish = y]
      BY DEF e
    <3>3. e \in Sound /\ e.mIsFinish = y /\ e.mIsCharacterDamage = d.mIsCharacterDamage
      BY <3>1, <3>2 DEF Sound, Avatar
    <3>4. e.mClient = d.mClient /\ e.mIsGhost = d.mIsGhost /\ e.mHp = d.mHp
      BY <3>1, <3>2 DEF Sound, Avatar
    <3> QED BY <3>3, <3>4
  <2> HIDE DEF e, c2, f, g
  <2> QED BY <2>1, <2>3, <2>4, <2>5
<1>4. mHp' \in [Client -> 0..MAX_CHARACTER_MAX_HP]
  <2>1. ASSUME NEW c \in Client PROVE hp[c] \in 0..MAX_CHARACTER_MAX_HP
    <3>1. mHp[c] \in 0..MAX_CHARACTER_MAX_HP /\ MAX_CHARACTER_MAX_HP \in Nat
      BY StageAssumption DEF Types
    <3>2. CASE mine(c) # {}
      <4> DEFINE l == CHOOSE i \in mine(c) : TRUE
                 n == damage[l]
      <4>1. l \in mine(c)
        BY <3>2
      <4>2. n \in Nat
        BY <4>1
      <4> HIDE DEF l
      <4>3. hp[c] = AtLeast0(mHp[c] - n)
        BY <3>2 DEF l
      <4> HIDE DEF n, hp
      <4> QED BY <3>1, <4>2, <4>3 DEF AtLeast0
    <3> QED BY <3>1, <3>2
  <2>2. hp = [c \in Client |-> hp[c]]
    OBVIOUS
  <2> HIDE DEF hp
  <2> QED BY <1>1, <2>1, <2>2
<1>5. disconnectNetworkIdList' \subseteq Client
  <2>1. \A i \in P : av[i].mClient \in Client \cup {NoClient}
    BY DEF Sound, Avatar
  <2>2. disconnectNetworkIdList \subseteq Client
    BY DEF Types
  <2> HIDE DEF hp
  <2> QED BY <1>1, <2>1, <2>2 DEF IsValidClientInThisRoom
<1>6. ASSUME NEW c \in Client, mStatus[c] = "playing", mHp'[c] = 0
      PROVE  mHp[c] = 0 \/ c \in disconnectNetworkIdList'
  <2>1. CASE mine(c) = {}
    BY <1>1, <1>6, <2>1
  <2>2. CASE mine(c) # {}
    <3>1. c \in {av[i].mClient : i \in P} /\ c # NoClient
      BY <2>2, AvatarAssumption
    <3> HIDE DEF hp, mine
    <3> QED BY <1>1, <1>6, <3>1 DEF IsValidClientInThisRoom
  <2> QED BY <2>1, <2>2
<1>7. \A c : mine(c) = {i \in P : ToDamageCharacter(av, i, b) /\ av[i].mClient = c}
  OBVIOUS
<1>8. ASSUME NEW i \in DOMAIN av
      PROVE  /\ avatars'[i] \in Sound /\ avatars'[i].mClient = av[i].mClient
             /\ avatars'[i].mIsGhost = av[i].mIsGhost /\ avatars'[i].mHp = av[i].mHp
             /\ avatars'[i].mIsFinish <=> av[i].mIsFinish \/ (i \in P /\ finish)
             /\ avatars'[i].mIsCharacterDamage <=>
                   av[i].mIsCharacterDamage \/ (i \in P /\ ToDamageCharacter(av, i, b))
  <2>1. CASE i \in P
    <3>1. avatars'[i] = c2(i)
      BY <1>2, <2>1
    <3> HIDE DEF c2
    <3> QED BY <1>3, <2>1, <3>1
  <2>2. CASE i \notin P
    <3>1. avatars'[i] = av[i]
      <4> HIDE DEF c2
      <4> QED BY <1>2, <2>2
    <3> QED BY <2>2, <3>1
  <2> QED BY <2>1, <2>2
<1>9. DOMAIN avatars' = DOMAIN av
  <2> HIDE DEF c2
  <2> QED BY <1>2
<1> HIDE DEF c2, mine, hp
<1> QED BY <1>1, <1>4, <1>5, <1>6, <1>7, <1>8, <1>9

LEMMA TakeApart ==
    ASSUME StageInv
    PROVE  /\ Types /\ Shape /\ WhereInv /\ AvatarInv /\ AliveInv /\ PairEndsTogether /\ PayInv
           /\ CountInv /\ RewardInv /\ CreepInv /\ BattleInv /\ CellsInv /\ ListInv
  BY DEF StageInv, FightInv, BookInv

\* What of an avatar a fight leaves as it is.
LEMMA Unchanging ==
    ASSUME NEW a, NEW b \in Like(a)
    PROVE  /\ b \in Sound /\ b.mHp \in Nat
           /\ b.mClient = a.mClient /\ b.mIsGhost = a.mIsGhost
           /\ b.mIsFinish = a.mIsFinish /\ b.mIsCharacterDamage = a.mIsCharacterDamage
           /\ b.mIsFinish \in BOOLEAN /\ b.mIsCharacterDamage \in BOOLEAN
           /\ b.mIsGhost \in BOOLEAN /\ b.mClient \in Client \cup {NoClient}
  BY DEF Like, Sound, Avatar

(***************************************************************************)
(* The test of a fight that the thread is at, when av is what the fight    *)
(* has made of the avatars.                                                *)
(***************************************************************************)
Fought(av) ==
    /\ DOMAIN av = DOMAIN avatars
    /\ \A j \in DOMAIN avatars : av[j] \in Like(avatars[j])
    /\ \A j \in DOMAIN avatars : j \notin {k, Opponent(k)} => av[j] = avatars[j]
    /\ avatars[k].mIsFinish => \A j \in DOMAIN avatars : av[j] = avatars[j]

Falls(av)    == \E j \in {k, Opponent(k)} : av[j].mHp = 0
Pays(av, j)  == j \in {k, Opponent(k)} /\ Falls(av) /\ ToDamageCharacter(av, j, FALSE)

LEMMA Tested ==
    ASSUME StageInv, k \in DOMAIN avatars, NEW av, Fought(av), FinishIfDown(av, k)
    PROVE  /\ mHp' \in [Client -> 0..MAX_CHARACTER_MAX_HP]
           /\ disconnectNetworkIdList' \subseteq Client
           /\ disconnectNetworkIdList \subseteq disconnectNetworkIdList'
           /\ \A c \in Client : mStatus[c] = "playing" /\ mHp'[c] = 0 =>
                                   mHp[c] = 0 \/ c \in disconnectNetworkIdList'
           /\ hurt' \in [Client -> Int]
           /\ \A c \in Client : hurt'[c] = hurt[c] +
                 Cardinality({j \in DOMAIN avatars : Pays(av, j) /\ avatars[j].mClient = c})
           /\ DOMAIN avatars' = DOMAIN avatars
           /\ \A j \in DOMAIN avatars :
                 /\ avatars'[j] \in Sound /\ avatars'[j].mClient = avatars[j].mClient
                 /\ avatars'[j].mIsGhost = avatars[j].mIsGhost /\ avatars'[j].mHp = av[j].mHp
                 /\ avatars'[j].mIsFinish <=>
                       avatars[j].mIsFinish \/ (j \in {k, Opponent(k)} /\ Falls(av))
                 /\ avatars'[j].mIsCharacterDamage <=>
                       avatars[j].mIsCharacterDamage \/ Pays(av, j)
           /\ IF Falls(av) /\ ~IsBattle THEN CreepReward(av, k - (k % 2)) ELSE NoReward
<1> DEFINE P == {k, Opponent(k)}
           damage == [j \in P |-> GetDamage(av[Opponent(j)]) + 2 * Round]
<1>0. Types /\ Shape /\ DOMAIN av = DOMAIN avatars
  BY TakeApart DEF Fought
<1>1. P \in SUBSET DOMAIN av /\ IsFiniteSet(P)
  <2>1. Opponent(k) \in DOMAIN avatars
    BY <1>0, OpponentOf
  <2>2. IsFiniteSet({k})
    BY FS_Singleton
  <2>3. IsFiniteSet({k} \cup {Opponent(k)})
    BY <2>2, FS_AddElement
  <2>4. P = {k} \cup {Opponent(k)}
    OBVIOUS
  <2> QED BY <1>0, <2>1, <2>3, <2>4
<1>2. ASSUME NEW j \in DOMAIN avatars
      PROVE  /\ av[j] \in Sound /\ av[j].mClient = avatars[j].mClient
             /\ av[j].mIsGhost = avatars[j].mIsGhost /\ av[j].mIsFinish = avatars[j].mIsFinish
             /\ av[j].mIsCharacterDamage = avatars[j].mIsCharacterDamage
             /\ av[j].mIsFinish \in BOOLEAN /\ av[j].mIsCharacterDamage \in BOOLEAN
  <2>1. av[j] \in Like(avatars[j])
    BY DEF Fought
  <2> QED BY <2>1, Unchanging
<1>3. damage \in [P -> Nat]
  <2>1. \A j : GetDamage(av[Opponent(j)]) + 2 * Round \in Nat
    <3>1. \A j : GetDamage(av[Opponent(j)]) \in Nat
      BY DamageIsNat
    <3> QED BY <3>1, StageAssumption
  <2> QED BY <2>1
<1>4. Falls(av) <=> \E j \in P : av[j].mHp = 0
  BY DEF Falls
<1>5. CASE Falls(av)
  <2>1. Settle(av, P, FALSE, damage, TRUE)
    BY <1>4, <1>5 DEF FinishIfDown
  <2>2. IF IsBattle THEN NoReward ELSE CreepReward(av, k - (k % 2))
    BY <1>4, <1>5 DEF FinishIfDown
  <2> HIDE DEF damage, P
  <2>3. /\ mHp' \in [Client -> 0..MAX_CHARACTER_MAX_HP]
        /\ disconnectNetworkIdList' \subseteq Client
        /\ disconnectNetworkIdList \subseteq disconnectNetworkIdList'
        /\ \A c \in Client : mStatus[c] = "playing" /\ mHp'[c] = 0 =>
                                mHp[c] = 0 \/ c \in disconnectNetworkIdList'
        /\ hurt' = [c \in Client |-> hurt[c] + Cardinality(
                        {i \in P : ToDamageCharacter(av, i, FALSE) /\ av[i].mClient = c})]
        /\ DOMAIN avatars' = DOMAIN av
        /\ \A i \in DOMAIN av :
              /\ avatars'[i] \in Sound /\ avatars'[i].mClient = av[i].mClient
              /\ avatars'[i].mIsGhost = av[i].mIsGhost /\ avatars'[i].mHp = av[i].mHp
              /\ avatars'[i].mIsFinish <=> av[i].mIsFinish \/ (i \in P /\ TRUE)
              /\ avatars'[i].mIsCharacterDamage <=>
                    av[i].mIsCharacterDamage \/ (i \in P /\ ToDamageCharacter(av, i, FALSE))
    BY <1>0, <1>1, <1>2, <1>3, <2>1, Settled
  <2>4. \A j : Pays(av, j) <=> j \in P /\ ToDamageCharacter(av, j, FALSE)
    BY <1>5 DEF Pays, P
  <2>5. \A c : {i \in P : ToDamageCharacter(av, i, FALSE) /\ av[i].mClient = c}
             = {j \in DOMAIN avatars : Pays(av, j) /\ avatars[j].mClient = c}
    BY <1>0, <1>1, <1>2, <2>4
  <2>6. \A c \in Client : hurt'[c] = hurt[c] +
                 Cardinality({j \in DOMAIN avatars : Pays(av, j) /\ avatars[j].mClient = c})
    BY <2>3, <2>5
  <2>7. hurt' \in [Client -> Int]
    <3>1. ASSUME NEW c \in Client PROVE hurt'[c] \in Int
      <4>1. hurt[c] \in Nat
        BY <1>0 DEF Types
      <4> DEFINE T == {i \in P : ToDamageCharacter(av, i, FALSE) /\ av[i].mClient = c}
      <4>2. T \in SUBSET P
        OBVIOUS
      <4>3. hurt'[c] = hurt[c] + Cardinality(T)
        BY <2>3
      <4> HIDE DEF T
      <4>4. Cardinality(T) \in Nat
        BY <1>1, <4>2, FS_Subset, FS_CardinalityType
      <4> QED BY <4>1, <4>3, <4>4
    <3> QED BY <2>3, <3>1
  <2>8. ASSUME NEW j \in DOMAIN avatars
        PROVE  /\ avatars'[j] \in Sound /\ avatars'[j].mClient = avatars[j].mClient
               /\ avatars'[j].mIsGhost = avatars[j].mIsGhost /\ avatars'[j].mHp = av[j].mHp
               /\ avatars'[j].mIsFinish <=>
                     avatars[j].mIsFinish \/ (j \in {k, Opponent(k)} /\ Falls(av))
               /\ avatars'[j].mIsCharacterDamage <=>
                     avatars[j].mIsCharacterDamage \/ Pays(av, j)
    BY <1>0, <1>2, <1>5, <2>3, <2>4, ZenonT(40) DEF P
  <2>9. IF Falls(av) /\ ~IsBattle THEN CreepReward(av, k - (k % 2)) ELSE NoReward
    BY <1>5, <2>2
  <2> QED BY <1>0, <2>3, <2>6, <2>7, <2>8, <2>9
<1>6. CASE ~Falls(av)
  <2>1. /\ avatars' = av
        /\ UNCHANGED <<disconnectNetworkIdList, mHp, hurt, tickets, rewarded>>
    BY <1>4, <1>6 DEF FinishIfDown
  <2>2. \A j : ~Pays(av, j)
    BY <1>6 DEF Pays
  <2>3. \A c : {j \in DOMAIN avatars : Pays(av, j) /\ avatars[j].mClient = c} = {}
    BY <2>2
  <2>4. \A c \in Client : hurt'[c] = hurt[c] +
                 Cardinality({j \in DOMAIN avatars : Pays(av, j) /\ avatars[j].mClient = c})
    <3>1. \A c \in Client : hurt[c] = hurt[c] + Cardinality({})
      BY <1>0, FS_EmptySet DEF Types
    <3> QED BY <2>1, <2>3, <3>1
  <2>5. hurt' \in [Client -> Int] /\ mHp' \in [Client -> 0..MAX_CHARACTER_MAX_HP]
        /\ disconnectNetworkIdList' \subseteq Client
    BY <1>0, <2>1 DEF Types
  <2>6. NoReward
    BY <2>1 DEF NoReward
  <2>7. ASSUME NEW j \in DOMAIN avatars
        PROVE  /\ avatars'[j] \in Sound /\ avatars'[j].mClient = avatars[j].mClient
               /\ avatars'[j].mIsGhost = avatars[j].mIsGhost /\ avatars'[j].mHp = av[j].mHp
               /\ avatars'[j].mIsFinish <=>
                     avatars[j].mIsFinish \/ (j \in {k, Opponent(k)} /\ Falls(av))
               /\ avatars'[j].mIsCharacterDamage <=>
                     avatars[j].mIsCharacterDamage \/ Pays(av, j)
    BY <1>2, <1>6, <2>1, <2>2
  <2> QED BY <1>0, <1>6, <2>1, <2>4, <2>5, <2>6, <2>7
<1> QED BY <1>5, <1>6

\* All avatars are one finite set, and so is each part of it.
LEMMA FinitelyMany ==
    ASSUME Shape, NEW T \in SUBSET DOMAIN avatars
    PROVE  IsFiniteSet(T) /\ Cardinality(T) \in Nat
<1>1. IsFiniteSet(DOMAIN avatars)
  <2>1. avatarCount - 1 \in Int /\ DOMAIN avatars = 0..avatarCount - 1
    BY DEF Shape
  <2> HIDE DEF avatarCount
  <2> QED BY <2>1, FS_Interval
<1>2. IsFiniteSet(T)
  BY <1>1, FS_Subset
<1> QED BY <1>2, FS_CardinalityType

\* A set that grows by others has at least their number more.
LEMMA Grows ==
    ASSUME NEW S, IsFiniteSet(S), NEW T, IsFiniteSet(T), S \cap T = {}
    PROVE  Cardinality(S \cup T) = Cardinality(S) + Cardinality(T)
<1>1. Cardinality(S) \in Nat /\ Cardinality(T) \in Nat
  BY FS_CardinalityType
<1>2. Cardinality(S \cap T) = 0
  BY FS_EmptySet
<1>3. Cardinality(S \cup T) = Cardinality(S) + Cardinality(T) - Cardinality(S \cap T)
  BY FS_Union, Zenon
<1> QED BY <1>1, <1>2, <1>3

(***************************************************************************)
(* After the test: whoever still fights is up, pairs end together, who has *)
(* gone down has paid if it could, and the books agree.                    *)
(***************************************************************************)
LEMMA Finishing ==
    ASSUME StageInv, pc \in {"heal", "counter", "cycle"}, k \in DOMAIN avatars,
           NEW av, Fought(av), FinishIfDown(av, k),
           stage' = stage, mStatus' = mStatus, UNCHANGED roomVars
    PROVE  /\ \A j \in DOMAIN avatars : avatars'[j].mIsFinish \/ avatars'[j].mHp > 0
           /\ PairEndsTogether'
           /\ \A j \in DOMAIN avatars :
                 ~avatars'[j].mIsGhost /\ IsValidClientInThisRoom(avatars'[j].mClient) =>
                    (avatars'[j].mIsCharacterDamage <=> avatars'[j].mIsFinish /\ avatars'[j].mHp = 0)
           /\ CountInv' /\ RewardInv' /\ CreepInv' /\ BattleInv'
           /\ tickets' \in [Client -> [TicketType -> Nat]]
           /\ hurt' \in [Client -> Nat] /\ rewarded' \in [Client -> Nat]
<1> DEFINE P == {k, Opponent(k)}
<1>0. /\ Types /\ Shape /\ WhereInv /\ AvatarInv /\ AliveInv /\ PairEndsTogether /\ PayInv
      /\ CountInv /\ RewardInv /\ CreepInv /\ BattleInv /\ DOMAIN av = DOMAIN avatars
  BY TakeApart DEF Fought
<1>1. /\ hurt' \in [Client -> Int]
      /\ \A c \in Client : hurt'[c] = hurt[c] +
            Cardinality({j \in DOMAIN avatars : Pays(av, j) /\ avatars[j].mClient = c})
      /\ DOMAIN avatars' = DOMAIN avatars
      /\ \A j \in DOMAIN avatars :
            /\ avatars'[j] \in Sound /\ avatars'[j].mClient = avatars[j].mClient
            /\ avatars'[j].mIsGhost = avatars[j].mIsGhost /\ avatars'[j].mHp = av[j].mHp
            /\ avatars'[j].mIsFinish <=> avatars[j].mIsFinish \/ (j \in P /\ Falls(av))
            /\ avatars'[j].mIsCharacterDamage <=>
                  avatars[j].mIsCharacterDamage \/ Pays(av, j)
      /\ IF Falls(av) /\ ~IsBattle THEN CreepReward(av, k - (k % 2)) ELSE NoReward
  BY Tested
<1>2. ASSUME NEW j \in DOMAIN avatars
      PROVE  /\ av[j].mHp \in Nat /\ avatars[j].mHp \in Nat
             /\ av[j].mClient = avatars[j].mClient /\ av[j].mIsGhost = avatars[j].mIsGhost
             /\ av[j].mIsFinish = avatars[j].mIsFinish
             /\ av[j].mIsCharacterDamage = avatars[j].mIsCharacterDamage
             /\ avatars[j].mIsFinish \in BOOLEAN /\ avatars[j].mIsCharacterDamage \in BOOLEAN
             /\ avatars'[j].mIsFinish \in BOOLEAN /\ avatars'[j].mIsCharacterDamage \in BOOLEAN
             /\ avatars[j].mIsGhost \in BOOLEAN /\ avatars[j].mClient \in Client \cup {NoClient}
             /\ j \notin P => av[j] = avatars[j]
             /\ avatars[j].mIsFinish => av[j] = avatars[j]
  <2>1. av[j] \in Like(avatars[j]) /\ (j \notin P => av[j] = avatars[j])
    BY DEF Fought
  <2>2. avatars[j].mHp \in Nat
    BY <1>0 DEF AvatarInv, Avatar
  <2>3. avatars[j].mIsFinish => av[j] = avatars[j]
    <3>1. j \in P => avatars[j].mIsFinish = avatars[k].mIsFinish
      BY <1>0 DEF PairEndsTogether
    <3> QED BY <2>1, <3>1 DEF Fought
  <2>4. avatars'[j].mIsFinish \in BOOLEAN /\ avatars'[j].mIsCharacterDamage \in BOOLEAN
    BY <1>1 DEF Sound, Avatar
  <2> QED BY <2>1, <2>2, <2>3, <2>4, Unchanging
<1>3. /\ Opponent(k) \in DOMAIN avatars /\ P \subseteq DOMAIN avatars
      /\ avatars[k].mIsFinish = avatars[Opponent(k)].mIsFinish
      /\ Falls(av) <=> \E j \in P : av[j].mHp = 0
  BY <1>0, OpponentOf DEF Falls, PairEndsTogether
<1>4. part # "timeout" /\ pc # "setup"
  BY <1>0 DEF WhereInv
<1>5. ASSUME NEW j \in DOMAIN avatars PROVE avatars'[j].mIsFinish \/ avatars'[j].mHp > 0
  <2>1. CASE j \in P
    BY <1>1, <1>2, <1>3, <2>1
  <2>2. CASE j \notin P
    <3>1. avatars[j].mIsFinish \/ avatars[j].mHp > 0
      BY <1>0, <1>4, <2>2 DEF AliveInv
    <3> QED BY <1>1, <1>2, <2>2, <3>1
  <2> QED BY <2>1, <2>2
<1>6. PairEndsTogether'
  <2>1. ASSUME NEW j \in DOMAIN avatars
        PROVE  avatars'[j].mIsFinish = avatars'[Opponent(j)].mIsFinish
    <3>1. /\ Opponent(j) \in DOMAIN avatars
          /\ avatars[j].mIsFinish = avatars[Opponent(j)].mIsFinish
          /\ j \in P <=> Opponent(j) \in P
      BY <1>0, OpponentOf DEF PairEndsTogether
    <3> HIDE DEF P
    <3> QED BY <1>1, <1>2, <3>1
  <2> QED BY <1>1, <2>1 DEF PairEndsTogether, Opponent
<1>7. ASSUME NEW j \in DOMAIN avatars, ~avatars'[j].mIsGhost,
             IsValidClientInThisRoom(avatars'[j].mClient)
      PROVE  avatars'[j].mIsCharacterDamage <=> avatars'[j].mIsFinish /\ avatars'[j].mHp = 0
  <2>1. ~avatars[j].mIsGhost /\ IsValidClientInThisRoom(avatars[j].mClient)
    BY <1>1, <1>7
  <2>2. avatars[j].mIsCharacterDamage <=> avatars[j].mIsFinish /\ avatars[j].mHp = 0
    BY <1>0, <1>4, <2>1 DEF PayInv
  <2>3. Pays(av, j) <=> j \in P /\ Falls(av) /\ ~avatars[j].mIsCharacterDamage /\ av[j].mHp = 0
    BY <1>2, <2>1 DEF Pays, ToDamageCharacter
  <2>4. avatars[j].mIsFinish \/ j \in P => (av[j].mHp = 0 => avatars'[j].mIsFinish)
    BY <1>1, <1>3
  <2> HIDE DEF P
  <2>5. CASE avatars[j].mIsFinish
    BY <1>1, <1>2, <2>2, <2>3, <2>5
  <2>6. CASE ~avatars[j].mIsFinish
    BY <1>1, <1>2, <2>2, <2>3, <2>4, <2>6
  <2> QED BY <2>5, <2>6
<1>8. ASSUME NEW c \in Client
      PROVE  /\ Own(c)' = Own(c) /\ Own(c) \subseteq DOMAIN avatars
             /\ Paid(c) \subseteq DOMAIN avatars /\ Ended(c) \subseteq DOMAIN avatars
             /\ Ended(c)' = Ended(c) \cup {j \in Own(c) : j \in P /\ Falls(av)}
             /\ Paid(c)' = Paid(c) \cup {j \in Own(c) : Pays(av, j)}
  <2>1. Own(c)' = Own(c)
    BY <1>1 DEF Own
  <2>2. \A j \in Own(c) :
            /\ avatars'[j].mIsFinish <=> avatars[j].mIsFinish \/ (j \in P /\ Falls(av))
            /\ avatars'[j].mIsCharacterDamage <=> avatars[j].mIsCharacterDamage \/ Pays(av, j)
    BY <1>1 DEF Own
  <2> HIDE DEF P
  <2>3. Ended(c)' = Ended(c) \cup {j \in Own(c) : j \in P /\ Falls(av)}
    BY <2>1, <2>2 DEF Ended
  <2>4. Paid(c)' = Paid(c) \cup {j \in Own(c) : Pays(av, j)}
    BY <2>1, <2>2 DEF Paid
  <2> QED BY <2>1, <2>3, <2>4 DEF Own, Paid, Ended
<1>9. ASSUME NEW c \in Client
      PROVE  hurt'[c] \in Nat /\ hurt'[c] <= Cardinality(Paid(c)')
  <2> DEFINE T == {j \in Own(c) : Pays(av, j)}
             U == {j \in DOMAIN avatars : Pays(av, j) /\ avatars[j].mClient = c}
  <2>1. T = U
    <3>1. \A j \in DOMAIN avatars : Pays(av, j) => ~avatars[j].mIsGhost
      BY <1>2 DEF Pays, ToDamageCharacter
    <3> QED BY <3>1 DEF Own
  <2>2. T \cap Paid(c) = {}
    <3>1. \A j \in DOMAIN avatars : Pays(av, j) => ~avatars[j].mIsCharacterDamage
      BY <1>2 DEF Pays, ToDamageCharacter
    <3> QED BY <3>1 DEF Paid, Own
  <2>3. T \in SUBSET DOMAIN avatars /\ Paid(c) \in SUBSET DOMAIN avatars
    BY <1>8
  <2>4. hurt'[c] = hurt[c] + Cardinality(T)
    BY <1>1, <2>1
  <2>5. Paid(c)' = Paid(c) \cup T
    BY <1>8
  <2> HIDE DEF T
  <2>6. IsFiniteSet(T) /\ IsFiniteSet(Paid(c)) /\ Cardinality(T) \in Nat /\ Cardinality(Paid(c)) \in Nat
    BY <1>0, <2>3, FinitelyMany
  <2>7. Cardinality(Paid(c) \cup T) = Cardinality(Paid(c)) + Cardinality(T)
    BY <2>2, <2>6, Grows
  <2>8. hurt[c] \in Nat /\ hurt[c] <= Cardinality(Paid(c))
    BY <1>0 DEF Types, CountInv
  <2> QED BY <2>4, <2>5, <2>6, <2>7, <2>8
<1> DEFINE l == k - (k % 2)
           c0 == avatars[l].mClient
           Rewarding == /\ Falls(av) /\ ~IsBattle /\ ~avatars[l].mIsFinish /\ av[l + 1].mHp = 0
                        /\ IsValidClientInThisRoom(c0)
<1>10. /\ l \in P /\ l \in DOMAIN avatars /\ l % 2 = 0 /\ l + 1 \in DOMAIN avatars
       /\ P = {l, l + 1} /\ (l + 1) % 2 = 1
  <2>1. /\ l \in P /\ l \in DOMAIN avatars /\ l % 2 = 0
        /\ l = k \/ (l = k - 1 /\ l = Opponent(k))
    BY <1>0, OpponentOf
  <2>2. /\ Opponent(l) = l + 1 /\ l + 1 \in DOMAIN avatars /\ l \in Nat /\ k \in Nat
        /\ (l = k => Opponent(k) = l + 1)
    BY <1>0, <2>1, OpponentOf
  <2> HIDE DEF l
  <2> QED BY <2>1, <2>2
<1>11. /\ tickets' \in [Client -> [TicketType -> Nat]]
       /\ Rewarding => c0 \in Client /\ rewarded' = [rewarded EXCEPT ![c0] = @ + 1]
       /\ ~Rewarding => rewarded' = rewarded
  <2>1. av[l].mClient = c0 /\ av[l].mIsFinish = avatars[l].mIsFinish
        /\ c0 \in Client \cup {NoClient}
    BY <1>2, <1>10
  <2>2. IF Falls(av) /\ ~IsBattle THEN CreepReward(av, l) ELSE NoReward
    BY <1>1
  <2>3. tickets \in [Client -> [TicketType -> Nat]]
    BY <1>0 DEF Types
  <2> HIDE DEF l, c0
  <2>4. CASE ~Rewarding
    BY <2>1, <2>2, <2>3, <2>4 DEF CreepReward, NoReward
  <2>5. CASE Rewarding
    <3>1. PICK r \in GetCreepRewardTicketType :
              /\ tickets' = [tickets EXCEPT ![c0][r[1]] = @ + r[2]]
              /\ rewarded' = [rewarded EXCEPT ![c0] = @ + 1]
      BY <2>1, <2>2, <2>5 DEF CreepReward
    <3>2. r[1] \in TicketType /\ r[2] \in Nat
      BY DEF GetCreepRewardTicketType, TicketType
    <3>3. c0 \in Client
      BY <2>1, <2>5 DEF IsValidClientInThisRoom
    <3> QED BY <2>3, <2>5, <3>1, <3>2, <3>3
  <2> QED BY <2>4, <2>5
<1>12. ASSUME ~IsBattle, NEW j \in DOMAIN avatars, NEW c \in Client, avatars[j].mClient = c
       PROVE  /\ j % 2 = 0 /\ ~avatars[j].mIsGhost /\ j + 1 = Opponent(j)
              /\ j + 1 \in DOMAIN avatars /\ (j \in P <=> j = l)
  <2>1. j % 2 # 1 /\ j \in Nat
    BY <1>0, <1>12, AvatarAssumption, OpponentOf DEF CreepInv
  <2>2. j % 2 = 0
    BY <2>1
  <2>3. ~avatars[j].mIsGhost
    BY <1>0, <1>12, <2>1 DEF CreepInv
  <2>4. j + 1 = Opponent(j) /\ j + 1 \in DOMAIN avatars
    BY <1>0, <2>2, OpponentOf
  <2> HIDE DEF P, l
  <2>5. j \in P <=> j = l
    BY <1>10, <2>2
  <2> QED BY <2>2, <2>3, <2>4, <2>5
<1>13. ASSUME NEW c \in Client
       PROVE  rewarded'[c] \in Nat /\ rewarded'[c] <= Cardinality(Ended(c)')
  <2>1. rewarded[c] \in Nat /\ rewarded[c] <= Cardinality(Ended(c)) /\ rewarded \in [Client -> Nat]
    BY <1>0 DEF Types, CountInv
  <2>2. Ended(c) \subseteq Ended(c)' /\ Ended(c)' \subseteq DOMAIN avatars
    BY <1>8
  <2>3. /\ IsFiniteSet(Ended(c)') /\ Cardinality(Ended(c)') \in Nat
        /\ IsFiniteSet(Ended(c)) /\ Cardinality(Ended(c)) \in Nat
    BY <1>0, <1>8, FinitelyMany
  <2>4. Cardinality(Ended(c)) <= Cardinality(Ended(c)')
    BY <2>2, <2>3, FS_Subset
  <2>5. CASE Rewarding /\ c = c0
    <3>1. l \in Own(c) /\ l \notin Ended(c) /\ l \in Ended(c)'
      BY <1>8, <1>10, <1>12, <2>5 DEF Own, Ended
    <3>2. /\ Cardinality(Ended(c) \cup {l}) = Cardinality(Ended(c)) + 1
          /\ Cardinality(Ended(c) \cup {l}) <= Cardinality(Ended(c)')
      <4>1. Ended(c) \cup {l} \subseteq Ended(c)'
        BY <2>2, <3>1
      <4> HIDE DEF l
      <4> QED BY <2>3, <3>1, <4>1, FS_AddElement, FS_Subset
    <3>3. rewarded'[c] = rewarded[c] + 1
      <4> HIDE DEF c0, Rewarding
      <4> QED BY <1>11, <2>1, <2>5
    <3> HIDE DEF l
    <3> QED BY <2>1, <2>3, <3>2, <3>3
  <2>6. CASE ~(Rewarding /\ c = c0)
    <3>1. rewarded'[c] = rewarded[c]
      <4> HIDE DEF c0, Rewarding
      <4> QED BY <1>11, <2>1, <2>6
    <3> QED BY <2>1, <2>3, <2>4, <3>1
  <2> QED BY <2>5, <2>6
<1>14. RewardInv'
  <2> SUFFICES ASSUME ~IsBattle, NEW c \in Client, mStatus[c] = "playing"
               PROVE  rewarded'[c] > 0 <=> \E j \in Ended(c)' : avatars'[j + 1].mHp = 0
    BY DEF RewardInv, IsBattle
  <2>1. rewarded[c] > 0 <=> \E j \in Ended(c) : avatars[j + 1].mHp = 0
    BY <1>0 DEF RewardInv
  <2>2. ASSUME NEW j \in Ended(c) PROVE j \in Ended(c)' /\ avatars'[j + 1].mHp = avatars[j + 1].mHp
    <3>1. j \in DOMAIN avatars /\ avatars[j].mClient = c /\ avatars[j].mIsFinish
      BY DEF Ended, Own
    <3>2. j + 1 \in DOMAIN avatars /\ avatars[j + 1].mIsFinish
      BY <1>0, <1>12, <3>1 DEF PairEndsTogether
    <3> QED BY <1>1, <1>2, <1>8, <3>2
  <2>3. ASSUME NEW j \in Ended(c)', j \notin Ended(c)
        PROVE  j = l /\ c = c0 /\ Falls(av) /\ ~avatars[l].mIsFinish
    <3>1. j \in Own(c) /\ j \in P /\ Falls(av)
      BY <1>8, <2>3
    <3>2. j \in DOMAIN avatars /\ avatars[j].mClient = c
      BY <3>1 DEF Own
    <3> QED BY <1>12, <2>3, <3>1, <3>2 DEF Ended
  <2>4. IsValidClientInThisRoom(c)
    BY AvatarAssumption DEF IsValidClientInThisRoom
  <2>5. avatars'[l + 1].mHp = av[l + 1].mHp
    BY <1>1, <1>10
  <2>6. rewarded[c] \in Nat /\ rewarded \in [Client -> Nat]
    BY <1>0 DEF Types
  <2>7. CASE Rewarding /\ c = c0
    <3>1. l \in Ended(c)'
      BY <1>8, <1>10, <1>12, <2>7 DEF Own, Ended
    <3>2. avatars'[l + 1].mHp = 0
      BY <2>5, <2>7
    <3>3. rewarded'[c] = rewarded[c] + 1
      <4> HIDE DEF c0, Rewarding
      <4> QED BY <1>11, <2>6, <2>7
    <3> HIDE DEF l, c0, Rewarding
    <3> QED BY <2>6, <3>1, <3>2, <3>3
  <2>8. CASE ~(Rewarding /\ c = c0)
    <3>1. rewarded'[c] = rewarded[c]
      <4> HIDE DEF c0, Rewarding
      <4> QED BY <1>11, <2>6, <2>8
    <3>2. ASSUME NEW j \in Ended(c)', avatars'[j + 1].mHp = 0
          PROVE  j \in Ended(c)
      BY <2>3, <2>4, <2>5, <2>8, <3>2
    <3> HIDE DEF l, c0, Rewarding
    <3> QED BY <2>1, <2>2, <3>1, <3>2
  <2> QED BY <2>7, <2>8
<1>15. CreepInv' /\ BattleInv'
  <2>1. avatarCount' = avatarCount /\ IsBattle' = IsBattle /\ mSize' = mSize /\ cells' = cells
    BY <1>1 DEF avatarCount, IsBattle, roomVars
  <2>2. CreepInv'
    BY <1>0, <1>1, <2>1 DEF CreepInv
  <2>3. BattleInv'
    BY <1>0, <1>8, <2>1 DEF BattleInv
  <2> QED BY <2>2, <2>3
<1>16. rewarded' \in [Client -> Nat] /\ hurt' \in [Client -> Nat]
  <2>1. rewarded \in [Client -> Nat]
    BY <1>0 DEF Types
  <2>2. rewarded' = [c \in Client |-> rewarded'[c]]
    <3> HIDE DEF c0, Rewarding
    <3> QED BY <1>11, <2>1
  <2>3. hurt' = [c \in Client |-> hurt'[c]]
    BY <1>1
  <2> HIDE DEF c0, Rewarding
  <2>4. \A c \in Client : rewarded'[c] \in Nat /\ hurt'[c] \in Nat
    BY <1>9, <1>13
  <2> QED BY <2>2, <2>3, <2>4
<1>17. CountInv'
  BY <1>9, <1>13 DEF CountInv
<1> HIDE DEF l, c0, Rewarding, P
<1> QED BY <1>5, <1>6, <1>7, <1>11, <1>14, <1>15, <1>16, <1>17
-----------------------------------------------------------------------------
(***************************************************************************)
(* Steps that test no fight: nobody's fight ends, nobody pays, and whose   *)
(* fight is over keeps its hp.                                             *)
(***************************************************************************)
SameRoom ==
    /\ Len(cells') = Len(cells)
    /\ (mSize' = mSize /\ cells' = cells) \/ mSize' < Len(cells')

SameBooks ==
    /\ stage' = stage /\ hurt' = hurt /\ rewarded' = rewarded
    /\ \A c \in Client : mStatus'[c] = "playing" => mStatus[c] = "playing"
    /\ DOMAIN avatars' = DOMAIN avatars
    /\ \A j \in DOMAIN avatars :
          /\ avatars'[j].mClient = avatars[j].mClient /\ avatars'[j].mIsGhost = avatars[j].mIsGhost
          /\ avatars'[j].mIsFinish = avatars[j].mIsFinish
          /\ avatars'[j].mIsCharacterDamage = avatars[j].mIsCharacterDamage
          /\ avatars[j].mIsFinish => avatars'[j].mHp = avatars[j].mHp
    /\ \A j \in DOMAIN avatars : ~avatars[j].mIsFinish =>
          (part = "timeout" /\ j - (j % 2) < k <=> part' = "timeout" /\ j - (j % 2) < k')

LEMMA Kept ==
    ASSUME StageInv, SameBooks, SameRoom, pc \in {"enter", "over"} => pc' \in {"enter", "over"}
    PROVE  Shape' /\ PairEndsTogether' /\ PayInv' /\ CountInv' /\ RewardInv' /\ CreepInv' /\ BattleInv'
<1>0. /\ Types /\ Shape /\ AvatarInv /\ PairEndsTogether /\ PayInv
      /\ CountInv /\ RewardInv /\ CreepInv /\ BattleInv
  BY TakeApart
<1>1. avatarCount' = avatarCount /\ IsBattle' = IsBattle /\ DOMAIN avatars' = DOMAIN avatars
  BY DEF SameBooks, avatarCount, IsBattle
<1>2. ASSUME NEW j \in DOMAIN avatars
      PROVE  /\ avatars'[j].mClient = avatars[j].mClient
             /\ avatars'[j].mIsGhost = avatars[j].mIsGhost
             /\ avatars'[j].mIsFinish = avatars[j].mIsFinish
             /\ avatars'[j].mIsCharacterDamage = avatars[j].mIsCharacterDamage
             /\ avatars[j].mIsFinish => avatars'[j].mHp = avatars[j].mHp
             /\ avatars[j].mClient \in Client \cup {NoClient}
  BY <1>0 DEF SameBooks, AvatarInv, Avatar
<1>3. Shape'
  BY <1>0, <1>1 DEF Shape
<1>4. PairEndsTogether'
  BY <1>0, <1>1, <1>2, OpponentOf DEF PairEndsTogether, Opponent
<1>5. PayInv'
  <2> SUFFICES ASSUME NEW j \in DOMAIN avatars, ~avatars'[j].mIsGhost,
                      avatars'[j].mClient # NoClient, mStatus'[avatars'[j].mClient] = "playing"
               PROVE  avatars'[j].mIsCharacterDamage <=>
                         IF avatars'[j].mIsFinish THEN avatars'[j].mHp = 0
                         ELSE part' = "timeout" /\ j - (j % 2) < k'
    BY <1>1 DEF PayInv, IsValidClientInThisRoom
  <2>1. ~avatars[j].mIsGhost /\ IsValidClientInThisRoom(avatars[j].mClient)
    BY <1>2 DEF SameBooks, IsValidClientInThisRoom
  <2>2. avatars[j].mIsCharacterDamage <=>
            IF avatars[j].mIsFinish THEN avatars[j].mHp = 0
            ELSE part = "timeout" /\ j - (j % 2) < k
    BY <1>0, <2>1 DEF PayInv
  <2>3. CASE avatars[j].mIsFinish
    BY <1>2, <2>2, <2>3
  <2>4. CASE ~avatars[j].mIsFinish
    <3>1. part = "timeout" /\ j - (j % 2) < k <=> part' = "timeout" /\ j - (j % 2) < k'
      BY <2>4 DEF SameBooks
    <3> QED BY <1>2, <2>2, <2>4, <3>1
  <2> QED BY <2>3, <2>4
<1>6. ASSUME NEW c \in Client
      PROVE  Own(c)' = Own(c) /\ Paid(c)' = Paid(c) /\ Ended(c)' = Ended(c)
  <2>1. Own(c)' = Own(c)
    BY <1>1, <1>2 DEF Own
  <2> QED BY <1>2, <2>1 DEF Paid, Ended, Own
<1>7. CountInv'
  BY <1>0, <1>6 DEF CountInv, SameBooks
<1>8. RewardInv'
  <2> SUFFICES ASSUME ~IsBattle, NEW c \in Client, mStatus'[c] = "playing"
               PROVE  rewarded'[c] > 0 <=> \E j \in Ended(c)' : avatars'[j + 1].mHp = 0
    BY <1>1 DEF RewardInv
  <2>1. rewarded'[c] = rewarded[c] /\ (rewarded[c] > 0 <=> \E j \in Ended(c) : avatars[j + 1].mHp = 0)
    BY <1>0 DEF RewardInv, SameBooks
  <2>2. ASSUME NEW j \in Ended(c) PROVE avatars'[j + 1].mHp = avatars[j + 1].mHp
    <3>1. j \in DOMAIN avatars /\ avatars[j].mClient = c /\ avatars[j].mIsFinish /\ c # NoClient
      BY AvatarAssumption DEF Ended, Own
    <3>2. j % 2 = 0
      BY <1>0, <3>1, OpponentOf DEF CreepInv
    <3>3. j + 1 \in DOMAIN avatars /\ avatars[j + 1].mIsFinish
      BY <1>0, <3>1, <3>2, OpponentOf DEF PairEndsTogether
    <3> QED BY <1>2, <3>3
  <2> QED BY <1>6, <2>1, <2>2
<1>9. CreepInv' /\ BattleInv'
  <2>1. CreepInv'
    BY <1>0, <1>1, <1>2 DEF CreepInv, SameRoom
  <2>2. BattleInv'
    BY <1>0, <1>1, <1>6 DEF BattleInv
  <2> QED BY <2>1, <2>2
<1> QED BY <1>3, <1>4, <1>5, <1>7, <1>8, <1>9

(***************************************************************************)
(* Steps that leave the avatars as they are.                               *)
(***************************************************************************)
LEMMA Quiet ==
    ASSUME StageInv, UNCHANGED <<stage, avatars, hurt, rewarded>>, SameRoom,
           \A c \in Client : mStatus'[c] = "playing" => mStatus[c] = "playing",
           \A j \in DOMAIN avatars : ~avatars[j].mIsFinish =>
              (part = "timeout" /\ j - (j % 2) < k <=> part' = "timeout" /\ j - (j % 2) < k'),
           pc \in {"enter", "over"} => pc' \in {"enter", "over"},
           \/ pc' = pc /\ k' = k
           \/ pc \notin {"setup", "heal"} /\ pc' \notin {"setup", "fitment", "check"},
           Types', WhereInv', CellsInv', ListInv'
    PROVE  StageInv'
<1>0. AvatarInv /\ AliveInv
  BY TakeApart
<1>1. SameBooks
  BY DEF SameBooks
<1>2. Shape' /\ PairEndsTogether' /\ PayInv' /\ CountInv' /\ RewardInv' /\ CreepInv' /\ BattleInv'
  BY <1>1, Kept
<1>3. AvatarInv'
  BY <1>0 DEF AvatarInv
<1>4. AliveInv'
  BY <1>0 DEF AliveInv, Opponent
<1> QED BY <1>2, <1>3, <1>4 DEF StageInv, FightInv, BookInv

(***************************************************************************)
(* A client leaves its slot.                                               *)
(***************************************************************************)
LEMMA Leaving ==
    ASSUME StageInv, NEW c \in Client, ClientInit(c)
    PROVE  /\ SameRoom /\ CellsInv'
           /\ cells' \in Seq(Client) /\ mSize' \in 0..Len(cells')
           /\ mStatus' \in [Client -> {"playing", "free"}]
           /\ mHp' \in [Client -> 0..MAX_CHARACTER_MAX_HP]
           /\ mUsingItems' \in [Client -> [Slots -> Item]]
           /\ tickets' \in [Client -> [TicketType -> Nat]]
           /\ \A d \in Client : mStatus'[d] = "playing" =>
                 mStatus[d] = "playing" /\ d # c /\ mHp'[d] = mHp[d]
<1>0. Types /\ CellsInv
  BY TakeApart
<1>1. cells \in Seq(Client) /\ mSize \in 0..Len(cells) /\ Len(cells) \in Nat
  BY <1>0 DEF Types
<1>2. /\ SameRoom /\ CellsInv' /\ cells' \in Seq(Client) /\ mSize' \in 0..Len(cells')
  <2>1. CASE \E j \in 1..mSize : cells[j] = c
    <3> DEFINE i == CHOOSE j \in 1..mSize : cells[j] = c
    <3>1. i \in 1..mSize
      BY <2>1
    <3>2. /\ cells' = [j \in DOMAIN cells |->
                          IF i <= j /\ j < mSize THEN cells[j + 1] ELSE cells[j]]
          /\ mSize' = mSize - 1
      BY <2>1 DEF ClientInit, Erase
    <3> HIDE DEF i
    <3>3. cells' \in Seq(Client) /\ Len(cells') = Len(cells)
      <4>1. DOMAIN cells = 1..Len(cells) /\ \A j \in 1..Len(cells) : cells[j] \in Client
        BY <1>1
      <4>2. \A j \in 1..Len(cells) : (IF i <= j /\ j < mSize THEN cells[j + 1] ELSE cells[j]) \in Client
        BY <1>1, <3>1, <4>1
      <4>3. cells' \in [1..Len(cells) -> Client]
        BY <3>2, <4>1, <4>2
      <4> QED BY <1>1, <4>3
    <3> QED BY <1>0, <1>1, <3>1, <3>2, <3>3 DEF SameRoom, CellsInv
  <2>2. CASE ~\E j \in 1..mSize : cells[j] = c
    <3>1. cells' = cells /\ mSize' = mSize
      BY <2>2 DEF ClientInit, roomVars
    <3> QED BY <1>0, <1>1, <3>1 DEF SameRoom, CellsInv
  <2> QED BY <2>1, <2>2
<1>3. [s \in Slots |-> EmptyItem] \in [Slots -> Item] /\ NoTickets \in [TicketType -> Nat]
  BY DEF EmptyItem, EMPTY_ITEM, Item, NoTickets
<1>4. /\ mStatus' \in [Client -> {"playing", "free"}]
      /\ mHp' \in [Client -> 0..MAX_CHARACTER_MAX_HP]
      /\ mUsingItems' \in [Client -> [Slots -> Item]]
      /\ tickets' \in [Client -> [TicketType -> Nat]]
  BY <1>0, <1>3, StageAssumption DEF ClientInit, Types
<1>5. \A d \in Client : mStatus'[d] = "playing" =>
          mStatus[d] = "playing" /\ d # c /\ mHp'[d] = mHp[d]
  BY <1>0 DEF ClientInit, Types
<1> QED BY <1>2, <1>4, <1>5

LEMMA NextAvatar ==
    ASSUME Shape, NEW av, DOMAIN av = DOMAIN avatars, NEW i \in Nat
    PROVE  /\ NextFrom(av, i) \in 0..avatarCount
           /\ NextFrom(av, i) < avatarCount =>
                 /\ NextFrom(av, i) \in DOMAIN avatars /\ NextFrom(av, i) >= i
                 /\ NextFrom(av, i) % 2 = i % 2 /\ ~av[NextFrom(av, i)].mIsFinish
           /\ \A l \in DOMAIN avatars :
                 l >= i /\ l < NextFrom(av, i) /\ l % 2 = i % 2 => av[l].mIsFinish
<1>1. avatarCount \in Nat /\ DOMAIN av = 0..avatarCount - 1 /\ Cardinality(DOMAIN av) = avatarCount
  BY DEF Shape, avatarCount
<1> HIDE DEF avatarCount
<1> QED BY <1>1, NextFound

\* As long as somebody fights, one of the even and one of the odd avatars does.
LEMMA SomebodyFights ==
    ASSUME Shape, PairEndsTogether
    PROVE  /\ NextFrom(avatars, 0) \in Nat /\ NextFrom(avatars, 1) \in Nat
           /\ NextFrom(avatars, 0) <= avatarCount /\ NextFrom(avatars, 1) <= avatarCount
           /\ ~AllFinished => /\ NextFrom(avatars, 0) < avatarCount
                              /\ NextFrom(avatars, 1) < avatarCount
           /\ AllFinished => NextFrom(avatars, 0) = avatarCount
           /\ NextFrom(avatars, 0) < avatarCount =>
                 NextFrom(avatars, 0) % 2 = 0 /\ ~avatars[NextFrom(avatars, 0)].mIsFinish
           /\ NextFrom(avatars, 1) < avatarCount => ~avatars[NextFrom(avatars, 1)].mIsFinish
           /\ \A j \in DOMAIN avatars : ~avatars[j].mIsFinish => ~(j - (j % 2) < NextFrom(avatars, 0))
<1> DEFINE e == NextFrom(avatars, 0)
           o == NextFrom(avatars, 1)
<1>0. avatarCount \in Nat
  BY DEF Shape
<1>1. /\ e \in 0..avatarCount /\ o \in 0..avatarCount
      /\ e < avatarCount => e \in DOMAIN avatars /\ e % 2 = 0 /\ ~avatars[e].mIsFinish
      /\ o < avatarCount => o \in DOMAIN avatars /\ ~avatars[o].mIsFinish
      /\ \A l \in DOMAIN avatars : l >= 0 /\ l < e /\ l % 2 = 0 % 2 => avatars[l].mIsFinish
      /\ \A l \in DOMAIN avatars : l >= 1 /\ l < o /\ l % 2 = 1 % 2 => avatars[l].mIsFinish
  BY NextAvatar
<1> HIDE DEF e, o
<1>2. ASSUME NEW j \in DOMAIN avatars, ~avatars[j].mIsFinish
      PROVE  ~(j - (j % 2) < e) /\ e < avatarCount /\ o < avatarCount
  <2> DEFINE l == j - (j % 2)
  <2>1. l \in DOMAIN avatars /\ l % 2 = 0 /\ l \in {j, Opponent(j)} /\ l \in Nat /\ l < avatarCount
    BY OpponentOf
  <2>2. Opponent(l) = l + 1 /\ l + 1 \in DOMAIN avatars /\ l + 1 < avatarCount
    BY <2>1, OpponentOf
  <2> HIDE DEF l
  <2>3. ~avatars[l].mIsFinish /\ ~avatars[l + 1].mIsFinish
    BY <1>2, <2>1, <2>2 DEF PairEndsTogether
  <2>4. ~(l < e)
    BY <1>1, <2>1, <2>3
  <2>5. (l + 1) % 2 = 1 /\ l + 1 >= 1
    BY <2>1
  <2>6. ~(l + 1 < o)
    BY <1>1, <2>2, <2>3, <2>5
  <2> HIDE DEF avatarCount
  <2> QED BY <1>0, <1>1, <2>1, <2>2, <2>4, <2>6 DEF l
<1>3. AllFinished => e = avatarCount
  <2> HIDE DEF avatarCount
  <2> QED BY <1>0, <1>1 DEF AllFinished
<1>4. ~AllFinished => \E j \in DOMAIN avatars : ~avatars[j].mIsFinish
  BY DEF AllFinished
<1> HIDE DEF avatarCount
<1> QED BY <1>0, <1>1, <1>2, <1>3, <1>4 DEF e, o

(***************************************************************************)
(* Steps of the thread that change nothing but where it is.                *)
(***************************************************************************)
LEMMA ThreadSteps ==
    ASSUME StageInv,
           UNCHANGED <<stage, mBattleOpponents, mCreepRound, roomVars, slotVars, playVars>>,
           pc' \in {"check", "loop", "use", "cycle", "timeout", "kick", "finish", "last",
                    "end", "goOn", "over"},
           part' \in {"even", "odd", "cycle", "timeout"},
           battleLoop' \in 0..BATTLE_LOOP, activeItemIndex' \in Slots,
           lastClientNetworkID' \in Client \cup {NoClient},
           pc # "over" /\ (pc = "enter" => pc' = "over"),
           pc \notin {"setup", "heal"} /\ pc' # "check",
           pc' \notin {"use", "cycle", "timeout", "kick"} => disconnectNetworkIdList = {},
           \A j \in DOMAIN avatars : ~avatars[j].mIsFinish =>
              (part = "timeout" /\ j - (j % 2) < k <=> part' = "timeout" /\ j - (j % 2) < k'),
           WhereInv'
    PROVE  StageInv'
<1>0. Types /\ CellsInv /\ ListInv
  BY TakeApart
<1>1. SameRoom
  BY <1>0 DEF SameRoom, roomVars
<1>2. UNCHANGED <<avatars, hurt, rewarded, cells, mSize, mStatus, mUsingItems,
                  disconnectNetworkIdList, mHp, tickets>>
  BY DEF roomVars, slotVars, playVars
<1>3. Types'
  BY <1>0, <1>2 DEF Types
<1>4. CellsInv'
  BY <1>0, <1>2 DEF CellsInv
<1>5. ListInv'
  BY <1>0, <1>2 DEF ListInv
<1>6. /\ \A c \in Client : mStatus'[c] = "playing" => mStatus[c] = "playing"
      /\ (pc \in {"enter", "over"} => pc' \in {"enter", "over"})
      /\ pc \notin {"setup", "heal"} /\ pc' \notin {"setup", "fitment", "check"}
  BY <1>2
<1> QED BY <1>1, <1>2, <1>3, <1>4, <1>5, <1>6, Quiet

LEMMA GiveUpKeeps == StageInv /\ GiveUp => StageInv'
<1> SUFFICES ASSUME StageInv, GiveUp PROVE StageInv'
  OBVIOUS
<1>0. Types /\ WhereInv /\ ListInv
  BY TakeApart
<1>1. /\ UNCHANGED <<stage, mBattleOpponents, mCreepRound, roomVars, slotVars, playVars>>
      /\ pc \in {"enter", "check", "end"} /\ pc' = "over"
      /\ UNCHANGED <<part, battleLoop, activeItemIndex, k, lastClientNetworkID, avatars>>
  BY DEF GiveUp, playVars
<1>2. WhereInv'
  BY <1>0, <1>1 DEF WhereInv, avatarCount, IsBattle, AllFinished
<1>3. disconnectNetworkIdList = {}
  BY <1>0, <1>1 DEF ListInv
<1> QED BY <1>0, <1>1, <1>2, <1>3, ThreadSteps DEF Types

LEMMA CreepCheckKeeps == StageInv /\ CreepCheck => StageInv'
<1> SUFFICES ASSUME StageInv, CreepCheck PROVE StageInv'
  OBVIOUS
<1>0. Types /\ WhereInv /\ ListInv
  BY TakeApart
<1>1. /\ UNCHANGED <<stage, mBattleOpponents, mCreepRound, roomVars, slotVars, playVars>>
      /\ pc = "check" /\ pc' = "loop"
      /\ UNCHANGED <<part, battleLoop, activeItemIndex, k, lastClientNetworkID, avatars>>
  BY DEF CreepCheck, At, playVars
<1>2. WhereInv'
  BY <1>0, <1>1 DEF WhereInv, avatarCount, IsBattle, AllFinished
<1>3. disconnectNetworkIdList = {}
  BY <1>0, <1>1 DEF ListInv
<1> QED BY <1>0, <1>1, <1>2, <1>3, ThreadSteps DEF Types

LEMMA TimeIsUpKeeps == StageInv /\ TimeIsUp => StageInv'
<1> SUFFICES ASSUME StageInv, TimeIsUp PROVE StageInv'
  OBVIOUS
<1>0. Types /\ Shape /\ PairEndsTogether /\ WhereInv /\ ListInv
  BY TakeApart
<1>1. /\ UNCHANGED <<stage, mBattleOpponents, mCreepRound, roomVars, slotVars, playVars>>
      /\ pc = "loop" /\ pc' = (IF AllFinished THEN "kick" ELSE "timeout")
      /\ part' = "timeout" /\ k' = NextFrom(avatars, 0)
      /\ UNCHANGED <<battleLoop, activeItemIndex, lastClientNetworkID, avatars>>
  BY DEF TimeIsUp, At, playVars
<1>2. avatarCount' = avatarCount /\ avatarCount \in Nat
  BY <1>0, <1>1 DEF avatarCount, Shape
<1>3. WhereInv'
  <2> HIDE DEF avatarCount
  <2> QED BY <1>0, <1>1, <1>2, SomebodyFights DEF WhereInv, IsBattle, AllFinished
<1>4. disconnectNetworkIdList = {} /\ part # "timeout"
  BY <1>0, <1>1 DEF ListInv, WhereInv
<1>5. \A j \in DOMAIN avatars : ~avatars[j].mIsFinish =>
          (part = "timeout" /\ j - (j % 2) < k <=> part' = "timeout" /\ j - (j % 2) < k')
  BY <1>0, <1>1, <1>4, SomebodyFights
<1> QED BY <1>0, <1>1, <1>3, <1>4, <1>5, ThreadSteps DEF Types

LEMMA EndEvenKeeps == StageInv /\ EndEven => StageInv'
<1> SUFFICES ASSUME StageInv, EndEven PROVE StageInv'
  OBVIOUS
<1>0. Types /\ Shape /\ PairEndsTogether /\ WhereInv
  BY TakeApart
<1>1. /\ UNCHANGED <<stage, mBattleOpponents, mCreepRound, roomVars, slotVars, playVars>>
      /\ pc = "kick" /\ pc' = (IF AllFinished THEN "finish" ELSE "use")
      /\ part = "even" /\ part' = "odd" /\ k' = NextFrom(avatars, 1)
      /\ disconnectNetworkIdList = {}
      /\ UNCHANGED <<battleLoop, activeItemIndex, lastClientNetworkID, avatars>>
  BY DEF EndEven, Then, At, playVars
<1>2. avatarCount' = avatarCount /\ avatarCount \in Nat
  BY <1>0, <1>1 DEF avatarCount, Shape
<1>3. WhereInv'
  <2> HIDE DEF avatarCount
  <2> QED BY <1>0, <1>1, <1>2, SomebodyFights DEF WhereInv, IsBattle, AllFinished
<1> QED BY <1>0, <1>1, <1>3, ThreadSteps DEF Types

LEMMA EndOddKeeps == StageInv /\ EndOdd => StageInv'
<1> SUFFICES ASSUME StageInv, EndOdd PROVE StageInv'
  OBVIOUS
<1>0. Types /\ Shape /\ PairEndsTogether /\ WhereInv
  BY TakeApart
<1>1. /\ UNCHANGED <<stage, mBattleOpponents, mCreepRound, roomVars, slotVars, playVars>>
      /\ pc = "kick" /\ pc' \in {"finish", "over", "use", "cycle"}
      /\ pc' = "finish" <=> AllFinished
      /\ part = "odd" /\ part' \in {"even", "cycle"} /\ k' = NextFrom(avatars, 0)
      /\ disconnectNetworkIdList = {}
      /\ UNCHANGED <<battleLoop, lastClientNetworkID, avatars>>
  BY DEF EndOdd, Then, At, playVars
<1>2. avatarCount' = avatarCount /\ avatarCount \in Nat
  BY <1>0, <1>1 DEF avatarCount, Shape
<1>3. WhereInv'
  <2> HIDE DEF avatarCount
  <2> QED BY <1>0, <1>1, <1>2, SomebodyFights DEF WhereInv, IsBattle, AllFinished
<1>4. activeItemIndex' \in Slots
  BY <1>0, AvatarAssumption DEF EndOdd, Types, Slots
<1> QED BY <1>0, <1>1, <1>3, <1>4, ThreadSteps DEF Types

LEMMA EndCycleKeeps == StageInv /\ EndCycle => StageInv'
<1> SUFFICES ASSUME StageInv, EndCycle PROVE StageInv'
  OBVIOUS
<1>0. Types /\ WhereInv
  BY TakeApart
<1>1. /\ UNCHANGED <<stage, mBattleOpponents, mCreepRound, roomVars, slotVars, playVars>>
      /\ pc = "kick" /\ pc' = "loop" /\ part = "cycle" /\ battleLoop' = battleLoop + 1
      /\ disconnectNetworkIdList = {}
      /\ UNCHANGED <<part, k, activeItemIndex, lastClientNetworkID, avatars>>
  BY DEF EndCycle, Then, At, playVars
<1>2. WhereInv'
  BY <1>0, <1>1 DEF WhereInv, avatarCount, IsBattle, AllFinished
<1>3. battleLoop' \in 0..BATTLE_LOOP
  BY <1>0, <1>1, StageAssumption DEF Types, WhereInv
<1> QED BY <1>0, <1>1, <1>2, <1>3, ThreadSteps DEF Types

LEMMA EndTimeKeeps == StageInv /\ EndTime => StageInv'
<1> SUFFICES ASSUME StageInv, EndTime PROVE StageInv'
  OBVIOUS
<1>0. Types /\ WhereInv
  BY TakeApart
<1>1. /\ UNCHANGED <<stage, mBattleOpponents, mCreepRound, roomVars, slotVars, playVars>>
      /\ pc = "kick" /\ pc' = "finish" /\ part = "timeout"
      /\ disconnectNetworkIdList = {}
      /\ UNCHANGED <<part, battleLoop, k, activeItemIndex, lastClientNetworkID, avatars>>
  BY DEF EndTime, Then, At, playVars
<1>2. WhereInv'
  BY <1>0, <1>1 DEF WhereInv, avatarCount, IsBattle, AllFinished
<1> QED BY <1>0, <1>1, <1>2, ThreadSteps DEF Types

LEMMA FinishBattleKeeps == StageInv /\ FinishBattle => StageInv'
<1> SUFFICES ASSUME StageInv, FinishBattle PROVE StageInv'
  OBVIOUS
<1>0. Types /\ WhereInv /\ ListInv
  BY TakeApart
<1>1. /\ UNCHANGED <<stage, mBattleOpponents, mCreepRound, roomVars, slotVars, playVars>>
      /\ pc = "finish" /\ pc' = (IF mSize = 1 THEN "last" ELSE "end")
      /\ lastClientNetworkID' = (IF mSize = 1 THEN cells[1] ELSE NoClient)
      /\ UNCHANGED <<part, battleLoop, k, activeItemIndex, avatars>>
  BY DEF FinishBattle, playVars
<1>2. mSize = 1 => cells[1] \in Client
  BY <1>0 DEF Types
<1>3. WhereInv'
  BY <1>0, <1>1, <1>2 DEF WhereInv, avatarCount, IsBattle, AllFinished
<1>4. disconnectNetworkIdList = {}
  BY <1>0, <1>1 DEF ListInv
<1> QED BY <1>0, <1>1, <1>2, <1>3, <1>4, ThreadSteps DEF Types

LEMMA NextStageKeeps == StageInv /\ NextStage => StageInv'
<1> SUFFICES ASSUME StageInv, NextStage PROVE StageInv'
  OBVIOUS
<1>0. Types /\ WhereInv /\ ListInv
  BY TakeApart
<1>1. /\ UNCHANGED <<stage, mBattleOpponents, mCreepRound, roomVars, slotVars, playVars>>
      /\ pc = "end" /\ pc' = "goOn"
      /\ UNCHANGED <<part, battleLoop, activeItemIndex, k, lastClientNetworkID, avatars>>
  BY DEF NextStage, At, playVars
<1>2. WhereInv'
  BY <1>0, <1>1 DEF WhereInv, avatarCount, IsBattle, AllFinished
<1>3. disconnectNetworkIdList = {}
  BY <1>0, <1>1 DEF ListInv
<1> QED BY <1>0, <1>1, <1>2, <1>3, ThreadSteps DEF Types

(***************************************************************************)
(* Players that go: by themselves, because they have lost, or as the last. *)
(***************************************************************************)
LEMMA LeaveKeeps == \A c \in Client : StageInv /\ Leave(c) => StageInv'
<1> SUFFICES ASSUME StageInv, NEW c \in Client, Leave(c) PROVE StageInv'
  OBVIOUS
<1>0. Types /\ WhereInv /\ ListInv
  BY TakeApart
<1>1. /\ ClientInit(c)
      /\ UNCHANGED <<stage, pc, part, battleLoop, activeItemIndex, k, lastClientNetworkID,
                     mBattleOpponents, mCreepRound, avatars, disconnectNetworkIdList,
                     hurt, rewarded>>
  BY DEF Leave, threadVars
<1>2. Types'
  BY <1>0, <1>1, Leaving DEF Types
<1>3. WhereInv'
  BY <1>0, <1>1 DEF WhereInv, avatarCount, IsBattle, AllFinished
<1>4. ListInv'
  BY <1>0, <1>1, Leaving DEF ListInv
<1> QED BY <1>1, <1>2, <1>3, <1>4, Leaving, Quiet

LEMMA KickKeeps == \A c \in Client : StageInv /\ Kick(c) => StageInv'
<1> SUFFICES ASSUME StageInv, NEW c \in Client, Kick(c) PROVE StageInv'
  OBVIOUS
<1>0. Types /\ WhereInv /\ ListInv /\ CellsInv
  BY TakeApart
<1>1. /\ pc = "kick" /\ disconnectNetworkIdList' = disconnectNetworkIdList \ {c}
      /\ Disconnect(c)
      /\ UNCHANGED <<stage, pc, part, battleLoop, activeItemIndex, k, lastClientNetworkID,
                     mBattleOpponents, mCreepRound, avatars, hurt, rewarded>>
  BY DEF Kick, threadVars
<1>2. WhereInv'
  BY <1>0, <1>1 DEF WhereInv, avatarCount, IsBattle, AllFinished
<1>3. CASE mStatus[c] = "free"
  <2>1. UNCHANGED <<cells, mSize, mStatus, mUsingItems, mHp, tickets>>
    BY <1>1, <1>3 DEF Disconnect, roomVars, slotVars
  <2>2. Types' /\ SameRoom /\ CellsInv'
    BY <1>0, <1>1, <2>1 DEF Types, SameRoom, CellsInv
  <2>3. ListInv'
    BY <1>0, <1>1, <1>3, <2>1 DEF ListInv
  <2> QED BY <1>1, <1>2, <2>1, <2>2, <2>3, Quiet
<1>4. CASE mStatus[c] # "free"
  <2>1. ClientInit(c)
    BY <1>1, <1>4 DEF Disconnect
  <2>2. Types'
    BY <1>0, <1>1, <2>1, Leaving DEF Types
  <2>3. ListInv'
    BY <1>0, <1>1, <2>1, Leaving DEF ListInv
  <2> QED BY <1>1, <1>2, <2>1, <2>2, <2>3, Leaving, Quiet
<1> QED BY <1>3, <1>4

LEMMA KickLastKeeps == StageInv /\ KickLast => StageInv'
<1> SUFFICES ASSUME StageInv, KickLast PROVE StageInv'
  OBVIOUS
<1>0. Types /\ WhereInv /\ ListInv /\ CellsInv
  BY TakeApart
<1>1. /\ pc = "last" /\ pc' = "end" /\ Disconnect(lastClientNetworkID)
      /\ UNCHANGED <<stage, part, battleLoop, activeItemIndex, k, lastClientNetworkID,
                     mBattleOpponents, mCreepRound, avatars, disconnectNetworkIdList,
                     hurt, rewarded>>
  BY DEF KickLast, At
<1>2. WhereInv'
  BY <1>0, <1>1 DEF WhereInv, avatarCount, IsBattle, AllFinished
<1>3. CASE mStatus[lastClientNetworkID] = "free"
  <2>1. UNCHANGED <<cells, mSize, mStatus, mUsingItems, mHp, tickets>>
    BY <1>1, <1>3 DEF Disconnect, roomVars, slotVars
  <2>2. Types' /\ SameRoom /\ CellsInv'
    BY <1>0, <1>1, <2>1 DEF Types, SameRoom, CellsInv
  <2>3. ListInv'
    BY <1>0, <1>1, <1>3, <2>1 DEF ListInv
  <2> QED BY <1>1, <1>2, <2>1, <2>2, <2>3, Quiet
<1>4. CASE mStatus[lastClientNetworkID] # "free"
  <2>1. ClientInit(lastClientNetworkID) /\ lastClientNetworkID \in Client
    BY <1>0, <1>1, <1>4 DEF Disconnect, WhereInv
  <2>2. Types'
    BY <1>0, <1>1, <2>1, Leaving DEF Types
  <2>3. ListInv'
    BY <1>0, <1>1, <2>1, Leaving DEF ListInv
  <2> QED BY <1>1, <1>2, <2>1, <2>2, <2>3, Leaving, Quiet
<1> QED BY <1>3, <1>4
-----------------------------------------------------------------------------
(***************************************************************************)
(* The beginning, and the steps that are none.                             *)
(***************************************************************************)
LEMMA Beginning == Init => StageInv
<1> SUFFICES ASSUME Init PROVE StageInv
  OBVIOUS
<1>1. DOMAIN avatars = {}
  BY DEF Init
<1>2. avatarCount = 0
  BY <1>1, FS_EmptySet DEF avatarCount
<1>3. Types
  <2>1. mHp \in [Client -> 0..MAX_CHARACTER_MAX_HP] /\ mUsingItems \in [Client -> [Slots -> Item]]
    BY StageAssumption DEF Init
  <2>2. cells \in Seq(Client) /\ mSize \in 0..Len(cells) /\ mCreepRound \in Nat /\ battleLoop \in 0..BATTLE_LOOP
    BY StageAssumption DEF Init
  <2>3. activeItemIndex \in Slots
    BY AvatarAssumption DEF Init, Slots
  <2> QED BY <2>1, <2>2, <2>3 DEF Init, Types, NoTickets
<1>4. Shape /\ WhereInv
  <2> HIDE DEF avatarCount
  <2> QED BY <1>1, <1>2 DEF Init, Shape, WhereInv
<1>5. AvatarInv /\ AliveInv /\ PairEndsTogether /\ PayInv /\ BattleInv
  BY <1>1 DEF AvatarInv, AliveInv, PairEndsTogether, PayInv, BattleInv, Own
<1>6. CellsInv
  BY DEF Init, CellsInv
<1>7. ListInv
  BY StageAssumption DEF Init, ListInv
<1>8. \A c \in Client : Own(c) = {} /\ Paid(c) = {} /\ Ended(c) = {}
  BY <1>1 DEF Own, Paid, Ended
<1>9. CountInv /\ RewardInv
  <2>1. Cardinality({}) = 0
    BY FS_EmptySet
  <2>2. \A c \in Client : hurt[c] = 0 /\ rewarded[c] = 0
    BY DEF Init
  <2>3. CountInv
    BY <1>8, <2>1, <2>2 DEF CountInv
  <2>4. RewardInv
    BY <1>8, <2>2 DEF RewardInv
  <2> QED BY <2>3, <2>4
<1>10. CreepInv
  <2> HIDE DEF avatarCount
  <2> QED BY <1>1, <1>2, StageAssumption DEF CreepInv
<1> QED BY <1>3, <1>4, <1>5, <1>6, <1>7, <1>9, <1>10 DEF StageInv, FightInv, BookInv

LEMMA StutterKeeps == StageInv /\ UNCHANGED vars => StageInv'
<1> SUFFICES ASSUME StageInv, UNCHANGED vars PROVE StageInv'
  OBVIOUS
<1>0. Types /\ WhereInv /\ CellsInv /\ ListInv
  BY TakeApart
<1>1. UNCHANGED <<stage, pc, part, battleLoop, activeItemIndex, k, lastClientNetworkID,
                  mBattleOpponents, mCreepRound, cells, mSize, mStatus, mUsingItems, avatars,
                  disconnectNetworkIdList, mHp, tickets, hurt, rewarded>>
  BY DEF vars, threadVars, roomVars, slotVars, playVars
<1>2. Types' /\ CellsInv' /\ ListInv' /\ SameRoom
  BY <1>0, <1>1 DEF Types, CellsInv, ListInv, SameRoom
<1>3. WhereInv'
  BY <1>0, <1>1 DEF WhereInv, avatarCount, IsBattle, AllFinished
<1> QED BY <1>1, <1>2, <1>3, Quiet

(***************************************************************************)
(* Steps that change the avatars, as a fight may, and test no fight.       *)
(***************************************************************************)
StaysDown ==
    \A i \in DOMAIN avatars : Fighting /\ avatars[i].mHp = 0 => avatars'[i].mHp = 0

LEMMA Acted ==
    ASSUME StageInv, UNCHANGED <<stage, hurt, rewarded, mStatus, cells, mSize>>,
           part # "timeout", part' # "timeout", pc \notin {"enter", "over", "setup"},
           DOMAIN avatars' = DOMAIN avatars,
           \A j \in DOMAIN avatars :
              /\ avatars'[j] \in Like(avatars[j])
              /\ avatars[j].mIsFinish => avatars'[j].mHp = avatars[j].mHp
              /\ \/ avatars[j].mIsFinish
                 \/ avatars'[j].mHp > 0
                 \/ pc' = "heal" /\ j \in {k', Opponent(k')},
           pc' \in {"setup", "fitment", "check"} => pc \in {"setup", "fitment", "check"},
           Types', WhereInv', ListInv'
    PROVE  StageInv'
<1>0. AvatarInv /\ Types /\ CellsInv
  BY TakeApart
<1>1. ASSUME NEW j \in DOMAIN avatars
      PROVE  /\ avatars'[j] \in Sound
             /\ avatars'[j].mClient = avatars[j].mClient
             /\ avatars'[j].mIsGhost = avatars[j].mIsGhost
             /\ avatars'[j].mIsFinish = avatars[j].mIsFinish
             /\ avatars'[j].mIsCharacterDamage = avatars[j].mIsCharacterDamage
  BY Unchanging
<1>2. SameBooks
  BY <1>1 DEF SameBooks
<1>3. SameRoom
  BY <1>0 DEF SameRoom
<1>4. Shape' /\ PairEndsTogether' /\ PayInv' /\ CountInv' /\ RewardInv' /\ CreepInv' /\ BattleInv'
  BY <1>2, <1>3, Kept
<1>5. AvatarInv'
  BY <1>0, <1>1 DEF AvatarInv, Sound
<1>6. AliveInv'
  BY <1>1 DEF AliveInv, Opponent
<1>7. CellsInv'
  BY <1>0 DEF CellsInv
<1> QED BY <1>4, <1>5, <1>6, <1>7 DEF StageInv, FightInv, BookInv

LEMMA FitmentKeeps ==
    ASSUME StageInv, NEW step \in {1, 2}, Fitment(step)
    PROVE  StageInv'
<1>0. Types /\ Shape /\ WhereInv /\ AvatarInv /\ AliveInv /\ ListInv
  BY TakeApart
<1>1. /\ pc = "fitment" /\ pc' = (IF k + step >= avatarCount THEN "check" ELSE "fitment")
      /\ k' = (IF k + step >= avatarCount THEN 0 ELSE k + step)
      /\ UNCHANGED <<stage, part, battleLoop, activeItemIndex, lastClientNetworkID,
                     mBattleOpponents, mCreepRound, cells, mSize, mStatus, mUsingItems,
                     disconnectNetworkIdList, mHp, tickets, hurt, rewarded>>
  BY DEF Fitment, At, roomVars, slotVars
<1>2. PICK burger \in Burgers(avatars[k]),
           items \in IF IsBattle THEN Copied(avatars[k].mUsingItem, k)
                                 ELSE {avatars[k].mUsingItem} :
          avatars' = [avatars EXCEPT ![k] =
              [FitmentEffect(@) EXCEPT !.mHamburgerType = burger, !.mUsingItem = items]]
  BY DEF Fitment
<1>3. k \in DOMAIN avatars /\ part # "timeout" /\ disconnectNetworkIdList = {}
  BY <1>0, <1>1 DEF Shape, WhereInv, ListInv
<1> DEFINE a == avatars[k]
<1>4. a \in Sound /\ a.mHp > 0 /\ ~a.mIsFinish /\ a \in Avatar
  BY <1>0, <1>1, <1>3 DEF AvatarInv, AliveInv, Sound
<1>5. burger \in Hamburger /\ items \in [Slots -> Item]
  <2>1. burger \in Hamburger
    BY <1>4 DEF Burgers, Avatar
  <2>2. a.mUsingItem \in [Slots -> Item]
    BY <1>4 DEF Avatar
  <2>3. Opponent(k) \in DOMAIN avatars
    BY <1>0, <1>3, OpponentOf
  <2>4. GetRandomCopyItem(avatars[Opponent(k)]) \subseteq Item
    BY <1>0, <2>3, CopiesAreItems DEF AvatarInv
  <2>5. {a.mUsingItem[s] : s \in Slots} \subseteq Item
    BY <2>2
  <2>6. Copied(a.mUsingItem, k) \subseteq [Slots -> Item]
    BY <2>4, <2>5 DEF Copied
  <2> QED BY <2>1, <2>2, <2>6
<1> DEFINE b == FitmentEffect(a)
           b1 == [b EXCEPT !.mHamburgerType = burger]
           b2 == [b1 EXCEPT !.mUsingItem = items]
<1>6. b \in Alive(a)
  BY <1>4, Fitted
<1>7. avatars' = [avatars EXCEPT ![k] = b2]
  BY <1>2
<1> HIDE DEF a, b
<1>8. b1 \in Alive(a)
  BY <1>5, <1>6 DEF Alive, Like, Sound, Avatar
<1> HIDE DEF b1
<1>9. b2 \in Alive(a)
  BY <1>5, <1>8 DEF Alive, Like, Sound, Avatar
<1> HIDE DEF b2
<1>10. ASSUME NEW j \in DOMAIN avatars
       PROVE  /\ avatars'[j] \in Like(avatars[j]) /\ avatars'[j].mHp > 0
              /\ ~avatars[j].mIsFinish
  <2>1. avatars[j] \in Sound /\ avatars[j].mHp > 0 /\ ~avatars[j].mIsFinish
    BY <1>0, <1>1 DEF AvatarInv, AliveInv
  <2>2. avatars[j] \in Alive(avatars[j])
    BY <2>1 DEF Alive, Like
  <2>3. avatars'[j] \in Alive(avatars[j])
    BY <1>7, <1>9, <2>2 DEF a
  <2> QED BY <2>1, <2>3 DEF Alive
<1>11. DOMAIN avatars' = DOMAIN avatars
  BY <1>7
<1>12. Types'
  BY <1>0, <1>1 DEF Types
<1>13. avatarCount' = avatarCount /\ avatarCount \in Nat
  BY <1>0, <1>11 DEF avatarCount, Shape
<1>14. WhereInv'
  <2> HIDE DEF avatarCount
  <2> QED BY <1>0, <1>1, <1>3, <1>13 DEF WhereInv, IsBattle
<1>15. ListInv'
  BY <1>0, <1>1, <1>3 DEF ListInv
<1> HIDE DEF avatarCount
<1> QED BY <1>1, <1>3, <1>10, <1>11, <1>12, <1>14, <1>15, Acted

LEMMA FitmentsKeep == StageInv /\ (BattleFitment \/ CreepFitment) => StageInv'
  BY FitmentKeeps DEF BattleFitment, CreepFitment

LEMMA BeginCycleKeeps ==
    ASSUME StageInv, NEW drawn \in SUBSET DOMAIN avatars, BeginCycle(drawn)
    PROVE  StageInv'
<1>0. Types /\ Shape /\ WhereInv /\ AvatarInv /\ AliveInv /\ ListInv /\ PairEndsTogether
  BY TakeApart
<1>1. /\ pc = "loop" /\ pc' = (IF AllFinished THEN "kick" ELSE "use")
      /\ part' = "even" /\ activeItemIndex' = 0 /\ k' = NextFrom(avatars, 0)
      /\ battleLoop < BATTLE_LOOP
      /\ UNCHANGED <<stage, battleLoop, lastClientNetworkID,
                     mBattleOpponents, mCreepRound, cells, mSize, mStatus, mUsingItems,
                     disconnectNetworkIdList, mHp, tickets, hurt, rewarded>>
  BY DEF BeginCycle, At, roomVars, slotVars
<1>2. PICK queue \in [drawn -> Orders] :
          avatars' = [i \in DOMAIN avatars |->
              IF i \in drawn THEN [avatars[i] EXCEPT !.mActiveQueue = queue[i]]
                             ELSE avatars[i]]
  BY DEF BeginCycle
<1>3. part # "timeout" /\ disconnectNetworkIdList = {}
  BY <1>0, <1>1 DEF WhereInv, ListInv
<1>4. DOMAIN avatars' = DOMAIN avatars
  BY <1>2
<1>5. ASSUME NEW j \in DOMAIN avatars
      PROVE  /\ avatars'[j] \in Like(avatars[j]) /\ avatars'[j].mHp = avatars[j].mHp
             /\ avatars[j].mIsFinish \/ avatars[j].mHp > 0
             /\ avatars'[j].mIsFinish = avatars[j].mIsFinish
  <2>1. avatars[j] \in Sound /\ (avatars[j].mIsFinish \/ avatars[j].mHp > 0)
    BY <1>0, <1>1 DEF AvatarInv, AliveInv
  <2>2. avatars[j] \in Like(avatars[j])
    BY <2>1 DEF Like
  <2>3. ASSUME j \in drawn
        PROVE  /\ [avatars[j] EXCEPT !.mActiveQueue = queue[j]] \in Like(avatars[j])
               /\ [avatars[j] EXCEPT !.mActiveQueue = queue[j]].mHp = avatars[j].mHp
    <3> DEFINE q == queue[j]
    <3>1. q \in [Slots -> Slots]
      BY <2>3 DEF Orders
    <3> HIDE DEF q
    <3>2. /\ [avatars[j] EXCEPT !.mActiveQueue = q] \in Like(avatars[j])
          /\ [avatars[j] EXCEPT !.mActiveQueue = q].mHp = avatars[j].mHp
      BY <2>2, <3>1 DEF Like, Sound, Avatar
    <3> QED BY <3>2 DEF q
  <2>4. avatars'[j] \in Like(avatars[j]) /\ avatars'[j].mHp = avatars[j].mHp
    BY <1>2, <2>2, <2>3
  <2> QED BY <2>1, <2>4 DEF Like
<1>6. Types'
  BY <1>0, <1>1, AvatarAssumption DEF Types, Slots
<1>7. avatarCount' = avatarCount /\ avatarCount \in Nat /\ AllFinished' = AllFinished
  BY <1>0, <1>4, <1>5 DEF avatarCount, Shape, AllFinished
<1>8. WhereInv'
  <2>1. /\ NextFrom(avatars, 0) \in 0..avatarCount
        /\ ~AllFinished => /\ NextFrom(avatars, 0) \in DOMAIN avatars
                           /\ NextFrom(avatars, 0) < avatarCount
                           /\ ~avatars'[NextFrom(avatars, 0)].mIsFinish
    <3>1. NextFrom(avatars, 0) \in 0..avatarCount /\
          (~AllFinished => NextFrom(avatars, 0) < avatarCount /\ NextFrom(avatars, 0) \in DOMAIN avatars)
      BY <1>0, SomebodyFights, NextAvatar
    <3> QED BY <1>0, <1>5, <3>1, SomebodyFights
  <2> HIDE DEF avatarCount
  <2> QED BY <1>0, <1>1, <1>3, <1>7, <2>1 DEF WhereInv, IsBattle
<1>9. ListInv'
  BY <1>0, <1>1, <1>3 DEF ListInv
<1> HIDE DEF avatarCount
<1>10. UNCHANGED <<stage, hurt, rewarded, mStatus, cells, mSize>>
       /\ part' # "timeout" /\ pc \notin {"enter", "over", "setup"}
       /\ pc' \notin {"setup", "fitment", "check"}
  BY <1>1
<1>11. \A j \in DOMAIN avatars :
          /\ avatars'[j] \in Like(avatars[j])
          /\ avatars[j].mIsFinish => avatars'[j].mHp = avatars[j].mHp
          /\ avatars[j].mIsFinish \/ avatars'[j].mHp > 0
  BY <1>5
<1> QED BY <1>3, <1>4, <1>6, <1>8, <1>9, <1>10, <1>11, Acted

LEMMA BeginCyclesKeep == StageInv /\ (BattleBeginCycle \/ CreepBeginCycle) => StageInv'
  BY BeginCycleKeeps DEF BattleBeginCycle, CreepBeginCycle
-----------------------------------------------------------------------------
(***************************************************************************)
(* Getting ready: nobody has paid or been rewarded yet.                    *)
(***************************************************************************)
Prepared(j) ==
    /\ avatars[j] \in Avatar /\ avatars[j].mHp <= avatars[j].mMaxHp
    /\ ~avatars[j].mIsFinish /\ ~avatars[j].mIsCharacterDamage
    /\ pc = "fitment" \/ j % 2 = 1 \/ j < k => avatars[j] \in Sound /\ avatars[j].mHp > 0

LEMMA GettingReady ==
    ASSUME StageInv, pc \in {"enter", "setup"}, pc' \in {"setup", "fitment"},
           UNCHANGED <<stage, part, battleLoop, activeItemIndex, lastClientNetworkID,
                       mBattleOpponents, cells, mSize, mStatus, mUsingItems,
                       disconnectNetworkIdList, mHp, tickets, hurt, rewarded>>,
           mCreepRound' \in Nat,
           NEW n \in Nat, n > 0, n % 2 = 0, DOMAIN avatars' = 0..n - 1,
           k' \in 0..n - 1, pc' = "setup" => ~IsBattle /\ k' % 2 = 0,
           \A j \in 0..n - 1 : Prepared(j)', CreepInv', BattleInv'
    PROVE  StageInv'
<1>0. Types /\ WhereInv /\ AvatarInv /\ CountInv /\ CellsInv /\ ListInv
  BY TakeApart
<1>1. part # "timeout" /\ disconnectNetworkIdList = {}
  BY <1>0 DEF WhereInv, ListInv
<1>2. ASSUME NEW c \in Client PROVE hurt[c] = 0 /\ rewarded[c] = 0
  <2>1. \A i \in DOMAIN avatars : ~avatars[i].mIsFinish /\ ~avatars[i].mIsCharacterDamage
    BY <1>0 DEF AvatarInv, WhereInv
  <2>2. Paid(c) = {} /\ Ended(c) = {}
    BY <2>1 DEF Paid, Ended, Own
  <2>3. Cardinality({}) = 0
    BY FS_EmptySet
  <2>4. hurt[c] <= 0 /\ rewarded[c] <= 0
    BY <1>0, <2>2, <2>3 DEF CountInv
  <2>5. hurt[c] \in Nat /\ rewarded[c] \in Nat
    BY <1>0 DEF Types
  <2> QED BY <2>4, <2>5
<1>3. ASSUME NEW c \in Client PROVE Paid(c)' = {} /\ Ended(c)' = {}
  BY DEF Prepared, Paid, Ended, Own
<1>4. CountInv' /\ RewardInv'
  <2>1. Cardinality({}) = 0
    BY FS_EmptySet
  <2>2. \A c \in Client : Cardinality(Paid(c))' = 0 /\ Cardinality(Ended(c))' = 0
    BY <1>3, <2>1
  <2>3. \A c \in Client : hurt'[c] = 0 /\ rewarded'[c] = 0
    BY <1>2
  <2>4. CountInv'
    BY <2>2, <2>3 DEF CountInv
  <2>5. RewardInv'
    BY <1>3, <2>3 DEF RewardInv
  <2> QED BY <2>4, <2>5
<1>5. avatarCount' = n
  <2>1. 0 \in Int /\ n - 1 \in Int
    OBVIOUS
  <2>2. Cardinality(0..n - 1) = n
    BY <2>1, FS_Interval
  <2> QED BY <2>2 DEF avatarCount
<1> HIDE DEF avatarCount
<1>6. Shape' /\ WhereInv'
  BY <1>0, <1>1, <1>5 DEF Shape, WhereInv, IsBattle
<1>7. AvatarInv'
  BY DEF AvatarInv, Prepared
<1>8. AliveInv'
  <2> SUFFICES ASSUME NEW j \in 0..n - 1
               PROVE  avatars'[j].mHp > 0 \/ (pc' = "setup" /\ j % 2 = 0 /\ j >= k')
    BY DEF AliveInv
  <2>1. j % 2 = 0 \/ j % 2 = 1
    OBVIOUS
  <2> QED BY <2>1 DEF Prepared
<1>9. PairEndsTogether'
  <2> SUFFICES ASSUME NEW j \in 0..n - 1
               PROVE  avatars'[j].mIsFinish = avatars'[Opponent(j)].mIsFinish
    BY DEF PairEndsTogether, Opponent
  <2>1. Opponent(j) \in 0..n - 1
    BY DEF Opponent
  <2>2. \A i \in 0..n - 1 : avatars'[i].mIsFinish \in BOOLEAN /\ ~avatars'[i].mIsFinish
    BY DEF Avatar, Prepared
  <2> QED BY <2>1, <2>2
<1>10. PayInv'
  BY <1>1 DEF PayInv, Prepared
<1>11. Types' /\ CellsInv' /\ ListInv'
  BY <1>0, <1>1 DEF Types, CellsInv, ListInv
<1> QED BY <1>4, <1>6, <1>7, <1>8, <1>9, <1>10, <1>11 DEF StageInv, FightInv, BookInv

LEMMA BattleEnterKeeps == StageInv /\ BattleEnter => StageInv'
<1> SUFFICES ASSUME StageInv, BattleEnter PROVE StageInv'
  OBVIOUS
<1>0. Types /\ WhereInv
  BY TakeApart
<1>1. /\ IsBattle /\ pc = "enter" /\ pc' = "fitment"
      /\ UNCHANGED <<stage, part, battleLoop, activeItemIndex, k, lastClientNetworkID,
                     mBattleOpponents, mCreepRound, cells, mSize, mStatus, mUsingItems,
                     disconnectNetworkIdList, mHp, tickets, hurt, rewarded>>
  BY DEF BattleEnter, At, roomVars, slotVars
<1> DEFINE o == mBattleOpponents
           n == Len(o)
<1>2. /\ o \in Seq(Fighter) /\ n \in Nat /\ n > 0 /\ n % 2 = 0
      /\ \A i, j \in DOMAIN o :
            ~o[i].ghost /\ ~o[j].ghost /\ o[i].client = o[j].client => i = j
  <2>1. o \in Opponents
    BY <1>0 DEF Types
  <2>2. /\ \A p \in Opponents : p \in Seq(Fighter) /\ Len(p) > 0 /\ Len(p) % 2 = 0
        /\ \A p \in Opponents : \A i, j \in DOMAIN p :
              ~p[i].ghost /\ ~p[j].ghost /\ p[i].client = p[j].client => i = j
    BY StageAssumption
  <2> HIDE DEF o
  <2>3. o \in Seq(Fighter) /\ Len(o) > 0 /\ Len(o) % 2 = 0
    BY <2>1, <2>2
  <2>4. \A i, j \in DOMAIN o :
            ~o[i].ghost /\ ~o[j].ghost /\ o[i].client = o[j].client => i = j
    BY <2>1, <2>2
  <2> QED BY <2>3, <2>4
<1>3. avatars' = [i \in 0..n - 1 |->
                     SetAvatar(o[i + 1].client, mUsingItems[o[i + 1].client], o[i + 1].ghost, Round)]
  BY DEF BattleEnter
<1> HIDE DEF o
<1>4. ASSUME NEW i \in 0..n - 1
      PROVE  /\ i + 1 \in DOMAIN o
             /\ \E h \in Nat : h >= 5 /\ Fresh(avatars'[i], o[i + 1].client, o[i + 1].ghost, h, h)
  <2>1. i + 1 \in DOMAIN o /\ o[i + 1] \in Fighter
    BY <1>2
  <2>2. o[i + 1].client \in Client /\ o[i + 1].ghost \in BOOLEAN
    BY <2>1 DEF Fighter
  <2> DEFINE c == o[i + 1].client
             items == mUsingItems[c]
  <2>3. items \in [Slots -> Item]
    BY <1>0, <2>2 DEF Types
  <2> HIDE DEF items
  <2>4. \E h \in Nat : h >= 5 /\ Fresh(SetAvatar(c, items, o[i + 1].ghost, Round), c, o[i + 1].ghost, h, h)
    BY <2>2, <2>3, Entering
  <2>5. avatars'[i] = SetAvatar(c, items, o[i + 1].ghost, Round)
    BY <1>3 DEF items
  <2> QED BY <2>1, <2>4, <2>5
<1>5. ASSUME NEW i \in 0..n - 1
      PROVE  /\ avatars'[i] \in Avatar /\ avatars'[i].mHp <= avatars'[i].mMaxHp
             /\ ~avatars'[i].mIsFinish /\ ~avatars'[i].mIsCharacterDamage
             /\ avatars'[i] \in Sound /\ avatars'[i].mHp > 0
             /\ avatars'[i].mClient = o[i + 1].client /\ avatars'[i].mIsGhost = o[i + 1].ghost
  <2>1. PICK h \in Nat : h >= 5 /\ Fresh(avatars'[i], o[i + 1].client, o[i + 1].ghost, h, h)
    BY <1>4
  <2> QED BY <2>1 DEF Fresh, Sound
<1>6. DOMAIN avatars' = 0..n - 1
  BY <1>3
<1>7. CreepInv'
  BY <1>1 DEF CreepInv, IsBattle
<1>8. BattleInv'
  <2> SUFFICES ASSUME NEW c \in Client, NEW i \in Own(c)', NEW j \in Own(c)'
               PROVE  i = j
    BY DEF BattleInv
  <2>1. i \in 0..n - 1 /\ j \in 0..n - 1 /\ avatars'[i].mClient = avatars'[j].mClient
        /\ ~avatars'[i].mIsGhost /\ ~avatars'[j].mIsGhost
    BY <1>6 DEF Own
  <2>2. i + 1 \in DOMAIN o /\ j + 1 \in DOMAIN o /\ o[i + 1].client = o[j + 1].client
        /\ ~o[i + 1].ghost /\ ~o[j + 1].ghost
    BY <1>4, <1>5, <2>1
  <2>3. i + 1 = j + 1
    BY <1>2, <2>2
  <2> QED BY <2>1, <2>3
<1>9. k' = 0 /\ mCreepRound' \in Nat
  BY <1>0, <1>1 DEF Types, WhereInv
<1>10. 0 \in 0..n - 1
  BY <1>2
<1> HIDE DEF n
<1>11. \A j \in 0..n - 1 : Prepared(j)'
  BY <1>5 DEF Prepared
<1> QED BY <1>1, <1>2, <1>6, <1>7, <1>8, <1>9, <1>10, <1>11, GettingReady

LEMMA CreepEnterKeeps == StageInv /\ CreepEnter => StageInv'
<1> SUFFICES ASSUME StageInv, CreepEnter PROVE StageInv'
  OBVIOUS
<1>0. Types /\ WhereInv /\ CellsInv
  BY TakeApart
<1>1. /\ ~IsBattle /\ pc = "enter" /\ pc' = "setup" /\ mSize >= 2
      /\ mCreepRound' = mCreepRound + 1
      /\ UNCHANGED <<stage, part, battleLoop, activeItemIndex, k, lastClientNetworkID,
                     mBattleOpponents, cells, mSize, mStatus, mUsingItems,
                     disconnectNetworkIdList, mHp, tickets, hurt, rewarded>>
  BY DEF CreepEnter, At, roomVars, slotVars, GoesOn
<1> DEFINE n == 2 * mSize
<1>2. n \in Nat /\ n > 0 /\ n % 2 = 0 /\ 0 \in 0..n - 1 /\ n <= 2 * Len(Players)
  BY <1>0, <1>1 DEF Types, CellsInv
<1>3. avatars' = [i \in 0..n - 1 |-> IF i % 2 = 1 THEN GetCreepMonster ELSE BattleAvatar0]
  BY DEF CreepEnter
<1>4. mCreepRound \in Nat /\ mCreepRound' \in Nat /\ k' = 0
  BY <1>0, <1>1 DEF Types, WhereInv
<1> HIDE DEF n
<1>5. DOMAIN avatars' = 0..n - 1
  BY <1>3
<1>6. ASSUME NEW i \in 0..n - 1
      PROVE  /\ avatars'[i] \in Avatar /\ avatars'[i].mHp <= avatars'[i].mMaxHp
             /\ ~avatars'[i].mIsFinish /\ ~avatars'[i].mIsCharacterDamage
             /\ i % 2 = 1 => avatars'[i] \in Sound /\ avatars'[i].mHp > 0
             /\ avatars'[i].mClient = NoClient
             /\ i % 2 # 1 => ~avatars'[i].mIsGhost
  <2>1. CASE i % 2 = 1
    <3>1. PICK h \in Nat : h >= 5 /\ Fresh(GetCreepMonster, NoClient, TRUE, h, h)
      BY <1>4, CreepEntering
    <3>2. avatars'[i] = GetCreepMonster
      BY <1>3, <2>1
    <3> QED BY <2>1, <3>1, <3>2 DEF Fresh, Sound
  <2>2. CASE i % 2 # 1
    <3>1. avatars'[i] = BattleAvatar0
      BY <1>3, <2>2
    <3> QED BY <2>2, <3>1, EmptyAvatar DEF Fresh
  <2> QED BY <2>1, <2>2
<1>7. avatarCount' = n
  <2>1. 0 \in Int /\ n - 1 \in Int
    BY <1>2
  <2>2. Cardinality(0..n - 1) = n
    BY <1>2, <2>1, FS_Interval
  <2> QED BY <1>5, <2>2 DEF avatarCount
<1> HIDE DEF avatarCount
<1>8. CreepInv'
  BY <1>2, <1>5, <1>6, <1>7 DEF CreepInv
<1>9. BattleInv'
  BY <1>1 DEF BattleInv, IsBattle
<1>10. \A j \in 0..n - 1 : Prepared(j)'
  <2> HIDE DEF n
  <2> QED BY <1>1, <1>4, <1>6 DEF Prepared
<1> QED BY <1>1, <1>2, <1>4, <1>5, <1>8, <1>9, <1>10, GettingReady

LEMMA CreepSetAvatarKeeps == StageInv /\ CreepSetAvatar => StageInv'
<1> SUFFICES ASSUME StageInv, CreepSetAvatar PROVE StageInv'
  OBVIOUS
<1>0. Types /\ Shape /\ WhereInv /\ AvatarInv /\ AliveInv /\ CreepInv /\ CellsInv
  BY TakeApart
<1> DEFINE n == avatarCount
           c == cells[(k \div 2) + 1]
           items == mUsingItems[c]
<1>1. /\ pc = "setup" /\ pc' = (IF k + 2 = n THEN "fitment" ELSE "setup")
      /\ avatars' = [avatars EXCEPT ![k] = SetAvatar(c, items, FALSE, Round)]
      /\ k' = (IF k + 2 = n THEN 0 ELSE k + 2)
      /\ UNCHANGED <<stage, part, battleLoop, activeItemIndex, lastClientNetworkID,
                     mBattleOpponents, mCreepRound, cells, mSize, mStatus, mUsingItems,
                     disconnectNetworkIdList, mHp, tickets, hurt, rewarded>>
  BY DEF CreepSetAvatar, At, roomVars, slotVars
<1>2. /\ n \in Nat /\ n % 2 = 0 /\ DOMAIN avatars = 0..n - 1 /\ n > 0
      /\ k \in 0..n - 1 /\ k % 2 = 0 /\ ~IsBattle
      /\ n <= 2 * Len(Players)
  BY <1>0, <1>1 DEF Shape, WhereInv, CreepInv
<1> HIDE DEF n
<1>3. c \in Client /\ (mSize = Len(cells) => c = Players[(k \div 2) + 1])
  <2>1. cells \in Seq(Client) /\ Len(cells) = Len(Players) /\ (mSize = Len(cells) => cells = Players)
        /\ Len(Players) \in Nat
    BY <1>0, StageAssumption DEF Types, CellsInv
  <2>2. (k \div 2) + 1 \in 1..Len(cells)
    BY <1>2, <2>1
  <2> QED BY <2>1, <2>2
<1>4. items \in [Slots -> Item]
  BY <1>0, <1>3 DEF Types
<1> HIDE DEF c, items
<1>5. PICK h \in Nat : h >= 5 /\ Fresh(SetAvatar(c, items, FALSE, Round), c, FALSE, h, h)
  BY <1>3, <1>4, Entering
<1>6. DOMAIN avatars' = 0..n - 1
  BY <1>1, <1>2
<1>7. ASSUME NEW j \in 0..n - 1
      PROVE  /\ avatars'[j] \in Avatar /\ avatars'[j].mHp <= avatars'[j].mMaxHp
             /\ ~avatars'[j].mIsFinish /\ ~avatars'[j].mIsCharacterDamage
             /\ j % 2 = 1 \/ j <= k => avatars'[j] \in Sound /\ avatars'[j].mHp > 0
             /\ j # k => avatars'[j] = avatars[j]
             /\ j = k => avatars'[j].mClient = c /\ ~avatars'[j].mIsGhost
  <2>1. CASE j = k
    <3> DEFINE b == SetAvatar(c, items, FALSE, Round)
    <3>1. avatars'[j] = b
      BY <1>1, <1>2, <2>1
    <3>2. b \in Sound /\ b.mHp > 0 /\ b.mClient = c /\ ~b.mIsGhost
          /\ ~b.mIsFinish /\ ~b.mIsCharacterDamage
      <4>1. Fresh(b, c, FALSE, h, h) /\ h >= 5
        BY <1>5
      <4> HIDE DEF b
      <4> QED BY <4>1 DEF Fresh, Sound
    <3> HIDE DEF b
    <3> QED BY <2>1, <3>1, <3>2 DEF Sound
  <2>2. CASE j # k
    <3>1. avatars'[j] = avatars[j]
      BY <1>1, <1>2, <2>2
    <3>2. /\ avatars[j] \in Avatar /\ avatars[j].mHp <= avatars[j].mMaxHp
          /\ ~avatars[j].mIsFinish /\ ~avatars[j].mIsCharacterDamage
          /\ j % 2 = 1 \/ j < k => avatars[j] \in Sound
          /\ j % 2 = 1 \/ j < k => avatars[j].mHp > 0
      BY <1>0, <1>1, <1>2 DEF AvatarInv, AliveInv
    <3> QED BY <1>2, <2>2, <3>1, <3>2
  <2> QED BY <2>1, <2>2
<1>8. /\ k' \in 0..n - 1 /\ k' % 2 = 0
      /\ \A j \in 0..n - 1 : pc' = "fitment" \/ j % 2 = 1 \/ j < k' => j % 2 = 1 \/ j <= k
  BY <1>1, <1>2
<1>9. CreepInv'
  <2>1. avatarCount' = n
    BY <1>2, <1>6 DEF avatarCount, n
  <2>2. ASSUME NEW j \in 0..n - 1
        PROVE  /\ IF j % 2 = 1 THEN avatars'[j].mClient = NoClient ELSE ~avatars'[j].mIsGhost
               /\ mSize = Len(cells) => avatars'[j].mClient \in {NoClient, Players[(j \div 2) + 1]}
    <3>1. CASE j = k
      BY <1>2, <1>3, <1>7, <3>1
    <3>2. CASE j # k
      BY <1>0, <1>2, <1>7, <3>2 DEF CreepInv
    <3> QED BY <3>1, <3>2
  <2> HIDE DEF avatarCount
  <2> QED BY <1>1, <1>2, <1>6, <2>1, <2>2 DEF CreepInv
<1>10. BattleInv'
  BY <1>1, <1>2 DEF BattleInv, IsBattle
<1>11. mCreepRound' \in Nat
  BY <1>0, <1>1 DEF Types
<1>12. \A j \in 0..n - 1 : Prepared(j)'
  BY <1>7, <1>8 DEF Prepared
<1> QED BY <1>1, <1>2, <1>6, <1>8, <1>9, <1>10, <1>11, <1>12, GettingReady
-----------------------------------------------------------------------------
(***************************************************************************)
(* An item is used.                                                        *)
(***************************************************************************)
LEMMA ActiveItemKeeps == StageInv /\ ActiveItem => StageInv' /\ StaysDown
<1> SUFFICES ASSUME StageInv, ActiveItem PROVE StageInv' /\ StaysDown
  OBVIOUS
<1>0. Types /\ Shape /\ WhereInv /\ AvatarInv /\ AliveInv /\ ListInv /\ PairEndsTogether
  BY TakeApart
<1> DEFINE o == Opponent(k)
           a == avatars[k]
           d == avatars[o]
           me == [a EXCEPT !.mEffectItemCount = @ + 1]
           c == me.mClient
           item == me.mUsingItem[me.mActiveQueue[activeItemIndex]]
           sum(t) == t["Normal"] + t["Advanced"] + t["Top"] + t["Supreme"]
           valid == IsValidClientInThisRoom(c)
           sumTicket == IF c = NoClient THEN 0 ELSE sum(tickets[c])
           fight == [me |-> me, opponents |-> d, ticket |-> 0,
                     isValid |-> valid, sumTicket |-> sumTicket]
<1>1. /\ pc = "use" /\ pc' = "heal"
      /\ UNCHANGED <<stage, part, battleLoop, activeItemIndex, k, lastClientNetworkID,
                     mBattleOpponents, mCreepRound, cells, mSize, mStatus, mUsingItems,
                     disconnectNetworkIdList, mHp, hurt, rewarded>>
  BY DEF ActiveItem, At, roomVars, slotVars
<1>2. PICK f \in Active(item, fight) :
          /\ avatars' = [avatars EXCEPT ![k] = f.me, ![o] = f.opponents]
          /\ tickets' = IF f.ticket = 0 THEN tickets
                        ELSE [tickets EXCEPT ![c]["Normal"] = @ + f.ticket]
  BY DEF ActiveItem
<1>3. k \in DOMAIN avatars /\ part # "timeout" /\ ~a.mIsFinish /\ k \in Nat
  BY <1>0, <1>1 DEF Shape, WhereInv
<1>4. o \in DOMAIN avatars /\ o # k /\ ~d.mIsFinish
  BY <1>0, <1>3, OpponentOf DEF PairEndsTogether
<1>5. a \in Sound /\ d \in Sound
  BY <1>0, <1>1, <1>3, <1>4 DEF AvatarInv
<1>6. me \in Like(a) /\ me.mEffectItemCount > 0 /\ d \in Like(d)
  <2>1. a \in Like(a) /\ d \in Like(d) /\ a.mEffectItemCount \in Nat
    BY <1>5 DEF Like, Sound, Avatar
  <2> DEFINE m == a.mEffectItemCount + 1
  <2>2. m \in Nat /\ m > 0
    BY <2>1
  <2>3. me = [a EXCEPT !.mEffectItemCount = m]
    OBVIOUS
  <2> HIDE DEF m, a, d, me
  <2>4. [a EXCEPT !.mEffectItemCount = m] \in Like(a)
    BY <2>1, <2>2, NumberSet
  <2>5. [a EXCEPT !.mEffectItemCount = m].mEffectItemCount = m
    BY <2>1 DEF Like, Sound, Avatar
  <2> QED BY <2>1, <2>2, <2>3, <2>4, <2>5
<1> HIDE DEF me, a, d, o
<1>7. c \in Client \cup {NoClient} /\ item \in Item
  BY <1>0, <1>6 DEF Like, Sound, Avatar, Types
<1> HIDE DEF item
<1>8. sumTicket \in Nat /\ valid \in BOOLEAN
  <2>1. c \in Client => tickets[c] \in [TicketType -> Nat]
    BY <1>0 DEF Types
  <2> QED BY <1>7, <2>1 DEF TicketType, IsValidClientInThisRoom
<1> HIDE DEF sumTicket, valid, c
<1>9. fight \in Fights(a, d) /\ fight.me.mEffectItemCount > 0
  BY <1>6, <1>8 DEF Fights
<1> HIDE DEF fight
<1>10. f \in Fights(a, d)
  BY <1>2, <1>7, <1>9, ItemsKeepFighters
<1>11. f.me \in Like(a) /\ f.opponents \in Like(d) /\ f.ticket \in Nat
  BY <1>10 DEF Fights
<1>12. DOMAIN avatars' = DOMAIN avatars /\ avatars'[k] = f.me /\ avatars'[o] = f.opponents
       /\ \A j \in DOMAIN avatars : j \notin {k, o} => avatars'[j] = avatars[j]
  BY <1>2, <1>3, <1>4
<1>13. ASSUME NEW j \in DOMAIN avatars
       PROVE  /\ avatars'[j] \in Like(avatars[j])
              /\ avatars[j].mIsFinish => avatars'[j].mHp = avatars[j].mHp
              /\ \/ avatars[j].mIsFinish
                 \/ avatars'[j].mHp > 0
                 \/ pc' = "heal" /\ j \in {k', Opponent(k')}
  <2>1. CASE j \in {k, o}
    BY <1>1, <1>3, <1>4, <1>11, <1>12, <2>1 DEF a, d, o
  <2>2. CASE j \notin {k, o}
    <3>1. avatars[j] \in Like(avatars[j]) /\ (avatars[j].mIsFinish \/ avatars[j].mHp > 0)
      BY <1>0, <1>1 DEF AvatarInv, AliveInv, Like, Sound
    <3> QED BY <1>12, <2>2, <3>1
  <2> QED BY <2>1, <2>2
<1>14. tickets' \in [Client -> [TicketType -> Nat]]
  <2>1. tickets \in [Client -> [TicketType -> Nat]]
    BY <1>0 DEF Types
  <2>2. ASSUME f.ticket # 0, c \in Client
        PROVE  tickets' \in [Client -> [TicketType -> Nat]]
    <3> DEFINE t == [tickets[c] EXCEPT !["Normal"] = @ + f.ticket]
    <3>1. t \in [TicketType -> Nat]
      BY <1>11, <2>1, <2>2 DEF TicketType
    <3>2. tickets' = [tickets EXCEPT ![c] = t]
      BY <1>2, <2>2
    <3> HIDE DEF t
    <3> QED BY <2>1, <3>1, <3>2
  <2>3. ASSUME c \notin Client PROVE tickets' = tickets
    BY <1>2, <2>1, <2>3
  <2> QED BY <1>2, <2>1, <2>2, <2>3
<1>15. Types'
  BY <1>0, <1>1, <1>14 DEF Types
<1>16. avatarCount' = avatarCount /\ avatarCount \in Nat
  BY <1>0, <1>12 DEF avatarCount, Shape
<1>17. WhereInv'
  <2>1. ~avatars'[k].mIsFinish
    BY <1>3, <1>11, <1>12, Unchanging DEF a
  <2> HIDE DEF avatarCount
  <2> QED BY <1>0, <1>1, <1>3, <1>16, <2>1 DEF WhereInv, IsBattle
<1>18. ListInv'
  BY <1>0, <1>1 DEF ListInv
<1> HIDE DEF avatarCount
<1>19. StageInv'
  BY <1>1, <1>3, <1>12, <1>13, <1>15, <1>17, <1>18, Acted
<1>20. StaysDown
  <2> SUFFICES ASSUME NEW j \in DOMAIN avatars, avatars[j].mHp = 0 PROVE avatars'[j].mHp = 0
    BY DEF StaysDown
  <2>1. avatars[j].mIsFinish
    BY <1>0, <1>1 DEF AliveInv
  <2> QED BY <1>13, <2>1
<1> QED BY <1>19, <1>20
-----------------------------------------------------------------------------
(***************************************************************************)
(* The fights with who has left are cancelled; the two of a pair may       *)
(* change places.                                                          *)
(***************************************************************************)
LEMMA BattleCheckKeeps == StageInv /\ BattleCheck => StageInv'
<1> SUFFICES ASSUME StageInv, BattleCheck PROVE StageInv'
  OBVIOUS
<1>0. Types /\ Shape /\ WhereInv /\ AvatarInv /\ AliveInv /\ CountInv /\ BattleInv /\ CellsInv /\ ListInv
  BY TakeApart
<1> DEFINE even(i) == i - (i % 2)
           swapped(i) == avatars[even(i)].mFirstAttackState < avatars[even(i) + 1].mFirstAttackState
           cancelled(i) == \E j \in {i, Opponent(i)} : ~IsValidClientInThisRoom(avatars[j].mClient)
           from(i) == IF swapped(i) THEN Opponent(i) ELSE i
<1>1. /\ IsBattle /\ pc = "check" /\ pc' = "loop"
      /\ UNCHANGED <<stage, part, battleLoop, activeItemIndex, k, lastClientNetworkID,
                     mBattleOpponents, mCreepRound, cells, mSize, mStatus, mUsingItems,
                     disconnectNetworkIdList, mHp, tickets, hurt, rewarded>>
  BY DEF BattleCheck, At, roomVars, slotVars
<1>2. avatars' = [i \in DOMAIN avatars |-> [avatars[from(i)] EXCEPT !.mIsFinish = cancelled(i)]]
  BY DEF BattleCheck
<1>3. DOMAIN avatars' = DOMAIN avatars
  BY <1>2
<1>4. ASSUME NEW i \in DOMAIN avatars
      PROVE  /\ from(i) \in DOMAIN avatars /\ Opponent(i) \in DOMAIN avatars
             /\ cancelled(i) = cancelled(Opponent(i)) /\ cancelled(i) \in BOOLEAN
             /\ \A j \in DOMAIN avatars : from(i) = from(j) => i = j
  <2>1. ASSUME NEW j \in DOMAIN avatars
        PROVE  /\ Opponent(j) \in DOMAIN avatars /\ Opponent(Opponent(j)) = j
               /\ even(Opponent(j)) = even(j)
    BY <1>0, OpponentOf
  <2> HIDE DEF even
  <2>2. ASSUME NEW j \in DOMAIN avatars PROVE swapped(Opponent(j)) <=> swapped(j)
    BY <2>1
  <2> HIDE DEF swapped
  <2>3. cancelled(i) = cancelled(Opponent(i))
    BY <2>1
  <2>4. ASSUME NEW j \in DOMAIN avatars, from(i) = from(j) PROVE i = j
    BY <2>1, <2>2, <2>4
  <2> QED BY <2>1, <2>3, <2>4
<1> HIDE DEF from, cancelled
<1>5. \A i \in DOMAIN avatars :
          /\ avatars[i] \in Sound /\ avatars[i].mHp > 0 /\ ~avatars[i].mIsCharacterDamage
          /\ ~avatars[i].mIsFinish
  BY <1>0, <1>1 DEF AvatarInv, AliveInv
<1>6. ASSUME NEW i \in DOMAIN avatars
      PROVE  /\ avatars'[i] \in Sound /\ avatars'[i].mHp > 0 /\ ~avatars'[i].mIsCharacterDamage
             /\ avatars'[i].mIsFinish = cancelled(i)
             /\ avatars'[i].mClient = avatars[from(i)].mClient
             /\ avatars'[i].mIsGhost = avatars[from(i)].mIsGhost
  <2> DEFINE b == avatars[from(i)]
             f == cancelled(i)
  <2>1. b \in Sound /\ b.mHp > 0 /\ ~b.mIsCharacterDamage /\ f \in BOOLEAN
    BY <1>4, <1>5
  <2>2. avatars'[i] = [b EXCEPT !.mIsFinish = f]
    BY <1>2
  <2> HIDE DEF b, f
  <2>3. LET x == [b EXCEPT !.mIsFinish = f] IN
        /\ x \in Sound /\ x.mHp > 0 /\ ~x.mIsCharacterDamage
        /\ x.mIsFinish = f /\ x.mClient = b.mClient /\ x.mIsGhost = b.mIsGhost
    BY <2>1 DEF Sound, Avatar
  <2> QED BY <2>2, <2>3 DEF b, f
<1>7. part # "timeout" /\ disconnectNetworkIdList = {}
  BY <1>0, <1>1 DEF WhereInv, ListInv
<1>8. avatarCount' = avatarCount
  BY <1>3 DEF avatarCount
<1>9. Shape' /\ WhereInv'
  <2> HIDE DEF avatarCount
  <2> QED BY <1>0, <1>1, <1>3, <1>7, <1>8 DEF Shape, WhereInv, IsBattle
<1>10. AvatarInv' /\ AliveInv'
  BY <1>1, <1>3, <1>6 DEF AvatarInv, AliveInv, Sound
<1>11. PairEndsTogether'
  <2> SUFFICES ASSUME NEW i \in DOMAIN avatars
               PROVE  avatars'[i].mIsFinish = avatars'[Opponent(i)].mIsFinish
    BY <1>3 DEF PairEndsTogether, Opponent
  <2> QED BY <1>4, <1>6
<1>12. PayInv'
  BY <1>1, <1>3, <1>6, <1>7 DEF PayInv
<1>13. CountInv'
  <2> SUFFICES ASSUME NEW c \in Client
               PROVE  hurt'[c] <= Cardinality(Paid(c)') /\ rewarded'[c] <= Cardinality(Ended(c)')
    BY DEF CountInv
  <2>1. Paid(c) = {} /\ Ended(c) = {}
    BY <1>5 DEF Paid, Ended, Own
  <2>2. Cardinality({}) = 0
    BY FS_EmptySet
  <2>3. hurt[c] <= 0 /\ rewarded[c] <= 0
    BY <1>0, <2>1, <2>2 DEF CountInv
  <2>4. hurt[c] \in Nat /\ rewarded[c] \in Nat
    BY <1>0 DEF Types
  <2>5. Paid(c)' \in SUBSET DOMAIN avatars /\ Ended(c)' \in SUBSET DOMAIN avatars
    BY <1>3 DEF Paid, Ended, Own
  <2>6. Cardinality(Paid(c)') \in Nat /\ Cardinality(Ended(c)') \in Nat
    BY <1>0, <2>5, FinitelyMany
  <2> QED BY <1>1, <2>3, <2>4, <2>6
<1>14. RewardInv' /\ CreepInv'
  BY <1>1 DEF RewardInv, CreepInv, IsBattle
<1>15. BattleInv'
  <2> SUFFICES ASSUME NEW c \in Client, NEW i \in Own(c)', NEW j \in Own(c)'
               PROVE  i = j
    BY DEF BattleInv
  <2>1. i \in DOMAIN avatars /\ j \in DOMAIN avatars
    BY <1>3 DEF Own
  <2>2. from(i) \in Own(c) /\ from(j) \in Own(c)
    BY <1>4, <1>6, <2>1 DEF Own
  <2>3. from(i) = from(j)
    BY <1>0, <1>1, <2>2 DEF BattleInv
  <2> QED BY <1>4, <2>1, <2>3
<1>16. Types' /\ CellsInv' /\ ListInv'
  BY <1>0, <1>1, <1>7 DEF Types, CellsInv, ListInv
<1> QED BY <1>9, <1>10, <1>11, <1>12, <1>13, <1>14, <1>15, <1>16 DEF StageInv, FightInv, BookInv
-----------------------------------------------------------------------------
(***************************************************************************)
(* Steps that test a fight.                                                *)
(***************************************************************************)
LEMMA TestKeeps ==
    ASSUME StageInv, pc \in {"heal", "counter", "cycle"}, k \in DOMAIN avatars,
           NEW av, Fought(av), FinishIfDown(av, k),
           UNCHANGED <<stage, part, battleLoop, activeItemIndex, lastClientNetworkID,
                       mBattleOpponents, mCreepRound, cells, mSize, mStatus, mUsingItems>>,
           \/ pc' = "counter" /\ k' = k
           \/ /\ k' = NextFrom(avatars, k + 2)
              /\ pc' \in {"use", "cycle", "kick"} /\ (k' = avatarCount <=> pc' = "kick"),
           pc = "heal" => \A j \in DOMAIN avatars : avatars[j].mHp = 0 => av[j].mHp = 0
    PROVE  StageInv' /\ StaysDown
<1>0. /\ Types /\ Shape /\ WhereInv /\ CellsInv /\ ListInv
  BY TakeApart
<1>1. /\ mHp' \in [Client -> 0..MAX_CHARACTER_MAX_HP]
      /\ disconnectNetworkIdList' \subseteq Client
      /\ disconnectNetworkIdList \subseteq disconnectNetworkIdList'
      /\ \A c \in Client : mStatus[c] = "playing" /\ mHp'[c] = 0 =>
                              mHp[c] = 0 \/ c \in disconnectNetworkIdList'
      /\ DOMAIN avatars' = DOMAIN avatars
      /\ \A j \in DOMAIN avatars :
            /\ avatars'[j] \in Sound /\ avatars'[j].mHp = av[j].mHp
            /\ avatars'[j].mIsFinish <=>
                  avatars[j].mIsFinish \/ (j \in {k, Opponent(k)} /\ Falls(av))
  BY Tested
<1>2. UNCHANGED roomVars
  BY DEF roomVars
<1>3. /\ \A j \in DOMAIN avatars : avatars'[j].mIsFinish \/ avatars'[j].mHp > 0
      /\ PairEndsTogether'
      /\ \A j \in DOMAIN avatars :
            ~avatars'[j].mIsGhost /\ IsValidClientInThisRoom(avatars'[j].mClient) =>
               (avatars'[j].mIsCharacterDamage <=> avatars'[j].mIsFinish /\ avatars'[j].mHp = 0)
      /\ CountInv' /\ RewardInv' /\ CreepInv' /\ BattleInv'
      /\ tickets' \in [Client -> [TicketType -> Nat]]
      /\ hurt' \in [Client -> Nat] /\ rewarded' \in [Client -> Nat]
  BY <1>2, Finishing
<1>4. StaysDown
  <2> SUFFICES ASSUME NEW j \in DOMAIN avatars, avatars[j].mHp = 0, pc # "heal"
               PROVE  av[j].mHp = 0
    BY <1>1 DEF StaysDown
  <2>1. avatars[j].mIsFinish
    BY TakeApart DEF AliveInv
  <2>2. j \in {k, Opponent(k)} => avatars[k].mIsFinish
    BY <2>1, TakeApart DEF PairEndsTogether
  <2> QED BY <2>2 DEF Fought
<1>5. /\ part # "timeout" /\ k \in Nat /\ k < avatarCount /\ avatarCount \in Nat
      /\ battleLoop < BATTLE_LOOP
  <2>1. avatarCount \in Nat /\ \A j \in DOMAIN avatars : j \in Nat /\ j < avatarCount
    BY <1>0, OpponentOf DEF Shape
  <2> QED BY <1>0, <2>1 DEF WhereInv
<1>6. avatarCount' = avatarCount
  BY <1>1 DEF avatarCount
<1> HIDE DEF avatarCount
<1>7. Shape'
  BY <1>0, <1>1, <1>6 DEF Shape
<1>8. WhereInv'
  <2>1. CASE pc' = "counter" /\ k' = k
    BY <1>0, <1>5, <1>6, <2>1 DEF WhereInv, IsBattle
  <2>2. CASE /\ k' = NextFrom(avatars, k + 2)
             /\ pc' \in {"use", "cycle", "kick"} /\ (k' = avatarCount <=> pc' = "kick")
    <3> DEFINE n == NextFrom(avatars, k + 2)
               s == k + 2
    <3>1. s \in Nat
      BY <1>5
    <3>2. /\ n \in 0..avatarCount
          /\ n < avatarCount => n \in DOMAIN avatars /\ n >= s /\ ~avatars[n].mIsFinish
      <4> HIDE DEF s
      <4>1. /\ NextFrom(avatars, s) \in 0..avatarCount
            /\ NextFrom(avatars, s) < avatarCount =>
                  NextFrom(avatars, s) \in DOMAIN avatars /\ NextFrom(avatars, s) >= s
                  /\ ~avatars[NextFrom(avatars, s)].mIsFinish
        BY <1>0, <3>1, NextAvatar
      <4> QED BY <4>1 DEF s
    <3>3. Opponent(k) \in {k + 1, k - 1}
      BY DEF Opponent
    <3>4. k' = n
      BY <2>2
    <3> HIDE DEF n
    <3>5. n < avatarCount => ~avatars'[n].mIsFinish
      <4>1. n < avatarCount => n \notin {k, Opponent(k)}
        BY <1>5, <3>2, <3>3
      <4> QED BY <1>1, <3>2, <4>1
    <3> QED BY <1>0, <1>5, <1>6, <2>2, <3>2, <3>4, <3>5 DEF WhereInv, IsBattle
  <2> QED BY <2>1, <2>2
<1>9. AvatarInv' /\ AliveInv'
  BY <1>1, <1>3 DEF AvatarInv, AliveInv, Sound
<1>10. PayInv'
  <2>1. ASSUME NEW j \in DOMAIN avatars PROVE avatars'[j].mIsFinish \in BOOLEAN
    BY <1>1 DEF Sound, Avatar
  <2> QED BY <1>1, <1>3, <1>5, <2>1 DEF PayInv, IsValidClientInThisRoom
<1>11. Types'
  BY <1>0, <1>1, <1>3 DEF Types
<1>12. CellsInv' /\ ListInv'
  BY <1>0, <1>1 DEF CellsInv, ListInv
<1> QED BY <1>3, <1>4, <1>7, <1>8, <1>9, <1>10, <1>11, <1>12 DEF StageInv, FightInv, BookInv

\* What is alike, for the one at k and its opponent.
LEMMA AtK ==
    ASSUME StageInv, pc \in {"heal", "counter", "cycle", "timeout"}
    PROVE  /\ k \in DOMAIN avatars /\ Opponent(k) \in DOMAIN avatars /\ Opponent(k) # k
           /\ \A j \in DOMAIN avatars : avatars[j] \in Like(avatars[j])
           /\ avatars[k].mIsFinish = avatars[Opponent(k)].mIsFinish
           /\ pc \in {"heal", "cycle"} => ~avatars[k].mIsFinish
<1>0. Shape /\ WhereInv /\ AvatarInv /\ PairEndsTogether
  BY TakeApart
<1>1. k \in DOMAIN avatars
  BY <1>0 DEF Shape, WhereInv
<1>2. Opponent(k) \in DOMAIN avatars /\ Opponent(k) # k
  BY <1>0, <1>1, OpponentOf
<1>3. \A j \in DOMAIN avatars : avatars[j] \in Like(avatars[j])
  BY <1>0 DEF AvatarInv, Like, Sound
<1> QED BY <1>0, <1>1, <1>2, <1>3 DEF PairEndsTogether, WhereInv

LEMMA EffectHealKeeps == StageInv /\ EffectHeal => StageInv' /\ StaysDown
<1> SUFFICES ASSUME StageInv, EffectHeal PROVE StageInv' /\ StaysDown
  OBVIOUS
<1> DEFINE me == avatars[k]
           healed == IF me.mEffectHeal > 0 /\ me.mHp > 0 THEN ToHeal(me.mEffectHeal, me) ELSE me
           av == [avatars EXCEPT ![k] = healed]
<1>1. /\ pc = "heal" /\ pc' = "counter" /\ k' = k /\ FinishIfDown(av, k)
      /\ UNCHANGED <<stage, part, battleLoop, activeItemIndex, lastClientNetworkID,
                     mBattleOpponents, mCreepRound, cells, mSize, mStatus, mUsingItems>>
  BY DEF EffectHeal, At, roomVars, slotVars
<1>2. /\ k \in DOMAIN avatars /\ ~avatars[k].mIsFinish
      /\ \A j \in DOMAIN avatars : avatars[j] \in Like(avatars[j])
  BY <1>1, AtK
<1>3. healed \in Like(me)
  <2> DEFINE h == me.mEffectHeal
  <2>1. me \in Like(me) /\ h \in Int
    BY <1>2, Fields
  <2> HIDE DEF me, h
  <2>2. ToHeal(h, me) \in Like(me)
    BY <2>1, Healed
  <2> QED BY <2>1, <2>2 DEF h
<1>4. me.mHp = 0 => healed = me
  OBVIOUS
<1> HIDE DEF healed
<1>5. Fought(av)
  BY <1>2, <1>3 DEF Fought
<1>6. \A j \in DOMAIN avatars : avatars[j].mHp = 0 => av[j].mHp = 0
  BY <1>2, <1>4
<1> HIDE DEF av
<1> QED BY <1>1, <1>2, <1>5, <1>6, TestKeeps

LEMMA CounterKeeps ==
    ASSUME StageInv, NEW av, Counter(av), pc = "counter" => Fought(av)
    PROVE  StageInv' /\ StaysDown
<1> DEFINE fair == av[k].mIsFinish \/ av[Opponent(k)].mIsFinish
           bled == IF fair THEN av ELSE [av EXCEPT ![k] = EffectBleeding(@)]
           next == NextFrom(av, k + 2)
<1>1. /\ pc = "counter" /\ pc' = (IF next = avatarCount THEN "kick" ELSE "use")
      /\ k' = next /\ FinishIfDown(bled, k)
      /\ UNCHANGED <<stage, part, battleLoop, activeItemIndex, lastClientNetworkID,
                     mBattleOpponents, mCreepRound, cells, mSize, mStatus, mUsingItems>>
  BY DEF Counter, At, roomVars, slotVars
<1>2. k \in DOMAIN avatars /\ Fought(av)
  BY <1>1, AtK
<1>3. av[k] \in Like(avatars[k]) /\ av[k].mIsFinish = avatars[k].mIsFinish
  BY <1>2, Unchanging DEF Fought
<1>4. EffectBleeding(av[k]) \in Like(avatars[k])
  <2> DEFINE b == av[k]
             n == b.mBleeding
  <2>1. b \in Like(avatars[k]) /\ n \in Nat
    BY <1>3, Fields
  <2> HIDE DEF b, n
  <2>2. ToJustDamage(n, b) \in Like(avatars[k])
    BY <2>1, JustDamage
  <2> QED BY <2>2 DEF EffectBleeding, b, n
<1>5. Fought(bled)
  <2>1. CASE fair
    BY <1>2, <2>1
  <2>2. CASE ~fair
    <3> DEFINE x == EffectBleeding(av[k])
    <3>1. bled = [av EXCEPT ![k] = x]
      BY <2>2
    <3> HIDE DEF x, bled
    <3>2. x \in Like(avatars[k])
      BY <1>4 DEF x
    <3> QED BY <1>2, <1>3, <2>2, <3>1, <3>2 DEF Fought
  <2> QED BY <2>1, <2>2
<1> HIDE DEF bled
<1>6. next = NextFrom(avatars, k + 2)
  <2> DEFINE s == k + 2
             rest(v) == {j \in DOMAIN v : j >= s /\ j % 2 = s % 2 /\ ~v[j].mIsFinish}
  <2>1. DOMAIN av = DOMAIN avatars /\ \A j \in DOMAIN avatars : av[j].mIsFinish = avatars[j].mIsFinish
    BY <1>2, Unchanging DEF Fought
  <2>2. rest(av) = rest(avatars)
    BY <2>1
  <2> HIDE DEF s
  <2>3. ASSUME NEW v
        PROVE  NextFrom(v, s) = IF rest(v) = {} THEN Cardinality(DOMAIN v)
                                ELSE CHOOSE j \in rest(v) : \A l \in rest(v) : j <= l
    BY DEF NextFrom
  <2> HIDE DEF rest
  <2>4. NextFrom(av, s) = NextFrom(avatars, s)
    BY <2>1, <2>2, <2>3
  <2> QED BY <2>4 DEF s
<1>7. k' = NextFrom(avatars, k + 2) /\ pc' \in {"use", "cycle", "kick"}
      /\ (k' = avatarCount <=> pc' = "kick")
  BY <1>1, <1>6
<1> HIDE DEF next
<1> HIDE DEF avatarCount
<1> QED BY <1>1, <1>2, <1>5, <1>7, TestKeeps

\* What a counter attack makes of the avatars, and what no counter attack does.
LEMMA CountersFight ==
    ASSUME StageInv, pc = "counter"
    PROVE  Fought(avatars) /\ Fought(Countered)
<1> DEFINE o == Opponent(k)
           b == avatars[k]
           e == avatars[o]
           f == EffectCounter([me |-> b, opponents |-> e])
           hit == [avatars EXCEPT ![k] = f.me, ![o] = f.opponents]
<1>1. /\ k \in DOMAIN avatars /\ o \in DOMAIN avatars /\ o # k
      /\ \A j \in DOMAIN avatars : avatars[j] \in Like(avatars[j])
      /\ b.mIsFinish = e.mIsFinish
  BY AtK
<1>2. Fought(avatars)
  BY <1>1 DEF Fought
<1>3. Countered = IF WasAttack THEN hit ELSE avatars
  BY DEF Countered
<1>4. Fought(hit)
  <2>1. b \in Like(b) /\ e \in Like(e)
    BY <1>1
  <2> HIDE DEF b, e
  <2>2. f.me \in Like(b) /\ f.opponents \in Like(e) /\ (e.mIsFinish => f.me = b /\ f.opponents = e)
    BY <2>1, Counters
  <2> HIDE DEF f
  <2>3. /\ DOMAIN hit = DOMAIN avatars /\ hit[k] = f.me /\ hit[o] = f.opponents
        /\ \A j \in DOMAIN avatars : j \notin {k, o} => hit[j] = avatars[j]
    BY <1>1
  <2> HIDE DEF hit
  <2>4. \A j \in DOMAIN avatars : hit[j] \in Like(avatars[j])
    BY <1>1, <2>2, <2>3 DEF b, e
  <2>5. b.mIsFinish => \A j \in DOMAIN avatars : hit[j] = avatars[j]
    BY <1>1, <2>2, <2>3 DEF b, e
  <2> QED BY <2>3, <2>4, <2>5 DEF Fought, b
<1> HIDE DEF hit
<1> QED BY <1>2, <1>3, <1>4

LEMMA CountersKeep == StageInv /\ (BattleCounter \/ CreepCounter) => StageInv' /\ StaysDown
<1> SUFFICES ASSUME StageInv, BattleCounter \/ CreepCounter PROVE StageInv' /\ StaysDown
  OBVIOUS
<1>1. CASE BattleCounter
  <2>1. Counter(Countered)
    BY <1>1 DEF BattleCounter
  <2> QED BY <2>1, CountersFight, CounterKeeps
<1>2. CASE CreepCounter
  <2> DEFINE av == IF k % 2 = 1 THEN Countered ELSE avatars
  <2>1. Counter(av)
    BY <1>2 DEF CreepCounter
  <2>2. pc = "counter" => Fought(av)
    BY CountersFight
  <2> HIDE DEF av
  <2> QED BY <2>1, <2>2, CounterKeeps
<1> QED BY <1>1, <1>2

LEMMA CycleKeeps == StageInv /\ Cycle => StageInv' /\ StaysDown
<1> SUFFICES ASSUME StageInv, Cycle PROVE StageInv' /\ StaysDown
  OBVIOUS
<1> DEFINE over(a) == InitCycle(EffectBomb(a))
           o == Opponent(k)
           x == over(avatars[k])
           y == over(avatars[o])
           av == [avatars EXCEPT ![k] = x, ![o] = y]
           next == NextFrom(avatars, k + 2)
<1>1. /\ pc = "cycle" /\ pc' = (IF next = avatarCount THEN "kick" ELSE "cycle")
      /\ FinishIfDown([avatars EXCEPT ![k] = over(@), ![o] = over(@)], k)
      /\ k' = next
      /\ UNCHANGED <<stage, part, battleLoop, activeItemIndex, lastClientNetworkID,
                     mBattleOpponents, mCreepRound, cells, mSize, mStatus, mUsingItems>>
  BY DEF Cycle, At, roomVars, slotVars
<1>2. /\ k \in DOMAIN avatars /\ o \in DOMAIN avatars /\ o # k /\ ~avatars[k].mIsFinish
      /\ \A j \in DOMAIN avatars : avatars[j] \in Like(avatars[j])
  BY <1>1, AtK
<1>3. \A j \in DOMAIN avatars : over(avatars[j]) \in Like(avatars[j])
  <2> SUFFICES ASSUME NEW j \in DOMAIN avatars PROVE over(avatars[j]) \in Like(avatars[j])
    OBVIOUS
  <2> DEFINE a == avatars[j]
             b == EffectBomb(a)
  <2>1. a \in Like(a)
    BY <1>2
  <2> HIDE DEF a
  <2>2. b \in Like(a)
    BY <2>1, Bombs
  <2> HIDE DEF b
  <2>3. InitCycle(b) \in Like(a)
    BY <2>2, CycleOver
  <2> QED BY <2>3 DEF a, b
<1>4. x \in Like(avatars[k]) /\ y \in Like(avatars[o])
  BY <1>2, <1>3
<1>5. [avatars EXCEPT ![k] = over(@), ![o] = over(@)] = av
  BY <1>2
<1>6. FinishIfDown(av, k)
  BY <1>1, <1>5
<1> HIDE DEF x, y
<1>7. Fought(av)
  BY <1>2, <1>4 DEF Fought
<1> HIDE DEF av, next
<1>8. k' = NextFrom(avatars, k + 2) /\ pc' \in {"use", "cycle", "kick"}
      /\ (k' = avatarCount <=> pc' = "kick")
  BY <1>1 DEF next
<1> HIDE DEF avatarCount
<1> QED BY <1>1, <1>2, <1>6, <1>7, <1>8, TestKeeps
-----------------------------------------------------------------------------
(***************************************************************************)
(* Time is up: those that still fight pay, one pair after the other.       *)
(***************************************************************************)
\* What that leaves.
AllHavePaid(P) ==
    /\ mHp' \in [Client -> 0..MAX_CHARACTER_MAX_HP]
    /\ disconnectNetworkIdList' \subseteq Client
    /\ disconnectNetworkIdList \subseteq disconnectNetworkIdList'
    /\ \A c \in Client : mStatus[c] = "playing" /\ mHp'[c] = 0 =>
                            mHp[c] = 0 \/ c \in disconnectNetworkIdList'
    /\ hurt' = [c \in Client |-> hurt[c] + Cardinality(
                    {i \in P : ToDamageCharacter(avatars, i, TRUE) /\ avatars[i].mClient = c})]
    /\ DOMAIN avatars' = DOMAIN avatars
    /\ \A i \in DOMAIN avatars :
          /\ avatars'[i] \in Sound /\ avatars'[i].mClient = avatars[i].mClient
          /\ avatars'[i].mIsGhost = avatars[i].mIsGhost /\ avatars'[i].mHp = avatars[i].mHp
          /\ avatars'[i].mIsFinish <=> avatars[i].mIsFinish \/ (i \in P /\ FALSE)
          /\ avatars'[i].mIsCharacterDamage <=> avatars[i].mIsCharacterDamage \/
                (i \in P /\ ToDamageCharacter(avatars, i, TRUE))

LEMMA AllPay ==
    ASSUME Types, NEW P, P \in SUBSET DOMAIN avatars, \A i \in DOMAIN avatars : avatars[i] \in Sound,
           NEW damage, damage \in [P -> Nat], Settle(avatars, P, TRUE, damage, FALSE)
    PROVE  AllHavePaid(P)
<1>0. PICK av : av = avatars
  OBVIOUS
<1>1. Settle(av, P, TRUE, damage, FALSE) /\ P \in SUBSET DOMAIN av /\ \A i \in DOMAIN av : av[i] \in Sound
  BY <1>0
<1>2. /\ mHp' \in [Client -> 0..MAX_CHARACTER_MAX_HP]
      /\ disconnectNetworkIdList' \subseteq Client
      /\ disconnectNetworkIdList \subseteq disconnectNetworkIdList'
      /\ \A c \in Client : mStatus[c] = "playing" /\ mHp'[c] = 0 =>
                              mHp[c] = 0 \/ c \in disconnectNetworkIdList'
      /\ hurt' = [c \in Client |-> hurt[c] + Cardinality(
                      {i \in P : ToDamageCharacter(av, i, TRUE) /\ av[i].mClient = c})]
      /\ DOMAIN avatars' = DOMAIN av
      /\ \A i \in DOMAIN av :
            /\ avatars'[i] \in Sound /\ avatars'[i].mClient = av[i].mClient
            /\ avatars'[i].mIsGhost = av[i].mIsGhost /\ avatars'[i].mHp = av[i].mHp
            /\ avatars'[i].mIsFinish <=> av[i].mIsFinish \/ (i \in P /\ FALSE)
            /\ avatars'[i].mIsCharacterDamage <=> av[i].mIsCharacterDamage \/
                  (i \in P /\ ToDamageCharacter(av, i, TRUE))
  BY <1>1, Settled
<1> QED BY <1>0, <1>2 DEF AllHavePaid

LEMMA TimeoutKeeps ==
    ASSUME StageInv, NEW P, Timeout(P), P = IF IsBattle THEN {k, Opponent(k)} ELSE {k}
    PROVE  StageInv' /\ StaysDown
<1> DEFINE damage == [i \in P |-> 10 + 2 * Round]
           s == k + 2
           next == NextFrom(avatars, s)
           pays(j) == j \in P /\ ToDamageCharacter(avatars, j, TRUE)
<1>0. /\ Types /\ Shape /\ WhereInv /\ AvatarInv /\ AliveInv /\ PairEndsTogether /\ PayInv
      /\ CountInv /\ RewardInv /\ CreepInv /\ BattleInv /\ CellsInv /\ ListInv
  BY TakeApart
<1>1. /\ pc = "timeout" /\ pc' = (IF next = avatarCount THEN "kick" ELSE "timeout")
      /\ Settle(avatars, P, TRUE, damage, FALSE) /\ k' = next
      /\ UNCHANGED <<stage, part, battleLoop, activeItemIndex, lastClientNetworkID,
                     mBattleOpponents, mCreepRound, cells, mSize, mStatus, mUsingItems,
                     tickets, rewarded>>
  BY DEF Timeout, At, roomVars, slotVars
<1>2. /\ k \in DOMAIN avatars /\ Opponent(k) \in DOMAIN avatars /\ ~avatars[k].mIsFinish
      /\ avatars[k].mIsFinish = avatars[Opponent(k)].mIsFinish
      /\ part = "timeout" /\ k % 2 = 0 /\ k \in Nat /\ k < avatarCount
      /\ Opponent(k) = k + 1 /\ avatarCount \in Nat
  <2>1. k \in DOMAIN avatars /\ part = "timeout" /\ k % 2 = 0 /\ ~avatars[k].mIsFinish
        /\ avatarCount \in Nat
    BY <1>0, <1>1 DEF Shape, WhereInv
  <2>2. k \in Nat /\ k < avatarCount /\ Opponent(k) \in DOMAIN avatars /\ Opponent(k) = k + 1
    BY <1>0, <2>1, OpponentOf
  <2> HIDE DEF avatarCount
  <2> QED BY <1>0, <2>1, <2>2 DEF PairEndsTogether
<1>3. P \in SUBSET DOMAIN avatars /\ P \subseteq {k, k + 1} /\ k \in P
  BY <1>2
<1>4. ASSUME NEW j \in DOMAIN avatars
      PROVE  /\ avatars[j] \in Sound /\ avatars[j].mClient \in Client \cup {NoClient}
             /\ avatars[j].mIsFinish \in BOOLEAN /\ avatars[j].mIsCharacterDamage \in BOOLEAN
             /\ avatars[j].mIsFinish \/ avatars[j].mHp > 0
  BY <1>0, <1>1 DEF AvatarInv, AliveInv, Avatar
<1>5. damage \in [P -> Nat]
  BY StageAssumption
<1> HIDE DEF damage
<1>6. /\ mHp' \in [Client -> 0..MAX_CHARACTER_MAX_HP]
      /\ disconnectNetworkIdList' \subseteq Client
      /\ disconnectNetworkIdList \subseteq disconnectNetworkIdList'
      /\ \A c \in Client : mStatus[c] = "playing" /\ mHp'[c] = 0 =>
                              mHp[c] = 0 \/ c \in disconnectNetworkIdList'
      /\ hurt' = [c \in Client |-> hurt[c] + Cardinality(
                      {i \in P : ToDamageCharacter(avatars, i, TRUE) /\ avatars[i].mClient = c})]
      /\ DOMAIN avatars' = DOMAIN avatars
      /\ \A i \in DOMAIN avatars :
            /\ avatars'[i] \in Sound /\ avatars'[i].mClient = avatars[i].mClient
            /\ avatars'[i].mIsGhost = avatars[i].mIsGhost /\ avatars'[i].mHp = avatars[i].mHp
            /\ avatars'[i].mIsFinish <=> avatars[i].mIsFinish \/ (i \in P /\ FALSE)
            /\ avatars'[i].mIsCharacterDamage <=> avatars[i].mIsCharacterDamage \/
                  (i \in P /\ ToDamageCharacter(avatars, i, TRUE))
  <2>1. \A i \in DOMAIN avatars : avatars[i] \in Sound
    BY <1>4
  <2>2. AllHavePaid(P)
    BY <1>0, <1>1, <1>3, <1>5, <2>1, AllPay
  <2> QED BY <2>2 DEF AllHavePaid
<1>7. ASSUME NEW j \in DOMAIN avatars
      PROVE  /\ avatars'[j] \in Sound /\ avatars'[j].mClient = avatars[j].mClient
             /\ avatars'[j].mIsGhost = avatars[j].mIsGhost /\ avatars'[j].mHp = avatars[j].mHp
             /\ avatars'[j].mIsFinish = avatars[j].mIsFinish
             /\ avatars'[j].mIsCharacterDamage \in BOOLEAN
             /\ avatars'[j].mIsCharacterDamage <=> avatars[j].mIsCharacterDamage \/ pays(j)
  <2>1. avatars'[j].mIsFinish \in BOOLEAN /\ avatars'[j].mIsCharacterDamage \in BOOLEAN
    BY <1>6 DEF Sound, Avatar
  <2> QED BY <1>4, <1>6, <2>1
<1>8. /\ next \in 0..avatarCount /\ (next < avatarCount => next >= s)
      /\ next < avatarCount => next \in DOMAIN avatars /\ next % 2 = 0 /\ ~avatars[next].mIsFinish
      /\ \A l \in DOMAIN avatars : l >= s /\ l < next /\ l % 2 = 0 => avatars[l].mIsFinish
  <2>1. s \in Nat /\ s % 2 = 0
    BY <1>2
  <2> HIDE DEF s
  <2> QED BY <1>0, <2>1, NextAvatar
<1>9. avatarCount' = avatarCount /\ IsBattle' = IsBattle
  BY <1>1, <1>6 DEF avatarCount, IsBattle
<1> HIDE DEF next
<1>10. Shape'
  BY <1>0, <1>1, <1>6, <1>9 DEF Shape
<1>11. WhereInv'
  <2> HIDE DEF avatarCount
  <2>1. next < avatarCount => ~avatars'[next].mIsFinish
    BY <1>7, <1>8
  <2>2. next < avatarCount <=> next # avatarCount
    BY <1>2, <1>8
  <2> QED BY <1>0, <1>1, <1>2, <1>8, <1>9, <2>1, <2>2 DEF WhereInv
<1>12. AvatarInv' /\ AliveInv'
  BY <1>1, <1>4, <1>6, <1>7 DEF AvatarInv, AliveInv, Sound
<1>13. PairEndsTogether'
  <2> SUFFICES ASSUME NEW j \in DOMAIN avatars
               PROVE  avatars'[j].mIsFinish = avatars'[Opponent(j)].mIsFinish
    BY <1>6 DEF PairEndsTogether, Opponent
  <2>1. Opponent(j) \in DOMAIN avatars /\ avatars[j].mIsFinish = avatars[Opponent(j)].mIsFinish
    BY <1>0, OpponentOf DEF PairEndsTogether
  <2> QED BY <1>7, <2>1
<1>14. PayInv'
  <2> SUFFICES ASSUME NEW j \in DOMAIN avatars, ~avatars'[j].mIsGhost,
                      avatars'[j].mClient # NoClient, mStatus'[avatars'[j].mClient] = "playing"
               PROVE  avatars'[j].mIsCharacterDamage <=>
                         IF avatars'[j].mIsFinish THEN avatars'[j].mHp = 0
                         ELSE part' = "timeout" /\ j - (j % 2) < k'
    BY <1>6 DEF PayInv, IsValidClientInThisRoom
  <2> DEFINE l == j - (j % 2)
  <2>1. ~avatars[j].mIsGhost /\ IsValidClientInThisRoom(avatars[j].mClient)
    BY <1>1, <1>7 DEF IsValidClientInThisRoom
  <2>2. avatars[j].mIsCharacterDamage <=>
            IF avatars[j].mIsFinish THEN avatars[j].mHp = 0 ELSE l < k
    BY <1>0, <1>2, <2>1 DEF PayInv
  <2>3. pays(j) <=> j \in P /\ ~avatars[j].mIsCharacterDamage
    BY <2>1 DEF ToDamageCharacter
  <2>4. /\ j \in Nat /\ l \in DOMAIN avatars /\ l % 2 = 0 /\ l \in {j, Opponent(j)} /\ l \in Nat
        /\ (l = j \/ (l = j - 1 /\ j % 2 = 1)) /\ l < avatarCount
    BY <1>0, OpponentOf
  <2>5. avatars[l].mIsFinish = avatars[j].mIsFinish
    BY <1>0, <2>4 DEF PairEndsTogether
  <2>6. l < avatarCount
    BY <1>0, <2>4, OpponentOf
  <2> HIDE DEF l, pays, avatarCount
  <2>7. CASE avatars[j].mIsFinish
    <3>1. l # k
      BY <1>2, <2>5, <2>7
    <3>2. j \notin P
      <4>1. j # k /\ j # k + 1
        BY <1>2, <2>7
      <4> QED BY <1>3, <4>1
    <3> QED BY <1>7, <2>2, <2>3, <2>7, <3>2
  <2>8. CASE ~avatars[j].mIsFinish /\ l = k
    <3>1. j \in P
      <4>1. CASE IsBattle
        BY <1>2, <2>4, <2>8, <4>1
      <4>2. CASE ~IsBattle
        <5>1. j % 2 # 1
          BY <1>0, <2>1, <4>2 DEF CreepInv, IsValidClientInThisRoom
        <5> QED BY <1>3, <2>4, <2>8, <5>1
      <4> QED BY <4>1, <4>2
    <3>2. k < k'
      BY <1>1, <1>2, <1>8
    <3> QED BY <1>1, <1>2, <1>7, <2>2, <2>3, <2>8, <3>1, <3>2 DEF l
  <2>9. CASE ~avatars[j].mIsFinish /\ l # k
    <3>1. j \notin P
      BY <1>2, <1>3, <2>4, <2>9
    <3>2. l < k <=> l < k'
      <4>1. ~(l >= s /\ l < next)
        BY <1>8, <2>4, <2>5, <2>9
      <4>2. l < k \/ l >= s
        BY <1>2, <2>4, <2>9
      <4>3. k < k'
        BY <1>1, <1>2, <1>8
      <4> QED BY <1>1, <1>2, <1>8, <2>4, <2>6, <4>1, <4>2, <4>3
    <3> QED BY <1>1, <1>2, <1>7, <2>2, <2>3, <2>9, <3>1, <3>2 DEF l
  <2> QED BY <2>7, <2>8, <2>9
<1>15. ASSUME NEW c \in Client
       PROVE  /\ Own(c)' = Own(c) /\ Ended(c)' = Ended(c)
              /\ Paid(c)' = Paid(c) \cup {j \in Own(c) : pays(j)}
  <2>1. Own(c)' = Own(c)
    BY <1>6, <1>7 DEF Own
  <2>2. \A j \in Own(c) :
            /\ avatars'[j].mIsFinish = avatars[j].mIsFinish
            /\ avatars'[j].mIsCharacterDamage <=> avatars[j].mIsCharacterDamage \/ pays(j)
    BY <1>7 DEF Own
  <2> HIDE DEF pays
  <2> QED BY <2>1, <2>2 DEF Paid, Ended
<1>16. ASSUME NEW c \in Client
       PROVE  hurt'[c] \in Nat /\ hurt'[c] <= Cardinality(Paid(c)')
  <2> DEFINE T == {j \in Own(c) : pays(j)}
             U == {j \in P : ToDamageCharacter(avatars, j, TRUE) /\ avatars[j].mClient = c}
  <2>1. T = U
    BY <1>3 DEF Own, ToDamageCharacter
  <2>2. T \cap Paid(c) = {}
    BY DEF Paid, Own, ToDamageCharacter
  <2>3. T \in SUBSET DOMAIN avatars /\ Paid(c) \in SUBSET DOMAIN avatars
    BY DEF Paid, Own
  <2>4. hurt'[c] = hurt[c] + Cardinality(U)
    BY <1>6
  <2>5. Paid(c)' = Paid(c) \cup T
    BY <1>15
  <2>6. hurt'[c] = hurt[c] + Cardinality(T)
    BY <2>1, <2>4
  <2> HIDE DEF T
  <2>7. IsFiniteSet(T) /\ IsFiniteSet(Paid(c)) /\ Cardinality(T) \in Nat /\ Cardinality(Paid(c)) \in Nat
    BY <1>0, <2>3, FinitelyMany
  <2>8. Cardinality(Paid(c) \cup T) = Cardinality(Paid(c)) + Cardinality(T)
    BY <2>2, <2>7, Grows
  <2>9. hurt[c] \in Nat /\ hurt[c] <= Cardinality(Paid(c))
    BY <1>0 DEF Types, CountInv
  <2> QED BY <2>5, <2>6, <2>7, <2>8, <2>9
<1> HIDE DEF avatarCount, pays
<1>17. CountInv'
  BY <1>0, <1>1, <1>15, <1>16 DEF CountInv
<1>18. RewardInv'
  <2> SUFFICES ASSUME ~IsBattle, NEW c \in Client, mStatus[c] = "playing"
               PROVE  rewarded[c] > 0 <=> \E j \in Ended(c) : avatars'[j + 1].mHp = 0
    BY <1>1, <1>9, <1>15 DEF RewardInv
  <2>1. rewarded[c] > 0 <=> \E j \in Ended(c) : avatars[j + 1].mHp = 0
    BY <1>0 DEF RewardInv
  <2>2. ASSUME NEW j \in Ended(c) PROVE avatars'[j + 1].mHp = avatars[j + 1].mHp
    <3>1. j \in DOMAIN avatars /\ avatars[j].mClient = c /\ c # NoClient
      BY AvatarAssumption DEF Ended, Own
    <3>2. j % 2 = 0
      BY <1>0, <3>1, OpponentOf DEF CreepInv
    <3>3. j + 1 \in DOMAIN avatars
      BY <1>0, <3>1, <3>2, OpponentOf
    <3> QED BY <1>7, <3>3
  <2> QED BY <2>1, <2>2
<1>19. CreepInv'
  BY <1>0, <1>1, <1>6, <1>7, <1>9 DEF CreepInv
<1>20. BattleInv'
  BY <1>0, <1>9, <1>15 DEF BattleInv
<1>21. Types'
  <2>1. hurt' \in [Client -> Nat]
    BY <1>6, <1>16
  <2> QED BY <1>0, <1>1, <1>6, <2>1 DEF Types
<1>22. CellsInv' /\ ListInv'
  BY <1>0, <1>1, <1>6 DEF CellsInv, ListInv
<1>23. StaysDown
  BY <1>7 DEF StaysDown
<1> QED BY <1>10, <1>11, <1>12, <1>13, <1>14, <1>17, <1>18, <1>19, <1>20, <1>21, <1>22, <1>23
        DEF StageInv, FightInv, BookInv

LEMMA TimeoutsKeep == StageInv /\ (BattleTimeout \/ CreepTimeout) => StageInv' /\ StaysDown
  BY TimeoutKeeps DEF BattleTimeout, CreepTimeout
-----------------------------------------------------------------------------
(***************************************************************************)
(* Every step keeps the invariant, and whoever is down is left down.       *)
(***************************************************************************)
LEMMA Stepping == StageInv /\ [Next]_vars => StageInv' /\ [StaysDown]_vars
<1> SUFFICES ASSUME StageInv, [Next]_vars PROVE StageInv' /\ [StaysDown]_vars
  OBVIOUS
<1>1. CASE UNCHANGED vars
  BY <1>1, StutterKeeps
<1>2. ASSUME UNCHANGED avatars PROVE StaysDown
  BY <1>2 DEF StaysDown
<1>3. ASSUME NEW c \in Client, Leave(c) PROVE StageInv' /\ StaysDown
  <2>1. UNCHANGED avatars
    BY <1>3 DEF Leave
  <2> QED BY <1>2, <1>3, <2>1, LeaveKeeps
<1>4. ASSUME NEW c \in Client, Kick(c) PROVE StageInv' /\ StaysDown
  <2>1. UNCHANGED avatars
    BY <1>4 DEF Kick
  <2> QED BY <1>2, <1>4, <2>1, KickKeeps
<1>5. CASE GiveUp \/ CreepCheck \/ TimeIsUp \/ FinishBattle \/ NextStage \/ KickLast
  <2>1. UNCHANGED avatars
    BY <1>5 DEF GiveUp, CreepCheck, TimeIsUp, FinishBattle, NextStage, KickLast, playVars
  <2> QED BY <1>2, <1>5, <2>1, GiveUpKeeps, CreepCheckKeeps, TimeIsUpKeeps,
             FinishBattleKeeps, NextStageKeeps, KickLastKeeps
<1>6. CASE EndEven \/ EndOdd \/ EndCycle \/ EndTime
  <2>1. UNCHANGED avatars
    BY <1>6 DEF EndEven, EndOdd, EndCycle, EndTime, Then, playVars
  <2> QED BY <1>2, <1>6, <2>1, EndEvenKeeps, EndOddKeeps, EndCycleKeeps, EndTimeKeeps
<1>7. CASE BattleEnter \/ CreepEnter \/ CreepSetAvatar \/ BattleFitment \/ CreepFitment
           \/ BattleCheck \/ BattleBeginCycle \/ CreepBeginCycle
  <2>1. ~Fighting
    BY <1>7 DEF BattleEnter, CreepEnter, CreepSetAvatar, BattleFitment, CreepFitment, Fitment,
                BattleCheck, BattleBeginCycle, CreepBeginCycle, BeginCycle, At, Fighting
  <2> QED BY <1>7, <2>1, BattleEnterKeeps, CreepEnterKeeps, CreepSetAvatarKeeps, FitmentsKeep,
             BattleCheckKeeps, BeginCyclesKeep DEF StaysDown
<1>8. CASE ActiveItem
  BY <1>8, ActiveItemKeeps
<1>9. CASE EffectHeal
  BY <1>9, EffectHealKeeps
<1>10. CASE BattleCounter \/ CreepCounter
  BY <1>10, CountersKeep
<1>11. CASE BattleCycle \/ CreepCycle
  BY <1>11, CycleKeeps DEF BattleCycle, CreepCycle
<1>12. CASE BattleTimeout \/ CreepTimeout
  BY <1>12, TimeoutsKeep
<1> QED BY <1>1, <1>3, <1>4, <1>5, <1>6, <1>7, <1>8, <1>9, <1>10, <1>11, <1>12 DEF Next, RoomThread

LEMMA StageInvHolds == Spec => []StageInv
BY Beginning, Stepping, PTL DEF Spec

(***************************************************************************)
(* The variables have their types in every state of Room::BattleStage and  *)
(* Room::CreepStage: no hp is below zero or above its maximum.             *)
(***************************************************************************)
THEOREM TypeCorrect == Spec => []TypeOK
<1>1. StageInv => TypeOK
  <2> SUFFICES ASSUME StageInv PROVE TypeOK
    OBVIOUS
  <2>1. Types /\ WhereInv /\ AvatarInv
    BY TakeApart
  <2>2. k \in 0..Cardinality(DOMAIN avatars)
    BY <2>1 DEF WhereInv, avatarCount
  <2>3. \A i \in DOMAIN avatars : avatars[i] \in Avatar /\ avatars[i].mHp <= avatars[i].mMaxHp
    BY <2>1 DEF AvatarInv
  <2> QED BY <2>1, <2>2, <2>3 DEF Types, TypeOK
<1> QED BY <1>1, StageInvHolds, PTL

(***************************************************************************)
(* The two avatars of a fight are finished together, although the loops    *)
(* over the avatars ask only one of them.                                  *)
(***************************************************************************)
THEOREM PairsEndTogether == Spec => []PairEndsTogether
<1>1. StageInv => PairEndsTogether
  BY TakeApart
<1> QED BY <1>1, StageInvHolds, PTL

(***************************************************************************)
(* No heal, no counter heal and no end of a cycle brings an avatar with    *)
(* hp 0 back: the test after the blow has ended its fight by then.         *)
(***************************************************************************)
THEOREM NobodyRevives == Spec => NoRevival
<1>1. StageInv /\ [Next]_vars => [StaysDown]_vars
  BY Stepping
<1>2. NoRevival <=> [][StaysDown]_vars
  BY DEF NoRevival, StaysDown
<1> QED BY <1>1, <1>2, StageInvHolds, PTL DEF Spec

(***************************************************************************)
(* Nobody without hp is left when the stage is finished or the next one    *)
(* begins: the thread leaves no client in disconnectNetworkIdList, and     *)
(* everybody whose last hp has gone is put there.                          *)
(***************************************************************************)
THEOREM NobodyDefeatedStays == Spec => []DefeatedAreGone
<1>1. StageInv => DefeatedAreGone
  <2> SUFFICES ASSUME StageInv, pc \in {"finish", "goOn"}, NEW c \in Client, mStatus[c] = "playing"
               PROVE  mHp[c] > 0
    BY DEF DefeatedAreGone
  <2>1. Types /\ ListInv
    BY TakeApart
  <2>2. mHp[c] # 0
    BY <2>1 DEF ListInv
  <2>3. mHp[c] \in 0..MAX_CHARACTER_MAX_HP
    BY <2>1 DEF Types
  <2> QED BY <2>2, <2>3, StageAssumption
<1> QED BY <1>1, StageInvHolds, PTL

(***************************************************************************)
(* When the fights are over, exactly those have lost hp that have been     *)
(* brought down or whose fight was undecided, and exactly those have been  *)
(* rewarded that brought down a creep.                                     *)
(***************************************************************************)
THEOREM LosersHavePaid == Spec => []LosersPay
<1>1. StageInv => LosersPay
  <2> SUFFICES ASSUME StageInv, pc = "finish", NEW c \in Client, mStatus[c] = "playing",
                      NEW i \in Own(c)
               PROVE  /\ avatars[i].mIsCharacterDamage <=>
                           (avatars[i].mHp = 0 \/ ~avatars[i].mIsFinish)
                      /\ ~IsBattle => (rewarded[c] > 0 <=> \E j \in Own(c) : avatars[j + 1].mHp = 0)
    BY DEF LosersPay
  <2>1. /\ Types /\ Shape /\ WhereInv /\ AvatarInv /\ AliveInv /\ PairEndsTogether /\ PayInv
        /\ RewardInv /\ CreepInv
    BY TakeApart
  <2>2. i \in DOMAIN avatars /\ ~avatars[i].mIsGhost /\ IsValidClientInThisRoom(avatars[i].mClient)
    BY AvatarAssumption DEF Own, IsValidClientInThisRoom
  <2>3. avatars[i].mIsCharacterDamage <=>
            IF avatars[i].mIsFinish THEN avatars[i].mHp = 0
            ELSE part = "timeout" /\ i - (i % 2) < k
    BY <2>1, <2>2 DEF PayInv
  <2>4. ~avatars[i].mIsFinish => part = "timeout" /\ i - (i % 2) < k
    <3>1. ~avatars[i].mIsFinish => part = "timeout" /\ k = avatarCount
      BY <2>1, <2>2 DEF WhereInv, AllFinished
    <3>2. i - (i % 2) < avatarCount
      BY <2>1, <2>2, OpponentOf
    <3> HIDE DEF avatarCount
    <3> QED BY <3>1, <3>2
  <2>5. avatars[i].mIsFinish \in BOOLEAN /\ avatars[i].mIsCharacterDamage \in BOOLEAN
    BY <2>1, <2>2 DEF AvatarInv, Avatar
  <2>6. ASSUME ~IsBattle
        PROVE  rewarded[c] > 0 <=> \E j \in Own(c) : avatars[j + 1].mHp = 0
    <3>1. rewarded[c] > 0 <=> \E j \in Ended(c) : avatars[j + 1].mHp = 0
      BY <2>1, <2>6 DEF RewardInv
    <3>2. ASSUME NEW j \in Own(c), avatars[j + 1].mHp = 0 PROVE j \in Ended(c)
      <4>1. j \in DOMAIN avatars /\ avatars[j].mClient # NoClient
        BY AvatarAssumption DEF Own
      <4>2. j % 2 = 0
        BY <2>1, <2>6, <4>1, OpponentOf DEF CreepInv
      <4>3. j + 1 \in DOMAIN avatars /\ avatars[j].mIsFinish = avatars[j + 1].mIsFinish
        BY <2>1, <4>1, <4>2, OpponentOf DEF PairEndsTogether
      <4>4. avatars[j + 1].mIsFinish
        BY <2>1, <3>2, <4>3 DEF AliveInv
      <4> QED BY <4>3, <4>4 DEF Ended
    <3>3. Ended(c) \subseteq Own(c)
      BY DEF Ended
    <3> QED BY <3>1, <3>2, <3>3
  <2> QED BY <2>3, <2>4, <2>5, <2>6
<1> QED BY <1>1, StageInvHolds, PTL

\* A set in which any two are the same has at most one.
LEMMA AtMostOne ==
    ASSUME NEW S, \A i, j \in S : i = j
    PROVE  Cardinality(S) <= 1
<1>1. CASE S = {}
  BY <1>1, FS_EmptySet
<1>2. CASE S # {}
  <2>1. PICK i \in S : TRUE
    BY <1>2
  <2>2. S = {i}
    BY <2>1
  <2>3. Cardinality({i}) = 1
    BY FS_Singleton
  <2>4. Cardinality(S) = 1
    BY <2>2, <2>3, Zenon
  <2> QED BY <2>4
<1> QED BY <1>1, <1>2

(***************************************************************************)
(* A stage costs a player hp at most once and rewards it at most once,     *)
(* unless CreepStage has read it twice because somebody left meanwhile.    *)
(***************************************************************************)
THEOREM AtMostOncePerStage == Spec => []OncePerStage
<1>1. StageInv => OncePerStage
  <2> SUFFICES ASSUME StageInv, NEW c \in Client, hurt[c] > 1 \/ rewarded[c] > 1
               PROVE  /\ ~IsBattle /\ mSize < Len(cells)
                      /\ Cardinality(Own(c)) > 1
    BY DEF OncePerStage
  <2>1. Types /\ Shape /\ CountInv /\ CreepInv /\ BattleInv
    BY TakeApart
  <2>2. Own(c) \in SUBSET DOMAIN avatars /\ Paid(c) \subseteq Own(c) /\ Ended(c) \subseteq Own(c)
    BY DEF Own, Paid, Ended
  <2>3. IsFiniteSet(Own(c)) /\ Cardinality(Own(c)) \in Nat
    BY <2>1, <2>2, FinitelyMany
  <2>4. /\ Cardinality(Paid(c)) \in Nat /\ Cardinality(Paid(c)) <= Cardinality(Own(c))
        /\ Cardinality(Ended(c)) \in Nat /\ Cardinality(Ended(c)) <= Cardinality(Own(c))
    BY <2>2, <2>3, FS_Subset, FS_CardinalityType
  <2>5. /\ hurt[c] \in Nat /\ hurt[c] <= Cardinality(Paid(c))
        /\ rewarded[c] \in Nat /\ rewarded[c] <= Cardinality(Ended(c))
    BY <2>1 DEF Types, CountInv
  <2>6. Cardinality(Own(c)) > 1
    BY <2>3, <2>4, <2>5
  <2>7. ~IsBattle
    <3>1. (\A i, j \in Own(c) : i = j) => Cardinality(Own(c)) <= 1
      BY AtMostOne
    <3> QED BY <2>1, <2>3, <2>6, <3>1 DEF BattleInv
  <2>8. mSize # Len(cells)
    <3> SUFFICES ASSUME mSize = Len(cells) PROVE FALSE
      OBVIOUS
    <3>1. ASSUME NEW i \in Own(c)
          PROVE  i \in Nat /\ i % 2 = 0 /\ (i \div 2) + 1 \in DOMAIN Players
                 /\ Players[(i \div 2) + 1] = c
      <4>1. i \in DOMAIN avatars /\ avatars[i].mClient = c /\ c # NoClient
        BY AvatarAssumption DEF Own
      <4>2. i \in Nat /\ i < avatarCount /\ i % 2 \in {0, 1} /\ avatarCount \in Nat
        BY <2>1, <4>1, OpponentOf DEF Shape
      <4>3. i % 2 = 0 /\ Players[(i \div 2) + 1] = c /\ avatarCount <= 2 * Len(Players)
        BY <2>1, <2>7, <4>1, <4>2 DEF CreepInv
      <4>4. Len(Players) \in Nat /\ DOMAIN Players = 1..Len(Players)
        BY StageAssumption
      <4> HIDE DEF avatarCount
      <4>5. (i \div 2) + 1 \in 1..Len(Players)
        BY <4>2, <4>3, <4>4
      <4> QED BY <4>2, <4>3, <4>4, <4>5
    <3>2. ASSUME NEW i \in Own(c), NEW j \in Own(c) PROVE i = j
      <4>1. (i \div 2) + 1 = (j \div 2) + 1
        BY <3>1, StageAssumption
      <4> QED BY <3>1, <4>1
    <3>3. Cardinality(Own(c)) <= 1
      BY <3>2, AtMostOne
    <3> QED BY <2>3, <2>6, <3>3
  <2>9. mSize \in 0..Len(cells) /\ Len(cells) \in Nat
    BY <2>1 DEF Types
  <2> QED BY <2>6, <2>7, <2>8, <2>9
<1> QED BY <1>1, StageInvHolds, PTL
-----------------------------------------------------------------------------
(***************************************************************************)
(* The first part in which two places differ decides which one is later.   *)
(***************************************************************************)
LEMMA LaterPlace ==
    ASSUME NEW a1, NEW a2, NEW a3, NEW a4, NEW a5, NEW a6, NEW a7,
           NEW b1, NEW b2, NEW b3, NEW b4, NEW b5, NEW b6, NEW b7,
           \/ a1 < b1
           \/ a1 = b1 /\ a2 < b2
           \/ a1 = b1 /\ a2 = b2 /\ a3 < b3
           \/ a1 = b1 /\ a2 = b2 /\ a3 = b3 /\ a4 < b4
           \/ a1 = b1 /\ a2 = b2 /\ a3 = b3 /\ a4 = b4 /\ a5 < b5
           \/ a1 = b1 /\ a2 = b2 /\ a3 = b3 /\ a4 = b4 /\ a5 = b5 /\ a6 < b6
           \/ a1 = b1 /\ a2 = b2 /\ a3 = b3 /\ a4 = b4 /\ a5 = b5 /\ a6 = b6 /\ a7 < b7
    PROVE  Before(<<a1, a2, a3, a4, a5, a6, a7>>, <<b1, b2, b3, b4, b5, b6, b7>>)
<1> DEFINE p == <<a1, a2, a3, a4, a5, a6, a7>>
           q == <<b1, b2, b3, b4, b5, b6, b7>>
<1>1. /\ p[1] = a1 /\ p[2] = a2 /\ p[3] = a3 /\ p[4] = a4 /\ p[5] = a5 /\ p[6] = a6 /\ p[7] = a7
      /\ q[1] = b1 /\ q[2] = b2 /\ q[3] = b3 /\ q[4] = b4 /\ q[5] = b5 /\ q[6] = b6 /\ q[7] = b7
  OBVIOUS
<1> HIDE DEF p, q
<1>2. PICK i \in 1..7 :
         /\ p[i] < q[i]
         /\ i > 1 => p[1] = q[1]
         /\ i > 2 => p[2] = q[2]
         /\ i > 3 => p[3] = q[3]
         /\ i > 4 => p[4] = q[4]
         /\ i > 5 => p[5] = q[5]
         /\ i > 6 => p[6] = q[6]
  BY <1>1
<1>3. \A j \in 1..i - 1 : p[j] = q[j]
  <2> TAKE j \in 1..i - 1
  <2>1. j \in {1, 2, 3, 4, 5, 6} /\ i > j
    OBVIOUS
  <2> QED BY <1>2, <2>1
<1>4. Before(p, q)
  BY <1>2, <1>3 DEF Before
<1> QED BY <1>4 DEF p, q

\* The same of the thread's place now and after a step.
Forward ==
    \/ Phase < Phase'
    \/ Phase = Phase' /\ battleLoop < battleLoop'
    \/ Phase = Phase' /\ battleLoop = battleLoop' /\ Section < Section'
    \/ Phase = Phase' /\ battleLoop = battleLoop' /\ Section = Section'
          /\ activeItemIndex < activeItemIndex'
    \/ Phase = Phase' /\ battleLoop = battleLoop' /\ Section = Section'
          /\ activeItemIndex = activeItemIndex' /\ Half < Half'
    \/ Phase = Phase' /\ battleLoop = battleLoop' /\ Section = Section'
          /\ activeItemIndex = activeItemIndex' /\ Half = Half' /\ k < k'
    \/ Phase = Phase' /\ battleLoop = battleLoop' /\ Section = Section'
          /\ activeItemIndex = activeItemIndex' /\ Half = Half' /\ k = k' /\ Turn < Turn'

LEMMA ForwardIsBefore == Forward => Before(Place, Place')
<1> SUFFICES ASSUME Forward PROVE Before(Place, Place')
  OBVIOUS
<1>1. Before(<<Phase, battleLoop, Section, activeItemIndex, Half, k, Turn>>,
             <<Phase', battleLoop', Section', activeItemIndex', Half', k', Turn'>>)
  BY LaterPlace DEF Forward
<1> QED BY <1>1 DEF Place

\* From one part of the stage to a later one.
LEMMA NextPhase ==
    ASSUME \/ pc = "enter" /\ pc' \in {"setup", "fitment", "over"}
           \/ pc = "setup" /\ pc' = "fitment"
           \/ pc = "fitment" /\ pc' = "check"
           \/ pc = "check" /\ pc' \in {"loop", "over"}
           \/ pc = "loop" /\ (pc' = "timeout" \/ (pc' = "kick" /\ part' = "timeout"))
           \/ pc = "kick" /\ pc' \in {"finish", "over"}
           \/ pc = "finish" /\ pc' \in {"last", "end"}
           \/ pc = "last" /\ pc' = "end"
           \/ pc = "end" /\ pc' \in {"goOn", "over"}
    PROVE  Phase < Phase'
BY DEF Phase

\* The next avatar is behind the last one.
LEMMA NextIsBehind ==
    ASSUME Shape, NEW av, DOMAIN av = DOMAIN avatars, k \in Nat, k < avatarCount
    PROVE  k < NextFrom(av, k + 2)
<1>1. /\ avatarCount \in Nat /\ k + 2 \in Nat
  BY DEF Shape
<1>2. /\ NextFrom(av, k + 2) \in 0..avatarCount
      /\ NextFrom(av, k + 2) < avatarCount => NextFrom(av, k + 2) >= k + 2
  BY <1>1, NextAvatar
<1> DEFINE next == NextFrom(av, k + 2)
<1> HIDE DEF avatarCount, next
<1>3. next \in 0..avatarCount /\ (next < avatarCount => next >= k + 2)
  BY <1>2 DEF next
<1>4. k < next
  BY <1>1, <1>3
<1> QED BY <1>4 DEF next

\* A disconnection changes nothing but the list of those to disconnect.
LEMMA StayingPut ==
    ASSUME NEW c \in Client, Leave(c) \/ Kick(c)
    PROVE  Place' = Place
<1>1. UNCHANGED <<pc, part, battleLoop, activeItemIndex, k>>
  BY DEF Leave, Kick, threadVars
<1> QED BY <1>1 DEF Place, Phase, Section, Half, Turn

(***************************************************************************)
(* Every other step is one forward.                                        *)
(***************************************************************************)
LEMMA SteppingForward ==
    ASSUME StageInv, RoomThread
    PROVE  Forward \/ \E c \in Client : Kick(c)
<1>0. Types /\ WhereInv /\ Shape
  BY TakeApart
<1>1. /\ avatarCount \in Nat /\ k \in Nat /\ k <= avatarCount
      /\ activeItemIndex \in Nat /\ battleLoop \in Nat
  BY <1>0, StageAssumption DEF Types, WhereInv, Shape, Slots
<1>2. CASE GiveUp \/ BattleEnter \/ CreepEnter \/ BattleCheck \/ CreepCheck \/ TimeIsUp
           \/ EndTime \/ FinishBattle \/ KickLast \/ NextStage
  <2>1. Phase < Phase'
    BY <1>2, NextPhase DEF GiveUp, BattleEnter, CreepEnter, BattleCheck, CreepCheck, TimeIsUp,
          EndTime, Then, FinishBattle, KickLast, NextStage, At
  <2> QED BY <2>1 DEF Forward
<1>3. CASE CreepSetAvatar
  <2>1. /\ pc = "setup"
        /\ \/ pc' = "fitment"
           \/ pc' = "setup" /\ k' = k + 2 /\ UNCHANGED <<part, battleLoop, activeItemIndex>>
    BY <1>3 DEF CreepSetAvatar, At
  <2>2. CASE pc' = "fitment"
    BY <2>1, <2>2, NextPhase DEF Forward
  <2>3. CASE pc' # "fitment"
    BY <1>1, <2>1, <2>3 DEF Forward, Phase, Section, Half
  <2> QED BY <2>2, <2>3
<1>4. ASSUME NEW step \in {1, 2}, Fitment(step) PROVE Forward
  <2>1. /\ pc = "fitment"
        /\ \/ pc' = "check"
           \/ pc' = "fitment" /\ k' = k + step /\ UNCHANGED <<part, battleLoop, activeItemIndex>>
    BY <1>4 DEF Fitment, At
  <2>2. CASE pc' = "check"
    BY <2>1, <2>2, NextPhase DEF Forward
  <2>3. CASE pc' # "check"
    BY <1>1, <1>4, <2>1, <2>3 DEF Forward, Phase, Section, Half
  <2> QED BY <2>2, <2>3
<1>5. CASE BattleBeginCycle \/ CreepBeginCycle
  <2>1. /\ pc = "loop" /\ pc' \in {"kick", "use"} /\ part' = "even"
        /\ battleLoop' = battleLoop
    BY <1>5 DEF BattleBeginCycle, CreepBeginCycle, BeginCycle, At
  <2> QED BY <2>1 DEF Forward, Phase, Section
<1>6. CASE ActiveItem
  <2>1. pc = "use" /\ pc' = "heal"
    BY <1>6, Zenon DEF ActiveItem, At
  <2>2. UNCHANGED <<part, battleLoop, activeItemIndex, k>>
    BY <1>6, Zenon DEF ActiveItem
  <2> QED BY <2>1, <2>2 DEF Forward, Phase, Section, Half, Turn
<1>15. CASE EffectHeal
  <2>1. pc = "heal" /\ pc' = "counter"
    BY <1>15, Zenon DEF EffectHeal, At
  <2>2. UNCHANGED <<part, battleLoop, activeItemIndex, k>>
    BY <1>15, Zenon DEF EffectHeal
  <2> QED BY <2>1, <2>2 DEF Forward, Phase, Section, Half, Turn
<1>7. ASSUME NEW av, DOMAIN av = DOMAIN avatars, Counter(av) PROVE Forward
  <2>1. /\ pc = "counter" /\ pc' \in {"kick", "use"}
        /\ k' = NextFrom(av, k + 2) /\ UNCHANGED <<part, battleLoop, activeItemIndex>>
    BY <1>7 DEF Counter, At
  <2>2. k < k' /\ part # "timeout"
    BY <1>0, <1>1, <1>7, <2>1, NextIsBehind DEF WhereInv
  <2> QED BY <2>1, <2>2 DEF Forward, Phase, Section, Half
<1>8. CASE EndEven
  <2>1. /\ pc = "kick" /\ part = "even" /\ part' = "odd" /\ pc' \in {"finish", "use"}
        /\ UNCHANGED <<battleLoop, activeItemIndex>>
    BY <1>8 DEF EndEven, Then, At
  <2>2. CASE pc' = "finish"
    BY <2>1, <2>2, NextPhase DEF Forward
  <2>3. CASE pc' = "use"
    BY <2>1, <2>3 DEF Forward, Phase, Section, Half
  <2> QED BY <2>1, <2>2, <2>3
<1>9. CASE EndOdd
  <2>1. /\ pc = "kick" /\ part = "odd" /\ battleLoop' = battleLoop
        /\ \/ pc' \in {"finish", "over"}
           \/ pc' = "use" /\ part' = "even" /\ activeItemIndex' = activeItemIndex + 1
           \/ pc' = "cycle" /\ part' = "cycle"
    BY <1>9 DEF EndOdd, Then, At
  <2>2. CASE pc' \in {"finish", "over"}
    BY <2>1, <2>2, NextPhase DEF Forward
  <2>3. CASE pc' = "use"
    BY <1>1, <2>1, <2>3 DEF Forward, Phase, Section
  <2>4. CASE pc' = "cycle"
    BY <2>1, <2>4 DEF Forward, Phase, Section
  <2> QED BY <2>1, <2>2, <2>3, <2>4
<1>10. CASE BattleCycle \/ CreepCycle
  <2>1. /\ pc = "cycle" /\ pc' \in {"kick", "cycle"}
        /\ k' = NextFrom(avatars, k + 2) /\ UNCHANGED <<part, battleLoop, activeItemIndex>>
    BY <1>10 DEF BattleCycle, CreepCycle, Cycle, At
  <2>2. k < k' /\ part # "timeout"
    BY <1>0, <1>1, <2>1, NextIsBehind DEF WhereInv
  <2> QED BY <2>1, <2>2 DEF Forward, Phase, Section, Half
<1>11. CASE EndCycle
  <2>1. /\ pc = "kick" /\ part = "cycle" /\ pc' = "loop" /\ battleLoop' = battleLoop + 1
    BY <1>11 DEF EndCycle, Then, At
  <2> QED BY <1>1, <2>1 DEF Forward, Phase
<1>12. CASE BattleTimeout \/ CreepTimeout
  <2>1. /\ pc = "timeout" /\ pc' \in {"kick", "timeout"}
        /\ k' = NextFrom(avatars, k + 2) /\ UNCHANGED <<part, battleLoop, activeItemIndex>>
    BY <1>12 DEF BattleTimeout, CreepTimeout, Timeout, At
  <2>2. k < k' /\ part = "timeout"
    BY <1>0, <1>1, <2>1, NextIsBehind DEF WhereInv
  <2> QED BY <2>1, <2>2 DEF Forward, Phase, Section, Half
<1>13. CASE BattleFitment \/ CreepFitment
  BY <1>4, <1>13 DEF BattleFitment, CreepFitment
<1>14. CASE BattleCounter \/ CreepCounter
  <2>1. DOMAIN Countered = DOMAIN avatars
    BY DEF Countered
  <2> QED BY <1>7, <1>14, <2>1 DEF BattleCounter, CreepCounter
<1> QED BY <1>2, <1>3, <1>5, <1>6, <1>8, <1>9, <1>10, <1>11, <1>12, <1>13, <1>14, <1>15
        DEF RoomThread

(***************************************************************************)
(* The stage only goes forward, for any number of avatars, items and       *)
(* cycles: what is missing for StageEnds is that the thread runs.          *)
(***************************************************************************)
THEOREM StageGoesForward == Spec => OnlyForward
<1> DEFINE Step == \/ Before(Place, Place')
                   \/ Place' = Place /\ \E c \in Client : Leave(c) \/ Kick(c)
<1>1. StageInv /\ [Next]_vars => [Step]_vars
  BY SteppingForward, ForwardIsBefore, StayingPut DEF Next
<1>2. OnlyForward <=> [][Step]_vars
  BY DEF OnlyForward
<1> HIDE DEF Step
<1> QED BY <1>1, <1>2, StageInvHolds, PTL DEF Spec
=============================================================================
