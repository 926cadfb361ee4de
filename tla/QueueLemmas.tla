---------------------------- MODULE QueueLemmas -----------------------------
(***************************************************************************)
(* What a loop leaves behind (NoLeast, Stays, Recursion), and what the     *)
(* queues of this server need of the operators on sequences: what remains  *)
(* when the first node of a client is taken out (RemoveFirst, for          *)
(* RemoveClient of the matchmaking queue), when a client is added at the   *)
(* end, and when a group leaves from the front.  Last, what comes of       *)
(* sequences put one behind the other (FlattenSeq, for the stream of       *)
(* packets that PacketConstruct takes apart).                              *)
(***************************************************************************)
EXTENDS Naturals, Sequences, SequencesExt, SequenceTheorems, FiniteSetTheorems,
        WellFoundedInduction, TLAPS

(***************************************************************************)
(* A set of natural numbers has a least element (about Min).               *)
(***************************************************************************)
LEMMA MinIsIn ==
    ASSUME NEW I, I \subseteq Nat, I # {}
    PROVE  Min(I) \in I /\ \A i \in I : Min(I) <= i
<1> DEFINE R == OpToRel(<, Nat)
<1>1. IsWellFoundedOn(R, Nat)
  BY NatLessThanWellFounded
<1>2. \A n, m \in Nat : n < m => <<n, m>> \in R
  BY DEF OpToRel
<1> HIDE DEF R
<1>3. PICK m \in I : \A n \in I : ~(<<n, m>> \in R)
  BY <1>1, WFMin
<1>4. \A n \in I : ~(n < m)
  BY <1>2, <1>3, Zenon
<1>5. \A n \in I : m <= n
  BY <1>4
<1> QED BY <1>5 DEF Min

(***************************************************************************)
(* A set of natural numbers of which none is the least is empty: how a     *)
(* fact about each step of a loop becomes one about the loop.              *)
(***************************************************************************)
LEMMA NoLeast ==
    ASSUME NEW I, I \subseteq Nat, \A m \in I : \E i \in I : i < m
    PROVE  I = {}
<1> SUFFICES ASSUME I # {} PROVE FALSE
  OBVIOUS
<1> DEFINE m == Min(I)
<1>1. m \in I /\ \A i \in I : m <= i
  BY MinIsIn
<1> HIDE DEF m
<1>2. PICK i \in I : i < m
  BY <1>1
<1>3. m \in Nat /\ i \in Nat /\ m <= i
  BY <1>1, <1>2
<1> QED BY <1>2, <1>3

\* A property that the first value has and each step keeps, all values have.
LEMMA Stays ==
    ASSUME NEW S, NEW n \in Nat, NEW g, g[0] \in S,
           \A i \in 1..n : g[i - 1] \in S => g[i] \in S
    PROVE  \A i \in 0..n : g[i] \in S
<1> DEFINE I == {i \in 0..n : g[i] \notin S}
<1>1. I \subseteq Nat
  OBVIOUS
<1>2. ASSUME NEW m \in I PROVE \E i \in I : i < m
  <2>1. m \in 1..n /\ m - 1 \in 0..n /\ g[m] \notin S
    OBVIOUS
  <2> QED BY <2>1
<1>3. I = {}
  <2> HIDE DEF I
  <2> QED BY <1>1, <1>2, NoLeast
<1> QED BY <1>3

(***************************************************************************)
(* Where each value follows from the last, there is a function that has    *)
(* them all: what a recursive definition on 0..n defines.                  *)
(***************************************************************************)
Runs(S, a, n, F) == \E g \in [0..n -> S] : g[0] = a /\ \A i \in 1..n : g[i] = F[i][g[i - 1]]

LEMMA RunExists ==
    ASSUME NEW S, NEW a \in S, NEW n \in Nat, NEW F \in [1..n -> [S -> S]]
    PROVE  Runs(S, a, n, F)
<1> DEFINE Upto(m) == \E g \in [0..m -> S] : g[0] = a /\ \A i \in 1..m : g[i] = F[i][g[i - 1]]
           I == {m \in 0..n : Upto(m)}
<1>1. 0 \in I
  <2> DEFINE g == [i \in 0..0 |-> a]
  <2>1. g \in [0..0 -> S] /\ g[0] = a /\ \A i \in 1..0 : g[i] = F[i][g[i - 1]]
    OBVIOUS
  <2> HIDE DEF g
  <2> QED BY <2>1
<1>2. ASSUME NEW m \in 1..n, m - 1 \in I PROVE m \in I
  <2>1. PICK g \in [0..m - 1 -> S] : g[0] = a /\ \A i \in 1..m - 1 : g[i] = F[i][g[i - 1]]
    BY <1>2
  <2> DEFINE h == [i \in 0..m |-> IF i < m THEN g[i] ELSE F[m][g[m - 1]]]
  <2>2. h \in [0..m -> S] /\ h[0] = a /\ \A i \in 1..m : h[i] = F[i][h[i - 1]]
    BY <2>1
  <2> HIDE DEF h
  <2>3. Upto(m)
    BY <2>2
  <2> HIDE DEF Upto
  <2> QED BY <2>3
<1>3. n \in I
  <2> DEFINE id == [i \in 0..n |-> i]
  <2>1. id[0] \in I /\ \A i \in 1..n : id[i - 1] \in I => id[i] \in I
    <3> HIDE DEF I
    <3> QED BY <1>1, <1>2
  <2>2. id[n] = n
    OBVIOUS
  <2> HIDE DEF id, I
  <2>3. \A i \in 0..n : id[i] \in I
    BY <2>1, Stays
  <2> QED BY <2>2, <2>3
<1> QED BY <1>3 DEF Runs

LEMMA Recursion ==
    ASSUME NEW S, NEW a \in S, NEW n \in Nat, NEW F \in [1..n -> [S -> S]]
    PROVE  \E g \in [0..n -> S] : g[0] = a /\ \A i \in 1..n : g[i] = F[i][g[i - 1]]
<1>1. Runs(S, a, n, F)
  BY RunExists, Zenon
<1> QED BY <1>1 DEF Runs

\* The same without an end.
LEMMA RecursionOnNat ==
    ASSUME NEW S, NEW a \in S, NEW F \in [Nat \ {0} -> [S -> S]]
    PROVE  \E g \in [Nat -> S] :
              g[0] = a /\ \A i \in Nat \ {0} : g[i] = F[i][g[i - 1]]
<1> DEFINE Upto(g, n) == /\ g \in [0..n -> S] /\ g[0] = a
                         /\ \A i \in 1..n : g[i] = F[i][g[i - 1]]
           P == [n \in Nat |-> CHOOSE g : Upto(g, n)]
<1>1. ASSUME NEW n \in Nat PROVE Upto(P[n], n)
  <2> DEFINE E == [i \in 1..n |-> F[i]]
  <2>1. E \in [1..n -> [S -> S]] /\ \A i \in 1..n : E[i] = F[i]
    OBVIOUS
  <2> HIDE DEF E
  <2>2. PICK g \in [0..n -> S] : g[0] = a /\ \A i \in 1..n : g[i] = E[i][g[i - 1]]
    BY <2>1, Recursion
  <2>3. Upto(g, n)
    BY <2>1, <2>2
  <2>4. P[n] = CHOOSE h : Upto(h, n)
    OBVIOUS
  <2> HIDE DEF P, Upto
  <2> QED BY <2>3, <2>4
<1> HIDE DEF P
<1>2. ASSUME NEW n \in Nat PROVE P[n + 1][n] = P[n][n]
  <2> DEFINE J == {i \in 0..n : P[n + 1][i] # P[n][i]}
  <2>1. Upto(P[n], n) /\ Upto(P[n + 1], n + 1)
    BY <1>1
  <2>2. ASSUME NEW m \in J PROVE \E i \in J : i < m
    <3>1. m # 0
      BY <2>1
    <3>2. m \in 1..n /\ m \in 1..n + 1 /\ m - 1 \in 0..n /\ m - 1 < m
      BY <3>1
    <3>3. P[n + 1][m - 1] # P[n][m - 1]
      BY <2>1, <3>2
    <3> QED BY <3>2, <3>3
  <2>3. J \subseteq Nat
    OBVIOUS
  <2>4. J = {}
    <3> HIDE DEF J
    <3> QED BY <2>2, <2>3, NoLeast
  <2> QED BY <2>4
<1> DEFINE G == [n \in Nat |-> P[n][n]]
<1>3. G \in [Nat -> S] /\ G[0] = a
  BY <1>1
<1>4. ASSUME NEW i \in Nat \ {0} PROVE G[i] = F[i][G[i - 1]]
  <2>1. i - 1 \in Nat /\ i \in 1..i /\ (i - 1) + 1 = i
    OBVIOUS
  <2>2. P[i][i] = F[i][P[i][i - 1]]
    BY <1>1, <2>1
  <2>3. P[i][i - 1] = P[i - 1][i - 1]
    BY <1>2, <2>1
  <2>4. G[i] = P[i][i] /\ G[i - 1] = P[i - 1][i - 1]
    BY <2>1
  <2> QED BY <2>2, <2>3, <2>4
<1> QED
  <2> HIDE DEF G
  <2> QED BY <1>3, <1>4

\* A queue that lost its first occurrence of a client is a queue.
LEMMA RemoveFirstIsSeq ==
    ASSUME NEW S, NEW s \in Seq(S), NEW e
    PROVE  RemoveFirst(s, e) \in Seq(S)
<1>1. CASE ~\E i \in 1..Len(s) : s[i] = e
  BY <1>1 DEF RemoveFirst
<1>2. CASE \E i \in 1..Len(s) : s[i] = e
  <2> DEFINE I == {i \in 1..Len(s) : s[i] = e}
             n == Min(I)
  <2>1. RemoveFirst(s, e) = SubSeq(s, 1, n - 1) \o SubSeq(s, n + 1, Len(s))
    BY <1>2, Zenon DEF RemoveFirst, SelectInSeq, RemoveAt
  <2>2. n \in 1..Len(s)
    <3>1. I \subseteq Nat /\ I # {} /\ I \subseteq 1..Len(s)
      BY <1>2
    <3> QED BY <3>1, MinIsIn, Zenon
  <2> HIDE DEF n
  <2>3. SubSeq(s, 1, n - 1) \in Seq(S) /\ SubSeq(s, n + 1, Len(s)) \in Seq(S)
    <3>1. \A i \in 1..n - 1 : s[i] \in S
      BY <2>2
    <3>2. \A i \in n + 1..Len(s) : s[i] \in S
      BY <2>2
    <3> QED BY <2>2, <3>1, <3>2, SubSeqProperties
  <2> QED BY <2>1, <2>3, ConcatProperties
<1> QED BY <1>1, <1>2
-----------------------------------------------------------------------------
(***************************************************************************)
(* RemoveFirst takes one occurrence out and closes the gap, so that who    *)
(* was there once is gone and nobody else is there more often.             *)
(***************************************************************************)
TakenOut(s, n, q) ==
    /\ Len(q) = Len(s) - 1
    /\ \A i \in 1..Len(s) - 1 : q[i] = IF i < n THEN s[i] ELSE s[i + 1]

LEMMA RemoveFirstElements ==
    ASSUME NEW S, NEW s \in Seq(S), NEW e, Contains(s, e)
    PROVE  \E n \in 1..Len(s) : /\ s[n] = e /\ n = Min({i \in 1..Len(s) : s[i] = e})
                                /\ TakenOut(s, n, RemoveFirst(s, e))
<1> DEFINE I == {i \in 1..Len(s) : s[i] = e}
           n == Min(I)
           p == SubSeq(s, 1, n - 1)
           q == SubSeq(s, n + 1, Len(s))
<1>1. RemoveFirst(s, e) = p \o q
  BY Zenon DEF RemoveFirst, SelectInSeq, RemoveAt, Contains
<1>2. n \in I
  <2>1. I \subseteq Nat /\ I # {}
    BY DEF Contains
  <2> QED BY <2>1, MinIsIn, Zenon
<1>3. n \in 1..Len(s) /\ s[n] = e
  BY <1>2
<1>n. n = Min({i \in 1..Len(s) : s[i] = e})
  OBVIOUS
<1> HIDE DEF n
<1>4. /\ p \in Seq(S) /\ Len(p) = n - 1 /\ \A i \in 1..n - 1 : p[i] = s[i]
      /\ q \in Seq(S) /\ Len(q) = Len(s) - n
      /\ \A i \in 1..Len(s) - n : q[i] = s[i + n]
  <2>1. \A i \in 1..n - 1 : s[i] \in S
    BY <1>3
  <2>2. \A i \in n + 1..Len(s) : s[i] \in S
    BY <1>3
  <2> QED BY <1>3, <2>1, <2>2, SubSeqProperties
<1> HIDE DEF p, q
<1>5. TakenOut(s, n, p \o q)
  <2>0. /\ Len(p \o q) = Len(p) + Len(q)
        /\ \A i \in 1..Len(p) + Len(q) :
              (p \o q)[i] = IF i <= Len(p) THEN p[i] ELSE q[i - Len(p)]
    BY <1>4, ConcatProperties
  <2>1. Len(p \o q) = Len(s) - 1 /\ Len(p) + Len(q) = Len(s) - 1
    BY <1>3, <1>4, <2>0
  <2>2. ASSUME NEW i \in 1..Len(s) - 1
        PROVE  (p \o q)[i] = IF i < n THEN s[i] ELSE s[i + 1]
    <3>1. CASE i < n
      BY <1>3, <1>4, <2>0, <2>1, <3>1
    <3>2. CASE ~(i < n)
      <4>1. i - (n - 1) \in 1..Len(s) - n /\ (i - (n - 1)) + n = i + 1
        BY <1>3, <3>2
      <4>2. (p \o q)[i] = q[i - (n - 1)]
        BY <1>3, <1>4, <2>0, <2>1, <3>2
      <4> QED BY <1>4, <3>2, <4>1, <4>2
    <3> QED BY <3>1, <3>2
  <2> QED BY <2>1, <2>2 DEF TakenOut
<1> QED BY <1>1, <1>3, <1>5, <1>n

AtMostOnce(s, d) == \A i, j \in 1..Len(s) : s[i] = d /\ s[j] = d => i = j

LEMMA RemoveFirstKeeps ==
    ASSUME NEW S, NEW s \in Seq(S), NEW e, NEW d, AtMostOnce(s, d)
    PROVE  /\ Contains(RemoveFirst(s, e), d) => Contains(s, d) /\ d # e
           /\ AtMostOnce(RemoveFirst(s, e), d)
<1> USE DEF AtMostOnce
<1> DEFINE q == RemoveFirst(s, e)
<1>1. CASE ~Contains(s, e)
  <2>1. q = s
    BY <1>1 DEF RemoveFirst, Contains
  <2> QED BY <1>1, <2>1
<1>2. CASE Contains(s, e)
  <2>1. PICK n \in 1..Len(s) : s[n] = e /\ TakenOut(s, n, q)
    BY <1>2, RemoveFirstElements
  <2> HIDE DEF q
  <2>2. Len(s) \in Nat
    OBVIOUS
  <2>3. \A i \in 1..Len(q) : \E k \in 1..Len(s) :
            k # n /\ q[i] = s[k] /\ k = (IF i < n THEN i ELSE i + 1)
    BY <2>1, <2>2 DEF TakenOut
  <2>4. Contains(q, d) => Contains(s, d) /\ d # e
    <3> SUFFICES ASSUME Contains(q, d) PROVE Contains(s, d) /\ d # e
      OBVIOUS
    <3>1. PICK k \in 1..Len(s) : k # n /\ s[k] = d
      BY <2>3 DEF Contains
    <3> QED BY <2>1, <3>1 DEF Contains
  <2>5. \A i, j \in 1..Len(q) : q[i] = d /\ q[j] = d => i = j
    <3> SUFFICES ASSUME NEW i \in 1..Len(q), NEW j \in 1..Len(q), q[i] = d, q[j] = d
                 PROVE  i = j
      OBVIOUS
    <3>1. PICK k \in 1..Len(s) : k # n /\ s[k] = d /\ k = (IF i < n THEN i ELSE i + 1)
      BY <2>3
    <3>2. PICK l \in 1..Len(s) : l # n /\ s[l] = d /\ l = (IF j < n THEN j ELSE j + 1)
      BY <2>3
    <3>3. k = l
      BY <3>1, <3>2
    <3> QED BY <2>1, <2>2, <3>1, <3>2, <3>3
  <2> QED BY <2>4, <2>5 DEF q
<1> QED BY <1>1, <1>2
-----------------------------------------------------------------------------
\* A client added to a queue it was not in is there once.
LEMMA AppendKeeps ==
    ASSUME NEW S, NEW s \in Seq(S), NEW e \in S, NEW d, AtMostOnce(s, d),
           d = e => ~Contains(s, d)
    PROVE  /\ Contains(Append(s, e), d) => Contains(s, d) \/ d = e
           /\ AtMostOnce(Append(s, e), d)
<1> DEFINE q == Append(s, e)
<1>1. Len(q) = Len(s) + 1 /\ Len(s) \in Nat
  OBVIOUS
<1>2. \A i \in 1..Len(q) : q[i] = IF i <= Len(s) THEN s[i] ELSE e
  OBVIOUS
<1> HIDE DEF q
<1>3. Contains(q, d) => Contains(s, d) \/ d = e
  BY <1>1, <1>2 DEF Contains
<1>4. AtMostOnce(q, d)
  BY <1>1, <1>2 DEF AtMostOnce, Contains
<1> QED BY <1>3, <1>4 DEF q

\* Who is still in a queue after its first n nodes have left was not among them.
FirstOf(s, n) == {s[i] : i \in 1..n}

LEMMA SuffixKeeps ==
    ASSUME NEW S, NEW s \in Seq(S), NEW n \in 0..Len(s), NEW d, AtMostOnce(s, d)
    PROVE  /\ SubSeq(s, n + 1, Len(s)) \in Seq(S)
           /\ Contains(SubSeq(s, n + 1, Len(s)), d) => Contains(s, d) /\ d \notin FirstOf(s, n)
           /\ AtMostOnce(SubSeq(s, n + 1, Len(s)), d)
<1> DEFINE q == SubSeq(s, n + 1, Len(s))
<1>1. /\ q \in Seq(S) /\ Len(q) = Len(s) - n
      /\ \A i \in 1..Len(s) - n : q[i] = s[i + n]
  <2>1. \A i \in n + 1..Len(s) : s[i] \in S
    OBVIOUS
  <2> QED BY <2>1, SubSeqProperties
<1> HIDE DEF q
<1>2. \A i \in 1..Len(q) : i + n \in 1..Len(s) /\ q[i] = s[i + n]
  BY <1>1
<1>3. Contains(q, d) => Contains(s, d) /\ d \notin FirstOf(s, n)
  <2> SUFFICES ASSUME Contains(q, d) PROVE Contains(s, d) /\ d \notin FirstOf(s, n)
    OBVIOUS
  <2>1. PICK i \in 1..Len(q) : q[i] = d
    BY DEF Contains
  <2>2. i + n \in 1..Len(s) /\ s[i + n] = d /\ i + n > n
    BY <1>1, <1>2, <2>1
  <2>3. \A j \in 1..n : s[j] # d
    BY <2>2 DEF AtMostOnce
  <2> QED BY <2>2, <2>3 DEF Contains, FirstOf
<1>4. AtMostOnce(q, d)
  BY <1>1, <1>2 DEF AtMostOnce
<1> QED BY <1>1, <1>3, <1>4 DEF q

\* A group of n different clients has n members.
LEMMA FirstOfCardinality ==
    ASSUME NEW S, NEW s \in Seq(S), NEW n \in 0..Len(s),
           \A d \in S : AtMostOnce(s, d)
    PROVE  /\ IsFiniteSet(FirstOf(s, n)) /\ Cardinality(FirstOf(s, n)) = n
           /\ \A d \in FirstOf(s, n) : d \in S /\ Contains(s, d)
<1> DEFINE f == [i \in 1..n |-> s[i]]
<1>1. f \in Bijection(1..n, FirstOf(s, n))
  BY DEF FirstOf, AtMostOnce, Bijection, Injection, IsInjective, Surjection
<1>2. IsFiniteSet(1..n) /\ Cardinality(1..n) = n
  BY FS_Interval
<1>3. IsFiniteSet(FirstOf(s, n)) /\ Cardinality(FirstOf(s, n)) = n
  <2>1. ExistsBijection(1..n, FirstOf(s, n))
    BY <1>1 DEF ExistsBijection
  <2> QED BY <1>2, <2>1, FS_Bijection
<1>4. \A d \in FirstOf(s, n) : d \in S /\ Contains(s, d)
  BY DEF FirstOf, Contains
<1> QED BY <1>3, <1>4
-----------------------------------------------------------------------------
\* Where each of the sequences of q ends when they are put one behind the other.
IsEnds(q, e) ==
    /\ e \in [0..Len(q) -> Nat] /\ e[0] = 0
    /\ \A k \in 1..Len(q) : e[k] = e[k - 1] + Len(q[k])

Ends(q) == CHOOSE e : IsEnds(q, e)

LEMMA EndsExist ==
    ASSUME NEW S, NEW q \in Seq(Seq(S))
    PROVE  IsEnds(q, Ends(q))
<1> DEFINE n == Len(q)
           F == [k \in 1..n |-> [x \in Nat |-> x + Len(q[k])]]
<1>1. n \in Nat /\ \A k \in 1..n : q[k] \in Seq(S) /\ Len(q[k]) \in Nat
  BY LenProperties
<1>2. F \in [1..n -> [Nat -> Nat]]
  BY <1>1
<1>3. \A k \in 1..n, x \in Nat : F[k][x] = x + Len(q[k])
  OBVIOUS
<1> HIDE DEF n, F
<1>4. PICK e \in [0..n -> Nat] : e[0] = 0 /\ \A k \in 1..n : e[k] = F[k][e[k - 1]]
  <2>1. n \in Nat /\ 0 \in Nat
    BY <1>1
  <2>2. Runs(Nat, 0, n, F)
    BY <2>1, <1>2, RunExists, Zenon
  <2> QED BY <2>2 DEF Runs
<1>5. ASSUME NEW k \in 1..n PROVE e[k] = e[k - 1] + Len(q[k])
  <2>1. k - 1 \in 0..n
    BY <1>1
  <2>2. e[k - 1] \in Nat /\ e[k] = F[k][e[k - 1]]
    BY <1>4, <2>1
  <2> QED BY <1>3, <2>2
<1>6. IsEnds(q, e)
  BY <1>4, <1>5 DEF IsEnds, n
<1> QED BY <1>6, Zenon DEF Ends

\* The ends are in order.
LEMMA EndsGrow ==
    ASSUME NEW S, NEW q \in Seq(Seq(S)), NEW j \in 0..Len(q), NEW k \in 0..Len(q), j <= k
    PROVE  Ends(q)[j] <= Ends(q)[k] /\ Ends(q)[j] \in Nat
<1> DEFINE e == Ends(q)
           n == Len(q)
           I == {m \in j..n : ~(e[j] <= e[m])}
<1>1. IsEnds(q, e) /\ n \in Nat
  BY EndsExist, LenProperties
<1>2. \A m \in 1..n : Len(q[m]) \in Nat
  BY LenProperties
<1> HIDE DEF e, n
<1>3. e \in [0..n -> Nat] /\ \A m \in 1..n : e[m] = e[m - 1] + Len(q[m])
  BY <1>1 DEF IsEnds, n
<1>4. ASSUME NEW m \in I PROVE \E i \in I : i < m
  <2>1. m # j
    BY <1>3 DEF n
  <2>2. m \in 1..n /\ m - 1 \in j..n /\ m - 1 < m
    BY <2>1, <1>1 DEF n
  <2>3. ~(e[j] <= e[m - 1])
    <3>1. Len(q[m]) \in Nat /\ e[m] = e[m - 1] + Len(q[m])
      BY <1>2, <1>3, <2>2
    <3>2. m - 1 \in 0..n /\ j \in 0..n
      BY <1>1, <2>2 DEF n
    <3>3. e[m - 1] \in Nat /\ e[j] \in Nat
      BY <1>3, <3>2
    <3>4. ~(e[j] <= e[m])
      OBVIOUS
    <3> QED BY <3>1, <3>3, <3>4
  <2> QED BY <2>2, <2>3
<1>5. I \subseteq Nat
  BY <1>1 DEF n
<1>6. I = {}
  <2> HIDE DEF I
  <2> QED BY <1>4, <1>5, NoLeast
<1>7. k \in j..n
  BY DEF n
<1> QED BY <1>3, <1>6, <1>7 DEF e, n

(***************************************************************************)
(* What FlattenSeq makes of a sequence of sequences: all their elements,   *)
(* each sequence behind the end of the last one.                           *)
(***************************************************************************)
LEMMA FlattenIs ==
    ASSUME NEW S, NEW q \in Seq(Seq(S))
    PROVE  /\ FlattenSeq(q) \in Seq(S)
           /\ Len(FlattenSeq(q)) = Ends(q)[Len(q)]
           /\ \A k \in 1..Len(q), i \in Nat \ {0} :
                 i <= Len(q[k]) => FlattenSeq(q)[Ends(q)[k - 1] + i] = q[k][i]
<1> DEFINE e == Ends(q)
           n == Len(q)
           F == [k \in 1..n |-> [x \in Seq(S) |-> x \o q[k]]]
<1>1. IsEnds(q, e) /\ n \in Nat
  BY EndsExist, LenProperties
<1>2. \A k \in 1..n : q[k] \in Seq(S) /\ Len(q[k]) \in Nat
  BY LenProperties
<1>3. F \in [1..n -> [Seq(S) -> Seq(S)]]
  BY <1>2, ConcatProperties
<1>4. \A k \in 1..n, x \in Seq(S) : F[k][x] = x \o q[k]
  OBVIOUS
<1>5. <<>> \in Seq(S)
  OBVIOUS
<1>e. e \in [0..n -> Nat] /\ e[0] = 0 /\ \A k \in 1..n : e[k] = e[k - 1] + Len(q[k])
  BY <1>1 DEF IsEnds
<1>g. \A j, k \in 0..n : j <= k => e[j] <= e[k]
  BY EndsGrow
<1> HIDE DEF n, F, e
<1>6. PICK f \in [0..n -> Seq(S)] : f[0] = <<>> /\ \A k \in 1..n : f[k] = F[k][f[k - 1]]
  <2> DEFINE T == Seq(S)
  <2>1. n \in Nat /\ F \in [1..n -> [T -> T]] /\ <<>> \in T
    BY <1>1, <1>3, <1>5
  <2> HIDE DEF T
  <2>2. Runs(T, <<>>, n, F)
    BY <2>1, RunExists, Zenon
  <2> QED BY <2>2 DEF T, Runs
<1>7. \A k \in 1..n : f[k] = f[k - 1] \o q[k] /\ f[k - 1] \in Seq(S)
  <2> SUFFICES ASSUME NEW k \in 1..n PROVE f[k] = f[k - 1] \o q[k] /\ f[k - 1] \in Seq(S)
    OBVIOUS
  <2>1. k - 1 \in 0..n
    BY <1>1
  <2>2. f[k - 1] \in Seq(S)
    BY <1>6, <2>1
  <2>3. f[k] = F[k][f[k - 1]]
    BY <1>6
  <2> QED BY <1>4, <2>2, <2>3
<1>f. ASSUME NEW k \in 1..n, k = 1 PROVE f[k] = q[k]
  <2>1. f[k] = f[k - 1] \o q[k] /\ q[k] \in Seq(S)
    BY <1>2, <1>7
  <2>2. k - 1 = 0
    BY <1>f
  <2>3. f[k - 1] = <<>>
    BY <1>6, <2>2
  <2> QED BY <2>1, <2>3, ConcatEmptySeq
<1> DEFINE Good(k) == /\ Len(f[k]) = e[k]
                      /\ \A j \in 1..k : \A i \in Nat \ {0} :
                            i <= Len(q[j]) => f[k][e[j - 1] + i] = q[j][i]
           I == {k \in 0..n : ~Good(k)}
<1>8. ASSUME NEW m \in I PROVE \E k \in I : k < m
  <2>1. m # 0
    BY <1>e, <1>6
  <2>2. m \in 1..n /\ m - 1 \in 0..n /\ m - 1 < m
    BY <1>1, <2>1
  <2>3. ASSUME Good(m - 1) PROVE Good(m)
    <3>1. /\ f[m - 1] \in Seq(S) /\ q[m] \in Seq(S) /\ f[m] = f[m - 1] \o q[m]
          /\ Len(f[m - 1]) = e[m - 1] /\ Len(q[m]) \in Nat /\ e[m - 1] \in Nat
          /\ e[m] = e[m - 1] + Len(q[m])
      BY <1>2, <1>7, <1>e, <2>2, <2>3
    <3>2. /\ Len(f[m]) = e[m]
          /\ \A i \in 1..e[m] : f[m][i] = IF i <= e[m - 1] THEN f[m - 1][i]
                                                         ELSE q[m][i - e[m - 1]]
      <4>1. /\ Len(f[m - 1] \o q[m]) = Len(f[m - 1]) + Len(q[m])
            /\ \A i \in 1..Len(f[m - 1]) + Len(q[m]) :
                  (f[m - 1] \o q[m])[i] = IF i <= Len(f[m - 1]) THEN f[m - 1][i]
                                          ELSE q[m][i - Len(f[m - 1])]
        <5> DEFINE x == f[m - 1]
                   y == q[m]
        <5>1. x \in Seq(S) /\ y \in Seq(S)
          BY <3>1
        <5> HIDE DEF x, y
        <5>2. /\ Len(x \o y) = Len(x) + Len(y)
              /\ \A i \in 1..Len(x) + Len(y) :
                    (x \o y)[i] = IF i <= Len(x) THEN x[i] ELSE y[i - Len(x)]
          BY <5>1, ConcatProperties
        <5> QED BY <5>2 DEF x, y
      <4> QED BY <3>1, <4>1
    <3>3. ASSUME NEW j \in 1..m, NEW i \in Nat \ {0}, i <= Len(q[j])
          PROVE  f[m][e[j - 1] + i] = q[j][i]
      <4>1. CASE j = m
        <5>1. e[m - 1] + i \in 1..e[m] /\ ~(e[m - 1] + i <= e[m - 1]) /\ (e[m - 1] + i) - e[m - 1] = i
          BY <3>1, <3>3, <4>1
        <5>2. f[m][e[m - 1] + i] = q[m][(e[m - 1] + i) - e[m - 1]]
          BY <3>2, <5>1
        <5> QED BY <4>1, <5>1, <5>2
      <4>2. CASE j # m
        <5>1. j \in 1..m - 1 /\ j \in 1..n /\ j \in 0..n /\ j - 1 \in 0..n
          BY <1>1, <2>2, <4>2
        <5>2. e[j] <= e[m - 1] /\ e[j] = e[j - 1] + Len(q[j])
          <6>1. j <= m - 1
            BY <5>1, <2>2, <1>1
          <6> QED BY <1>e, <1>g, <2>2, <5>1, <6>1
        <5>x. Len(q[j]) \in Nat /\ e[j - 1] \in Nat
          BY <1>2, <1>e, <5>1
        <5>3. e[j - 1] + i \in 1..e[m] /\ e[j - 1] + i <= e[m - 1]
          <6> DEFINE ej == e[j - 1]
                     ek == e[j]
                     em == e[m - 1]
                     eM == e[m]
                     l == Len(q[j])
                     l2 == Len(q[m])
          <6>1. /\ ek <= em /\ ek = ej + l /\ l \in Nat /\ ej \in Nat /\ em \in Nat
                /\ eM = em + l2 /\ l2 \in Nat /\ i \in Nat \ {0} /\ i <= l
            BY <3>1, <3>3, <5>2, <5>x
          <6> HIDE DEF ej, ek, em, eM, l, l2
          <6>2. ej + i \in 1..eM /\ ej + i <= em
            BY <6>1
          <6> QED BY <6>2 DEF ej, eM, em
        <5>4. f[m][e[j - 1] + i] = f[m - 1][e[j - 1] + i]
          BY <3>2, <5>3
        <5> QED BY <2>3, <3>3, <5>1, <5>4
      <4> QED BY <4>1, <4>2
    <3> HIDE DEF I
    <3> QED BY <3>2, <3>3
  <2> HIDE DEF Good
  <2> QED BY <2>2, <2>3
<1>9. Good(n)
  <2>1. I \subseteq Nat
    BY <1>1
  <2> HIDE DEF Good
  <2>2. I = {}
    <3> HIDE DEF I
    <3> QED BY <1>8, <2>1, NoLeast
  <2>3. n \in 0..n
    BY <1>1
  <2> QED BY <2>2, <2>3
<1>10. FlattenSeq(q) = f[n]
  <2>1. CASE n = 0
    <3>1. q = <<>>
      BY <2>1, EmptySeq DEF n
    <3>2. FlattenSeq(q) = q
      BY <2>1, Zenon DEF FlattenSeq, n
    <3> QED BY <1>6, <2>1, <3>1, <3>2
  <2>2. CASE n # 0
    <3> DEFINE Def(h) == h = [i \in 1..n |-> IF i = 1 THEN q[i] ELSE h[i - 1] \o q[i]]
               h0 == [i \in 1..n |-> f[i]]
               fl == CHOOSE h : Def(h)
    <3>1. FlattenSeq(q) = fl[n]
      BY <2>2, Zenon DEF FlattenSeq, n
    <3>2. \A i \in 1..n : h0[i] = IF i = 1 THEN q[i] ELSE h0[i - 1] \o q[i]
      <4> SUFFICES ASSUME NEW i \in 1..n
                   PROVE  h0[i] = IF i = 1 THEN q[i] ELSE h0[i - 1] \o q[i]
        OBVIOUS
      <4>1. CASE i = 1
        BY <1>f, <4>1
      <4>2. CASE i # 1
        <5>1. i - 1 \in 1..n
          BY <1>1, <4>2
        <5>2. f[i] = f[i - 1] \o q[i]
          BY <1>7
        <5> QED BY <4>2, <5>1, <5>2
      <4> QED BY <4>1, <4>2
    <3>3. Def(h0)
      BY <3>2
    <3>4. Def(fl)
      <4> HIDE DEF Def, h0
      <4> QED BY <3>3, Zenon
    <3> HIDE DEF fl
    <3>5. fl = [i \in 1..n |-> IF i = 1 THEN q[i] ELSE fl[i - 1] \o q[i]]
      BY <3>4
    <3> HIDE DEF Def, h0
    <3>6. \A i \in 1..n : fl[i] = IF i = 1 THEN q[i] ELSE fl[i - 1] \o q[i]
      BY <3>5
    <3> DEFINE J == {i \in 1..n : fl[i] # f[i]}
    <3>7. ASSUME NEW m \in J PROVE \E i \in J : i < m
      <4>1. m # 1
        BY <1>f, <3>6
      <4>2. m - 1 \in 1..n /\ m - 1 < m
        BY <1>1, <4>1
      <4>3. fl[m] = fl[m - 1] \o q[m] /\ f[m] = f[m - 1] \o q[m]
        BY <1>7, <3>6, <4>1
      <4>4. fl[m - 1] # f[m - 1]
        BY <4>3
      <4> QED BY <4>2, <4>4
    <3>8. J = {}
      <4>1. J \subseteq Nat
        OBVIOUS
      <4> HIDE DEF J
      <4> QED BY <3>7, <4>1, NoLeast
    <3>9. fl[n] = f[n]
      <4>1. n \in 1..n
        BY <1>1, <2>2
      <4> QED BY <3>8, <4>1
    <3> QED BY <3>1, <3>9
  <2> QED BY <2>1, <2>2
<1> QED BY <1>1, <1>6, <1>9, <1>10 DEF e, n

\* Every place up to the last end is within one of the sequences.
LEMMA PlaceWithin ==
    ASSUME NEW S, NEW q \in Seq(Seq(S)), NEW j \in 1..Ends(q)[Len(q)]
    PROVE  \E k \in 1..Len(q), i \in Nat \ {0} :
              i <= Len(q[k]) /\ j = Ends(q)[k - 1] + i
<1> DEFINE e == Ends(q)
           n == Len(q)
           I == {k \in 0..n : j <= e[k]}
<1>1. IsEnds(q, e) /\ n \in Nat
  BY EndsExist, LenProperties
<1>2. \A k \in 1..n : Len(q[k]) \in Nat
  BY LenProperties
<1> HIDE DEF e, n
<1>3. /\ e \in [0..n -> Nat] /\ e[0] = 0
      /\ \A k \in 1..n : e[k] = e[k - 1] + Len(q[k])
  BY <1>1 DEF IsEnds, n
<1>4. n \in I /\ j \in Nat \ {0} /\ I \subseteq Nat
  BY <1>1, <1>3 DEF e, n
<1>5. PICK m \in I : \A k \in I : ~(k < m)
  <2> HIDE DEF I
  <2> QED BY <1>4, NoLeast
<1>6. m # 0
  BY <1>3, <1>4
<1>7. m \in 1..n /\ m - 1 \in 0..n /\ m - 1 < m
  BY <1>1, <1>6
<1>8. ~(j <= e[m - 1]) /\ j <= e[m] /\ e[m - 1] \in Nat
  BY <1>3, <1>5, <1>7
<1>9. e[m] = e[m - 1] + Len(q[m]) /\ Len(q[m]) \in Nat
  BY <1>2, <1>3, <1>7
<1>10. \E i \in Nat \ {0} : i <= Len(q[m]) /\ j = e[m - 1] + i
  <2> DEFINE a == e[m - 1]
             b == e[m]
             l == Len(q[m])
  <2>1. /\ j \in Nat \ {0} /\ a \in Nat /\ l \in Nat /\ b = a + l /\ ~(j <= a) /\ j <= b
    BY <1>4, <1>8, <1>9
  <2> HIDE DEF a, b, l
  <2>2. j - a \in Nat \ {0} /\ j - a <= l /\ j = a + (j - a)
    BY <2>1
  <2>3. \E i \in Nat \ {0} : i <= l /\ j = a + i
    BY <2>2
  <2> QED BY <2>3 DEF a, l
<1> QED BY <1>7, <1>10 DEF e, n

\* The first sequences of q end where they end in q.
LEMMA EndsOfPrefix ==
    ASSUME NEW S, NEW q \in Seq(Seq(S)), NEW r \in Seq(Seq(S)), Len(r) <= Len(q),
           \A k \in 1..Len(r) : r[k] = q[k]
    PROVE  \A k \in 0..Len(r) : Ends(r)[k] = Ends(q)[k]
<1> DEFINE e == Ends(q)
           d == Ends(r)
           n == Len(q)
           h == Len(r)
           I == {k \in 0..h : d[k] # e[k]}
<1>1. IsEnds(q, e) /\ IsEnds(r, d) /\ n \in Nat /\ h \in Nat
  BY EndsExist, LenProperties
<1> HIDE DEF e, d, n, h
<1>2. /\ e[0] = 0 /\ d[0] = 0 /\ h <= n
      /\ \A k \in 1..n : e[k] = e[k - 1] + Len(q[k])
      /\ \A k \in 1..h : d[k] = d[k - 1] + Len(r[k])
  BY <1>1 DEF IsEnds, n, h
<1>3. ASSUME NEW m \in I PROVE \E k \in I : k < m
  <2>1. m # 0
    BY <1>2
  <2>2. m \in 1..h /\ m \in 1..n /\ m - 1 \in 0..h /\ m - 1 < m
    BY <1>1, <1>2, <2>1
  <2>3. r[m] = q[m]
    BY <2>2 DEF h
  <2>4. d[m - 1] # e[m - 1]
    BY <1>2, <2>2, <2>3
  <2> QED BY <2>2, <2>4
<1>4. I \subseteq Nat
  BY <1>1
<1>5. I = {}
  <2> HIDE DEF I
  <2> QED BY <1>3, <1>4, NoLeast
<1> QED BY <1>5 DEF e, d, h

\* The first sequences of q, put one behind the other, begin all of them.
LEMMA FlattenOfPrefix ==
    ASSUME NEW S, NEW q \in Seq(Seq(S)), NEW r \in Seq(Seq(S)), Len(r) <= Len(q),
           \A k \in 1..Len(r) : r[k] = q[k]
    PROVE  /\ Len(FlattenSeq(r)) = Ends(q)[Len(r)]
           /\ \A j \in 1..Ends(q)[Len(r)] : FlattenSeq(r)[j] = FlattenSeq(q)[j]
<1>1. \A k \in 0..Len(r) : Ends(r)[k] = Ends(q)[k]
  BY EndsOfPrefix
<1>2. Len(r) \in Nat /\ Len(q) \in Nat
  BY LenProperties
<1>3. /\ Len(FlattenSeq(r)) = Ends(r)[Len(r)]
      /\ \A k \in 1..Len(r), i \in Nat \ {0} :
            i <= Len(r[k]) => FlattenSeq(r)[Ends(r)[k - 1] + i] = r[k][i]
  BY FlattenIs
<1>4. \A k \in 1..Len(q), i \in Nat \ {0} :
         i <= Len(q[k]) => FlattenSeq(q)[Ends(q)[k - 1] + i] = q[k][i]
  BY FlattenIs
<1>5. Ends(r)[Len(r)] = Ends(q)[Len(r)]
  BY <1>1, <1>2
<1>6. ASSUME NEW j \in 1..Ends(q)[Len(r)] PROVE FlattenSeq(r)[j] = FlattenSeq(q)[j]
  <2>1. PICK k \in 1..Len(r), i \in Nat \ {0} : i <= Len(r[k]) /\ j = Ends(r)[k - 1] + i
    <3>1. j \in 1..Ends(r)[Len(r)]
      BY <1>5
    <3> QED BY <3>1, PlaceWithin
  <2>2. k \in 1..Len(q) /\ r[k] = q[k] /\ k - 1 \in 0..Len(r)
    BY <1>2
  <2>3. j = Ends(q)[k - 1] + i
    BY <1>1, <2>1, <2>2
  <2>4. FlattenSeq(r)[j] = r[k][i]
    BY <1>3, <2>1
  <2>5. FlattenSeq(q)[j] = q[k][i]
    BY <1>4, <2>1, <2>2, <2>3
  <2> QED BY <2>2, <2>4, <2>5
<1> QED BY <1>3, <1>5, <1>6
=============================================================================
