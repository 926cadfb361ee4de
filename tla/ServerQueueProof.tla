-------------------------- MODULE ServerQueueProof --------------------------
(***************************************************************************)
(* For every number of clients, nodes and players of a room: the queue is  *)
(* shorter than a room whenever its lock is free, and mSize never leaves   *)
(* 0..MAX_ROOM_PLAYER, so the unsigned subtractions of ServerQueue.cpp     *)
(* never wrap around; the pointers always form a doubly linked list of     *)
(* mSize nodes; and what this list does is what MatchingQueue promises.    *)
(*                                                                         *)
(* The sizes come first, by an argument of their own that no pointer takes *)
(* part in.  Then what a walk along Next visits, what Release leaves, and  *)
(* that neither disturbs a list (IsList); then each operation on the list. *)
(***************************************************************************)
EXTENDS ServerQueue, QueueLemmas

(***************************************************************************)
(* The inductive invariant.  QueueBelowRoomSize alone is not inductive:    *)
(* between AddClient and TryCreateRoomOrNullPtr the queue may hold a whole *)
(* room, and only the bound on that moment says that one room empties it.  *)
(***************************************************************************)
SizeInv ==
    /\ mSize \in 0..MAX_ROOM_PLAYER
    /\ mLock \in Client \cup {NULL}
    /\ QueueBelowRoomSize
    /\ mLock # NULL => mSize > 0

LEMMA InitSize == Init => SizeInv
BY ServerQueueAssumption DEF Init, SizeInv, QueueBelowRoomSize

LEMMA AddClientSize ==
    ASSUME SizeInv, NEW c \in Client, AddClient(c)
    PROVE  SizeInv'
BY ServerQueueAssumption DEF SizeInv, QueueBelowRoomSize, AddClient

LEMMA TryCreateRoomSize ==
    ASSUME SizeInv, TryCreateRoomOrNullPtr
    PROVE  SizeInv'
<1>1. CASE CreateRoom
  BY <1>1, ServerQueueAssumption
     DEF SizeInv, QueueBelowRoomSize, TryCreateRoomOrNullPtr, CreateRoom
<1>2. CASE NoRoom
  BY <1>2, ServerQueueAssumption
     DEF SizeInv, QueueBelowRoomSize, TryCreateRoomOrNullPtr, NoRoom, queueVars
<1> QED BY <1>1, <1>2 DEF TryCreateRoomOrNullPtr

LEMMA RemoveClientSize ==
    ASSUME SizeInv, NEW c \in Client, RemoveClient(c)
    PROVE  SizeInv'
<1>1. mSize \in Nat /\ mSize' = mSize - 1 /\ mLock = NULL /\ mLock' = mLock
  BY ServerQueueAssumption DEF SizeInv, RemoveClient
<1>2. 1..mSize # {}
  BY DEF RemoveClient
<1> QED BY <1>1, <1>2, ServerQueueAssumption DEF SizeInv, QueueBelowRoomSize

LEMMA NextSize ==
    ASSUME SizeInv, [Next]_vars
    PROVE  SizeInv'
<1>1. CASE TryCreateRoomOrNullPtr
  BY <1>1, TryCreateRoomSize
<1>2. ASSUME NEW c \in Client, AddClient(c) PROVE SizeInv'
  BY <1>2, AddClientSize
<1>3. ASSUME NEW c \in Client, RemoveClient(c) PROVE SizeInv'
  BY <1>3, RemoveClientSize
<1>4. CASE SendMatchingQueueInfo
  BY <1>4 DEF SizeInv, QueueBelowRoomSize, SendMatchingQueueInfo, ReadHead,
              ReadSizeEmpty, ReadSize, InformWaiting, DereferenceNull,
              MainReturns, queueVars
<1>5. CASE UNCHANGED vars
  BY <1>5 DEF SizeInv, QueueBelowRoomSize, vars, queueVars
<1> QED BY <1>1, <1>2, <1>3, <1>4, <1>5 DEF Next, Running, Crashed, Workers

(***************************************************************************)
(* The queue is below the size of a room whenever its lock is free.        *)
(***************************************************************************)
THEOREM QueueIsBelowRoomSize == Spec => []QueueBelowRoomSize
<1>1. SizeInv => QueueBelowRoomSize
  BY DEF SizeInv
<1> QED BY InitSize, NextSize, <1>1, PTL DEF Spec

(***************************************************************************)
(* mSize stays within the players of a room: ++mSize and the subtractions  *)
(* from it never leave the range of size_t.                                *)
(***************************************************************************)
THEOREM SizeNeverWraps == Spec => [](mSize \in 0..MAX_ROOM_PLAYER)
<1>1. SizeInv => mSize \in 0..MAX_ROOM_PLAYER
  BY DEF SizeInv
<1> QED BY InitSize, NextSize, <1>1, PTL DEF Spec
-----------------------------------------------------------------------------
(***************************************************************************)
(* What a walk along the Next pointers visits: the loop's body, step by    *)
(* step.                                                                   *)
(***************************************************************************)
LEMMA WalkSteps ==
    ASSUME NEW h, NEW start, NEW n \in Nat
    PROVE  /\ DOMAIN Walk(h, start, n) = 1..n
           /\ Walk(h, start, n) = [i \in 1..n |-> Walk(h, start, n)[i]]
           /\ n > 0 => Walk(h, start, n)[1] = start
           /\ \A i \in 2..n : Walk(h, start, n)[i] = NextOf(h, Walk(h, start, n)[i - 1])
<1> DEFINE Is(w) == w = [i \in 1..n |-> IF i = 1 THEN start ELSE NextOf(h, w[i - 1])]
           Address == {start, NULL} \cup {h[x].Next : x \in DOMAIN h}
           Follow == [i \in 1..n |-> [x \in Address |-> NextOf(h, x)]]
<1>1. \A x \in Address : NextOf(h, x) \in Address
  BY DEF NextOf
<1> HIDE DEF Address
<1>2. Follow \in [1..n -> [Address -> Address]]
  BY <1>1
<1>3. \A i \in 1..n : \A x \in Address : Follow[i][x] = NextOf(h, x)
  OBVIOUS
<1> HIDE DEF Follow
<1>4. start \in Address
  BY DEF Address
<1>5. PICK g \in [0..n -> Address] :
          g[0] = start /\ \A i \in 1..n : g[i] = Follow[i][g[i - 1]]
  <2> HIDE DEF Follow
  <2> QED BY <1>2, <1>4, Recursion
<1> DEFINE w == [i \in 1..n |-> g[i - 1]]
           v == [i \in 1..n |-> IF i = 1 THEN start ELSE NextOf(h, w[i - 1])]
<1>6. ASSUME NEW i \in 1..n PROVE w[i] = v[i]
  <2>1. CASE i = 1
    BY <1>5, <2>1
  <2>2. CASE i # 1
    <3>1. i - 1 \in 1..n /\ (i - 1) - 1 \in 0..n /\ i - 1 \in 0..n /\ i - 1 # 0
      BY <2>2
    <3>2. g[i - 1] = Follow[i - 1][g[(i - 1) - 1]] /\ g[(i - 1) - 1] \in Address
      BY <1>5, <3>1
    <3>3. g[i - 1] = NextOf(h, g[(i - 1) - 1])
      BY <1>3, <3>1, <3>2
    <3> QED BY <2>2, <3>1, <3>3
  <2> QED BY <2>1, <2>2
<1>7. w = [i \in 1..n |-> w[i]] /\ v = [i \in 1..n |-> v[i]]
  OBVIOUS
<1>8. Is(w)
  <2>1. w = v
    <3> HIDE DEF w, v
    <3> QED BY <1>6, <1>7
  <2> QED BY <2>1
<1> HIDE DEF w, v
<1> DEFINE u == CHOOSE x : Is(x)
<1>9. Is(u)
  <2> HIDE DEF Is
  <2> QED BY <1>8
<1>10. Walk(h, start, n) = u
  BY DEF Walk
<1> HIDE DEF u
<1>11. u = [i \in 1..n |-> IF i = 1 THEN start ELSE NextOf(h, u[i - 1])]
  BY <1>9
<1>12. DOMAIN u = 1..n /\ (n > 0 => u[1] = start) /\ \A i \in 2..n : u[i] = NextOf(h, u[i - 1])
  BY <1>11
<1>13. u = [i \in 1..n |-> u[i]]
  BY <1>11
<1> QED BY <1>10, <1>12, <1>13

\* Where each step stays in a set, the walk does.
LEMMA WalkStaysIn ==
    ASSUME NEW h, NEW n \in Nat, NEW C, NEW start \in C, \A x \in C : NextOf(h, x) \in C
    PROVE  \A i \in 1..n : Walk(h, start, n)[i] \in C
<1> DEFINE w == Walk(h, start, n)
           I == {i \in 1..n : w[i] \notin C}
<1>1. (n > 0 => w[1] = start) /\ \A i \in 2..n : w[i] = NextOf(h, w[i - 1])
  BY WalkSteps
<1> HIDE DEF w
<1>2. ASSUME NEW m \in I PROVE \E i \in I : i < m
  <2>1. m \in 2..n /\ m - 1 \in 1..n
    BY <1>1
  <2> QED BY <1>1, <2>1
<1>3. I = {}
  <2>1. I \subseteq Nat
    OBVIOUS
  <2> HIDE DEF I
  <2> QED BY <1>2, <2>1, NoLeast
<1> QED BY <1>3 DEF w
-----------------------------------------------------------------------------
(***************************************************************************)
(* A heap as ServerQueue keeps it: whatever a node's Next points to is     *)
(* alive.  What a walk visits from a live address is alive, or NULL.       *)
(***************************************************************************)
Heap(h) ==
    /\ DOMAIN h \subseteq Node
    /\ \A n \in DOMAIN h : h[n] \in ServerQueueNode /\ h[n].Next \in DOMAIN h \cup {NULL}

LEMMA WalkIsAlive ==
    ASSUME NEW h, Heap(h), NEW r \in DOMAIN h \cup {NULL}, NEW n \in Nat
    PROVE  /\ \A i \in 1..n : Walk(h, r, n)[i] \in DOMAIN h \cup {NULL}
           /\ \A i \in 2..n : Walk(h, r, n)[i - 1] = NULL => Walk(h, r, n)[i] = NULL
<1>1. NULL \notin DOMAIN h
  BY ServerQueueAssumption DEF Heap
<1>2. \A x \in DOMAIN h \cup {NULL} : NextOf(h, x) \in DOMAIN h \cup {NULL}
  BY DEF NextOf, Heap
<1>3. \A i \in 1..n : Walk(h, r, n)[i] \in DOMAIN h \cup {NULL}
  <2> DEFINE C == DOMAIN h \cup {NULL}
  <2> HIDE DEF C
  <2> QED BY <1>2, WalkStaysIn DEF C
<1>4. NextOf(h, NULL) = NULL
  BY <1>1 DEF NextOf
<1> QED BY <1>3, <1>4, WalkSteps

\* A walk that ends on a node has not met NULL before.
LEMMA WalkBeforeNode ==
    ASSUME NEW h, Heap(h), NEW r \in DOMAIN h \cup {NULL}, NEW n \in Nat \ {0},
           Walk(h, r, n)[n] # NULL
    PROVE  \A i \in 1..n : Walk(h, r, n)[i] \in DOMAIN h
<1> DEFINE w == Walk(h, r, n)
           I == {i \in 0..n - 1 : w[n - i] = NULL}
<1>1. /\ \A i \in 1..n : w[i] \in DOMAIN h \cup {NULL}
      /\ \A i \in 2..n : w[i - 1] = NULL => w[i] = NULL
      /\ w[n] # NULL
  BY WalkIsAlive
<1> HIDE DEF w
<1>2. ASSUME NEW m \in I PROVE \E i \in I : i < m
  <2>1. m # 0 /\ m \in 1..n - 1 /\ w[n - m] = NULL
    BY <1>1
  <2>2. (n - m) + 1 \in 2..n /\ ((n - m) + 1) - 1 = n - m /\ n - (m - 1) = (n - m) + 1
    BY <2>1
  <2>3. w[n - (m - 1)] = NULL
    BY <1>1, <2>1, <2>2
  <2>4. m - 1 \in I /\ m - 1 < m
    BY <2>1, <2>3
  <2> HIDE DEF I
  <2> QED BY <2>4
<1>3. I = {}
  <2>1. I \subseteq Nat
    OBVIOUS
  <2> HIDE DEF I
  <2> QED BY <1>2, <2>1, NoLeast
<1>4. ASSUME NEW i \in 1..n PROVE w[i] # NULL
  <2>1. n - i \in 0..n - 1 /\ n - (n - i) = i
    OBVIOUS
  <2> QED BY <1>3, <2>1
<1> QED BY <1>1, <1>4 DEF w

(***************************************************************************)
(* After as many steps as there are addresses, and one more, a walk has    *)
(* been at one of them twice, unless it has met NULL: it visits nothing    *)
(* new any more.  So Reached is closed under Next.                         *)
(***************************************************************************)
LEMMA WalkIsClosed ==
    ASSUME NEW h, Heap(h), NEW r \in DOMAIN h \cup {NULL},
           NEW x \in Range(Walk(h, r, Cardinality(Node) + 1)) \ {NULL}
    PROVE  /\ x \in DOMAIN h
           /\ h[x].Next \in Range(Walk(h, r, Cardinality(Node) + 1)) \cup {NULL}
<1> DEFINE N == Cardinality(Node) + 1
           w == Walk(h, r, N)
<1>1. IsFiniteSet(Node) /\ Cardinality(Node) \in Nat /\ N \in Nat /\ N > 0
  BY ServerQueueAssumption, FS_CardinalityType
<1>2. /\ DOMAIN w = 1..N
      /\ \A i \in 2..N : w[i] = NextOf(h, w[i - 1])
  BY <1>1, WalkSteps
<1>3. \A i \in 1..N : w[i] \in DOMAIN h \cup {NULL}
  BY <1>1, WalkIsAlive
<1>4. w[N] # NULL => \A i \in 1..N : w[i] \in DOMAIN h
  BY <1>1, WalkBeforeNode
<1>5. IsFiniteSet(1..N) /\ Cardinality(1..N) = N /\ Cardinality(Node) < N
  <2>1. Cardinality(Node) < N
    BY <1>1
  <2> HIDE DEF N
  <2> QED BY <1>1, <2>1, FS_Interval
<1>6. w \in [1..N -> DOMAIN h \cup {NULL}]
  <2>1. w = [i \in 1..N |-> w[i]]
    <3> HIDE DEF N
    <3> QED BY <1>1, WalkSteps
  <2> HIDE DEF w
  <2> QED BY <1>3, <2>1
<1> HIDE DEF w, N
<1>7. PICK i \in 1..N : w[i] = x
  BY <1>2 DEF Range, w, N
<1>8. x \in DOMAIN h /\ NextOf(h, x) = h[x].Next
  BY <1>3, <1>7 DEF NextOf
<1>9. CASE i < N
  <2>1. i + 1 \in 2..N /\ (i + 1) - 1 = i /\ i + 1 \in 1..N
    BY <1>1, <1>9
  <2>2. w[i + 1] = h[x].Next
    BY <1>2, <1>7, <1>8, <2>1
  <2> QED BY <1>2, <1>8, <2>1, <2>2 DEF Range, w, N
<1>10. CASE i = N
  <2>1. w \in [1..N -> Node]
    BY <1>4, <1>6, <1>7, <1>10 DEF Heap
  <2>2. PICK a, b \in 1..N : a # b /\ w[a] = w[b]
    BY <1>1, <1>5, <2>1, FS_PigeonHole
  <2>3. PICK c \in 1..N, d \in 1..N : c < d /\ w[c] = w[d]
    <3>1. a < b \/ b < a
      BY <1>1, <2>2
    <3> QED BY <2>2, <3>1
  <2> DEFINE J == {j \in 0..N - d : w[c + j] # w[d + j]}
  <2>4. ASSUME NEW m \in J PROVE \E j \in J : j < m
    <3>1. m \in 1..N - d /\ m - 1 \in 0..N - d
      BY <1>1, <2>3
    <3>2. /\ c + m \in 2..N /\ (c + m) - 1 = c + (m - 1)
          /\ d + m \in 2..N /\ (d + m) - 1 = d + (m - 1)
      BY <1>1, <2>3, <3>1
    <3>3. w[c + m] = NextOf(h, w[c + (m - 1)]) /\ w[d + m] = NextOf(h, w[d + (m - 1)])
      BY <1>2, <3>2
    <3>4. w[c + (m - 1)] # w[d + (m - 1)]
      BY <3>3
    <3> QED BY <3>1, <3>4
  <2>5. J = {}
    <3>1. J \subseteq Nat
      BY <1>1
    <3> HIDE DEF J
    <3> QED BY <2>4, <3>1, NoLeast
  <2>6. N - d \in 0..N - d /\ d + (N - d) = N
    BY <1>1
  <2>7. w[c + (N - d)] = x
    BY <1>7, <1>10, <2>5, <2>6
  <2>8. /\ (c + (N - d)) + 1 \in 2..N /\ (c + (N - d)) + 1 \in 1..N
        /\ ((c + (N - d)) + 1) - 1 = c + (N - d)
    BY <1>1, <2>3
  <2>9. w[(c + (N - d)) + 1] = h[x].Next
    BY <1>2, <1>8, <2>7, <2>8
  <2> QED BY <1>2, <1>8, <2>8, <2>9 DEF Range, w, N
<1> QED BY <1>1, <1>9, <1>10
(***************************************************************************)
(* What Release leaves: the live part of the heap, with every node that    *)
(* one of the roots is or that a live node's Next points to.               *)
(***************************************************************************)
LEMMA ReachedIsClosed ==
    ASSUME NEW h, Heap(h), NEW roots, roots \subseteq DOMAIN h \cup {NULL}
    PROVE  /\ Reached(h, roots) \subseteq DOMAIN h
           /\ roots \ {NULL} \subseteq Reached(h, roots)
           /\ \A n \in Reached(h, roots) : h[n].Next \in Reached(h, roots) \cup {NULL}
<1> DEFINE N == Cardinality(Node) + 1
           W(r) == Range(Walk(h, r, N))
           R == Reached(h, roots)
<1>1. N \in Nat /\ N > 0
  BY ServerQueueAssumption, FS_CardinalityType
<1>2. \A x : x \in R <=> x # NULL /\ \E r \in roots : x \in W(r)
  BY DEF Reached
<1>3. ASSUME NEW r \in roots, NEW x \in W(r) \ {NULL}
      PROVE  x \in DOMAIN h /\ h[x].Next \in W(r) \cup {NULL}
  BY <1>3, WalkIsClosed
<1>4. ASSUME NEW r \in roots PROVE r \in W(r)
  <2>1. DOMAIN Walk(h, r, N) = 1..N /\ Walk(h, r, N)[1] = r
    <3> HIDE DEF N
    <3> QED BY <1>1, WalkSteps
  <2>2. 1 \in 1..N
    BY <1>1
  <2> HIDE DEF N
  <2> QED BY <2>1, <2>2 DEF Range
<1> HIDE DEF W, R
<1>5. R \subseteq DOMAIN h /\ \A n \in R : h[n].Next \in R \cup {NULL}
  BY <1>2, <1>3
<1>6. roots \ {NULL} \subseteq R
  BY <1>2, <1>4
<1> QED BY <1>5, <1>6 DEF R

LEMMA ReleasedHeap ==
    ASSUME NEW h, Heap(h), NEW roots, roots \subseteq DOMAIN h \cup {NULL}
    PROVE  LET f == Release(h, roots) IN
           /\ Heap(f)
           /\ DOMAIN f = Reached(h, roots) /\ DOMAIN f \subseteq DOMAIN h
           /\ roots \subseteq DOMAIN f \cup {NULL}
           /\ \A n \in DOMAIN f :
                 /\ f[n].client = h[n].client /\ f[n].Next = h[n].Next
                 /\ f[n].Previous = IF h[n].Previous \in DOMAIN f THEN h[n].Previous ELSE NULL
<1> DEFINE f == Release(h, roots)
           R == Reached(h, roots)
<1>1. /\ R \subseteq DOMAIN h
      /\ roots \ {NULL} \subseteq R
      /\ \A n \in R : h[n].Next \in R \cup {NULL}
  BY ReachedIsClosed
<1>2. f = [n \in R |-> [h[n] EXCEPT !.Previous = IF @ \in R THEN @ ELSE NULL]]
  BY DEF Release
<1> HIDE DEF f, R
<1>3. \A n \in R : h[n] \in ServerQueueNode
  BY <1>1 DEF Heap
<1>4. DOMAIN f = R
  BY <1>2
<1>5. ASSUME NEW n \in R
      PROVE  /\ f[n] \in ServerQueueNode
             /\ f[n].client = h[n].client /\ f[n].Next = h[n].Next
             /\ f[n].Previous = IF h[n].Previous \in R THEN h[n].Previous ELSE NULL
  BY <1>2, <1>3 DEF ServerQueueNode
<1>6. Heap(f)
  BY <1>1, <1>4, <1>5 DEF Heap
<1>7. roots \subseteq DOMAIN f \cup {NULL}
  BY <1>1, <1>4
<1> QED BY <1>1, <1>4, <1>5, <1>6, <1>7 DEF f, R
-----------------------------------------------------------------------------
(***************************************************************************)
(* L is the list of n nodes that begins at r: each node's Next is the next *)
(* one, its Previous the one before.                                       *)
(***************************************************************************)
IsList(h, L, r, n) ==
    /\ n \in Nat /\ L \in [1..n -> DOMAIN h]
    /\ \A i, j \in 1..n : L[i] = L[j] => i = j
    /\ r = IF n = 0 THEN NULL ELSE L[1]
    /\ \A i \in 1..n :
          /\ h[L[i]].Next = IF i < n THEN L[i + 1] ELSE NULL
          /\ h[L[i]].Previous = IF i = 1 THEN NULL ELSE L[i - 1]

\* A walk from the head visits the list, and then NULL.
LEMMA WalkOfList ==
    ASSUME NEW h, Heap(h), NEW L, NEW r, NEW n, IsList(h, L, r, n), NEW m \in Nat
    PROVE  \A i \in 1..m : Walk(h, r, m)[i] = IF i <= n THEN L[i] ELSE NULL
<1> DEFINE w == Walk(h, r, m)
           at(i) == IF i <= n THEN L[i] ELSE NULL
           I == {i \in 1..m : w[i] # at(i)}
<1>1. (m > 0 => w[1] = r) /\ \A i \in 2..m : w[i] = NextOf(h, w[i - 1])
  BY WalkSteps
<1> HIDE DEF w
<1>2. n \in Nat /\ r = at(1)
  BY DEF IsList
<1>3. NULL \notin DOMAIN h
  BY ServerQueueAssumption DEF Heap
<1>4. ASSUME NEW i \in Nat, i > 1 PROVE NextOf(h, at(i - 1)) = at(i)
  <2>1. CASE i - 1 > n
    BY <1>2, <1>3, <1>4, <2>1 DEF NextOf
  <2>2. CASE i - 1 <= n
    <3>1. i - 1 \in 1..n /\ (i - 1) + 1 = i /\ (i - 1 < n <=> i <= n)
      BY <1>2, <1>4, <2>2
    <3>2. h[L[i - 1]].Next = at(i) /\ L[i - 1] \in DOMAIN h
      BY <3>1 DEF IsList
    <3> QED BY <2>2, <3>2 DEF NextOf
  <2> QED BY <1>2, <2>1, <2>2
<1> HIDE DEF at
<1>5. ASSUME NEW k \in I PROVE \E i \in I : i < k
  <2>1. k \in 2..m /\ k - 1 \in 1..m /\ k \in Nat /\ k > 1
    BY <1>1, <1>2
  <2>2. k - 1 \in I /\ k - 1 < k
    BY <1>1, <1>4, <2>1
  <2> HIDE DEF I
  <2> QED BY <2>2
<1>6. I = {}
  <2>1. I \subseteq Nat
    OBVIOUS
  <2> HIDE DEF I
  <2> QED BY <1>5, <2>1, NoLeast
<1>7. \A i \in 1..m : w[i] = at(i)
  BY <1>6
<1> QED BY <1>7 DEF w, at

\* A list is what a walk of its length from its head visits.
LEMMA ListIsWalk ==
    ASSUME NEW h, Heap(h), NEW L, NEW r, NEW n, IsList(h, L, r, n)
    PROVE  Walk(h, r, n) = L
<1>1. n \in Nat /\ L = [i \in 1..n |-> L[i]]
  BY DEF IsList
<1>2. \A i \in 1..n : Walk(h, r, n)[i] = L[i]
  BY <1>1, WalkOfList
<1>3. Walk(h, r, n) = [i \in 1..n |-> Walk(h, r, n)[i]]
  BY <1>1, WalkSteps
<1> QED BY <1>1, <1>2, <1>3

(***************************************************************************)
(* The destruction of unreachable nodes leaves a list alone whose head is  *)
(* a root.                                                                 *)
(***************************************************************************)
LEMMA ReleasedList ==
    ASSUME NEW h, Heap(h), NEW roots, roots \subseteq DOMAIN h \cup {NULL},
           NEW L, NEW r \in roots, NEW n, IsList(h, L, r, n)
    PROVE  IsList(Release(h, roots), L, r, n)
<1> DEFINE f == Release(h, roots)
           I == {i \in 1..n : L[i] \notin DOMAIN f}
<1>1. /\ DOMAIN f \subseteq DOMAIN h
      /\ roots \subseteq DOMAIN f \cup {NULL}
      /\ Heap(f)
      /\ \A x \in DOMAIN f :
            /\ f[x].Next = h[x].Next
            /\ f[x].Previous = IF h[x].Previous \in DOMAIN f THEN h[x].Previous ELSE NULL
  BY ReleasedHeap
<1> HIDE DEF f
<1>2. n \in Nat /\ NULL \notin DOMAIN h /\ \A i \in 1..n : L[i] \in DOMAIN h
  BY ServerQueueAssumption DEF Heap, IsList
<1>3. ASSUME NEW k \in I PROVE \E i \in I : i < k
  <2>1. k # 1
    BY <1>1, <1>2 DEF IsList
  <2>2. k \in 1..n /\ k - 1 \in 1..n /\ k - 1 < n /\ (k - 1) + 1 = k
    BY <1>2, <2>1
  <2>3. h[L[k - 1]].Next = L[k] /\ L[k] # NULL
    BY <1>2, <2>2 DEF IsList
  <2>4. L[k - 1] \notin DOMAIN f
    BY <1>1, <2>3 DEF Heap
  <2>5. k - 1 \in I /\ k - 1 < k
    BY <2>2, <2>4
  <2> HIDE DEF I
  <2> QED BY <2>5
<1>4. I = {}
  <2>1. I \subseteq Nat
    OBVIOUS
  <2> HIDE DEF I
  <2> QED BY <1>3, <2>1, NoLeast
<1>5. \A i \in 1..n : L[i] \in DOMAIN f
  BY <1>4
<1>6. L \in [1..n -> DOMAIN f]
  BY <1>5 DEF IsList
<1>7. ASSUME NEW i \in 1..n
      PROVE  f[L[i]].Previous = IF i = 1 THEN NULL ELSE L[i - 1]
  <2>1. CASE i = 1
    BY <1>1, <1>5, <2>1 DEF IsList
  <2>2. CASE i # 1
    <3>1. i - 1 \in 1..n
      BY <1>2, <2>2
    <3> QED BY <1>1, <1>5, <2>2, <3>1 DEF IsList
  <2> QED BY <2>1, <2>2
<1>8. \A i \in 1..n : f[L[i]].Next = IF i < n THEN L[i + 1] ELSE NULL
  BY <1>1, <1>5 DEF IsList
<1> QED BY <1>6, <1>7, <1>8 DEF IsList, f
-----------------------------------------------------------------------------
(***************************************************************************)
(* The inductive invariant: the list is one, and the main thread's node is *)
(* alive, and is the head if it is still in the list.  The last is what    *)
(* saves a walk that starts at a copy of the head.                         *)
(***************************************************************************)
QueueInv ==
    /\ SizeInv
    /\ Heap(heap)
    /\ IsList(heap, ListNodes, mClientQueue, mSize)
    /\ mainNode \in DOMAIN heap \cup {NULL}
    /\ mainNode \in Range(ListNodes) => mainNode = mClientQueue
    /\ opened \in Seq(Client)
    /\ mainPc \in MainPc
    /\ OnlyStaleHeadCrashes

(***************************************************************************)
(* After a step that makes a heap of which Release is then taken, with a   *)
(* list L in it, L is what ListNodes has.                                  *)
(***************************************************************************)
ListBecomes(h, L) ==
    /\ Heap(heap') /\ IsList(heap', ListNodes', mClientQueue', mSize')
    /\ ListNodes' = L
    /\ mainNode' \in DOMAIN heap' \cup {NULL}
    /\ ListClients' = [i \in 1..mSize' |-> h[L[i]].client]

LEMMA NewList ==
    ASSUME NEW h, Heap(h), NEW roots, roots \subseteq DOMAIN h \cup {NULL},
           heap' = Release(h, roots), mClientQueue' \in roots, mainNode' \in roots \cup {NULL},
           NEW L, IsList(h, L, mClientQueue', mSize')
    PROVE  ListBecomes(h, L)
<1>1. /\ Heap(heap')
      /\ roots \subseteq DOMAIN heap' \cup {NULL}
      /\ \A n \in DOMAIN heap' : heap'[n].client = h[n].client
  BY ReleasedHeap
<1>2. IsList(heap', L, mClientQueue', mSize')
  BY ReleasedList
<1>3. ListNodes' = L
  BY <1>1, <1>2, ListIsWalk DEF ListNodes
<1>4. \A i \in 1..mSize' : L[i] \in DOMAIN heap'
  BY <1>2 DEF IsList
<1>5. ListClients' = [i \in 1..mSize' |-> heap'[L[i]].client]
  BY <1>3 DEF ListClients
<1>6. ListClients' = [i \in 1..mSize' |-> h[L[i]].client]
  BY <1>1, <1>4, <1>5
<1> QED BY <1>1, <1>2, <1>3, <1>6 DEF ListBecomes

\* The clients of the list, in order.
LEMMA Listed ==
    ASSUME QueueInv
    PROVE  /\ mSize \in Nat /\ ListNodes \in [1..mSize -> DOMAIN heap]
           /\ \A i, j \in 1..mSize : ListNodes[i] = ListNodes[j] => i = j
           /\ mClientQueue = IF mSize = 0 THEN NULL ELSE ListNodes[1]
           /\ \A i \in 1..mSize :
                 /\ heap[ListNodes[i]] \in ServerQueueNode
                 /\ heap[ListNodes[i]].Next = IF i < mSize THEN ListNodes[i + 1] ELSE NULL
                 /\ heap[ListNodes[i]].Previous = IF i = 1 THEN NULL ELSE ListNodes[i - 1]
           /\ ListClients \in Seq(Client) /\ Len(ListClients) = mSize
           /\ \A i \in 1..mSize : ListClients[i] = heap[ListNodes[i]].client
           /\ NULL \notin DOMAIN heap
<1>1. /\ mSize \in Nat /\ ListNodes \in [1..mSize -> DOMAIN heap]
      /\ \A i, j \in 1..mSize : ListNodes[i] = ListNodes[j] => i = j
      /\ mClientQueue = IF mSize = 0 THEN NULL ELSE ListNodes[1]
      /\ \A i \in 1..mSize :
            /\ heap[ListNodes[i]].Next = IF i < mSize THEN ListNodes[i + 1] ELSE NULL
            /\ heap[ListNodes[i]].Previous = IF i = 1 THEN NULL ELSE ListNodes[i - 1]
  BY DEF QueueInv, IsList
<1>2. \A i \in 1..mSize : heap[ListNodes[i]] \in ServerQueueNode
  BY <1>1 DEF QueueInv, Heap
<1>3. \A i \in 1..mSize : heap[ListNodes[i]].client \in Client
  BY <1>2 DEF ServerQueueNode
<1>4. /\ ListClients \in [1..mSize -> Client]
      /\ \A i \in 1..mSize : ListClients[i] = heap[ListNodes[i]].client
  BY <1>3 DEF ListClients
<1>5. ListClients \in Seq(Client) /\ Len(ListClients) = mSize
  BY <1>1, <1>4
<1>6. NULL \notin DOMAIN heap
  BY ServerQueueAssumption DEF QueueInv, Heap
<1> QED BY <1>1, <1>2, <1>4, <1>5, <1>6

LEMMA QueueInit == Init => QueueInv /\ Waiting = << >>
<1> SUFFICES ASSUME Init PROVE QueueInv /\ Waiting = << >>
  OBVIOUS
<1>1. SizeInv
  BY InitSize
<1>2. DOMAIN heap = {} /\ mSize = 0 /\ mClientQueue = NULL /\ mainNode = NULL
  BY DEF Init
<1>3. Heap(heap)
  BY <1>2 DEF Heap
<1>4. DOMAIN ListNodes = {} /\ ListNodes = [i \in 1..0 |-> ListNodes[i]]
  BY <1>2, WalkSteps DEF ListNodes
<1>5. IsList(heap, ListNodes, mClientQueue, mSize)
  BY <1>2, <1>4 DEF IsList
<1>6. mainNode \notin Range(ListNodes)
  BY <1>4 DEF Range
<1>7. Waiting = << >>
  BY <1>2 DEF Init, Waiting, ListClients
<1>8. opened \in Seq(Client) /\ mainPc \in MainPc
  BY DEF Init, MainPc
<1> QED BY <1>1, <1>2, <1>3, <1>5, <1>6, <1>7, <1>8 DEF QueueInv, OnlyStaleHeadCrashes

\* A queue is the function from its places to its elements.
LEMMA SeqIsFunction ==
    ASSUME NEW S, NEW s \in Seq(S)
    PROVE  s = [i \in 1..Len(s) |-> s[i]]
OBVIOUS
-----------------------------------------------------------------------------
(***************************************************************************)
(* AddClient puts the client at the end of the list.                       *)
(***************************************************************************)
LEMMA FreshIsFresh ==
    ASSUME QueueInv, Cardinality(DOMAIN heap) < Cardinality(Node)
    PROVE  FreshNode \in Node \ DOMAIN heap
<1>1. DOMAIN heap \subseteq Node
  BY DEF QueueInv, Heap
<1>2. \E n \in Node : n \notin DOMAIN heap
  <2> SUFFICES ASSUME \A n \in Node : n \in DOMAIN heap PROVE FALSE
    OBVIOUS
  <2>1. DOMAIN heap = Node
    BY <1>1
  <2>2. Cardinality(Node) \in Nat
    BY ServerQueueAssumption, FS_CardinalityType
  <2> QED BY <2>1, <2>2
<1> QED BY <1>2 DEF FreshNode

LEMMA Added ==
    ASSUME QueueInv, NEW c \in Client, AddClient(c)
    PROVE  QueueInv' /\ ListClients' = Append(ListClients, c) /\ opened' = opened
<1> DEFINE f == FreshNode
           L == [i \in 1..mSize + 1 |-> IF i = mSize + 1 THEN f ELSE ListNodes[i]]
<1>1. f \in Node /\ f \notin DOMAIN heap /\ f # NULL
  BY FreshIsFresh, ServerQueueAssumption DEF AddClient
<1>2. /\ mSize \in Nat /\ mSize' = mSize + 1 /\ mLock' = c /\ opened' = opened
      /\ mainNode' = mainNode /\ mainPc' = mainPc
  BY Listed DEF AddClient, mainVars
<1> HIDE DEF f
<1>3. PICK h : /\ Heap(h) /\ DOMAIN h = DOMAIN heap \cup {f}
               /\ heap' = Release(h, {mClientQueue', mainNode})
               /\ IsList(h, L, mClientQueue', mSize')
               /\ h[f].client = c
               /\ \A n \in DOMAIN heap : h[n].client = heap[n].client
  <2>1. CASE AddToEmpty(c)
    <3> DEFINE new == [client |-> c, Next |-> NULL, Previous |-> NULL]
               h == [n \in DOMAIN heap \cup {f} |-> IF n = f THEN new ELSE heap[n]]
    <3>1. mSize = 0 /\ mClientQueue' = f /\ heap' = Release(h, {mClientQueue', mainNode})
      BY <2>1 DEF AddToEmpty, f
    <3>2. new \in ServerQueueNode
      BY DEF ServerQueueNode
    <3>3. DOMAIN h = DOMAIN heap \cup {f} /\ h[f] = new /\ \A n \in DOMAIN heap : h[n] = heap[n]
      BY <1>1
    <3>4. new.Next = NULL /\ new.Previous = NULL /\ new.client = c
      OBVIOUS
    <3> HIDE DEF h, new
    <3>5. Heap(h)
      BY <1>1, <3>2, <3>3, <3>4 DEF QueueInv, Heap
    <3>6. IsList(h, L, mClientQueue', mSize')
      BY <1>1, <1>2, <3>1, <3>3, <3>4 DEF IsList
    <3> QED BY <3>1, <3>3, <3>4, <3>5, <3>6
  <2>2. CASE AddAtTail(c)
    <3> DEFINE tail == ListNodes[mSize]
               new == [client |-> c, Next |-> NULL, Previous |-> tail]
               last == [heap[tail] EXCEPT !.Next = f]
               h == [n \in DOMAIN heap \cup {f} |->
                        CASE n = f    -> new
                          [] n = tail -> last
                          [] OTHER    -> heap[n]]
    <3>1. /\ mSize > 0 /\ mClientQueue' = mClientQueue
          /\ heap' = Release(h, {mClientQueue', mainNode})
      BY <2>2 DEF AddAtTail, ListNodes, f
    <3>2. tail \in DOMAIN heap /\ heap[tail] \in ServerQueueNode /\ tail # f /\ tail \in Node
      BY <1>1, <1>2, <3>1, Listed DEF QueueInv, Heap
    <3>3. /\ new \in ServerQueueNode /\ new.Next = NULL /\ new.Previous = tail /\ new.client = c
          /\ last \in ServerQueueNode /\ last.Next = f
          /\ last.Previous = heap[tail].Previous /\ last.client = heap[tail].client
      BY <1>1, <3>2 DEF ServerQueueNode
    <3>4. /\ DOMAIN h = DOMAIN heap \cup {f} /\ h[f] = new /\ h[tail] = last
          /\ \A n \in DOMAIN heap \ {tail} : h[n] = heap[n]
      BY <1>1, <3>2
    <3> HIDE DEF h, new, last
    <3>5. Heap(h)
      BY <1>1, <3>2, <3>3, <3>4 DEF QueueInv, Heap
    <3>6. /\ \A i \in 1..mSize : ListNodes[i] \in DOMAIN heap
          /\ \A i, j \in 1..mSize : ListNodes[i] = ListNodes[j] => i = j
      BY Listed
    <3>7. ASSUME NEW i \in 1..mSize + 1
          PROVE  /\ h[L[i]].Next = IF i < mSize + 1 THEN L[i + 1] ELSE NULL
                 /\ h[L[i]].Previous = IF i = 1 THEN NULL ELSE L[i - 1]
      <4>1. CASE i = mSize + 1
        BY <1>2, <3>1, <3>3, <3>4, <4>1
      <4>2. CASE i = mSize
        <5>1. L[i] = tail /\ L[i + 1] = f /\ (i # 1 => L[i - 1] = ListNodes[i - 1])
          BY <1>2, <3>1, <4>2
        <5>2. heap[tail].Previous = IF i = 1 THEN NULL ELSE ListNodes[i - 1]
          BY <1>2, <3>1, <4>2, Listed
        <5> QED BY <1>2, <3>3, <3>4, <4>2, <5>1, <5>2
      <4>3. CASE i < mSize
        <5>1. /\ i \in 1..mSize /\ mSize \in 1..mSize
              /\ L[i] = ListNodes[i] /\ L[i + 1] = ListNodes[i + 1]
              /\ i # 1 => L[i - 1] = ListNodes[i - 1]
          BY <1>2, <4>3
        <5>2. L[i] \in DOMAIN heap /\ L[i] # tail
          BY <1>2, <3>6, <4>3, <5>1
        <5>3. h[L[i]] = heap[ListNodes[i]]
          BY <3>4, <5>1, <5>2
        <5>4. /\ heap[ListNodes[i]].Next = IF i < mSize THEN ListNodes[i + 1] ELSE NULL
              /\ heap[ListNodes[i]].Previous = IF i = 1 THEN NULL ELSE ListNodes[i - 1]
          BY <5>1, Listed
        <5> QED BY <1>2, <4>3, <5>1, <5>3, <5>4
      <4> QED BY <1>2, <4>1, <4>2, <4>3
    <3>8. L \in [1..mSize + 1 -> DOMAIN h]
      BY <1>2, <3>4, <3>6
    <3>9. \A i, j \in 1..mSize + 1 : L[i] = L[j] => i = j
      BY <1>1, <1>2, <3>6
    <3>10. mClientQueue' = L[1]
      BY <1>2, <3>1, Listed
    <3> HIDE DEF L
    <3>11. IsList(h, L, mClientQueue', mSize')
      BY <1>2, <3>1, <3>7, <3>8, <3>9, <3>10 DEF IsList
    <3> QED BY <3>1, <3>3, <3>4, <3>5, <3>11
  <2> QED BY <2>1, <2>2 DEF AddClient
<1> DEFINE roots == {mClientQueue', mainNode}
<1>4. roots \subseteq DOMAIN h \cup {NULL} /\ mClientQueue' \in roots /\ mainNode' \in roots
  BY <1>2, <1>3 DEF QueueInv, IsList
<1>5. ListBecomes(h, L)
  <2>1. heap' = Release(h, roots)
    BY <1>3
  <2> HIDE DEF L, roots
  <2> QED BY <1>3, <1>4, <2>1, NewList
<1>6. \A i \in 1..mSize : L[i] = ListNodes[i] /\ ListNodes[i] \in DOMAIN heap
  BY <1>2, Listed
<1>7. L[mSize + 1] = f /\ DOMAIN L = 1..mSize + 1
  BY <1>2
<1> HIDE DEF L
<1>8. ListClients' = Append(ListClients, c)
  <2>1. ASSUME NEW i \in 1..mSize + 1
        PROVE  ListClients'[i] = Append(ListClients, c)[i]
    BY <1>2, <1>3, <1>5, <1>6, <1>7, <2>1, Listed, SMTT(30) DEF ListBecomes
  <2>2. ListClients' = [i \in 1..mSize + 1 |-> ListClients'[i]]
    BY <1>2, <1>5 DEF ListBecomes
  <2>3. Append(ListClients, c) = [i \in 1..mSize + 1 |-> Append(ListClients, c)[i]]
    <3>1. ListClients \in Seq(Client) /\ Len(ListClients) = mSize
      BY Listed
    <3>2. Append(ListClients, c) \in Seq(Client) /\ Len(Append(ListClients, c)) = mSize + 1
      BY <3>1
    <3> QED BY <3>2, SeqIsFunction
  <2> QED BY <2>1, <2>2, <2>3
<1>9. mainNode \in Range(ListNodes') => mainNode \in Range(ListNodes)
  <2>1. mainNode # f
    BY <1>1 DEF QueueInv
  <2>2. DOMAIN ListNodes = 1..mSize
    BY Listed
  <2> QED BY <1>2, <1>5, <1>6, <1>7, <2>1, <2>2 DEF Range, ListBecomes
<1>10. mainNode \in Range(ListNodes) => mClientQueue' = mClientQueue
  <2>1. mSize = 0 => Range(ListNodes) = {}
    BY Listed DEF Range
  <2> QED BY <2>1 DEF AddClient, AddToEmpty, AddAtTail
<1>11. SizeInv'
  BY AddClientSize DEF QueueInv
<1> QED BY <1>2, <1>5, <1>8, <1>9, <1>10, <1>11 DEF QueueInv, OnlyStaleHeadCrashes, ListBecomes
-----------------------------------------------------------------------------
(***************************************************************************)
(* TryCreateRoomOrNullPtr empties the list, which is exactly a group, or   *)
(* leaves it alone.                                                        *)
(***************************************************************************)
LEMMA GroupLeft ==
    ASSUME QueueInv, mLock # NULL, CreateRoom, mLock' = NULL, UNCHANGED mainVars
    PROVE  /\ QueueInv' /\ mSize = MAX_ROOM_PLAYER
           /\ ListClients' = << >> /\ opened' = ListClients
<1> DEFINE M == MAX_ROOM_PLAYER
           walk == Walk(heap, mClientQueue, M + 1)
           h == [n \in DOMAIN heap |->
                   IF n = NULL THEN [heap[n] EXCEPT !.Previous = NULL] ELSE heap[n]]
           L == [i \in 1..0 |-> NULL]
           roots == {NULL, mainNode}
<1>1. M \in Nat /\ mSize = M /\ mSize' = 0 /\ mainNode' = mainNode /\ mainPc' = mainPc
  BY ServerQueueAssumption DEF QueueInv, SizeInv, CreateRoom, mainVars
<1>2. SizeInv'
  BY <1>1, ServerQueueAssumption DEF QueueInv, SizeInv, QueueBelowRoomSize
<1>3. \A i \in 1..M + 1 : walk[i] = IF i <= mSize THEN ListNodes[i] ELSE NULL
  <2>1. M + 1 \in Nat
    BY <1>1
  <2> HIDE DEF M
  <2> QED BY <2>1, WalkOfList DEF QueueInv
<1>4. walk[M + 1] = NULL /\ \A i \in 1..M : walk[i] = ListNodes[i]
  BY <1>1, <1>3
<1>5. /\ opened' = [i \in 1..M |-> heap[walk[i]].client]
      /\ mClientQueue' = walk[M + 1]
      /\ walk[M + 1] = NULL => heap' = Release(h, roots)
  BY DEF CreateRoom
<1> HIDE DEF walk
<1>6. opened' = ListClients
  BY <1>1, <1>4, <1>5 DEF ListClients
<1>7. opened' \in Seq(Client)
  BY <1>6, Listed
<1>8. h = [n \in DOMAIN heap |-> heap[n]]
  BY Listed
<1>9. DOMAIN h = DOMAIN heap /\ \A n \in DOMAIN heap : h[n] = heap[n]
  BY <1>8
<1> HIDE DEF h
<1>10. Heap(h)
  BY <1>9 DEF QueueInv, Heap
<1>11. /\ roots \subseteq DOMAIN h \cup {NULL} /\ mClientQueue' \in roots
       /\ mainNode' \in roots \cup {NULL} /\ heap' = Release(h, roots)
  BY <1>1, <1>4, <1>5, <1>9 DEF QueueInv
<1>12. IsList(h, L, mClientQueue', mSize')
  BY <1>1, <1>4, <1>5 DEF IsList
<1>13. ListBecomes(h, L)
  <2> HIDE DEF L, roots
  <2> QED BY <1>10, <1>11, <1>12, NewList
<1>14. ListClients' = << >> /\ DOMAIN ListNodes' = {}
  BY <1>1, <1>13 DEF ListBecomes
<1>15. mainNode' \notin Range(ListNodes)'
  BY <1>14 DEF Range
<1>16. (mainPc \in MainPc)'
  BY <1>1 DEF QueueInv
<1> QED BY <1>1, <1>2, <1>6, <1>7, <1>13, <1>14, <1>15, <1>16
        DEF QueueInv, ListBecomes, OnlyStaleHeadCrashes

LEMMA Unlocked ==
    ASSUME QueueInv, TryCreateRoomOrNullPtr
    PROVE  /\ QueueInv' /\ mLock # NULL /\ mLock' = NULL /\ mSize > 0
           /\ \/ /\ mSize = MAX_ROOM_PLAYER
                 /\ ListClients' = << >> /\ opened' = ListClients
              \/ /\ mSize < MAX_ROOM_PLAYER
                 /\ ListClients' = ListClients /\ opened' = opened
<1>1. mLock # NULL /\ mLock' = NULL /\ UNCHANGED mainVars /\ mSize > 0
  BY DEF TryCreateRoomOrNullPtr, QueueInv, SizeInv
<1>2. CASE CreateRoom
  BY <1>1, <1>2, GroupLeft
<1>3. CASE NoRoom
  <2>1. /\ SizeInv'
    BY TryCreateRoomSize DEF QueueInv
  <2>2. /\ heap' = heap /\ mClientQueue' = mClientQueue /\ mSize' = mSize /\ opened' = opened
        /\ mainNode' = mainNode /\ mainPc' = mainPc /\ mSize < MAX_ROOM_PLAYER
    BY <1>1, <1>3 DEF NoRoom, queueVars, mainVars
  <2>3. ListNodes' = ListNodes /\ ListClients' = ListClients
    BY <2>2 DEF ListNodes, ListClients
  <2>4. QueueInv'
    BY <2>1, <2>2, <2>3 DEF QueueInv, OnlyStaleHeadCrashes
  <2> QED BY <1>1, <2>2, <2>3, <2>4
<1> QED BY <1>2, <1>3 DEF TryCreateRoomOrNullPtr
-----------------------------------------------------------------------------
(***************************************************************************)
(* The main thread changes what is alive, not the list; and it crashes     *)
(* only from a node that has left.                                         *)
(***************************************************************************)
LEMMA Returned ==
    ASSUME QueueInv, MainReturns
    PROVE  QueueInv' /\ ListClients' = ListClients
<1> DEFINE roots == {mClientQueue}
<1>1. /\ mainPc' = "idle" /\ mainNode' = NULL /\ heap' = Release(heap, roots)
      /\ mClientQueue' = mClientQueue /\ mSize' = mSize /\ mLock' = mLock /\ opened' = opened
  BY DEF MainReturns
<1>2. roots \subseteq DOMAIN heap \cup {NULL}
  BY Listed
<1>3. ListBecomes(heap, ListNodes)
  <2>1. Heap(heap) /\ IsList(heap, ListNodes, mClientQueue', mSize')
    BY <1>1 DEF QueueInv
  <2>2. mClientQueue' \in roots /\ mainNode' \in roots \cup {NULL}
    BY <1>1
  <2> DEFINE L == ListNodes
             h == heap
  <2> HIDE DEF roots, L, h
  <2>3. ListBecomes(h, L)
    <3>1. /\ Heap(h) /\ IsList(h, L, mClientQueue', mSize')
          /\ roots \subseteq DOMAIN h \cup {NULL} /\ heap' = Release(h, roots)
      BY <1>1, <1>2, <2>1 DEF L, h
    <3> QED BY <2>2, <3>1, NewList
  <2> QED BY <2>3 DEF L, h
<1>4. ListNodes' = ListNodes /\ ListClients' = ListClients
  BY <1>1, <1>3 DEF ListBecomes, ListClients
<1>5. mainNode' \notin Range(ListNodes)'
  BY <1>1, <1>4, Listed DEF Range
<1>6. SizeInv'
  BY <1>1 DEF QueueInv, SizeInv, QueueBelowRoomSize
<1> QED BY <1>1, <1>3, <1>4, <1>5, <1>6 DEF QueueInv, ListBecomes, OnlyStaleHeadCrashes, MainPc

LEMMA Looked ==
    ASSUME QueueInv, ReadHead \/ ReadSize \/ DereferenceNull
    PROVE  QueueInv' /\ ListClients' = ListClients
<1>1. /\ heap' = heap /\ mClientQueue' = mClientQueue /\ mSize' = mSize
      /\ mLock' = mLock /\ opened' = opened
  BY DEF ReadHead, ReadSize, DereferenceNull, queueVars
<1>2. ListNodes' = ListNodes /\ ListClients' = ListClients
  BY <1>1 DEF ListNodes, ListClients
<1>3. SizeInv'
  BY <1>1 DEF QueueInv, SizeInv, QueueBelowRoomSize
<1>4. /\ mainNode' \in DOMAIN heap \cup {NULL}
      /\ mainNode' \in Range(ListNodes) => mainNode' = mClientQueue
      /\ mainPc' \in MainPc
  BY Listed DEF QueueInv, ReadHead, ReadSize, DereferenceNull, MainPc
<1>5. mainPc' = "crashed" => mainNode' \notin Range(ListNodes)
  <2> SUFFICES ASSUME mainPc' = "crashed", mainNode' \in Range(ListNodes) PROVE FALSE
    OBVIOUS
  <2>1. DereferenceNull /\ mainNode' = mainNode
    BY DEF ReadHead, ReadSize, DereferenceNull
  <2>2. mainNode = mClientQueue
    BY <2>1 DEF QueueInv
  <2>3. NULL \in Range(ListNodes)
    BY <2>1, <2>2 DEF DereferenceNull, ListNodes
  <2> QED BY <2>3, Listed DEF Range
<1> QED BY <1>1, <1>2, <1>3, <1>4, <1>5 DEF QueueInv, OnlyStaleHeadCrashes
-----------------------------------------------------------------------------
(***************************************************************************)
(* RemoveClient takes the first node of the client out of the list.        *)
(***************************************************************************)
Without(k) == [i \in 1..mSize - 1 |-> IF i < k THEN ListNodes[i] ELSE ListNodes[i + 1]]

\* The list once the k-th node's neighbours know each other.
LEMMA Unlinked ==
    ASSUME QueueInv, NEW k \in 1..mSize, NEW h, DOMAIN h = DOMAIN heap,
           \A i \in 1..mSize : i # k =>
               /\ h[ListNodes[i]].Next = IF i = k - 1 THEN heap[ListNodes[k]].Next
                                                      ELSE heap[ListNodes[i]].Next
               /\ h[ListNodes[i]].Previous = IF i = k + 1 THEN heap[ListNodes[k]].Previous
                                                          ELSE heap[ListNodes[i]].Previous
    PROVE  /\ Without(k) \in [1..mSize - 1 -> DOMAIN h]
           /\ \A i, j \in 1..mSize - 1 : Without(k)[i] = Without(k)[j] => i = j
           /\ \A i \in 1..mSize - 1 :
                 /\ h[Without(k)[i]].Next = IF i < mSize - 1 THEN Without(k)[i + 1] ELSE NULL
                 /\ h[Without(k)[i]].Previous = IF i = 1 THEN NULL ELSE Without(k)[i - 1]
<1> DEFINE L == Without(k)
           N == ListNodes
<1>1. /\ mSize \in Nat /\ \A i \in 1..mSize : N[i] \in DOMAIN heap
      /\ \A i, j \in 1..mSize : N[i] = N[j] => i = j
      /\ \A i \in 1..mSize :
            /\ heap[N[i]].Next = IF i < mSize THEN N[i + 1] ELSE NULL
            /\ heap[N[i]].Previous = IF i = 1 THEN NULL ELSE N[i - 1]
  BY Listed
<1>2. \A i \in 1..mSize - 1 : L[i] = IF i < k THEN N[i] ELSE N[i + 1]
  BY DEF Without
<1>3. L \in [1..mSize - 1 -> DOMAIN h]
  BY <1>1 DEF Without
<1> HIDE DEF N, L
<1>4. \A i, j \in 1..mSize - 1 : L[i] = L[j] => i = j
  BY <1>1, <1>2
<1>5. \A i \in 1..mSize : i # k =>
         /\ h[N[i]].Next = IF i = k - 1 THEN heap[N[k]].Next ELSE heap[N[i]].Next
         /\ h[N[i]].Previous = IF i = k + 1 THEN heap[N[k]].Previous ELSE heap[N[i]].Previous
  BY DEF N
<1>6. ASSUME NEW i \in 1..mSize - 1
      PROVE  h[L[i]].Next = IF i < mSize - 1 THEN L[i + 1] ELSE NULL
  <2>1. CASE i < k - 1
    <3>1. L[i] = N[i] /\ L[i + 1] = N[i + 1] /\ i < mSize - 1 /\ i \in 1..mSize
      BY <1>1, <1>2, <2>1
    <3> QED BY <1>1, <1>5, <2>1, <3>1
  <2>2. CASE i = k - 1
    <3>1. L[i] = N[i] /\ i \in 1..mSize /\ k = i + 1
      BY <1>1, <1>2, <2>2
    <3>2. h[L[i]].Next = heap[N[k]].Next
      BY <1>5, <2>2, <3>1
    <3>3. i < mSize - 1 => L[i + 1] = N[k + 1] /\ k < mSize
      BY <1>1, <1>2, <2>2, <3>1
    <3>4. ~(i < mSize - 1) => ~(k < mSize)
      BY <1>1, <2>2
    <3> QED BY <1>1, <3>2, <3>3, <3>4
  <2>3. CASE i > k - 1
    <3>1. /\ L[i] = N[i + 1] /\ i + 1 \in 1..mSize /\ i + 1 # k /\ i + 1 # k - 1
          /\ i < mSize - 1 => L[i + 1] = N[(i + 1) + 1] /\ i + 1 < mSize
          /\ ~(i < mSize - 1) => ~(i + 1 < mSize)
      BY <1>1, <1>2, <2>3
    <3> QED BY <1>1, <1>5, <3>1
  <2> QED BY <1>1, <2>1, <2>2, <2>3
<1>7. ASSUME NEW i \in 1..mSize - 1
      PROVE  h[L[i]].Previous = IF i = 1 THEN NULL ELSE L[i - 1]
  <2>1. CASE i < k
    <3>1. /\ L[i] = N[i] /\ i \in 1..mSize /\ i # k /\ i # k + 1
          /\ i # 1 => L[i - 1] = N[i - 1]
      BY <1>1, <1>2, <2>1
    <3> QED BY <1>1, <1>5, <3>1
  <2>2. CASE i = k
    <3>1. /\ L[i] = N[k + 1] /\ k + 1 \in 1..mSize /\ k + 1 # k
          /\ k # 1 => L[i - 1] = N[k - 1]
      BY <1>1, <1>2, <2>2
    <3>2. h[L[i]].Previous = heap[N[k]].Previous
      BY <1>5, <3>1
    <3> QED BY <1>1, <2>2, <3>1, <3>2
  <2>3. CASE i > k
    <3>1. /\ L[i] = N[i + 1] /\ i + 1 \in 1..mSize /\ i + 1 # k /\ i + 1 # k + 1 /\ i # 1
          /\ L[i - 1] = N[(i + 1) - 1] /\ i + 1 # 1
      BY <1>1, <1>2, <2>3
    <3> QED BY <1>1, <1>5, <3>1
  <2> QED BY <1>1, <2>1, <2>2, <2>3
<1> QED BY <1>3, <1>4, <1>6, <1>7 DEF L

LEMMA NodeRemoved ==
    ASSUME QueueInv, NEW c \in Client, RemoveClient(c),
           NEW k \in 1..mSize, IF ListNodes[k] = mClientQueue THEN UnlinkFirst(ListNodes[k])
                                                           ELSE UnlinkInner(ListNodes[k])
    PROVE  \E h : /\ Heap(h) /\ DOMAIN h = DOMAIN heap
                  /\ heap' = Release(h, {mClientQueue', mainNode})
                  /\ IsList(h, Without(k), mClientQueue', mSize')
                  /\ \A n \in DOMAIN heap : h[n].client = heap[n].client
<1> DEFINE N == ListNodes
           n == N[k]
           succ == heap[n].Next
           pred == heap[n].Previous
<1>1. /\ mSize \in Nat /\ \A i \in 1..mSize : N[i] \in DOMAIN heap
      /\ \A i, j \in 1..mSize : N[i] = N[j] => i = j
      /\ mClientQueue = IF mSize = 0 THEN NULL ELSE N[1]
      /\ \A i \in 1..mSize :
            /\ heap[N[i]].Next = IF i < mSize THEN N[i + 1] ELSE NULL
            /\ heap[N[i]].Previous = IF i = 1 THEN NULL ELSE N[i - 1]
      /\ NULL \notin DOMAIN heap
  BY Listed
<1>2. /\ DOMAIN heap \subseteq Node
      /\ \A m \in DOMAIN heap : heap[m] \in ServerQueueNode /\ heap[m].Next \in DOMAIN heap \cup {NULL}
  BY DEF QueueInv, Heap
<1>3. mSize' = mSize - 1 /\ mSize > 0 /\ mSize - 1 \in Nat
  BY <1>1 DEF RemoveClient
<1>4. n = mClientQueue <=> k = 1
  BY <1>1, <1>3
<1>5. succ = (IF k < mSize THEN N[k + 1] ELSE NULL) /\ pred = (IF k = 1 THEN NULL ELSE N[k - 1])
  BY <1>1
<1>6. /\ \A i \in 1..mSize : N[i] = succ <=> i = k + 1
      /\ \A i \in 1..mSize : N[i] = pred <=> i = k - 1
      /\ succ \in DOMAIN heap \cup {NULL} /\ pred \in DOMAIN heap \cup {NULL}
  BY <1>1, <1>5
<1>7. CASE k = 1
  <2> DEFINE h == [m \in DOMAIN heap |-> IF m = succ THEN [heap[m] EXCEPT !.Previous = NULL]
                                                   ELSE heap[m]]
  <2>1. mClientQueue' = succ /\ heap' = Release(h, {mClientQueue', mainNode})
    BY <1>4, <1>7 DEF UnlinkFirst
  <2>2. DOMAIN h = DOMAIN heap
    OBVIOUS
  <2>3. ASSUME NEW m \in DOMAIN heap
        PROVE  /\ h[m] \in ServerQueueNode /\ h[m].Next = heap[m].Next
               /\ h[m].client = heap[m].client
               /\ h[m].Previous = IF m = succ THEN NULL ELSE heap[m].Previous
    BY <1>2 DEF ServerQueueNode
  <2> HIDE DEF h
  <2>4. Heap(h)
    BY <1>2, <2>2, <2>3 DEF Heap
  <2>5. \A i \in 1..mSize : i # k =>
            /\ h[N[i]].Next = IF i = k - 1 THEN heap[N[k]].Next ELSE heap[N[i]].Next
            /\ h[N[i]].Previous = IF i = k + 1 THEN heap[N[k]].Previous ELSE heap[N[i]].Previous
    BY <1>1, <1>5, <1>6, <1>7, <2>3
  <2>6. succ = IF mSize - 1 = 0 THEN NULL ELSE Without(k)[1]
    BY <1>1, <1>3, <1>5, <1>7 DEF Without
  <2>7. IsList(h, Without(k), mClientQueue', mSize')
    BY <1>3, <2>1, <2>2, <2>5, <2>6, Unlinked DEF IsList
  <2> QED BY <2>1, <2>2, <2>3, <2>4, <2>7
<1>8. CASE k # 1
  <2> DEFINE h == [m \in DOMAIN heap |->
                      CASE m = pred -> [heap[m] EXCEPT !.Next = succ]
                        [] m = succ -> [heap[m] EXCEPT !.Previous = pred]
                        [] OTHER    -> heap[m]]
  <2>1. mClientQueue' = mClientQueue /\ heap' = Release(h, {mClientQueue', mainNode})
    BY <1>4, <1>8 DEF UnlinkInner
  <2>2. DOMAIN h = DOMAIN heap /\ pred # succ /\ pred \in DOMAIN heap
    BY <1>1, <1>5, <1>6, <1>8
  <2>3. pred \in Node \cup {NULL} /\ succ \in Node \cup {NULL}
    BY <1>2, <1>6
  <2>4. ASSUME NEW m \in DOMAIN heap
        PROVE  /\ h[m] \in ServerQueueNode /\ h[m].client = heap[m].client
               /\ h[m].Next = IF m = pred THEN succ ELSE heap[m].Next
               /\ h[m].Previous = IF m = succ THEN pred ELSE heap[m].Previous
    <3>1. heap[m] \in ServerQueueNode
      BY <1>2
    <3>2. CASE m = pred
      <4>1. h[m] = [heap[m] EXCEPT !.Next = succ]
        <5> HIDE DEF succ, pred
        <5> QED BY <2>2, <3>2
      <4> HIDE DEF h, succ, pred
      <4> QED BY <2>2, <2>3, <3>1, <3>2, <4>1 DEF ServerQueueNode
    <3>3. CASE m = succ
      <4>1. h[m] = [heap[m] EXCEPT !.Previous = pred]
        <5> HIDE DEF succ, pred
        <5> QED BY <2>2, <3>3
      <4> HIDE DEF h, succ, pred
      <4> QED BY <2>2, <2>3, <3>1, <3>3, <4>1 DEF ServerQueueNode
    <3>4. CASE m # pred /\ m # succ
      <4>1. h[m] = heap[m]
        BY <3>4
      <4> HIDE DEF h, succ, pred
      <4> QED BY <3>1, <3>4, <4>1
    <3> QED BY <3>2, <3>3, <3>4
  <2> HIDE DEF h
  <2>5. Heap(h)
    BY <1>2, <1>6, <2>2, <2>4 DEF Heap
  <2>6. \A i \in 1..mSize : i # k =>
            /\ h[N[i]].Next = IF i = k - 1 THEN heap[N[k]].Next ELSE heap[N[i]].Next
            /\ h[N[i]].Previous = IF i = k + 1 THEN heap[N[k]].Previous ELSE heap[N[i]].Previous
    BY <1>1, <1>6, <2>4
  <2>7. mClientQueue = IF mSize - 1 = 0 THEN NULL ELSE Without(k)[1]
    BY <1>1, <1>3, <1>8 DEF Without
  <2>8. IsList(h, Without(k), mClientQueue', mSize')
    BY <1>3, <2>1, <2>2, <2>6, <2>7, Unlinked DEF IsList
  <2> QED BY <2>1, <2>2, <2>4, <2>5, <2>8
<1> QED BY <1>7, <1>8
LEMMA Removed ==
    ASSUME QueueInv, NEW c \in Client, RemoveClient(c)
    PROVE  /\ QueueInv' /\ mLock = NULL /\ mLock' = NULL /\ opened' = opened
           /\ ListClients' = RemoveFirst(ListClients, c)
<1> DEFINE found == {i \in 1..mSize : heap[ListNodes[i]].client = c}
           k == Min(found)
           q == RemoveFirst(ListClients, c)
           L == Without(k)
<1>1. /\ mLock = NULL /\ mLock' = NULL /\ opened' = opened /\ found # {}
      /\ mainNode' = mainNode /\ mainPc' = mainPc /\ mSize' = mSize - 1
      /\ IF ListNodes[k] = mClientQueue THEN UnlinkFirst(ListNodes[k])
                                        ELSE UnlinkInner(ListNodes[k])
  BY DEF RemoveClient, mainVars, ListNodes
<1>2. /\ mSize \in Nat /\ ListClients \in Seq(Client) /\ Len(ListClients) = mSize
      /\ \A i \in 1..mSize : ListNodes[i] \in DOMAIN heap
      /\ \A i \in 1..mSize : ListClients[i] = heap[ListNodes[i]].client
      /\ DOMAIN ListNodes = 1..mSize
  BY Listed
<1>3. found = {i \in 1..Len(ListClients) : ListClients[i] = c}
  BY <1>2
<1>4. Contains(ListClients, c)
  BY <1>1, <1>3 DEF Contains
<1>5. PICK n \in 1..Len(ListClients) :
          n = Min({i \in 1..Len(ListClients) : ListClients[i] = c}) /\ TakenOut(ListClients, n, q)
  BY <1>2, <1>4, RemoveFirstElements
<1>6. k \in 1..mSize /\ TakenOut(ListClients, k, q)
  BY <1>2, <1>3, <1>5
<1>7. q \in Seq(Client)
  BY <1>2, RemoveFirstIsSeq
<1> HIDE DEF k, q
<1>8. PICK h : /\ Heap(h) /\ DOMAIN h = DOMAIN heap
               /\ heap' = Release(h, {mClientQueue', mainNode})
               /\ IsList(h, L, mClientQueue', mSize')
               /\ \A m \in DOMAIN heap : h[m].client = heap[m].client
  BY <1>1, <1>6, NodeRemoved
<1> DEFINE roots == {mClientQueue', mainNode}
<1>9. roots \subseteq DOMAIN h \cup {NULL} /\ mClientQueue' \in roots /\ mainNode' \in roots
  BY <1>1, <1>8 DEF QueueInv, IsList
<1>10. ListBecomes(h, L)
  <2>1. heap' = Release(h, roots)
    BY <1>8
  <2> HIDE DEF L, roots
  <2> QED BY <1>8, <1>9, <2>1, NewList
<1>11. ASSUME NEW i \in 1..mSize - 1
       PROVE  /\ L[i] \in DOMAIN heap
              /\ heap[L[i]].client = q[i]
              /\ \E j \in 1..mSize : L[i] = ListNodes[j] /\ j = IF i < k THEN i ELSE i + 1
  <2>1. L[i] = IF i < k THEN ListNodes[i] ELSE ListNodes[i + 1]
    BY DEF Without
  <2>2. q[i] = IF i < k THEN ListClients[i] ELSE ListClients[i + 1]
    BY <1>2, <1>6 DEF TakenOut
  <2>3. i \in 1..mSize /\ i + 1 \in 1..mSize
    BY <1>2
  <2> HIDE DEF L
  <2> QED BY <1>2, <2>1, <2>2, <2>3
<1>12. Len(q) = mSize - 1
  BY <1>2, <1>6 DEF TakenOut
<1>13. DOMAIN L = 1..mSize - 1
  BY DEF Without
<1> HIDE DEF L
<1>14. ListClients' = q
  <2>1. ListClients' = [i \in 1..mSize - 1 |-> q[i]]
    BY <1>1, <1>8, <1>10, <1>11 DEF ListBecomes
  <2>2. q = [i \in 1..Len(q) |-> q[i]]
    BY <1>7, SeqIsFunction
  <2> QED BY <1>12, <2>1, <2>2
<1>15. mainNode' \in Range(ListNodes') => mainNode' = mClientQueue'
  <2> SUFFICES ASSUME mainNode' \in Range(ListNodes') PROVE mainNode' = mClientQueue'
    OBVIOUS
  <2>1. PICK i \in 1..mSize - 1 : mainNode = L[i]
    BY <1>1, <1>10, <1>13 DEF ListBecomes, Range
  <2>2. PICK j \in 1..mSize : mainNode = ListNodes[j] /\ j = IF i < k THEN i ELSE i + 1
    BY <1>11, <2>1
  <2>3. mainNode = mClientQueue
    BY <1>2, <2>2 DEF QueueInv, Range
  <2>4. j = 1
    BY <2>2, <2>3, Listed
  <2>5. i = 1 /\ 1 < k
    BY <1>2, <1>6, <2>2, <2>4
  <2> QED BY <1>1, <1>2, <1>8, <2>1, <2>5 DEF IsList
<1>16. SizeInv'
  BY RemoveClientSize DEF QueueInv
<1>17. (mainPc # "crashed")' \/ mainNode' \notin Range(ListNodes)'
  <2> SUFFICES ASSUME mainPc = "crashed" PROVE mainNode' \notin Range(ListNodes')
    BY <1>1
  <2>1. \A i \in 1..mSize - 1 : L[i] \in Range(ListNodes)
    BY <1>2, <1>11 DEF Range
  <2>2. mainNode \notin Range(ListNodes)
    BY DEF QueueInv, OnlyStaleHeadCrashes
  <2> QED BY <1>1, <1>10, <1>13, <2>1, <2>2 DEF ListBecomes, Range
<1> QED BY <1>1, <1>10, <1>14, <1>15, <1>16, <1>17
        DEF QueueInv, ListBecomes, OnlyStaleHeadCrashes, q
-----------------------------------------------------------------------------
(***************************************************************************)
(* Every step keeps the invariant, and does to the waiting clients what a  *)
(* step of MatchingQueue does, or nothing.                                 *)
(***************************************************************************)
QueueStep == QueueInv' /\ [MQ!Next]_(MQ!vars)

LEMMA WaitingIs ==
    ASSUME QueueInv
    PROVE  /\ mLock = NULL => Waiting = ListClients
           /\ mLock # NULL => mSize > 0 /\ Waiting = Front(ListClients)
BY DEF QueueInv, SizeInv, Waiting

\* AddClient changes nothing yet: the worker still holds the lock.
LEMMA AddedIsStutter ==
    ASSUME QueueInv, NEW c \in Client, AddClient(c)
    PROVE  QueueStep
<1>1. QueueInv' /\ ListClients' = Append(ListClients, c) /\ opened' = opened
  BY Added
<1>2. mLock = NULL /\ mLock' # NULL
  BY ServerQueueAssumption DEF AddClient
<1>3. ListClients \in Seq(Client)
  BY Listed
<1>4. Front(Append(ListClients, c)) = ListClients
  BY <1>3 DEF Front
<1>5. Waiting' = Front(ListClients') /\ Waiting = ListClients
  BY <1>2 DEF Waiting
<1>6. UNCHANGED MQ!vars
  BY <1>1, <1>4, <1>5 DEF MQ!vars
<1> QED BY <1>1, <1>6 DEF QueueStep

\* A queue is all but its last client, and then that one.
LEMMA FrontAndLast ==
    ASSUME NEW s \in Seq(Client), Len(s) > 0
    PROVE  /\ Front(s) \in Seq(Client) /\ Len(Front(s)) = Len(s) - 1
           /\ s[Len(s)] \in Client /\ Append(Front(s), s[Len(s)]) = s
<1> DEFINE f == Front(s)
           g == Append(f, s[Len(s)])
<1>1. Len(s) \in Nat /\ s[Len(s)] \in Client
  OBVIOUS
<1>2. /\ f \in Seq(Client) /\ Len(f) = Len(s) - 1
      /\ \A i \in 1..Len(s) - 1 : f[i] = s[i]
  <2>1. \A i \in 1..Len(s) - 1 : s[i] \in Client
    OBVIOUS
  <2> DEFINE m == Len(s) - 1
  <2>2. m \in Nat /\ f = SubSeq(s, 1, m)
    BY <1>1 DEF Front
  <2> HIDE DEF m
  <2>3. /\ SubSeq(s, 1, m) \in Seq(Client)
        /\ Len(SubSeq(s, 1, m)) = IF 1 <= m THEN m - 1 + 1 ELSE 0
        /\ \A i \in 1..m - 1 + 1 : SubSeq(s, 1, m)[i] = s[1 + i - 1]
    BY <2>1, <2>2, SubSeqProperties DEF m
  <2>4. Len(f) = m /\ \A i \in 1..m : f[i] = s[i]
    BY <2>2, <2>3
  <2> QED BY <2>2, <2>3, <2>4 DEF m
<1> HIDE DEF f
<1>3. /\ g \in Seq(Client) /\ Len(g) = Len(s)
      /\ \A i \in 1..Len(s) : g[i] = s[i]
  BY <1>1, <1>2
<1> HIDE DEF g
<1>4. s = [i \in 1..Len(s) |-> s[i]] /\ g = [i \in 1..Len(g) |-> g[i]]
  BY <1>3, SeqIsFunction
<1>5. g = s
  BY <1>3, <1>4
<1> QED BY <1>1, <1>2, <1>5 DEF f, g

\* The request takes effect: the client stays, or its group leaves.
LEMMA UnlockedTakesEffect ==
    ASSUME QueueInv, TryCreateRoomOrNullPtr
    PROVE  QueueStep
<1> DEFINE s == ListClients
           c == s[mSize]
           M == MAX_ROOM_PLAYER
<1>1. /\ QueueInv' /\ mLock # NULL /\ mLock' = NULL /\ mSize > 0
      /\ \/ mSize = M /\ s' = << >> /\ opened' = s
         \/ mSize < M /\ s' = s /\ opened' = opened
  BY Unlocked
<1>2. s \in Seq(Client) /\ Len(s) = mSize /\ mSize \in Nat /\ M \in Nat /\ M > 0
  BY Listed, ServerQueueAssumption
<1>3. Waiting = Front(s) /\ Waiting' = s'
  BY <1>1 DEF Waiting
<1> HIDE DEF s
<1>4. /\ Front(s) \in Seq(Client) /\ Len(Front(s)) = mSize - 1
      /\ c \in Client /\ Append(Front(s), c) = s
  BY <1>1, <1>2, FrontAndLast
<1> HIDE DEF c
<1>5. CASE mSize = M /\ s' = << >> /\ opened' = s
  <2>1. SubSeq(s, 1, M) = s /\ SubSeq(s, M + 1, Len(s)) = << >>
    BY <1>2, <1>5
  <2>2. MQ!OpenRoom(c)
    BY <1>2, <1>3, <1>4, <1>5, <2>1 DEF MQ!OpenRoom
  <2> QED BY <1>1, <1>4, <2>2 DEF QueueStep, MQ!Next
<1>6. CASE mSize < M /\ s' = s /\ opened' = opened
  <2>1. MQ!StayInQueue(c)
    BY <1>2, <1>3, <1>4, <1>6 DEF MQ!StayInQueue
  <2> QED BY <1>1, <1>4, <2>1 DEF QueueStep, MQ!Next
<1> QED BY <1>1, <1>5, <1>6

\* A departing client loses its oldest place.
LEMMA RemovedIsLeave ==
    ASSUME QueueInv, NEW c \in Client, RemoveClient(c)
    PROVE  QueueStep
<1>1. /\ QueueInv' /\ mLock = NULL /\ mLock' = NULL /\ opened' = opened
      /\ ListClients' = RemoveFirst(ListClients, c)
  BY Removed
<1>2. Waiting = ListClients /\ Waiting' = ListClients'
  BY <1>1 DEF Waiting
<1>3. MQ!RemoveFirst(Waiting, c) = RemoveFirst(Waiting, c)
  BY Zenon DEF MQ!RemoveFirst, MQ!RemoveAt, MQ!SelectInSeq, MQ!Min,
               RemoveFirst, RemoveAt, SelectInSeq, Min
<1>4. MQ!Leave(c)
  BY <1>1, <1>2, <1>3 DEF MQ!Leave
<1> QED BY <1>1, <1>4 DEF QueueStep, MQ!Next

\* The main thread only looks.
LEMMA MainIsStutter ==
    ASSUME QueueInv, SendMatchingQueueInfo
    PROVE  QueueStep
<1>1. QueueInv' /\ ListClients' = ListClients
  BY Looked, Returned DEF SendMatchingQueueInfo, ReadSizeEmpty, InformWaiting
<1>2. mLock' = mLock /\ opened' = opened
  BY DEF SendMatchingQueueInfo, ReadHead, ReadSizeEmpty, ReadSize, InformWaiting,
         DereferenceNull, MainReturns
<1>3. Waiting' = Waiting
  BY <1>1, <1>2 DEF Waiting
<1> QED BY <1>1, <1>2, <1>3 DEF QueueStep, MQ!vars

LEMMA QueueNext ==
    ASSUME QueueInv, [Next]_vars
    PROVE  QueueStep
<1>1. CASE TryCreateRoomOrNullPtr
  BY <1>1, UnlockedTakesEffect
<1>2. ASSUME NEW c \in Client, AddClient(c) PROVE QueueStep
  BY <1>2, AddedIsStutter
<1>3. ASSUME NEW c \in Client, RemoveClient(c) PROVE QueueStep
  BY <1>3, RemovedIsLeave
<1>4. CASE SendMatchingQueueInfo
  BY <1>4, MainIsStutter
<1>5. CASE UNCHANGED vars
  <2>1. /\ heap' = heap /\ mClientQueue' = mClientQueue /\ mSize' = mSize /\ mLock' = mLock
        /\ opened' = opened /\ mainNode' = mainNode /\ mainPc' = mainPc
    BY <1>5 DEF vars, queueVars, mainVars
  <2>2. ListNodes' = ListNodes /\ ListClients' = ListClients
    BY <2>1 DEF ListNodes, ListClients
  <2>3. Waiting' = Waiting
    BY <2>1, <2>2 DEF Waiting
  <2>4. QueueInv'
    BY <2>1, <2>2 DEF QueueInv, SizeInv, QueueBelowRoomSize, OnlyStaleHeadCrashes
  <2> QED BY <2>1, <2>3, <2>4 DEF QueueStep, MQ!vars
<1> QED BY <1>1, <1>2, <1>3, <1>4, <1>5 DEF Next, Running, Crashed, Workers

LEMMA QueueInvHolds == Spec => []QueueInv
<1>1. Init => QueueInv
  BY QueueInit
<1>2. QueueInv /\ [Next]_vars => QueueInv'
  BY QueueNext DEF QueueStep
<1> QED BY <1>1, <1>2, PTL DEF Spec

(***************************************************************************)
(* The pointers form a doubly linked list of mSize nodes whatever the      *)
(* workers do, and whatever the main thread keeps alive.                   *)
(***************************************************************************)
THEOREM ListIsWellFormed == Spec => []ListWellFormed
<1>1. QueueInv => ListWellFormed
  <2> SUFFICES ASSUME QueueInv PROVE ListWellFormed
    OBVIOUS
  <2>1. /\ mSize \in Nat /\ ListNodes \in [1..mSize -> DOMAIN heap]
        /\ mClientQueue = IF mSize = 0 THEN NULL ELSE ListNodes[1]
        /\ \A i \in 1..mSize :
              /\ heap[ListNodes[i]].Next = IF i < mSize THEN ListNodes[i + 1] ELSE NULL
              /\ heap[ListNodes[i]].Previous = IF i = 1 THEN NULL ELSE ListNodes[i - 1]
    BY Listed
  <2>2. DOMAIN heap \subseteq Node /\ Range(heap) \subseteq ServerQueueNode
    BY DEF QueueInv, Heap, Range
  <2>3. mClientQueue \in Node \cup {NULL}
    BY <2>1, <2>2
  <2>4. TypeOK
    BY <2>2, <2>3 DEF QueueInv, SizeInv, TypeOK
  <2> QED BY <2>1, <2>4 DEF ListWellFormed
<1> QED BY <1>1, QueueInvHolds, PTL

(***************************************************************************)
(* SendMatchingQueueInfo runs off the end of the list only from a head     *)
(* that has left it.                                                       *)
(***************************************************************************)
THEOREM OnlyStaleHead == Spec => []OnlyStaleHeadCrashes
<1>1. QueueInv => OnlyStaleHeadCrashes
  BY DEF QueueInv
<1> QED BY <1>1, QueueInvHolds, PTL

(***************************************************************************)
(* The linked list under its lock is the first-in-first-out queue that     *)
(* the rest of the server counts on.                                       *)
(***************************************************************************)
THEOREM Implements == Spec => ImplementsMatchingQueue
<1>1. Init => MQ!Init
  BY QueueInit DEF MQ!Init, Init
<1>2. QueueInv /\ [Next]_vars => [MQ!Next]_(MQ!vars)
  BY QueueNext DEF QueueStep
<1> QED BY <1>1, <1>2, QueueInvHolds, PTL DEF Spec, ImplementsMatchingQueue, MQ!Spec
=============================================================================
