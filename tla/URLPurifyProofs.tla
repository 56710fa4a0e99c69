--------------------------- MODULE URLPurifyProofs ---------------------------
(***************************************************************************)
(* What the matchers of URLPurify do to any query under any rules.  All    *)
(* of them leave a query at some of its places, so the lemmas are about    *)
(* LeftAt, of places that are counted by how many are before them.         *)
(***************************************************************************)
EXTENDS URLPurify, FiniteSetTheorems, TLAPS

Below(places, i) == {j \in places : j < i}

-----------------------------------------------------------------------------
(* Places                                                                  *)

LEMMA PlacesAreFinite ==
    ASSUME NEW m \in Nat, NEW P \in SUBSET (1..m)
    PROVE  IsFiniteSet(P) /\ Cardinality(P) \in Nat
<1>1. IsFiniteSet(1..m)
  <2>1. 1 \in Int /\ m \in Int
    OBVIOUS
  <2> QED BY <2>1, FS_Interval
<1>2. IsFiniteSet(P)
  BY <1>1, FS_Subset
<1> QED BY <1>2, FS_CardinalityType

LEMMA RankRange ==
    ASSUME NEW m \in Nat, NEW P \in SUBSET (1..m), NEW i \in P
    PROVE  Cardinality(Below(P, i)) + 1 \in 1..Cardinality(P)
<1>1. Below(P, i) \in SUBSET P /\ Below(P, i) # P
  BY DEF Below
<1>2. IsFiniteSet(P) /\ Cardinality(P) \in Nat /\ Cardinality(Below(P, i)) \in Nat
  BY <1>1, PlacesAreFinite
<1>3. Cardinality(Below(P, i)) <= Cardinality(P) /\ Cardinality(Below(P, i)) # Cardinality(P)
  BY <1>1, <1>2, FS_Subset
<1> QED BY <1>2, <1>3

LEMMA RankGrows ==
    ASSUME NEW m \in Nat, NEW P \in SUBSET (1..m), NEW i \in P, NEW k \in P, i < k
    PROVE  Cardinality(Below(P, i)) < Cardinality(Below(P, k))
<1>1. Below(P, i) = Below(Below(P, k), i) /\ i \in Below(P, k)
  <2>1. \A j \in P : j < i => j < k
    OBVIOUS
  <2> QED BY <2>1 DEF Below
<1>2. Below(P, k) \in SUBSET (1..m) /\ Below(P, i) \in SUBSET (1..m)
  BY DEF Below
<1>3. Cardinality(Below(P, i)) + 1 \in 1..Cardinality(Below(P, k))
  BY <1>1, <1>2, RankRange
<1>4. Cardinality(Below(P, i)) \in Nat /\ Cardinality(Below(P, k)) \in Nat
  BY <1>2, PlacesAreFinite
<1> QED BY <1>3, <1>4

LEMMA RankDecides ==
    ASSUME NEW m \in Nat, NEW P \in SUBSET (1..m), NEW i \in P, NEW k \in P,
           Cardinality(Below(P, i)) = Cardinality(Below(P, k))
    PROVE  i = k
<1>1. Cardinality(Below(P, i)) \in Nat
  BY PlacesAreFinite DEF Below
<1>2. ASSUME i < k PROVE FALSE
  <2>1. Cardinality(Below(P, i)) < Cardinality(Below(P, k))
    BY <1>2, RankGrows
  <2> QED BY <1>1, <2>1
<1>3. ASSUME k < i PROVE FALSE
  <2>1. Cardinality(Below(P, k)) < Cardinality(Below(P, i))
    BY <1>3, RankGrows
  <2> QED BY <1>1, <2>1
<1> QED BY <1>2, <1>3

(* Every number up to that of the places is the rank of one.                *)
LEMMA RankIsTaken ==
    ASSUME NEW m \in Nat, NEW P \in SUBSET (1..m), NEW n \in 1..Cardinality(P)
    PROVE  \E i \in P : Cardinality(Below(P, i)) + 1 = n
<1> DEFINE c    == Cardinality(P)
           rank == [i \in P |-> Cardinality(Below(P, i)) + 1]
<1>1. c \in Nat /\ IsFiniteSet(1..c) /\ Cardinality(1..c) = c
  <2>1. c \in Nat
    BY PlacesAreFinite
  <2>2. 1 \in Int /\ c \in Int /\ c - 1 + 1 = c /\ (1 > c => c = 0)
    BY <2>1
  <2> HIDE DEF c
  <2> QED BY <2>1, <2>2, FS_Interval
<1>2. rank \in [P -> 1..c]
  BY RankRange
<1>3. \A i, k \in P : rank[i] = rank[k] => i = k
  <2> SUFFICES ASSUME NEW i \in P, NEW k \in P, rank[i] = rank[k] PROVE i = k
    OBVIOUS
  <2>1. Below(P, i) \in SUBSET (1..m) /\ Below(P, k) \in SUBSET (1..m)
    BY DEF Below
  <2>2. Cardinality(Below(P, i)) \in Nat /\ Cardinality(Below(P, k)) \in Nat
    BY <2>1, PlacesAreFinite
  <2>3. Cardinality(Below(P, i)) = Cardinality(Below(P, k))
    BY <2>2
  <2> QED BY <2>3, RankDecides
<1>4. rank \in Injection(P, 1..c)
  BY <1>2, <1>3 DEF Injection, IsInjective
<1> HIDE DEF rank
<1>5. rank \in Surjection(P, 1..c)
  BY <1>1, <1>4, FS_Injection
<1>6. \E i \in P : rank[i] = n
  BY <1>5 DEF Surjection
<1> QED BY <1>6 DEF rank

LEMMA NthResult ==
    ASSUME NEW m \in Nat, NEW P \in SUBSET (1..m), NEW n \in 1..Cardinality(P)
    PROVE  Nth(P, n) \in P /\ Cardinality(Below(P, Nth(P, n))) = n - 1
<1>1. \E i \in P : Cardinality(Below(P, i)) = n - 1
  <2>1. PICK i \in P : Cardinality(Below(P, i)) + 1 = n
    BY RankIsTaken
  <2>2. Cardinality(Below(P, i)) \in Nat
    BY PlacesAreFinite DEF Below
  <2> QED BY <2>1, <2>2
<1> QED BY <1>1 DEF Nth, Below

LEMMA NthIs ==
    ASSUME NEW m \in Nat, NEW P \in SUBSET (1..m), NEW n \in 1..Cardinality(P), NEW i \in P,
           Cardinality(Below(P, i)) = n - 1
    PROVE  Nth(P, n) = i
BY NthResult, RankDecides

LEMMA NthGrows ==
    ASSUME NEW m \in Nat, NEW P \in SUBSET (1..m),
           NEW n \in 1..Cardinality(P), NEW k \in 1..Cardinality(P), n < k
    PROVE  Nth(P, n) < Nth(P, k)
<1>1. /\ Nth(P, n) \in P /\ Cardinality(Below(P, Nth(P, n))) = n - 1
      /\ Nth(P, k) \in P /\ Cardinality(Below(P, Nth(P, k))) = k - 1
  BY NthResult
<1>2. Nth(P, n) # Nth(P, k)
  BY <1>1
<1>3. ~(Nth(P, k) < Nth(P, n))
  <2>1. Cardinality(P) \in Nat
    BY PlacesAreFinite
  <2>2. ~(k - 1 < n - 1)
    BY <2>1
  <2> QED BY <1>1, <2>2, RankGrows
<1>4. Nth(P, n) \in 1..m /\ Nth(P, k) \in 1..m
  BY <1>1
<1> QED BY <1>2, <1>3, <1>4

(* The places that have some numbers among others, and what is the nth of   *)
(* them.                                                                    *)
At(P, Q) == {Nth(P, n) : n \in Q}

LEMMA AtResult ==
    ASSUME NEW m \in Nat, NEW P \in SUBSET (1..m), NEW Q \in SUBSET (1..Cardinality(P))
    PROVE  At(P, Q) \in SUBSET P /\ Cardinality(At(P, Q)) = Cardinality(Q)
<1> DEFINE R == At(P, Q)
           f == [n \in Q |-> Nth(P, n)]
<1>1. R \in SUBSET P
  BY NthResult DEF At
<1>2. Cardinality(P) \in Nat
  BY PlacesAreFinite
<1>3. IsFiniteSet(Q)
  BY <1>2, PlacesAreFinite
<1>4. ASSUME NEW n \in Q, NEW k \in Q, Nth(P, n) = Nth(P, k)
      PROVE  n = k
  <2>1. n - 1 = k - 1
    BY <1>4, NthResult
  <2> QED BY <1>2, <2>1
<1>5. f \in Bijection(Q, R)
  BY <1>4 DEF At, Bijection, Injection, Surjection, IsInjective
<1> HIDE DEF f, R
<1>6. Cardinality(R) = Cardinality(Q)
  BY <1>3, <1>5, FS_Bijection DEF ExistsBijection
<1> QED BY <1>1, <1>6 DEF R

LEMMA NthOfNth ==
    ASSUME NEW m \in Nat, NEW P \in SUBSET (1..m), NEW Q \in SUBSET (1..Cardinality(P)),
           NEW k \in 1..Cardinality(Q)
    PROVE  Nth(P, Nth(Q, k)) = Nth(At(P, Q), k)
<1> DEFINE x == Nth(Q, k)
           i == Nth(P, x)
<1>1. Cardinality(P) \in Nat
  BY PlacesAreFinite
<1>2. x \in Q /\ Cardinality(Below(Q, x)) = k - 1
  BY <1>1, NthResult
<1> HIDE DEF x
<1>3. i \in At(P, Q)
  BY <1>2 DEF At
<1>4. Below(At(P, Q), i) = At(P, Below(Q, x))
  <2>1. ASSUME NEW n \in Q PROVE Nth(P, n) < i <=> n < x
    <3>1. n \in 1..Cardinality(P) /\ x \in 1..Cardinality(P)
      BY <1>2
    <3>2. Nth(P, n) \in 1..m /\ i \in 1..m
      BY <3>1, NthResult
    <3>3. n < x => Nth(P, n) < i
      BY <3>1, NthGrows
    <3>4. x < n => i < Nth(P, n)
      BY <3>1, NthGrows
    <3>5. n < x \/ n = x \/ x < n
      BY <1>1, <3>1
    <3> QED BY <1>1, <3>1, <3>2, <3>3, <3>4, <3>5
  <2> HIDE DEF i
  <2> QED BY <2>1 DEF Below, At
<1> HIDE DEF i
<1>5. Below(Q, x) \in SUBSET (1..Cardinality(P))
  BY DEF Below
<1>6. Cardinality(Below(At(P, Q), i)) = k - 1
  BY <1>2, <1>4, <1>5, AtResult
<1>7. At(P, Q) \in SUBSET (1..m) /\ k \in 1..Cardinality(At(P, Q))
  BY AtResult
<1>8. Nth(At(P, Q), k) = i
  BY <1>3, <1>6, <1>7, NthIs
<1> QED BY <1>8 DEF i, x

LEMMA NthOfInterval ==
    ASSUME NEW m \in Nat, NEW l \in 1..m + 1, NEW n \in 1..(m - l + 1)
    PROVE  Nth(l..m, n) = l + n - 1
<1> DEFINE i == l + n - 1
<1>1. i \in l..m /\ l..m \in SUBSET (1..m) /\ i - 1 \in Int /\ m \in Int /\ l \in Int
  OBVIOUS
<1>2. Below(l..m, i) = l..(i - 1)
  BY DEF Below
<1>3. i - 1 - l + 1 = n - 1 /\ m - l + 1 \in Nat
  OBVIOUS
<1>4. l > i - 1 => n - 1 = 0
  OBVIOUS
<1>5. l > m => m - l + 1 = 0
  OBVIOUS
<1> HIDE DEF i
<1>6. Cardinality(l..(i - 1)) = n - 1
  BY <1>1, <1>3, <1>4, FS_Interval
<1>7. Cardinality(l..m) = m - l + 1
  BY <1>1, <1>3, <1>5, FS_Interval
<1>8. n \in 1..Cardinality(l..m)
  BY <1>7
<1>9. Nth(l..m, n) = i
  BY <1>1, <1>2, <1>6, <1>8, NthIs
<1> QED BY <1>9 DEF i

-----------------------------------------------------------------------------
(* What is left of a query                                                 *)

LEMMA LeftAtResult ==
    ASSUME NEW S, NEW q \in Seq(S), NEW P \in SUBSET DOMAIN q
    PROVE  LET r == LeftAt(q, P) IN
           /\ r \in Seq(S) /\ Len(r) = Cardinality(P) /\ DOMAIN r = 1..Cardinality(P)
           /\ \A n \in DOMAIN r : Nth(P, n) \in P /\ r[n] = q[Nth(P, n)]
           /\ \A i \in P : \E n \in DOMAIN r : Nth(P, n) = i
<1> DEFINE c == Cardinality(P)
           r == LeftAt(q, P)
<1>1. Len(q) \in Nat /\ DOMAIN q = 1..Len(q) /\ P \in SUBSET (1..Len(q))
  OBVIOUS
<1>2. c \in Nat
  BY <1>1, PlacesAreFinite
<1>3. \A n \in 1..c : Nth(P, n) \in P
  BY <1>1, NthResult
<1>4. \A i \in P : \E n \in 1..c : Nth(P, n) = i
  <2> SUFFICES ASSUME NEW i \in P PROVE \E n \in 1..c : Nth(P, n) = i
    OBVIOUS
  <2> DEFINE n == Cardinality(Below(P, i)) + 1
  <2>1. n \in 1..c
    BY <1>1, RankRange
  <2>2. Cardinality(Below(P, i)) \in Nat
    BY <1>1, PlacesAreFinite DEF Below
  <2>3. Cardinality(Below(P, i)) = n - 1
    BY <2>2
  <2> HIDE DEF n
  <2>4. Nth(P, n) = i
    BY <1>1, <2>1, <2>3, NthIs
  <2> QED BY <2>1, <2>4
<1>5. r = [n \in 1..c |-> q[Nth(P, n)]]
  BY DEF LeftAt
<1> HIDE DEF c, r
<1>6. \A i \in P : q[i] \in S
  BY <1>1
<1>7. r \in [1..c -> S]
  BY <1>3, <1>5, <1>6
<1>8. r \in Seq(S) /\ Len(r) = c /\ DOMAIN r = 1..c
  BY <1>2, <1>7
<1> QED BY <1>3, <1>4, <1>5, <1>8 DEF c, r

LEMMA LeftAtAll ==
    ASSUME NEW S, NEW q \in Seq(S)
    PROVE  LeftAt(q, DOMAIN q) = q
<1> DEFINE m == Len(q)
           r == LeftAt(q, 1..m)
<1>1. m \in Nat /\ DOMAIN q = 1..m /\ q = [n \in 1..m |-> q[n]]
  OBVIOUS
<1>2. Cardinality(1..m) = m
  <2>1. 1 \in Int /\ m \in Int /\ m - 1 + 1 = m /\ (1 > m => m = 0)
    OBVIOUS
  <2> HIDE DEF m
  <2> QED BY <2>1, FS_Interval
<1>3. \A n \in 1..m : Nth(1..m, n) = n
  <2> SUFFICES ASSUME NEW n \in 1..m PROVE Nth(1..m, n) = n
    OBVIOUS
  <2> HIDE DEF m
  <2>1. 1 \in 1..m + 1 /\ n \in 1..(m - 1 + 1) /\ 1 + n - 1 = n
    BY <1>1
  <2> QED BY <1>1, <2>1, NthOfInterval
<1>4. r = [n \in 1..m |-> q[Nth(1..m, n)]]
  BY <1>2 DEF LeftAt
<1> QED BY <1>1, <1>3, <1>4

LEMMA LeftAtLeftAt ==
    ASSUME NEW S, NEW q \in Seq(S), NEW P \in SUBSET DOMAIN q,
           NEW Q \in SUBSET (1..Cardinality(P))
    PROVE  At(P, Q) \in SUBSET P /\ LeftAt(LeftAt(q, P), Q) = LeftAt(q, At(P, Q))
<1> DEFINE c == Cardinality(Q)
           R == At(P, Q)
           r == LeftAt(q, P)
<1>1. Len(q) \in Nat /\ P \in SUBSET (1..Len(q))
  OBVIOUS
<1>2. R \in SUBSET P /\ Cardinality(R) = c
  BY <1>1, AtResult
<1>3. \A k \in 1..c : Nth(P, Nth(Q, k)) = Nth(R, k)
  BY <1>1, NthOfNth
<1>4. \A k \in 1..c : Nth(Q, k) \in 1..Cardinality(P)
  <2>1. Cardinality(P) \in Nat
    BY <1>1, PlacesAreFinite
  <2> QED BY <2>1, NthResult
<1>5. \A n \in 1..Cardinality(P) : r[n] = q[Nth(P, n)]
  BY DEF LeftAt
<1> HIDE DEF R, r
<1>6. \A k \in 1..c : r[Nth(Q, k)] = q[Nth(R, k)]
  BY <1>3, <1>4, <1>5
<1>7. LeftAt(r, Q) = LeftAt(q, R)
  BY <1>2, <1>6 DEF LeftAt
<1> QED BY <1>2, <1>7 DEF R, r

LEMMA TailIsLeft ==
    ASSUME NEW S, NEW q \in Seq(S), Len(q) > 0
    PROVE  Tail(q) = LeftAt(q, 2..Len(q))
<1> DEFINE m == Len(q)
<1>1. m \in Nat \ {0} /\ Tail(q) = [n \in 1..(m - 1) |-> q[n + 1]]
  <2>1. m \in Nat \ {0}
    OBVIOUS
  <2>2. Tail(q) \in Seq(S) /\ Len(Tail(q)) = m - 1 /\ \A n \in 1..(m - 1) : Tail(q)[n] = q[n + 1]
    OBVIOUS
  <2>3. DOMAIN Tail(q) = 1..(m - 1)
    BY <2>2
  <2>4. Tail(q) = [n \in DOMAIN Tail(q) |-> Tail(q)[n]]
    <3> DEFINE t == Tail(q)
    <3>1. t \in Seq(S)
      BY <2>2
    <3> HIDE DEF t
    <3>2. t = [n \in DOMAIN t |-> t[n]]
      BY <3>1
    <3> QED BY <3>2 DEF t
  <2> HIDE DEF m
  <2> QED BY <2>1, <2>2, <2>3, <2>4
<1>2. Cardinality(2..m) = m - 1
  <2> HIDE DEF m
  <2>1. 2 \in Int /\ m \in Int /\ m - 2 + 1 = m - 1 /\ (2 > m => m - 1 = 0)
    BY <1>1
  <2> QED BY <2>1, FS_Interval
<1>3. \A n \in 1..(m - 1) : Nth(2..m, n) = n + 1
  <2> SUFFICES ASSUME NEW n \in 1..(m - 1) PROVE Nth(2..m, n) = n + 1
    OBVIOUS
  <2> HIDE DEF m
  <2>1. 2 \in 1..m + 1 /\ n \in 1..(m - 2 + 1) /\ 2 + n - 1 = n + 1 /\ m \in Nat
    BY <1>1
  <2> QED BY <2>1, NthOfInterval
<1> HIDE DEF m
<1> QED BY <1>1, <1>2, <1>3 DEF LeftAt, m

-----------------------------------------------------------------------------
(* What purifying keeps                                                    *)

(* The query r is what is left of q without some of the tracked parameters. *)
Thins(tracked, q, r) ==
    \E P \in SUBSET DOMAIN q : r = LeftAt(q, P) /\ \A i \in DOMAIN q \ P : q[i] \in tracked

LEMMA ThinsItself ==
    ASSUME NEW S, NEW q \in Seq(S), NEW tracked
    PROVE  Thins(tracked, q, q)
<1>1. LeftAt(q, DOMAIN q) = q
  BY LeftAtAll
<1> QED BY <1>1 DEF Thins

LEMMA ThinsIsQuery ==
    ASSUME NEW S, NEW q \in Seq(S), NEW tracked, NEW r, Thins(tracked, q, r)
    PROVE  /\ r \in Seq(S)
           /\ Len(r) <= Len(q)
           /\ Len(r) = Len(q) => r = q
<1>1. PICK P \in SUBSET DOMAIN q : r = LeftAt(q, P)
  BY DEF Thins
<1>2. r \in Seq(S) /\ Len(r) = Cardinality(P)
  BY <1>1, LeftAtResult
<1>3. DOMAIN q = 1..Len(q) /\ Len(q) \in Nat /\ 1 \in Int /\ Len(q) \in Int
  OBVIOUS
<1>4. IsFiniteSet(1..Len(q)) /\ Cardinality(1..Len(q)) = Len(q)
  <2>1. Len(q) - 1 + 1 = Len(q) /\ (1 > Len(q) => Len(q) = 0)
    BY <1>3
  <2> QED BY <1>3, <2>1, FS_Interval
<1>5. /\ Cardinality(P) <= Len(q)
      /\ Cardinality(P) = Len(q) => P = DOMAIN q
  BY <1>3, <1>4, FS_Subset
<1>6. P = DOMAIN q => r = q
  BY <1>1, LeftAtAll
<1> QED BY <1>2, <1>5, <1>6

LEMMA ThinsThins ==
    ASSUME NEW S, NEW q \in Seq(S), NEW A, NEW B, NEW r, NEW s,
           Thins(A, q, r), Thins(B, r, s)
    PROVE  Thins(A \cup B, q, s)
<1>1. PICK P \in SUBSET DOMAIN q : r = LeftAt(q, P) /\ \A i \in DOMAIN q \ P : q[i] \in A
  BY DEF Thins
<1>2. PICK Q \in SUBSET DOMAIN r : s = LeftAt(r, Q) /\ \A n \in DOMAIN r \ Q : r[n] \in B
  BY DEF Thins
<1>3. /\ DOMAIN r = 1..Cardinality(P)
      /\ \A n \in DOMAIN r : r[n] = q[Nth(P, n)]
      /\ \A i \in P : \E n \in DOMAIN r : Nth(P, n) = i
  BY <1>1, LeftAtResult
<1>4. At(P, Q) \in SUBSET P /\ s = LeftAt(q, At(P, Q))
  BY <1>1, <1>2, <1>3, LeftAtLeftAt
<1>5. ASSUME NEW i \in DOMAIN q \ At(P, Q) PROVE q[i] \in A \cup B
  <2>1. CASE i \notin P
    BY <1>1, <2>1
  <2>2. CASE i \in P
    <3>1. PICK n \in DOMAIN r : Nth(P, n) = i
      BY <1>3, <2>2
    <3>2. n \notin Q
      BY <1>5, <3>1 DEF At
    <3> QED BY <1>2, <1>3, <3>1, <3>2
  <2> QED BY <2>1, <2>2
<1> QED BY <1>4, <1>5 DEF Thins

(* The parameters of q that are in H, in their order.                       *)
PartIn(H, q) == LeftAt(q, {i \in DOMAIN q : q[i] \in H})

(* The other parameters all stay, in their order.                           *)
LEMMA ThinsKeeps ==
    ASSUME NEW S, NEW q \in Seq(S), NEW tracked, NEW r, Thins(tracked, q, r),
           NEW H, H \cap tracked = {}
    PROVE  PartIn(H, r) = PartIn(H, q)
<1> DEFINE Q == {n \in DOMAIN r : r[n] \in H}
           R == {i \in DOMAIN q : q[i] \in H}
<1>1. PICK P \in SUBSET DOMAIN q : r = LeftAt(q, P) /\ \A i \in DOMAIN q \ P : q[i] \in tracked
  BY DEF Thins
<1>2. /\ DOMAIN r = 1..Cardinality(P)
      /\ \A n \in DOMAIN r : Nth(P, n) \in P /\ r[n] = q[Nth(P, n)]
      /\ \A i \in P : \E n \in DOMAIN r : Nth(P, n) = i
  BY <1>1, LeftAtResult
<1>3. At(P, Q) = R
  <2>1. \A i \in R : i \in P
    BY <1>1
  <2>2. ASSUME NEW i \in R PROVE i \in At(P, Q)
    <3>1. PICK n \in DOMAIN r : Nth(P, n) = i
      BY <1>2, <2>1
    <3>2. n \in Q
      BY <1>2, <3>1
    <3> QED BY <3>1, <3>2 DEF At
  <2>3. ASSUME NEW i \in At(P, Q) PROVE i \in R
    <3>1. PICK n \in Q : Nth(P, n) = i
      BY DEF At
    <3> QED BY <1>2, <3>1
  <2> QED BY <2>2, <2>3
<1>4. Q \in SUBSET (1..Cardinality(P))
  BY <1>2
<1> HIDE DEF Q, R
<1>5. LeftAt(r, Q) = LeftAt(q, R)
  BY <1>1, <1>3, <1>4, LeftAtLeftAt
<1> QED BY <1>5 DEF Q, R, PartIn

-----------------------------------------------------------------------------
(* What purifying takes away                                               *)

(* No tracked parameter but maybe the first.                                *)
TrackedAtMostFirst(tracked, q) == \A i \in DOMAIN q : i > 1 => q[i] \notin tracked

NothingTracked(tracked, q) == \A i \in DOMAIN q : q[i] \notin tracked

LEMMA ThinsStaysClean ==
    ASSUME NEW S, NEW q \in Seq(S), NEW A, NEW r, Thins(A, q, r), NEW tracked
    PROVE  /\ TrackedAtMostFirst(tracked, q) => TrackedAtMostFirst(tracked, r)
           /\ NothingTracked(tracked, q) => NothingTracked(tracked, r)
<1>1. PICK P \in SUBSET DOMAIN q : r = LeftAt(q, P)
  BY DEF Thins
<1>2. /\ DOMAIN r = 1..Cardinality(P)
      /\ \A n \in DOMAIN r : Nth(P, n) \in P /\ r[n] = q[Nth(P, n)]
  BY <1>1, LeftAtResult
<1>3. Len(q) \in Nat /\ DOMAIN q = 1..Len(q) /\ P \in SUBSET (1..Len(q))
  OBVIOUS
<1>4. ASSUME NEW n \in DOMAIN r, n > 1 PROVE Nth(P, n) > 1
  <2>1. Cardinality(P) \in Nat
    BY <1>3, PlacesAreFinite
  <2>2. 1 \in 1..Cardinality(P) /\ n \in 1..Cardinality(P) /\ 1 < n
    BY <1>2, <1>4, <2>1
  <2>3. Nth(P, 1) < Nth(P, n) /\ Nth(P, 1) \in 1..Len(q) /\ Nth(P, n) \in 1..Len(q)
    BY <1>2, <1>3, <2>2, NthGrows
  <2> QED BY <1>3, <2>3
<1>5. NothingTracked(tracked, q) => NothingTracked(tracked, r)
  BY <1>2 DEF NothingTracked
<1>6. TrackedAtMostFirst(tracked, q) => TrackedAtMostFirst(tracked, r)
  BY <1>2, <1>4 DEF TrackedAtMostFirst
<1> QED BY <1>5, <1>6

(* The three matchers, one after the other.                                 *)
LEMMA ReplaceAppendedResult ==
    ASSUME NEW S, NEW q \in Seq(S), NEW tracked
    PROVE  LET r == ReplaceAppended(tracked, q) IN
           /\ Thins(tracked, q, r)
           /\ ~(Len(r) = 1 /\ r[1] \in tracked)
<1>1. CASE Len(q) = 1 /\ q[1] \in tracked
  <2>1. LeftAt(q, {}) \in Seq(S) /\ Len(LeftAt(q, {})) = 0
    BY LeftAtResult, FS_EmptySet
  <2>2. LeftAt(q, {}) = <<>>
    BY <2>1
  <2>3. \A i \in DOMAIN q : q[i] \in tracked
    BY <1>1
  <2>4. Thins(tracked, q, <<>>)
    BY <2>2, <2>3 DEF Thins
  <2> QED BY <1>1, <2>4 DEF ReplaceAppended
<1>2. CASE ~(Len(q) = 1 /\ q[1] \in tracked)
  BY <1>2, ThinsItself DEF ReplaceAppended
<1> QED BY <1>1, <1>2

LEMMA ReplaceFirstResult ==
    ASSUME NEW S, NEW q \in Seq(S), NEW tracked, ~(Len(q) = 1 /\ q[1] \in tracked)
    PROVE  LET r == ReplaceFirst(tracked, q) IN
           /\ Thins(tracked, q, r)
           /\ TrackedAtMostFirst(tracked, q) => NothingTracked(tracked, r)
<1>1. CASE Len(q) > 1 /\ q[1] \in tracked
  <2>1. Tail(q) = LeftAt(q, 2..Len(q))
    BY <1>1, TailIsLeft
  <2>2. 2..Len(q) \in SUBSET DOMAIN q /\ DOMAIN q \ (2..Len(q)) = {1}
    BY <1>1
  <2>3. Thins(tracked, q, Tail(q))
    BY <1>1, <2>1, <2>2 DEF Thins
  <2>4. TrackedAtMostFirst(tracked, q) => NothingTracked(tracked, Tail(q))
    <3>1. \A n \in DOMAIN Tail(q) : n + 1 \in DOMAIN q /\ n + 1 > 1 /\ Tail(q)[n] = q[n + 1]
      BY <1>1
    <3> QED BY <3>1 DEF TrackedAtMostFirst, NothingTracked
  <2> QED BY <1>1, <2>3, <2>4 DEF ReplaceFirst
<1>2. CASE ~(Len(q) > 1 /\ q[1] \in tracked)
  <2>1. ReplaceFirst(tracked, q) = q
    BY <1>2 DEF ReplaceFirst
  <2>2. 1 \in DOMAIN q => q[1] \notin tracked
    <3> DEFINE m == Len(q)
    <3>1. m \in Nat /\ DOMAIN q = 1..m
      OBVIOUS
    <3> HIDE DEF m
    <3>2. 1 \in DOMAIN q => m = 1 \/ m > 1
      BY <3>1
    <3> QED BY <1>2, <3>2 DEF m
  <2>3. TrackedAtMostFirst(tracked, q) => NothingTracked(tracked, q)
    <3>1. \A i \in DOMAIN q : i = 1 \/ i > 1
      OBVIOUS
    <3> QED BY <2>2, <3>1 DEF TrackedAtMostFirst, NothingTracked
  <2> QED BY <2>1, <2>3, ThinsItself
<1> QED BY <1>1, <1>2

LEMMA ReplaceOnlyResult ==
    ASSUME NEW S, NEW q \in Seq(S), NEW tracked
    PROVE  LET r == ReplaceOnly(tracked, q) IN
           /\ Thins(tracked, q, r)
           /\ TrackedAtMostFirst(tracked, r)
<1> DEFINE P == {i \in DOMAIN q : i = 1 \/ q[i] \notin tracked}
           r == LeftAt(q, P)
<1>1. P \in SUBSET DOMAIN q /\ \A i \in DOMAIN q \ P : q[i] \in tracked
  OBVIOUS
<1>2. Thins(tracked, q, r)
  BY <1>1 DEF Thins
<1>3. \A i \in P : i = 1 \/ q[i] \notin tracked
  OBVIOUS
<1> HIDE DEF P
<1>4. /\ DOMAIN r = 1..Cardinality(P)
      /\ \A n \in DOMAIN r : Nth(P, n) \in P /\ r[n] = q[Nth(P, n)]
  BY <1>1, LeftAtResult
<1>5. Len(q) \in Nat /\ P \in SUBSET (1..Len(q))
  BY <1>1
<1> HIDE DEF r
<1>6. ASSUME NEW n \in DOMAIN r, n > 1 PROVE r[n] \notin tracked
  <2>1. Cardinality(P) \in Nat
    BY <1>5, PlacesAreFinite
  <2>2. 1 \in 1..Cardinality(P) /\ n \in 1..Cardinality(P) /\ 1 < n
    BY <1>4, <1>6, <2>1
  <2>3. Nth(P, 1) < Nth(P, n) /\ Nth(P, 1) \in 1..Len(q) /\ Nth(P, n) \in 1..Len(q)
    BY <1>4, <1>5, <2>2, NthGrows
  <2>4. Nth(P, n) # 1
    BY <1>5, <2>3
  <2> QED BY <1>3, <1>4, <2>4
<1>7. TrackedAtMostFirst(tracked, r)
  BY <1>6 DEF TrackedAtMostFirst
<1> QED BY <1>2, <1>7 DEF ReplaceOnly, r, P

(* A run of the matchers of a rule leaves one of its parameters at most, at *)
(* the front, and the next run takes that too.                              *)
LEMMA ApplyQueryMatchersResult ==
    ASSUME NEW S, NEW q \in Seq(S), NEW tracked
    PROVE  LET r == ApplyQueryMatchers(tracked, q) IN
           /\ Thins(tracked, q, r)
           /\ TrackedAtMostFirst(tracked, r)
           /\ TrackedAtMostFirst(tracked, q) => NothingTracked(tracked, r)
<1> DEFINE q1 == ReplaceAppended(tracked, q)
           q2 == ReplaceFirst(tracked, q1)
           q3 == ReplaceOnly(tracked, q2)
<1>1. Thins(tracked, q, q1) /\ ~(Len(q1) = 1 /\ q1[1] \in tracked)
  BY ReplaceAppendedResult
<1> HIDE DEF q1
<1>2. q1 \in Seq(S)
  BY <1>1, ThinsIsQuery
<1>3. Thins(tracked, q1, q2) /\ (TrackedAtMostFirst(tracked, q1) => NothingTracked(tracked, q2))
  BY <1>1, <1>2, ReplaceFirstResult
<1> HIDE DEF q2
<1>4. q2 \in Seq(S)
  BY <1>2, <1>3, ThinsIsQuery
<1>5. Thins(tracked, q2, q3) /\ TrackedAtMostFirst(tracked, q3)
  BY <1>4, ReplaceOnlyResult
<1> HIDE DEF q3
<1>6. Thins(tracked, q, q3)
  <2>1. Thins(tracked \cup tracked, q, q2)
    BY <1>1, <1>2, <1>3, ThinsThins
  <2>2. Thins(tracked, q, q2)
    BY <2>1
  <2>3. Thins(tracked \cup tracked, q, q3)
    BY <1>4, <1>5, <2>2, ThinsThins
  <2> QED BY <2>3
<1>7. TrackedAtMostFirst(tracked, q) => NothingTracked(tracked, q3)
  BY <1>1, <1>2, <1>3, <1>4, <1>5, ThinsStaysClean
<1>8. ApplyQueryMatchers(tracked, q) = q3
  BY DEF ApplyQueryMatchers, q1, q2, q3
<1> QED BY <1>5, <1>6, <1>7, <1>8

-----------------------------------------------------------------------------
(* Purifying a URL                                                         *)

(* What the per-site rules take from a URL of a site.                       *)
SiteParams(site) ==
    LET tried == {i \in DOMAIN SiteRules : ~SkipsRule(SiteRules[i], site)}
        rule  == SiteRules[CHOOSE i \in tried : \A j \in tried : i <= j]
    IN  IF tried = {} \/ site \in rule.exceptions THEN {} ELSE rule.params

Tracked(site) == GlobalParams \cup SiteParams(site)

LEMMA FirstPlace ==
    ASSUME NEW m \in Nat, NEW P \in SUBSET (1..m), P # {}
    PROVE  \E i \in P : \A j \in P : i <= j
<1>1. IsFiniteSet(P) /\ Cardinality(P) \in Nat
  BY PlacesAreFinite
<1>2. Cardinality(P) # 0
  BY <1>1, FS_EmptySet
<1>3. 1 \in 1..Cardinality(P)
  BY <1>1, <1>2
<1> DEFINE i == Nth(P, 1)
<1>4. i \in P /\ Cardinality(Below(P, i)) = 1 - 1
  BY <1>3, NthResult
<1> HIDE DEF i
<1>5. Below(P, i) \in SUBSET (1..m)
  BY DEF Below
<1>6. IsFiniteSet(Below(P, i)) /\ Cardinality(Below(P, i)) = 0
  BY <1>4, <1>5, PlacesAreFinite
<1>7. Below(P, i) = {}
  BY <1>6, FS_EmptySet
<1>8. \A j \in P : ~(j < i)
  BY <1>7 DEF Below
<1> QED BY <1>4, <1>8

LEMMA SiteParamsAreOfRule ==
    ASSUME NEW site
    PROVE  SiteParams(site) \subseteq UNION {SiteRules[i].params : i \in DOMAIN SiteRules}
<1> DEFINE tried == {i \in DOMAIN SiteRules : ~SkipsRule(SiteRules[i], site)}
           k     == CHOOSE i \in tried : \A j \in tried : i <= j
<1>1. tried \in SUBSET DOMAIN SiteRules
  OBVIOUS
<1>2. Len(SiteRules) \in Nat /\ DOMAIN SiteRules = 1..Len(SiteRules)
  BY PurifyAssumption
<1>3. SiteParams(site) = IF tried = {} \/ site \in SiteRules[k].exceptions THEN {}
                         ELSE SiteRules[k].params
  BY DEF SiteParams
<1> HIDE DEF tried
<1>4. tried # {} => k \in tried
  <2>1. tried # {} => \E i \in tried : \A j \in tried : i <= j
    BY <1>1, <1>2, FirstPlace
  <2> QED BY <2>1
<1> HIDE DEF k
<1> QED BY <1>1, <1>3, <1>4

LEMMA ApplyPerSiteRulesResult ==
    ASSUME NEW S, NEW q \in Seq(S), NEW site
    PROVE  LET r       == ApplyPerSiteRules(site, q)
               tracked == SiteParams(site)
           IN  /\ Thins(tracked, q, r)
               /\ TrackedAtMostFirst(tracked, r)
               /\ TrackedAtMostFirst(tracked, q) => NothingTracked(tracked, r)
<1> DEFINE tried == {i \in DOMAIN SiteRules : ~SkipsRule(SiteRules[i], site)}
           rule  == SiteRules[CHOOSE i \in tried : \A j \in tried : i <= j]
           r     == ApplyPerSiteRules(site, q)
<1>1. /\ SiteParams(site) = IF tried = {} \/ site \in rule.exceptions THEN {} ELSE rule.params
      /\ r = IF tried = {} \/ site \in rule.exceptions THEN q
             ELSE ApplyQueryMatchers(rule.params, q)
  BY DEF SiteParams, ApplyPerSiteRules
<1> HIDE DEF tried, rule, r
<1>2. CASE tried = {} \/ site \in rule.exceptions
  <2>1. r = q /\ SiteParams(site) = {}
    BY <1>1, <1>2
  <2>2. TrackedAtMostFirst({}, q) /\ NothingTracked({}, q)
    BY DEF TrackedAtMostFirst, NothingTracked
  <2> QED BY <2>1, <2>2, ThinsItself DEF r
<1>3. CASE ~(tried = {} \/ site \in rule.exceptions)
  <2>1. r = ApplyQueryMatchers(rule.params, q) /\ SiteParams(site) = rule.params
    BY <1>1, <1>3
  <2> QED BY <2>1, ApplyQueryMatchersResult DEF r
<1> QED BY <1>2, <1>3

(* Purifying takes parameters of the rules only.  It may leave one, at the  *)
(* front, and the next time takes that too; if there is none it changes     *)
(* nothing, and if it changes nothing there was none.                       *)
THEOREM TruncatedQueryResult ==
    ASSUME NEW S, NEW url, url.query \in Seq(S)
    PROVE  LET r       == TruncatedQuery(url)
               tracked == Tracked(url.site)
           IN  /\ Thins(tracked, url.query, r)
               /\ TrackedAtMostFirst(tracked, r)
               /\ TrackedAtMostFirst(tracked, url.query) => NothingTracked(tracked, r)
               /\ NothingTracked(tracked, url.query) <=> Len(r) = Len(url.query)
<1> DEFINE q == url.query
           G == GlobalParams
           R == SiteParams(url.site)
           g == ApplyQueryMatchers(G, q)
           r == ApplyPerSiteRules(url.site, g)
<1>0. q \in Seq(S) /\ TruncatedQuery(url) = r /\ Tracked(url.site) = G \cup R
  BY DEF TruncatedQuery, Tracked
<1>1. /\ Thins(G, q, g)
      /\ TrackedAtMostFirst(G, g)
      /\ TrackedAtMostFirst(G, q) => NothingTracked(G, g)
  BY ApplyQueryMatchersResult
<1> HIDE DEF g, q
<1>2. g \in Seq(S) /\ Len(g) <= Len(q) /\ (Len(g) = Len(q) => g = q)
  BY <1>0, <1>1, ThinsIsQuery
<1>3. /\ Thins(R, g, r)
      /\ TrackedAtMostFirst(R, r)
      /\ TrackedAtMostFirst(R, g) => NothingTracked(R, r)
  BY <1>2, ApplyPerSiteRulesResult
<1> HIDE DEF r, R
<1>4. r \in Seq(S) /\ Len(r) <= Len(g) /\ (Len(r) = Len(g) => r = g)
  BY <1>2, <1>3, ThinsIsQuery
<1>5. Thins(G \cup R, q, r)
  BY <1>0, <1>1, <1>2, <1>3, ThinsThins
<1>6. /\ TrackedAtMostFirst(G, r)
      /\ NothingTracked(G, g) => NothingTracked(G, r)
      /\ TrackedAtMostFirst(R, q) => TrackedAtMostFirst(R, g)
  BY <1>0, <1>1, <1>2, <1>3, ThinsStaysClean
<1>7. TrackedAtMostFirst(G \cup R, r)
  BY <1>3, <1>6 DEF TrackedAtMostFirst
<1>8. ASSUME TrackedAtMostFirst(G \cup R, q) PROVE NothingTracked(G \cup R, r)
  <2>1. TrackedAtMostFirst(G, q) /\ TrackedAtMostFirst(R, q)
    BY <1>8 DEF TrackedAtMostFirst
  <2>2. NothingTracked(G, r) /\ NothingTracked(R, r)
    BY <1>1, <1>3, <1>6, <2>1
  <2> QED BY <2>2 DEF NothingTracked
<1>9. Len(r) = Len(q) => NothingTracked(G \cup R, q)
  <2>1. Len(r) = Len(q) => r = q
    BY <1>0, <1>5, ThinsIsQuery
  <2> QED BY <1>7, <1>8, <2>1
<1>10. ASSUME NothingTracked(G \cup R, q) PROVE Len(r) = Len(q)
  <2>1. PICK P \in SUBSET DOMAIN q :
            r = LeftAt(q, P) /\ \A i \in DOMAIN q \ P : q[i] \in G \cup R
    BY <1>5 DEF Thins
  <2>2. P = DOMAIN q
    BY <1>10, <2>1 DEF NothingTracked
  <2>3. r = q
    BY <1>0, <2>1, <2>2, LeftAtAll
  <2> QED BY <2>3
<1> QED BY <1>0, <1>5, <1>7, <1>8, <1>9, <1>10 DEF q
=============================================================================
