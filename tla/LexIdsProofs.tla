------------------------------ MODULE LexIdsProofs ------------------------------
(***************************************************************************)
(* Proofs about LexIds: add_one counts the ids in the order of the         *)
(* databases, with none left out.                                          *)
(***************************************************************************)
EXTENDS LexIds, FiniteSetTheorems, WellFoundedInduction, TLAPS

\* In a set of positions that is not empty, one is the last.
LEMMA LastPosition ==
  ASSUME NEW P \in SUBSET Positions, P # {}
  PROVE  \E p \in P : \A q \in P : q <= p
<1>. DEFINE Up == {n \in Nat : Width - n \in P}
<1>1. PICK a \in P : TRUE
  OBVIOUS
<1>2. Width - a \in Nat /\ Width - (Width - a) = a
  BY IdAssumption DEF Positions
<1>3. Up \subseteq Nat /\ Up # {}
  BY <1>1, <1>2, Zenon
<1>4. PICK u \in Up : \A v \in Up : ~(<<v, u>> \in OpToRel(<, Nat))
  BY <1>3, NatLessThanWellFounded, WFMin, Zenon
<1>5. \A v \in Up : ~(v < u)
  BY <1>3, <1>4 DEF OpToRel
<1>6. u \in Nat /\ Width - u \in P /\ P \subseteq Nat /\ Width \in Nat
  BY IdAssumption DEF Positions
<1>7. SUFFICES ASSUME NEW q \in P, q > Width - u
               PROVE  FALSE
  <2>1. \A q \in P : q <= Width - u \/ q > Width - u
    BY <1>6
  <2>. QED
    BY <1>6, <2>1
<1>8. Width - q \in Nat /\ Width - (Width - q) = q /\ Width - q < u
  BY <1>6, <1>7, IdAssumption DEF Positions
<1>9. Width - q \in Up
  BY <1>7, <1>8
<1>. QED
  BY <1>5, <1>8, <1>9

-----------------------------------------------------------------------------
(* add_one, once it is known where it stops.                               *)

LEMMA AddOneAtIsId ==
  ASSUME NEW s \in Id, NEW p \in Positions
  PROVE  AddOneAt(s, p) \in Id
BY IdAssumption DEF Id, AddOneAt, Positions

LEMMA AddOneAtIsAfter ==
  ASSUME CharSigned, NEW s \in Id, NEW p \in Positions, Stops(s, p)
  PROVE  Before(s, AddOneAt(s, p))
<1>1. s[p] \in Nat /\ s[p] + 1 < Base
  BY IdAssumption DEF Id, Stops, Overflows, Positions
<1>2. (s[p] + 1) % Base = s[p] + 1
  BY <1>1, IdAssumption
<1>3. AddOneAt(s, p)[p] = s[p] + 1 /\ \A j \in Positions : j < p => s[j] = AddOneAt(s, p)[j]
  BY <1>2 DEF AddOneAt, Positions
<1>. QED
  BY <1>1, <1>3 DEF Before

LEMMA NothingBetween ==
  ASSUME CharSigned, NEW s \in Id, NEW p \in Positions, Stops(s, p),
         NEW t \in Id, Before(s, t), Before(t, AddOneAt(s, p))
  PROVE  FALSE
<1>. DEFINE n == AddOneAt(s, p)
<1>1. PICK i \in Positions : s[i] < t[i] /\ \A j \in Positions : j < i => s[j] = t[j]
  BY DEF Before
<1>2. PICK k \in Positions : t[k] < n[k] /\ \A j \in Positions : j < k => t[j] = n[j]
  BY DEF Before
<1>3. /\ \A j \in Positions : s[j] \in 0..(Base - 1) /\ t[j] \in 0..(Base - 1)
      /\ i \in Int /\ k \in Int /\ p \in Int
  BY DEF Id, Positions
<1>4. s[p] + 1 < Base /\ (s[p] + 1) % Base = s[p] + 1
  BY <1>3, IdAssumption DEF Stops, Overflows
<1>5. \A j \in Positions : n[j] = IF j < p THEN s[j] ELSE IF j = p THEN s[p] + 1 ELSE 0
  BY <1>4 DEF AddOneAt
<1>6. CASE i > p
  <2>1. s[i] = Base - 1
    BY <1>6 DEF Stops, Overflows
  <2>. QED
    BY <1>1, <1>3, <2>1, IdAssumption
<1>7. CASE i <= p
  <2>1. n[i] <= t[i]
    BY <1>1, <1>3, <1>5, <1>7
  <2>2. \A j \in Positions : j < i => t[j] = n[j]
    BY <1>1, <1>3, <1>5, <1>7
  <2>3. CASE k <= i
    BY <1>2, <1>3, <1>5, <2>1, <2>2, <2>3
  <2>4. CASE k > i
    <3>1. t[i] = n[i] /\ i = p
      BY <1>1, <1>2, <1>3, <1>5, <1>7, <2>4
    <3>2. n[k] = 0
      BY <1>5, <1>3, <2>4, <3>1
    <3>. QED
      BY <1>2, <1>3, <3>2
  <2>. QED
    BY <1>3, <2>3, <2>4
<1>. QED
  BY <1>3, <1>6, <1>7

-----------------------------------------------------------------------------
\* add_one stops at a byte of every id but the last one.
LEMMA StopsSomewhere ==
  ASSUME NEW s \in Id, s # LastId
  PROVE  \E p \in Positions : Stops(s, p)
<1>. DEFINE P == {p \in Positions : ~Overflows(s[p])}
<1>1. P # {}
  <2>1. PICK i \in Positions : s[i] # Base - 1
    BY DEF Id, LastId
  <2>. QED
    BY <2>1 DEF Overflows
<1>2. PICK p \in P : \A q \in P : q <= p
  BY <1>1, LastPosition
<1>3. \A j \in Positions : j > p => Overflows(s[j])
  BY <1>2 DEF Positions
<1>. QED
  BY <1>2, <1>3 DEF Stops

\* Where char is signed, add_one makes of every id but the last one the next id in
\* the order of the databases: it comes after it, and no id lies between.  The
\* number of an entry may so stand for its id.
THEOREM AddOneIsNext ==
  ASSUME CharSigned, NEW s \in Id, s # LastId
  PROVE  /\ AddOne(s) \in Id
         /\ Before(s, AddOne(s))
         /\ \A t \in Id : ~(Before(s, t) /\ Before(t, AddOne(s)))
<1>1. \E p \in Positions : Stops(s, p)
  BY StopsSomewhere
<1>2. PICK p \in Positions : Stops(s, p) /\ AddOne(s) = AddOneAt(s, p)
  BY <1>1 DEF AddOne
<1>. QED
  BY <1>2, AddOneAtIsId, AddOneAtIsAfter, NothingBetween

-----------------------------------------------------------------------------
(* Ids counted by add_one from zero.                                       *)

\* Induction up to n, for a set.
LEMMA CountingUp ==
  ASSUME NEW n \in Nat, NEW S, 0 \in S, \A k \in 0..n : k \in S /\ k < n => k + 1 \in S
  PROVE  0..n \subseteq S
<1>. DEFINE Left == {k \in Nat : k <= n /\ k \notin S}
<1>1. SUFFICES ASSUME Left # {} PROVE FALSE
  OBVIOUS
<1>2. PICK k \in Left : \A j \in Left : ~(<<j, k>> \in OpToRel(<, Nat))
  BY <1>1, NatLessThanWellFounded, WFMin, Zenon
<1>3. \A j \in Left : ~(j < k)
  BY <1>2 DEF OpToRel
<1>4. k \in Nat /\ k <= n /\ k \notin S /\ k # 0
  BY <1>2
<1>5. k - 1 \in Nat /\ k - 1 < k /\ k - 1 < n /\ (k - 1) + 1 = k
  BY <1>4
<1>6. k - 1 \in S
  BY <1>3, <1>5
<1>. QED
  BY <1>4, <1>5, <1>6

LEMMA FirstPosition ==
  ASSUME NEW P \in SUBSET Positions, P # {}
  PROVE  \E p \in P : \A q \in P : p <= q
<1>1. P \subseteq Nat
  BY DEF Positions
<1>2. PICK p \in P : \A q \in P : ~(<<q, p>> \in OpToRel(<, Nat))
  BY <1>1, NatLessThanWellFounded, WFMin, Zenon
<1>3. \A q \in P : ~(q < p)
  BY <1>1, <1>2 DEF OpToRel
<1>. QED
  BY <1>1, <1>3

LEMMA BeforeIsTransitive ==
  ASSUME NEW s \in Id, NEW t \in Id, NEW u \in Id, Before(s, t), Before(t, u)
  PROVE  Before(s, u)
<1>1. PICK i \in Positions : s[i] < t[i] /\ \A j \in Positions : j < i => s[j] = t[j]
  BY DEF Before
<1>2. PICK k \in Positions : t[k] < u[k] /\ \A j \in Positions : j < k => t[j] = u[j]
  BY DEF Before
<1>3. /\ \A j \in Positions : s[j] \in Int /\ t[j] \in Int /\ u[j] \in Int
      /\ i \in Int /\ k \in Int
      /\ \A j \in Positions : j \in Int
  BY DEF Id, Positions
<1>4. CASE i <= k
  <2>1. s[i] < u[i]
    BY <1>1, <1>2, <1>3, <1>4
  <2>2. \A j \in Positions : j < i => s[j] = u[j]
    BY <1>1, <1>2, <1>3, <1>4
  <2>. QED
    BY <2>1, <2>2 DEF Before
<1>5. CASE k < i
  <2>1. s[k] < u[k]
    BY <1>1, <1>2, <1>3, <1>5
  <2>2. \A j \in Positions : j < k => s[j] = u[j]
    BY <1>1, <1>2, <1>3, <1>5
  <2>. QED
    BY <2>1, <2>2 DEF Before
<1>. QED
  BY <1>3, <1>4, <1>5

LEMMA BeforeIsTotal ==
  ASSUME NEW s \in Id, NEW t \in Id, s # t
  PROVE  Before(s, t) \/ Before(t, s)
<1>. DEFINE P == {p \in Positions : s[p] # t[p]}
<1>1. P # {}
  BY DEF Id
<1>2. PICK p \in P : \A q \in P : p <= q
  BY <1>1, FirstPosition
<1>3. \A j \in Positions : j < p => s[j] = t[j]
  BY <1>2 DEF Positions
<1>4. s[p] \in Int /\ t[p] \in Int /\ s[p] # t[p] /\ p \in Positions
  BY <1>2 DEF Id
<1>. QED
  BY <1>3, <1>4 DEF Before

LEMMA ZeroAndLast ==
  /\ GetZero \in Id /\ LastId \in Id
  /\ \A t \in Id : ~Before(t, GetZero) /\ ~Before(LastId, t)
<1>1. GetZero \in Id /\ LastId \in Id
  BY IdAssumption DEF GetZero, LastId, Id
<1>2. \A t \in Id : ~Before(t, GetZero)
  BY DEF Before, GetZero, Id
<1>3. \A t \in Id : ~Before(LastId, t)
  BY IdAssumption DEF Before, LastId, Id
<1>. QED
  BY <1>1, <1>2, <1>3

LEMMA AddOneIsId == ASSUME NEW s \in Id PROVE AddOne(s) \in Id
<1>1. CASE \E p \in Positions : Stops(s, p)
  BY <1>1, AddOneAtIsId DEF AddOne
<1>2. CASE ~\E p \in Positions : Stops(s, p)
  BY <1>2, ZeroAndLast DEF AddOne
<1>. QED
  BY <1>1, <1>2

\* B is how add_one counts from zero to n.
Counted(B, n) ==
    /\ B \in [0..n -> Id]
    /\ B[0] = GetZero
    /\ \A k \in 0..n : k < n => B[k + 1] = AddOne(B[k])

LEMMA CountedOneMore ==
  ASSUME NEW n \in Nat, NEW B, Counted(B, n)
  PROVE  \E C : Counted(C, n + 1)
<1>. DEFINE C == [k \in 0..(n + 1) |-> IF k <= n THEN B[k] ELSE AddOne(B[n])]
<1>1. B \in [0..n -> Id] /\ B[0] = GetZero
  BY DEF Counted
<1>2. AddOne(B[n]) \in Id
  BY <1>1, AddOneIsId
<1>3. C \in [0..(n + 1) -> Id]
  BY <1>1, <1>2
<1>4. C[0] = GetZero
  BY <1>1
<1>5. ASSUME NEW k \in 0..(n + 1), k < n + 1
      PROVE  C[k + 1] = AddOne(C[k])
  <2>1. C[k] = B[k]
    BY <1>5
  <2>2. CASE k < n
    <3>1. B[k + 1] = AddOne(B[k])
      BY <2>2 DEF Counted
    <3>. QED
      BY <2>1, <2>2, <3>1
  <2>3. CASE k = n
    BY <2>1, <2>3
  <2>. QED
    BY <1>5, <2>2, <2>3
<1>. QED
  BY <1>3, <1>4, <1>5 DEF Counted

LEMMA CountedExists ==
  ASSUME NEW n \in Nat
  PROVE  \E B : Counted(B, n)
<1>. DEFINE S == {k \in Nat : \E B : Counted(B, k)}
<1>1. 0 \in S
  <2>. DEFINE B == [k \in 0..0 |-> GetZero]
  <2>1. Counted(B, 0)
    BY ZeroAndLast DEF Counted
  <2>. QED
    BY <2>1
<1>2. \A k \in 0..n : k \in S /\ k < n => k + 1 \in S
  BY CountedOneMore
<1>3. 0..n \subseteq S
  <2>. HIDE DEF S
  <2>. QED
    BY <1>1, <1>2, CountingUp
<1>. QED
  BY <1>3

\* What comes before an id counted up to has been counted before it.
LEMMA CountedIsDense ==
  ASSUME CharSigned, NEW n \in Nat, NEW B, Counted(B, n), NEW k \in 0..n
  PROVE  \A t \in Id : Before(t, B[k]) => \E i \in 0..k : B[i] = t
<1>. DEFINE S == {j \in 0..n : \A t \in Id : Before(t, B[j]) => \E i \in 0..j : B[i] = t}
<1>1. 0 \in S
  BY ZeroAndLast DEF Counted
<1>2. ASSUME NEW j \in 0..n, j \in S, j < n
      PROVE  j + 1 \in S
  <2>1. B[j] \in Id /\ B[j + 1] = AddOne(B[j])
    BY <1>2 DEF Counted
  <2>. SUFFICES ASSUME NEW t \in Id, Before(t, B[j + 1])
                PROVE  \E i \in 0..(j + 1) : B[i] = t
    BY <1>2
  <2>2. CASE t = B[j]
    BY <2>2
  <2>3. CASE Before(t, B[j])
    <3>1. PICK i \in 0..j : B[i] = t
      BY <1>2, <2>3
    <3>. QED
      BY <3>1
  <2>4. CASE Before(B[j], t)
    <3>1. CASE B[j] = LastId
      BY <2>4, <3>1, ZeroAndLast
    <3>2. CASE B[j] # LastId
      BY <2>1, <2>4, <3>2, AddOneIsNext
    <3>. QED
      BY <3>1, <3>2
  <2>. QED
    BY <2>1, <2>2, <2>3, <2>4, BeforeIsTotal
<1>3. 0..n \subseteq S
  <2>. HIDE DEF S
  <2>. QED
    BY <1>1, <1>2, CountingUp
<1>. QED
  BY <1>3

\* So the last id is not met while there are ids left to count.
LEMMA CountedIsNotLast ==
  ASSUME CharSigned, NEW n \in Nat, n < Cardinality(Id), NEW B, Counted(B, n),
         NEW k \in 0..n, k < n
  PROVE  B[k] # LastId
<1>. SUFFICES ASSUME B[k] = LastId PROVE FALSE
  OBVIOUS
<1>. DEFINE C == [i \in 0..k |-> B[i]]
<1>1. \A t \in Id : \E i \in 0..k : C[i] = t
  <2>. SUFFICES ASSUME NEW t \in Id PROVE \E i \in 0..k : B[i] = t
    OBVIOUS
  <2>1. CASE t = LastId
    BY <2>1
  <2>2. CASE t # LastId
    <3>1. Before(t, B[k])
      BY <2>2, BeforeIsTotal, ZeroAndLast
    <3>. QED
      BY <3>1, CountedIsDense
  <2>. QED
    BY <2>1, <2>2
<1>2. C \in [0..k -> Id]
  BY DEF Counted
<1>3. C \in Surjection(0..k, Id)
  BY <1>1, <1>2 DEF Surjection
<1>4. IsFiniteSet(0..k) /\ Cardinality(0..k) = k + 1
  BY FS_Interval
<1>5. IsFiniteSet(Id) /\ Cardinality(Id) <= k + 1
  <2>. HIDE DEF C
  <2>. QED
    BY <1>3, <1>4, FS_Surjection
<1>6. Cardinality(Id) \in Nat
  BY <1>5, FS_CardinalityType
<1>. QED
  BY <1>5, <1>6

\* Where char is signed and there are ids enough, the ids that add_one counts from
\* zero are in the order of the databases, however many they are.
THEOREM CountingKeepsOrder ==
  ASSUME CharSigned, NEW n \in Nat, n < Cardinality(Id), NEW B, Counted(B, n)
  PROVE  \A i, j \in 0..n : i < j => Before(B[i], B[j])
<1>. DEFINE S == {k \in 0..n : \A i \in 0..k : i < k => Before(B[i], B[k])}
<1>1. 0 \in S
  OBVIOUS
<1>2. ASSUME NEW k \in 0..n, k \in S, k < n
      PROVE  k + 1 \in S
  <2>1. B[k] \in Id /\ B[k + 1] = AddOne(B[k]) /\ \A i \in 0..k : B[i] \in Id
    BY <1>2 DEF Counted
  <2>2. B[k] # LastId
    BY <1>2, CountedIsNotLast
  <2>3. B[k + 1] \in Id /\ Before(B[k], B[k + 1])
    BY <2>1, <2>2, AddOneIsNext
  <2>4. ASSUME NEW i \in 0..(k + 1), i < k + 1
        PROVE  Before(B[i], B[k + 1])
    <3>1. CASE i = k
      BY <2>3, <3>1
    <3>2. CASE i # k
      <4>1. i \in 0..k /\ i < k
        BY <2>4, <3>2
      <4>2. Before(B[i], B[k])
        BY <1>2, <4>1
      <4>. QED
        BY <2>1, <2>3, <4>1, <4>2, BeforeIsTransitive
    <3>. QED
      BY <3>1, <3>2
  <2>. QED
    BY <1>2, <2>4
<1>3. 0..n \subseteq S
  <2>. HIDE DEF S
  <2>. QED
    BY <1>1, <1>2, CountingUp
<1>. QED
  BY <1>3
=============================================================================
