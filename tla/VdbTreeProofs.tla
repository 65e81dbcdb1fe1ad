---------------------------- MODULE VdbTreeProofs ----------------------------
(***************************************************************************)
(* Proofs about VdbTree, for any edges of which each divides the next, any *)
(* resolutions and any number of grids: what is read from the file is the  *)
(* field it was written from.                                              *)
(*                                                                         *)
(* The argument.  A voxel's place is its coordinates written in three      *)
(* bases, so the reader's inverse gives them back and no two voxels share  *)
(* a place.  The reader visits the bits of a mask in the order the writer  *)
(* visited the nodes they stand for, each of them once.  What is written   *)
(* for a list of nodes is what is written for its head and then for its    *)
(* tail, so a reader that is where the writer was when it wrote the nodes  *)
(* still to come is, one node later, where the writer was then.  And the   *)
(* grids are laid end to end, each beginning where the descriptor of the   *)
(* one before it says.                                                     *)
(***************************************************************************)
EXTENDS VdbTree, TLAPS, WellFoundedInduction, FiniteSetTheorems

-----------------------------------------------------------------------------
(***************************************************************************)
(* A voxel's place and its coordinates.                                    *)
(***************************************************************************)
LEMMA Quotient ==
    ASSUME NEW q \in Nat, NEW d \in Nat \ {0}, NEW r \in 0..(d - 1)
    PROVE  (q * d + r) \div d = q /\ (q * d + r) % d = r
  OBVIOUS

LEMMA Divided ==
    ASSUME NEW x \in Nat, NEW d \in Nat \ {0}
    PROVE  x = (x \div d) * d + (x % d) /\ x % d \in 0..(d - 1) /\ x \div d \in Nat
  OBVIOUS

\* A quotient below the number of parts.
LEMMA QuotientBelow ==
    ASSUME NEW x \in Nat, NEW d \in Nat \ {0}, NEW e \in Nat, x < e * d
    PROVE  x \div d \in 0..(e - 1)
<1> DEFINE q == x \div d
<1>1. x = q * d + (x % d) /\ q \in Nat /\ x % d \in Nat
  BY Divided
<1>2. ASSUME q >= e PROVE FALSE
  <2>1. q * d >= e * d
    BY <1>1, <1>2
  <2> QED
    BY <1>1, <2>1
<1> QED
  BY <1>1, <1>2

LEMMA PackedIsBounded ==
    ASSUME NEW e \in Nat, NEW x \in 0..(e - 1), NEW y \in 0..(e - 1), NEW z \in 0..(e - 1)
    PROVE  Packed(e, x, y, z) \in 0..(e * e * e - 1)
<1>1. y * e + z \in 0..(e * e - 1)
  <2>1. y * e <= (e - 1) * e
    OBVIOUS
  <2>2. (e - 1) * e = e * e - e /\ y * e \in Nat
    OBVIOUS
  <2> QED
    BY <2>1, <2>2
<1> DEFINE s == e * e
<1>2. s \in Nat /\ e * e * e = e * s /\ x * e * e = x * s
  OBVIOUS
<1>3. x * s <= (e - 1) * s /\ (e - 1) * s = e * s - s /\ x * s \in Nat
  <2> HIDE DEF s
  <2>1. s \in Nat
    BY <1>2
  <2> QED
    BY <2>1
<1>4. e * s \in Nat
  BY <1>2
<1> HIDE DEF s
<1>5. Packed(e, x, y, z) = x * s + (y * e + z)
  BY <1>2 DEF Packed
<1>6. y * e + z \in 0..(s - 1)
  BY <1>1 DEF s
<1> DEFINE yz == y * e + z
           xs == x * s
           es == e * s
<1>7. yz \in 0..(s - 1) /\ xs \in Nat /\ es \in Nat /\ xs <= es - s /\ Packed(e, x, y, z) = xs + yz
  BY <1>3, <1>4, <1>5, <1>6
<1> HIDE DEF yz, xs, es
<1>8. xs + yz \in 0..(es - 1)
  BY <1>2, <1>7
<1> QED
  BY <1>2, <1>7, <1>8 DEF es

\* What is packed is found again.
LEMMA PackedIsUnpacked ==
    ASSUME NEW e \in Nat \ {0}, NEW w,
           NEW x \in 0..(e - 1), NEW y \in 0..(e - 1), NEW z \in 0..(e - 1)
    PROVE  offset_to_coord(Packed(e, x, y, z), e, w) = <<x * w, y * w, z * w>>
<1> DEFINE s == e * e
           yz == y * e + z
           n == Packed(e, x, y, z)
<1>1. yz \in 0..(s - 1)
  <2>1. y * e <= (e - 1) * e
    OBVIOUS
  <2>2. (e - 1) * e = e * e - e /\ y * e \in Nat
    OBVIOUS
  <2> QED
    BY <2>1, <2>2
<1>2. s \in Nat \ {0} /\ n = x * s + yz
  BY DEF Packed
<1>3. n \div s = x /\ n % s = yz
  <2> HIDE DEF s, yz, n
  <2> QED
    BY <1>1, <1>2, Quotient
<1>4. yz \div e = y
  BY Quotient
<1>5. n % e = z
  <2>1. x * e + y \in Nat /\ n = (x * e + y) * e + z
    BY DEF Packed
  <2> HIDE DEF n
  <2> QED
    BY <2>1, Quotient
<1> HIDE DEF n, yz
<1> QED
  BY <1>3, <1>4, <1>5 DEF offset_to_coord, n

LEMMA EdgesDivide ==
    /\ LeafDim \in Nat \ {0} /\ InternalDim \in Nat \ {0} /\ RootChildDim \in Nat
    /\ InternalEdge \in Nat \ {0} /\ RootEdge \in Nat
    /\ InternalDim = InternalEdge * LeafDim
    /\ RootChildDim = RootEdge * InternalDim
<1>1. LeafDim \in Nat \ {0} /\ InternalDim \in Nat \ {0} /\ RootChildDim \in Nat
  BY VdbTreeAssumption
<1>2. InternalEdge \in Nat /\ InternalDim = InternalEdge * LeafDim
  <2>1. InternalDim = (InternalDim \div LeafDim) * LeafDim + (InternalDim % LeafDim)
        /\ InternalDim \div LeafDim \in Nat
    BY <1>1, Divided
  <2>2. InternalDim % LeafDim = 0
    BY VdbTreeAssumption
  <2> QED
    BY <1>1, <2>1, <2>2 DEF InternalEdge
<1>3. RootEdge \in Nat /\ RootChildDim = RootEdge * InternalDim
  <2>1. RootChildDim = (RootChildDim \div InternalDim) * InternalDim
            + (RootChildDim % InternalDim)
        /\ RootChildDim \div InternalDim \in Nat
    BY <1>1, Divided
  <2>2. RootChildDim % InternalDim = 0
    BY VdbTreeAssumption
  <2> QED
    BY <1>1, <2>1, <2>2 DEF RootEdge
<1>4. InternalEdge # 0
  <2>1. 0 * LeafDim = 0
    BY <1>1
  <2> QED
    BY <1>1, <1>2, <2>1
<1> QED
  BY <1>1, <1>2, <1>3, <1>4

\* Along one axis: the internal node, the leaf in it and the voxel in that.
LEMMA AxisSplits ==
    ASSUME NEW x \in 0..(RootChildDim - 1)
    PROVE  /\ (x % RootChildDim) \div InternalDim \in 0..(RootEdge - 1)
           /\ (x % InternalDim) \div LeafDim \in 0..(InternalEdge - 1)
           /\ x % LeafDim \in 0..(LeafDim - 1)
           /\ x = ((x % RootChildDim) \div InternalDim) * InternalDim
                  + ((x % InternalDim) \div LeafDim) * LeafDim + (x % LeafDim)
<1> DEFINE L == LeafDim
           I == InternalDim
           R == RootChildDim
           a == InternalEdge
           b == RootEdge
<1>1. L \in Nat \ {0} /\ I \in Nat \ {0} /\ R \in Nat \ {0} /\ a \in Nat \ {0} /\ b \in Nat
      /\ I = a * L /\ R = b * I /\ x \in Nat /\ x < R
  BY EdgesDivide
<1>2. x \in 0..(R - 1)
  OBVIOUS
<1> HIDE DEF L, I, R, a, b
<1>3. x % R = x
  <2>1. x = 0 * R + x
    BY <1>1
  <2> QED
    BY <1>1, <1>2, <2>1, Quotient
<1>4. x \div I \in 0..(b - 1)
  BY <1>1, QuotientBelow
<1> DEFINE q == x \div I
           m == x % I
           c == m \div L
           r == m % L
<1>5. x = q * I + m /\ m \in 0..(I - 1) /\ q \in Nat
  BY <1>1, Divided
<1>6. m \in Nat /\ m < a * L
  BY <1>1, <1>5
<1>7. c \in 0..(a - 1)
  <2> HIDE DEF m
  <2> QED
    BY <1>1, <1>6, QuotientBelow
<1>8. m = c * L + r /\ r \in 0..(L - 1) /\ c \in Nat
  <2> HIDE DEF m
  <2> QED
    BY <1>1, <1>6, Divided
<1>9. x % L = r
  <2> HIDE DEF q, m, c, r
  <2>1. x = q * (a * L) + (c * L + r)
    BY <1>1, <1>5, <1>8
  <2>2. x = (q * a + c) * L + r /\ q * a + c \in Nat
    BY <2>1, <1>1, <1>5, <1>8
  <2> DEFINE n == q * a + c
  <2>3. n \in Nat /\ x = n * L + r
    BY <2>2
  <2> HIDE DEF n
  <2>4. (n * L + r) % L = r
    BY <1>1, <1>8, <2>3, Quotient
  <2> QED
    BY <2>3, <2>4
<1>10. x = q * I + c * L + r
  <2> HIDE DEF q, m, c, r
  <2>1. q * I \in Nat /\ c * L \in Nat
    BY <1>1, <1>5, <1>8
  <2> QED
    BY <1>5, <1>8, <2>1
<1> QED
  BY <1>3, <1>4, <1>7, <1>8, <1>9, <1>10 DEF L, I, R, a, b

\* The coordinates inside the root child.
Cube == {<<x, y, z>> : x \in 0..(RootChildDim - 1), y \in 0..(RootChildDim - 1),
                       z \in 0..(RootChildDim - 1)}

Place(c) == <<internal_node_slot_offset(c), internal_child_offset(c)>>
At(c) == leaf_voxel_offset(c)

LEMMA InCube ==
    ASSUME NEW c \in Cube
    PROVE  /\ c = <<c[1], c[2], c[3]>>
           /\ c[1] \in 0..(RootChildDim - 1) /\ c[2] \in 0..(RootChildDim - 1)
           /\ c[3] \in 0..(RootChildDim - 1)
  BY DEF Cube

LEMMA PlacesAreBounded ==
    ASSUME NEW c \in Cube
    PROVE  /\ Place(c) = <<Place(c)[1], Place(c)[2]>>
           /\ Place(c)[1] \in 0..(RootEdge * RootEdge * RootEdge - 1)
           /\ Place(c)[2] \in 0..(InternalEdge * InternalEdge * InternalEdge - 1)
           /\ At(c) \in 0..(LeafDim * LeafDim * LeafDim - 1)
<1>1. Place(c)[1] \in 0..(RootEdge * RootEdge * RootEdge - 1)
  BY InCube, AxisSplits, PackedIsBounded, EdgesDivide DEF Place, internal_node_slot_offset
<1>2. Place(c)[2] \in 0..(InternalEdge * InternalEdge * InternalEdge - 1)
  BY InCube, AxisSplits, PackedIsBounded, EdgesDivide DEF Place, internal_child_offset
<1>3. At(c) \in 0..(LeafDim * LeafDim * LeafDim - 1)
  BY InCube, AxisSplits, PackedIsBounded, EdgesDivide DEF At, leaf_voxel_offset
<1>4. Place(c) = <<Place(c)[1], Place(c)[2]>>
  BY DEF Place
<1> QED
  BY <1>1, <1>2, <1>3, <1>4

\* A voxel the reader finds at the place of c has the coordinates c.
LEMMA PlaceIsFoundAgain ==
    ASSUME NEW c \in Cube
    PROVE  Plus(Origin(Place(c)[1], Place(c)[2]), offset_to_coord(At(c), LeafDim, 1)) = c
<1> DEFINE s(i) == (c[i] % RootChildDim) \div InternalDim
           h(i) == (c[i] % InternalDim) \div LeafDim
           r(i) == c[i] % LeafDim
<1>1. \A i \in {1, 2, 3} :
          /\ s(i) \in 0..(RootEdge - 1) /\ h(i) \in 0..(InternalEdge - 1)
          /\ r(i) \in 0..(LeafDim - 1)
          /\ c[i] = s(i) * InternalDim + h(i) * LeafDim + r(i)
  BY InCube, AxisSplits
<1>2. offset_to_coord(Place(c)[1], RootEdge, InternalDim)
      = <<s(1) * InternalDim, s(2) * InternalDim, s(3) * InternalDim>>
  <2>1. Place(c)[1] = Packed(RootEdge, s(1), s(2), s(3))
    BY DEF Place, internal_node_slot_offset
  <2>2. RootEdge \in Nat \ {0}
    BY <1>1, EdgesDivide
  <2> HIDE DEF s
  <2> QED
    BY <1>1, <2>1, <2>2, PackedIsUnpacked
<1>3. offset_to_coord(Place(c)[2], InternalEdge, LeafDim)
      = <<h(1) * LeafDim, h(2) * LeafDim, h(3) * LeafDim>>
  <2>1. Place(c)[2] = Packed(InternalEdge, h(1), h(2), h(3))
    BY DEF Place, internal_child_offset
  <2> HIDE DEF h
  <2> QED
    BY <1>1, <2>1, EdgesDivide, PackedIsUnpacked
<1>4. offset_to_coord(At(c), LeafDim, 1) = <<r(1) * 1, r(2) * 1, r(3) * 1>>
  <2>1. At(c) = Packed(LeafDim, r(1), r(2), r(3))
    BY DEF At, leaf_voxel_offset
  <2> HIDE DEF r
  <2> QED
    BY <1>1, <2>1, EdgesDivide, PackedIsUnpacked
<1>5. \A i \in {1, 2, 3} : r(i) * 1 = r(i)
  BY <1>1
<1>6. Origin(Place(c)[1], Place(c)[2])
      = <<s(1) * InternalDim + h(1) * LeafDim, s(2) * InternalDim + h(2) * LeafDim,
          s(3) * InternalDim + h(3) * LeafDim>>
  <2> DEFINE u == offset_to_coord(Place(c)[1], RootEdge, InternalDim)
             v == offset_to_coord(Place(c)[2], InternalEdge, LeafDim)
  <2>1. Origin(Place(c)[1], Place(c)[2]) = <<u[1] + v[1], u[2] + v[2], u[3] + v[3]>>
    BY DEF Origin, Plus
  <2> HIDE DEF s, h
  <2>2. /\ u[1] = s(1) * InternalDim /\ u[2] = s(2) * InternalDim /\ u[3] = s(3) * InternalDim
        /\ v[1] = h(1) * LeafDim /\ v[2] = h(2) * LeafDim /\ v[3] = h(3) * LeafDim
    BY <1>2, <1>3
  <2> HIDE DEF u, v
  <2> QED
    BY <2>1, <2>2
<1>7. Plus(Origin(Place(c)[1], Place(c)[2]), offset_to_coord(At(c), LeafDim, 1))
      = <<c[1], c[2], c[3]>>
  <2> HIDE DEF s, h, r
  <2> DEFINE o == Origin(Place(c)[1], Place(c)[2])
             d == offset_to_coord(At(c), LeafDim, 1)
  <2>1. o[1] = s(1) * InternalDim + h(1) * LeafDim /\ o[2] = s(2) * InternalDim + h(2) * LeafDim
        /\ o[3] = s(3) * InternalDim + h(3) * LeafDim
    BY <1>6
  <2>2. d[1] = r(1) /\ d[2] = r(2) /\ d[3] = r(3)
    BY <1>4, <1>5
  <2> HIDE DEF o, d
  <2>3. Plus(o, d) = <<o[1] + d[1], o[2] + d[2], o[3] + d[3]>>
    BY DEF Plus
  <2>4. o[1] + d[1] = c[1] /\ o[2] + d[2] = c[2] /\ o[3] + d[3] = c[3]
    BY <1>1, <2>1, <2>2
  <2>5. Plus(o, d) = <<c[1], c[2], c[3]>>
    BY <2>3, <2>4
  <2> QED
    BY <2>5 DEF o, d
<1> QED
  BY <1>7, InCube

\* Two voxels never have the same place.
LEMMA PlacesDiffer ==
    ASSUME NEW c \in Cube, NEW d \in Cube, Place(c) = Place(d), At(c) = At(d)
    PROVE  c = d
<1> HIDE DEF Place, At
<1> QED
  BY PlaceIsFoundAgain

-----------------------------------------------------------------------------
(***************************************************************************)
(* The bits of a mask in ascending order.                                  *)
(***************************************************************************)
\* How many elements of S are below n.
Rank(S, n) == Cardinality({m \in S : m < n})

LEMMA RankIsBelow ==
    ASSUME NEW S \in SUBSET Nat, IsFiniteSet(S), NEW n \in S
    PROVE  Rank(S, n) \in 0..(Cardinality(S) - 1)
<1> DEFINE T == {m \in S : m < n}
           N == Cardinality(S)
           K == Cardinality(T)
<1>1. IsFiniteSet(T) /\ K <= N /\ (N = K => S = T)
  <2>1. T \in SUBSET S
    OBVIOUS
  <2> HIDE DEF T
  <2> QED
    BY <2>1, FS_Subset
<1>2. n \in S /\ n \notin T
  OBVIOUS
<1> HIDE DEF T
<1>3. K \in Nat /\ N \in Nat
  BY <1>1, FS_CardinalityType
<1>4. N # K
  BY <1>1, <1>2
<1> HIDE DEF N, K
<1>5. K \in 0..(N - 1)
  BY <1>1, <1>3, <1>4
<1> QED
  BY <1>5 DEF Rank, T, K, N

LEMMA RankGrows ==
    ASSUME NEW S \in SUBSET Nat, IsFiniteSet(S), NEW m \in S, NEW n \in S, m < n
    PROVE  Rank(S, m) < Rank(S, n)
<1> DEFINE T == {k \in S : k < m}
           U == {k \in S : k < n}
           J == Cardinality(T)
           K == Cardinality(U)
<1>1. T \in SUBSET U /\ U \in SUBSET S /\ m \in U /\ m \notin T
  <2>1. ASSUME NEW k \in S, k < m PROVE k < n
    <3>1. k \in Nat /\ m \in Nat /\ n \in Nat
      OBVIOUS
    <3> QED
      BY <2>1, <3>1
  <2>2. ~ (m < m)
    <3>1. m \in Nat
      OBVIOUS
    <3> QED
      BY <3>1
  <2> QED
    BY <2>1, <2>2
<1> HIDE DEF T, U
<1>2. IsFiniteSet(U)
  BY <1>1, FS_Subset
<1>3. IsFiniteSet(T) /\ J <= K /\ (K = J => U = T)
  BY <1>1, <1>2, FS_Subset
<1>4. J \in Nat /\ K \in Nat
  BY <1>2, <1>3, FS_CardinalityType
<1>5. K # J
  BY <1>1, <1>3
<1> HIDE DEF J, K
<1>6. J < K
  BY <1>3, <1>4, <1>5
<1> QED
  BY <1>6 DEF Rank, T, U, J, K

LEMMA RankDistinguishes ==
    ASSUME NEW S \in SUBSET Nat, IsFiniteSet(S), NEW m \in S, NEW n \in S, Rank(S, m) = Rank(S, n)
    PROVE  m = n
<1> DEFINE a == Rank(S, m)
           b == Rank(S, n)
<1>1. a \in Nat /\ b \in Nat /\ a = b
  <2>1. a \in 0..(Cardinality(S) - 1) /\ b \in 0..(Cardinality(S) - 1)
    BY RankIsBelow
  <2> QED
    BY <2>1
<1>2. m < n => a < b
  BY RankGrows
<1>3. n < m => b < a
  BY RankGrows
<1>4. m \in Nat /\ n \in Nat
  OBVIOUS
<1> HIDE DEF a, b
<1> QED
  BY <1>1, <1>2, <1>3, <1>4

\* Some element has each rank: the elements would not have room otherwise.
LEMMA EveryRankIsTaken ==
    ASSUME NEW S \in SUBSET Nat, IsFiniteSet(S), NEW r \in 0..(Cardinality(S) - 1)
    PROVE  \E n \in S : Rank(S, n) = r
<1> SUFFICES ASSUME \A n \in S : Rank(S, n) # r
             PROVE  FALSE
  OBVIOUS
<1> DEFINE N == Cardinality(S)
           All == 0..(N - 1)
           T == All \ {r}
           f == [n \in S |-> Rank(S, n)]
<1>1. N \in Nat
  BY FS_CardinalityType
<1>2. IsFiniteSet(All) /\ Cardinality(All) = N
  <2> HIDE DEF N
  <2>1. IsFiniteSet(0..(N - 1)) /\ Cardinality(0..(N - 1)) = IF 0 > N - 1 THEN 0 ELSE (N - 1) - 0 + 1
    BY <1>1, FS_Interval
  <2>2. (IF 0 > N - 1 THEN 0 ELSE (N - 1) - 0 + 1) = N
    BY <1>1
  <2> QED
    BY <2>1, <2>2
<1>3. r \in All
  OBVIOUS
<1>4. f \in [S -> T]
  <2>1. \A n \in S : Rank(S, n) \in All
    BY RankIsBelow
  <2> QED
    BY <2>1
<1> HIDE DEF N, All
<1>5. IsFiniteSet(T) /\ Cardinality(T) = N - 1
  BY <1>2, <1>3, FS_RemoveElement
<1>6. Cardinality(T) < Cardinality(S)
  <2> DEFINE M == Cardinality(T)
  <2>1. M = N - 1
    BY <1>5
  <2> HIDE DEF M
  <2>2. M < N
    BY <1>1, <2>1
  <2> QED
    BY <2>2 DEF M, N
<1>7. \E m, n \in S : m # n /\ f[m] = f[n]
  <2> HIDE DEF T, f
  <2> QED
    BY <1>4, <1>5, <1>6, FS_PigeonHole
<1>8. PICK m \in S, n \in S : m # n /\ f[m] = f[n]
  BY <1>7
<1>9. Rank(S, m) = Rank(S, n)
  BY <1>8
<1> QED
  BY <1>8, <1>9, RankDistinguishes

\* iter_ones gives every bit that is set, each once and the lowest first.
LEMMA AscendingEnumerates ==
    ASSUME NEW S \in SUBSET Nat, IsFiniteSet(S)
    PROVE  /\ Ascending(S) \in Seq(S)
           /\ \A n \in S : \E k \in 1..Len(Ascending(S)) : Ascending(S)[k] = n
           /\ \A j \in 1..Len(Ascending(S)) : \A k \in 1..Len(Ascending(S)) :
                  j < k => Ascending(S)[j] < Ascending(S)[k]
<1> DEFINE N == Cardinality(S)
           A == Ascending(S)
<1>1. N \in Nat
  BY FS_CardinalityType
<1>2. A = [k \in 1..N |-> CHOOSE n \in S : Rank(S, n) = k - 1]
  BY DEF Ascending, Rank
<1>3. ASSUME NEW k \in 1..N
      PROVE  A[k] \in S /\ Rank(S, A[k]) = k - 1
  <2>1. k - 1 \in 0..(Cardinality(S) - 1)
    <3> HIDE DEF A
    <3>1. k - 1 \in 0..(N - 1)
      BY <1>1
    <3> QED
      BY <3>1
  <2>2. \E n \in S : Rank(S, n) = k - 1
    <3> DEFINE r == k - 1
    <3>1. r \in 0..(Cardinality(S) - 1)
      BY <2>1
    <3> HIDE DEF r
    <3>2. \E n \in S : Rank(S, n) = r
      BY <3>1, EveryRankIsTaken
    <3> QED
      BY <3>2 DEF r
  <2>3. A[k] = CHOOSE n \in S : Rank(S, n) = k - 1
    BY <1>2, Zenon
  <2> HIDE DEF A
  <2> QED
    BY <2>2, <2>3
<1>4. A \in Seq(S) /\ Len(A) = N
  <2> DEFINE F(k) == CHOOSE n \in S : Rank(S, n) = k - 1
  <2>1. A = [k \in 1..N |-> F(k)]
    BY <1>2
  <2>2. \A k \in 1..N : A[k] \in S
    BY <1>3
  <2> HIDE DEF A, N, F
  <2>3. \A k \in 1..N : F(k) \in S
    BY <2>1, <2>2
  <2> QED
    BY <1>1, <2>1, <2>3
<1>5. ASSUME NEW n \in S
      PROVE  \E k \in 1..Len(A) : A[k] = n
  <2> DEFINE k == Rank(S, n) + 1
  <2>1. k \in 1..N /\ k - 1 = Rank(S, n)
    <3> DEFINE r == Rank(S, n)
    <3>1. r \in 0..(N - 1)
      BY RankIsBelow
    <3>2. k = r + 1
      OBVIOUS
    <3> HIDE DEF r, N, k
    <3>3. k \in 1..N /\ k - 1 = r
      BY <1>1, <3>1, <3>2
    <3> QED
      BY <3>3 DEF r
  <2>2. A[k] \in S /\ Rank(S, A[k]) = Rank(S, n)
    <3> HIDE DEF A
    <3> QED
      BY <1>3, <2>1
  <2>3. A[k] = n
    <3> DEFINE m == A[k]
    <3>1. m \in S /\ Rank(S, m) = Rank(S, n)
      BY <2>2
    <3> HIDE DEF m
    <3>2. m = n
      BY <3>1, RankDistinguishes
    <3> QED
      BY <3>2 DEF m
  <2> HIDE DEF A, k
  <2> QED
    BY <1>4, <2>1, <2>3
<1>6. ASSUME NEW j \in 1..Len(A), NEW k \in 1..Len(A), j < k
      PROVE  A[j] < A[k]
  <2>1. j \in 1..N /\ k \in 1..N
    BY <1>4
  <2>2. A[j] \in S /\ Rank(S, A[j]) = j - 1 /\ A[k] \in S /\ Rank(S, A[k]) = k - 1
    <3> HIDE DEF A
    <3> QED
      BY <1>3, <2>1
  <2> DEFINE m == A[j]
             n == A[k]
  <2>3. m \in S /\ n \in S /\ Rank(S, m) < Rank(S, n)
    <3>1. Rank(S, m) = j - 1 /\ Rank(S, n) = k - 1 /\ m \in S /\ n \in S
      BY <2>2
    <3> HIDE DEF m, n, N
    <3> QED
      BY <1>1, <1>6, <2>1, <3>1
  <2> HIDE DEF m, n
  <2>4. ~ (n < m)
    <3> SUFFICES ASSUME n < m PROVE FALSE
      OBVIOUS
    <3>1. Rank(S, n) < Rank(S, m)
      BY <2>3, RankGrows
    <3> DEFINE a == Rank(S, m)
               b == Rank(S, n)
    <3>2. a \in Nat /\ b \in Nat
      <4>1. a \in 0..(Cardinality(S) - 1) /\ b \in 0..(Cardinality(S) - 1)
        BY <2>3, RankIsBelow
      <4> QED
        BY <4>1
    <3>3. a < b /\ b < a
      BY <2>3, <3>1
    <3> HIDE DEF a, b
    <3> QED
      BY <3>2, <3>3
  <2>5. m # n
    <3> SUFFICES ASSUME m = n PROVE FALSE
      OBVIOUS
    <3> DEFINE a == Rank(S, m)
    <3>1. a \in Nat
      <4>1. a \in 0..(Cardinality(S) - 1)
        BY <2>3, RankIsBelow
      <4> QED
        BY <4>1
    <3>2. a < a
      BY <2>3
    <3> HIDE DEF a
    <3> QED
      BY <3>1, <3>2
  <2>6. m \in Nat /\ n \in Nat
    BY <2>3
  <2>7. m < n
    BY <2>4, <2>5, <2>6
  <2> QED
    BY <2>7 DEF m, n
<1> QED
  BY <1>4, <1>5, <1>6

-----------------------------------------------------------------------------
(***************************************************************************)
(* Sequences put one after another.                                        *)
(***************************************************************************)
Less == {ij \in Nat \X Nat : ij[1] < ij[2]}

LEMMA LeastElement ==
    ASSUME NEW S \in SUBSET Nat, S # {}
    PROVE  \E m \in S : \A n \in S : m <= n
<1>1. IsWellFoundedOn(Less, Nat)
  BY NatLessThanWellFounded DEF OpToRel, Less
<1>2. PICK m \in S : \A n \in S : ~ (<<n, m>> \in Less)
  BY <1>1, WFMin
<1>3. \A n \in S : ~ (n < m)
  BY <1>2 DEF Less
<1> QED
  BY <1>3

\* u holds what the first k of the sequences ss come to, for every k up to n.
UpTo(u, ss, n) == u = [k \in 0..n |-> IF k = 0 THEN <<>> ELSE u[k - 1] \o ss[k]]

LEMMA UpToIs ==
    ASSUME NEW ss, NEW n \in Nat, NEW u, UpTo(u, ss, n)
    PROVE  u[0] = <<>> /\ \A k \in 1..n : u[k] = u[k - 1] \o ss[k]
<1>1. u = [k \in 0..n |-> IF k = 0 THEN <<>> ELSE u[k - 1] \o ss[k]]
  BY DEF UpTo
<1>2. \A k \in 0..n : u[k] = IF k = 0 THEN <<>> ELSE u[k - 1] \o ss[k]
  BY <1>1, Zenon
<1>3. 0 \in 0..n /\ \A k \in 1..n : k \in 0..n /\ k # 0
  OBVIOUS
<1> QED
  BY <1>2, <1>3, Zenon

LEMMA UpToExtends ==
    ASSUME NEW ss, NEW k \in Nat \ {0}, NEW u, UpTo(u, ss, k - 1)
    PROVE  \E v : UpTo(v, ss, k)
<1> DEFINE last == u[k - 1] \o ss[k]
           v == [i \in 0..k |-> IF i = k THEN last ELSE u[i]]
<1>0. u[0] = <<>> /\ \A i \in 1..(k - 1) : u[i] = u[i - 1] \o ss[i]
  <2> DEFINE n == k - 1
  <2>1. n \in Nat /\ UpTo(u, ss, n)
    OBVIOUS
  <2> HIDE DEF n
  <2>2. u[0] = <<>> /\ \A i \in 1..n : u[i] = u[i - 1] \o ss[i]
    BY <2>1, UpToIs
  <2> QED
    BY <2>2 DEF n
<1> HIDE DEF last
<1>1. v[k] = last /\ \A i \in 0..(k - 1) : v[i] = u[i]
  OBVIOUS
<1>2. ASSUME NEW i \in 0..k
      PROVE  v[i] = IF i = 0 THEN <<>> ELSE v[i - 1] \o ss[i]
  <2>1. CASE i = k
    <3>1. v[k - 1] = u[k - 1] /\ k # 0
      BY <1>1
    <3> HIDE DEF v
    <3> QED
      BY <1>1, <2>1, <3>1 DEF last
  <2>2. CASE i # k /\ i = 0
    <3>1. v[0] = u[0]
      BY <1>1
    <3> HIDE DEF v
    <3> QED
      BY <1>0, <2>2, <3>1
  <2>3. CASE i # k /\ i # 0
    <3>1. i \in 1..(k - 1) /\ i - 1 \in 0..(k - 1) /\ i \in 0..(k - 1)
      BY <2>3
    <3>2. v[i] = u[i] /\ v[i - 1] = u[i - 1]
      BY <1>1, <3>1
    <3> HIDE DEF v
    <3> QED
      BY <1>0, <2>3, <3>1, <3>2
  <2> QED
    BY <2>1, <2>2, <2>3
<1>3. v = [i \in 0..k |-> v[i]]
  OBVIOUS
<1> HIDE DEF v
<1>4. v = [i \in 0..k |-> IF i = 0 THEN <<>> ELSE v[i - 1] \o ss[i]]
  BY <1>2, <1>3
<1> QED
  BY <1>4 DEF UpTo

LEMMA UpToExists ==
    ASSUME NEW ss, NEW n \in Nat
    PROVE  \E u : UpTo(u, ss, n)
<1> DEFINE Bad == {k \in Nat : ~ \E u : UpTo(u, ss, k)}
<1> SUFFICES ASSUME Bad # {}
             PROVE  FALSE
  OBVIOUS
<1>1. PICK k \in Bad : \A j \in Bad : k <= j
  <2>1. Bad \in SUBSET Nat
    OBVIOUS
  <2> HIDE DEF Bad
  <2> QED
    BY <2>1, LeastElement
<1>2. k # 0
  <2> DEFINE z == [i \in 0..0 |-> <<>>]
  <2>1. z = [i \in 0..0 |-> IF i = 0 THEN <<>> ELSE z[i - 1] \o ss[i]]
    OBVIOUS
  <2>2. UpTo(z, ss, 0)
    BY <2>1 DEF UpTo
  <2> QED
    BY <2>2
<1>3. k - 1 \in Nat /\ k - 1 \notin Bad
  BY <1>1, <1>2
<1>4. PICK u : UpTo(u, ss, k - 1)
  BY <1>3
<1>5. \E v : UpTo(v, ss, k)
  BY <1>1, <1>2, <1>4, UpToExtends
<1> QED
  BY <1>1, <1>5

LEMMA ConcatenatedIs ==
    ASSUME NEW X, NEW ss \in Seq(X)
    PROVE  \E u : /\ Concatenated(ss) = u[Len(ss)]
                  /\ u[0] = <<>>
                  /\ \A k \in 1..Len(ss) : u[k] = u[k - 1] \o ss[k]
<1> DEFINE u == CHOOSE v : UpTo(v, ss, Len(ss))
<1>1. UpTo(u, ss, Len(ss))
  BY UpToExists
<1>2. Concatenated(ss) = u[Len(ss)]
  BY DEF Concatenated, UpTo
<1> HIDE DEF u
<1>3. u[0] = <<>> /\ \A k \in 1..Len(ss) : u[k] = u[k - 1] \o ss[k]
  <2> DEFINE n == Len(ss)
  <2>1. n \in Nat /\ UpTo(u, ss, n)
    BY <1>1
  <2> HIDE DEF n
  <2>2. u[0] = <<>> /\ \A k \in 1..n : u[k] = u[k - 1] \o ss[k]
    BY <2>1, UpToIs
  <2> QED
    BY <2>2 DEF n
<1> QED
  BY <1>2, <1>3

\* What holds at 0 and is kept by every step holds at n.
LEMMA Reached ==
    ASSUME NEW n \in Nat, NEW G, 0 \in G, \A k \in 1..n : k - 1 \in G => k \in G
    PROVE  \A k \in 0..n : k \in G
<1> DEFINE Bad == {k \in 0..n : k \notin G}
<1> SUFFICES ASSUME Bad # {}
             PROVE  FALSE
  OBVIOUS
<1>1. PICK k \in Bad : \A j \in Bad : k <= j
  <2>1. Bad \in SUBSET Nat
    OBVIOUS
  <2> HIDE DEF Bad
  <2> QED
    BY <2>1, LeastElement
<1>2. k \in 1..n /\ k \notin G
  BY <1>1
<1>3. k - 1 \in 0..n /\ k - 1 \notin Bad
  BY <1>1, <1>2
<1>4. k - 1 \in G
  BY <1>3
<1> QED
  BY <1>2, <1>4

LEMMA ConcatenatedType ==
    ASSUME NEW X, NEW ss \in Seq(Seq(X))
    PROVE  Concatenated(ss) \in Seq(X)
<1> DEFINE n == Len(ss)
<1>1. n \in Nat /\ \A k \in 1..n : ss[k] \in Seq(X)
  OBVIOUS
<1>2. PICK u : /\ Concatenated(ss) = u[n] /\ u[0] = <<>>
               /\ \A k \in 1..n : u[k] = u[k - 1] \o ss[k]
  BY ConcatenatedIs
<1> HIDE DEF n
<1> DEFINE G == {k \in 0..n : u[k] \in Seq(X)}
<1>3. 0 \in G
  <2>1. 0 \in 0..n /\ u[0] \in Seq(X)
    BY <1>1, <1>2
  <2> QED
    BY <2>1
<1>4. ASSUME NEW k \in 1..n, k - 1 \in G PROVE k \in G
  <2>1. u[k - 1] \in Seq(X) /\ ss[k] \in Seq(X) /\ u[k] = u[k - 1] \o ss[k]
    BY <1>1, <1>2, <1>4
  <2>2. u[k] \in Seq(X)
    BY <2>1
  <2> QED
    BY <1>1, <2>2
<1>5. n \in G
  <2> HIDE DEF G
  <2>1. \A k \in 0..n : k \in G
    BY <1>1, <1>3, <1>4, Reached
  <2> QED
    BY <1>1, <2>1
<1> QED
  BY <1>2, <1>5

\* For sequences over X.
Associate(X, a, b, c) == (a \o b) \o c = a \o (b \o c)

LEMMA ConcatIsAssociative ==
    ASSUME NEW X, NEW a \in Seq(X), NEW b \in Seq(X), NEW c \in Seq(X)
    PROVE  Associate(X, a, b, c)
  BY DEF Associate

LEMMA ConcatenatedNothing == Concatenated(<<>>) = <<>>
<1>1. <<>> \in Seq({}) /\ Len(<<>>) = 0
  OBVIOUS
<1>2. PICK u : Concatenated(<<>>) = u[Len(<<>>)] /\ u[0] = <<>>
  BY <1>1, ConcatenatedIs
<1> QED
  BY <1>1, <1>2

\* The first of them comes first.
LEMMA ConcatenatedHead ==
    ASSUME NEW X, NEW ss \in Seq(Seq(X)), ss # <<>>
    PROVE  Concatenated(ss) = ss[1] \o Concatenated(Tail(ss))
<1> DEFINE n == Len(ss)
           tt == Tail(ss)
           m == Len(tt)
<1>1. /\ n \in Nat /\ n > 0 /\ \A k \in 1..n : ss[k] \in Seq(X)
      /\ tt \in Seq(Seq(X)) /\ m = n - 1 /\ \A k \in 1..m : tt[k] = ss[k + 1]
  OBVIOUS
<1>2. PICK u : /\ Concatenated(ss) = u[n] /\ u[0] = <<>>
               /\ \A k \in 1..n : u[k] = u[k - 1] \o ss[k]
  BY ConcatenatedIs
<1>3. PICK v : /\ Concatenated(tt) = v[m] /\ v[0] = <<>>
               /\ \A k \in 1..m : v[k] = v[k - 1] \o tt[k]
  <2> HIDE DEF tt
  <2> QED
    BY <1>1, ConcatenatedIs
<1> HIDE DEF n, m, tt
<1> DEFINE G == {k \in 0..m : v[k] \in Seq(X) /\ u[k + 1] = ss[1] \o v[k]}
<1>4. 0 \in G
  <2>1. 1 \in 1..n /\ 1 - 1 = 0 /\ 0 + 1 = 1 /\ 0 \in 0..m
    BY <1>1
  <2>2. u[1] = u[1 - 1] \o ss[1] /\ ss[1] \in Seq(X)
    BY <1>1, <1>2, <2>1
  <2>3. <<>> \o ss[1] = ss[1] /\ ss[1] \o <<>> = ss[1]
    BY <2>2
  <2>4. v[0] \in Seq(X) /\ u[1] = ss[1] \o v[0]
    <3>1. u[1] = <<>> \o ss[1]
      BY <1>2, <2>1, <2>2, Zenon
    <3>2. ss[1] \o v[0] = ss[1] \o <<>>
      BY <1>3, Zenon
    <3>3. v[0] \in Seq(X)
      BY <1>3
    <3> QED
      BY <2>3, <3>1, <3>2, <3>3, Zenon
  <2>5. u[0 + 1] = u[1]
    BY <2>1
  <2> QED
    BY <2>1, <2>4, <2>5
<1>5. ASSUME NEW k \in 1..m, k - 1 \in G PROVE k \in G
  <2>0. (k - 1) + 1 = k /\ (k + 1) - 1 = k
    OBVIOUS
  <2>1. v[k - 1] \in Seq(X) /\ u[k] = ss[1] \o v[k - 1]
    <3>1. v[k - 1] \in Seq(X) /\ u[(k - 1) + 1] = ss[1] \o v[k - 1]
      BY <1>5
    <3> QED
      BY <2>0, <3>1
  <2>2. k + 1 \in 1..n /\ tt[k] = ss[k + 1] /\ ss[k + 1] \in Seq(X) /\ ss[1] \in Seq(X)
    BY <1>1
  <2>3. u[k + 1] = u[k] \o ss[k + 1]
    <3>1. u[k + 1] = u[(k + 1) - 1] \o ss[k + 1]
      BY <1>2, <2>2
    <3> QED
      BY <2>0, <3>1
  <2>4. v[k] = v[k - 1] \o ss[k + 1]
    BY <1>3, <2>2
  <2>5. v[k] \in Seq(X)
    BY <2>1, <2>2, <2>4
  <2>6. u[k + 1] = ss[1] \o v[k]
    <3> DEFINE a == ss[1]
               b == v[k - 1]
               c == ss[k + 1]
    <3>1. a \in Seq(X) /\ b \in Seq(X) /\ c \in Seq(X)
      BY <2>1, <2>2
    <3>2. u[k + 1] = (a \o b) \o c /\ v[k] = b \o c
      BY <2>1, <2>3, <2>4
    <3> HIDE DEF a, b, c
    <3>3. (a \o b) \o c = a \o (b \o c)
      <4>1. Associate(X, a, b, c)
        BY <3>1, ConcatIsAssociative, Zenon
      <4> QED
        BY <4>1 DEF Associate
    <3>4. u[k + 1] = a \o v[k]
      BY <3>2, <3>3, Zenon
    <3> QED
      BY <3>4 DEF a
  <2>7. k \in 0..m
    BY <1>1
  <2> QED
    BY <2>5, <2>6, <2>7
<1>6. m \in G
  <2> HIDE DEF G
  <2>0. m \in Nat
    BY <1>1
  <2>1. \A k \in 0..m : k \in G
    BY <2>0, <1>4, <1>5, Reached
  <2> QED
    BY <2>0, <2>1
<1>7. u[n] = ss[1] \o v[m]
  <2>1. u[m + 1] = ss[1] \o v[m]
    BY <1>6
  <2>2. m + 1 = n
    BY <1>1
  <2> QED
    BY <2>1, <2>2
<1> QED
  BY <1>2, <1>3, <1>7 DEF tt

\* The sequences F gives for the elements of cs, one after another.
Mapped(F, cs) == [k \in 1..Len(cs) |-> F[cs[k]]]

LEMMA MappedType ==
    ASSUME NEW X, NEW C, NEW F \in [C -> Seq(X)], NEW cs \in Seq(C)
    PROVE  Mapped(F, cs) \in Seq(Seq(X)) /\ Concatenated(Mapped(F, cs)) \in Seq(X)
<1>1. \A k \in 1..Len(cs) : F[cs[k]] \in Seq(X)
  OBVIOUS
<1>2. Mapped(F, cs) \in Seq(Seq(X))
  BY <1>1 DEF Mapped
<1> QED
  BY <1>2, ConcatenatedType

\* For F from C to the sequences over X.
HeadFirst(X, C, F, cs) ==
    Concatenated(Mapped(F, cs)) = F[cs[1]] \o Concatenated(Mapped(F, Tail(cs)))

LEMMA MappedHead ==
    ASSUME NEW X, NEW C, NEW F \in [C -> Seq(X)], NEW cs \in Seq(C), cs # <<>>
    PROVE  HeadFirst(X, C, F, cs)
<1> DEFINE ss == Mapped(F, cs)
           tt == Mapped(F, Tail(cs))
<1>1. ss \in Seq(Seq(X)) /\ Len(ss) = Len(cs) /\ \A k \in 1..Len(cs) : ss[k] = F[cs[k]]
  BY MappedType DEF Mapped
<1>2. Tail(cs) \in Seq(C) /\ Len(Tail(cs)) = Len(cs) - 1
      /\ \A k \in 1..(Len(cs) - 1) : Tail(cs)[k] = cs[k + 1]
  OBVIOUS
<1>3. tt \in Seq(Seq(X)) /\ Len(tt) = Len(cs) - 1
      /\ \A k \in 1..(Len(cs) - 1) : tt[k] = F[cs[k + 1]]
  BY <1>2, MappedType DEF Mapped
<1>4. Len(cs) \in Nat /\ Len(cs) > 0
  OBVIOUS
<1> HIDE DEF ss, tt
<1>5. ss # <<>> /\ ss[1] = F[cs[1]]
  BY <1>1, <1>4
<1>6. Tail(ss) = tt
  <2>1. Tail(ss) \in Seq(Seq(X)) /\ Len(Tail(ss)) = Len(cs) - 1
        /\ \A k \in 1..(Len(cs) - 1) : Tail(ss)[k] = F[cs[k + 1]]
    <3>1. Tail(ss) \in Seq(Seq(X)) /\ Len(Tail(ss)) = Len(ss) - 1
          /\ \A k \in 1..(Len(ss) - 1) : Tail(ss)[k] = ss[k + 1]
      BY <1>1, <1>5
    <3>2. \A k \in 1..(Len(cs) - 1) : k + 1 \in 1..Len(cs)
      BY <1>4
    <3> QED
      BY <1>1, <3>1, <3>2
  <2> DEFINE r == Tail(ss)
             n == Len(cs) - 1
  <2>2. r \in Seq(Seq(X)) /\ Len(r) = n /\ tt \in Seq(Seq(X)) /\ Len(tt) = n
        /\ \A k \in 1..n : r[k] = tt[k]
    BY <1>3, <2>1
  <2> HIDE DEF r, n
  <2>3. r = tt
    BY <2>2
  <2> QED
    BY <2>3 DEF r
<1>7. Concatenated(ss) = ss[1] \o Concatenated(Tail(ss))
  BY <1>1, <1>5, ConcatenatedHead
<1>8. Concatenated(ss) = F[cs[1]] \o Concatenated(tt)
  BY <1>5, <1>6, <1>7, Zenon
<1> QED
  BY <1>8 DEF ss, tt, HeadFirst

LEMMA MappedNothing ==
    ASSUME NEW F
    PROVE  Concatenated(Mapped(F, <<>>)) = <<>>
<1>1. Mapped(F, <<>>) = <<>>
  BY DEF Mapped
<1> QED
  BY <1>1, ConcatenatedNothing

-----------------------------------------------------------------------------
(***************************************************************************)
(* Sequences found in the file.                                            *)
(***************************************************************************)
LEMMA ConcatIs ==
    ASSUME NEW X, NEW a \in Seq(X), NEW b \in Seq(X)
    PROVE  /\ a \o b \in Seq(X) /\ Len(a \o b) = Len(a) + Len(b)
           /\ Len(a) \in Nat /\ Len(b) \in Nat
           /\ \A k \in 1..Len(a) : (a \o b)[k] = a[k]
           /\ \A k \in 1..Len(b) : (a \o b)[Len(a) + k] = b[k]
  OBVIOUS

Occurs(f, at, s) ==
    /\ at + Len(s) <= Len(f) + 1
    /\ \A k \in 1..Len(s) : f[at + k - 1] = s[k]

LEMMA OccursOneByOne ==
    ASSUME NEW X, NEW f, NEW at \in Nat, Len(f) \in Nat, NEW a \in Seq(X), NEW b \in Seq(X),
           Occurs(f, at, a \o b)
    PROVE  Occurs(f, at, a) /\ Occurs(f, at + Len(a), b) /\ Len(a \o b) = Len(a) + Len(b)
<1> DEFINE s == a \o b
           m == Len(a)
           n == Len(b)
           l == Len(f)
<1>1. /\ m \in Nat /\ n \in Nat /\ l \in Nat /\ Len(s) = m + n
      /\ \A k \in 1..m : s[k] = a[k]
      /\ \A k \in 1..n : s[m + k] = b[k]
  OBVIOUS
<1>2. at + Len(s) <= l + 1 /\ \A k \in 1..Len(s) : f[at + k - 1] = s[k]
  BY DEF Occurs
<1> HIDE DEF s, m, n, l
<1>3. at + m <= l + 1 /\ at + m + n <= l + 1
  BY <1>1, <1>2
<1>4. \A k \in 1..m : f[at + k - 1] = a[k]
  BY <1>1, <1>2
<1>5. ASSUME NEW k \in 1..n PROVE f[at + m + k - 1] = b[k]
  <2>1. m + k \in 1..(m + n) /\ at + (m + k) - 1 = at + m + k - 1
    BY <1>1
  <2>2. f[at + (m + k) - 1] = s[m + k]
    BY <1>1, <1>2, <2>1
  <2> QED
    BY <1>1, <2>1, <2>2
<1> QED
  BY <1>1, <1>3, <1>4, <1>5 DEF Occurs, s, m, n, l

\* More written after it changes nothing, nor does a change before or after it.
LEMMA OccursStill ==
    ASSUME NEW f, NEW h, NEW at \in Nat \ {0}, NEW s, Len(s) \in Nat, Occurs(f, at, s),
           Len(f) \in Nat, Len(h) \in Nat, Len(f) <= Len(h),
           \A i \in at..(at + Len(s) - 1) : h[i] = f[i]
    PROVE  Occurs(h, at, s)
<1> DEFINE n == Len(s)
           l == Len(f)
           m == Len(h)
<1>1. n \in Nat /\ l \in Nat /\ m \in Nat /\ l <= m /\ at + n <= l + 1
      /\ \A k \in 1..n : f[at + k - 1] = s[k]
      /\ \A i \in at..(at + n - 1) : h[i] = f[i]
  BY DEF Occurs
<1> HIDE DEF n, l, m
<1>2. at + n <= m + 1
  BY <1>1
<1>3. ASSUME NEW k \in 1..n PROVE h[at + k - 1] = s[k]
  <2>1. at + k - 1 \in at..(at + n - 1)
    BY <1>1
  <2> QED
    BY <1>1, <2>1
<1> QED
  BY <1>2, <1>3 DEF Occurs, n, l, m

LEMMA OccursAppended ==
    ASSUME NEW X, NEW a \in Seq(X), NEW b \in Seq(X)
    PROVE  Occurs(a \o b, Len(a) + 1, b)
<1> DEFINE s == a \o b
           m == Len(a)
           n == Len(b)
<1>1. /\ m \in Nat /\ n \in Nat /\ Len(s) = m + n
      /\ \A k \in 1..n : s[m + k] = b[k]
  OBVIOUS
<1> HIDE DEF s, m, n
<1>2. m + 1 + n <= Len(s) + 1
  BY <1>1
<1>3. \A k \in 1..n : m + 1 + k - 1 = m + k
  BY <1>1
<1> QED
  BY <1>1, <1>2, <1>3 DEF Occurs, s, m, n

-----------------------------------------------------------------------------
(***************************************************************************)
(* Trees and what is written for them.                                     *)
(***************************************************************************)
InLeaf == 0..(LeafDim * LeafDim * LeafDim - 1)
LeafValues == (Nat \X Cube) \cup {Background}

\* The tree of exactly the voxels B of the g-th grid.
TreeOf(t, g, B) ==
    /\ DOMAIN t = {Place(c) : c \in B}
    /\ \A p \in DOMAIN t : DOMAIN t[p] = {At(c) : c \in {d \in B : Place(d) = p}}
    /\ \A c \in B : t[Place(c)][At(c)] = Value(g, c)

\* Places are pairs of bits of the masks, and leaves hold values of voxels.
GoodTree(t) ==
    /\ Slots(t) \in SUBSET Nat /\ IsFiniteSet(Slots(t))
    /\ \A s \in Slots(t) : Children(t, s) \in SUBSET Nat /\ IsFiniteSet(Children(t, s))
    /\ \A p \in DOMAIN t : /\ p = <<p[1], p[2]>>
                           /\ DOMAIN t[p] \in SUBSET InLeaf
                           /\ \A n \in DOMAIN t[p] : t[p][n] \in LeafValues

LEMMA TreesAreGood ==
    ASSUME NEW t, NEW g \in Nat, NEW B \in SUBSET Cube, TreeOf(t, g, B)
    PROVE  GoodTree(t)
<1> DEFINE m == RootEdge * RootEdge * RootEdge
           n == InternalEdge * InternalEdge * InternalEdge
<1>1. m \in Nat /\ n \in Nat
  BY EdgesDivide
<1>2. \A p \in DOMAIN t : p = <<p[1], p[2]>> /\ p[1] \in 0..(m - 1) /\ p[2] \in 0..(n - 1)
  <2> SUFFICES ASSUME NEW p \in DOMAIN t
               PROVE  p = <<p[1], p[2]>> /\ p[1] \in 0..(m - 1) /\ p[2] \in 0..(n - 1)
    OBVIOUS
  <2>1. PICK c \in B : p = Place(c)
    BY DEF TreeOf
  <2> HIDE DEF Place
  <2> QED
    BY <2>1, PlacesAreBounded
<1> HIDE DEF m, n
<1>3. Slots(t) \in SUBSET Nat /\ \A k \in Slots(t) : k <= m
  BY <1>1, <1>2 DEF Slots
<1>4. IsFiniteSet(Slots(t))
  BY <1>1, <1>3, FS_BoundedSetOfNaturals
<1>5. ASSUME NEW s \in Slots(t)
      PROVE  Children(t, s) \in SUBSET Nat /\ IsFiniteSet(Children(t, s))
  <2>1. Children(t, s) \in SUBSET Nat /\ \A k \in Children(t, s) : k <= n
    BY <1>1, <1>2 DEF Children
  <2>2. IsFiniteSet(Children(t, s))
    BY <1>1, <2>1, FS_BoundedSetOfNaturals
  <2> QED
    BY <2>1, <2>2
<1>6. ASSUME NEW p \in DOMAIN t
      PROVE  DOMAIN t[p] \in SUBSET InLeaf /\ \A i \in DOMAIN t[p] : t[p][i] \in LeafValues
  <2>1. DOMAIN t[p] = {At(c) : c \in {d \in B : Place(d) = p}}
    BY DEF TreeOf
  <2>2. ASSUME NEW i \in DOMAIN t[p] PROVE i \in InLeaf /\ t[p][i] \in LeafValues
    <3>1. PICK c \in B : Place(c) = p /\ i = At(c)
      BY <2>1, <2>2
    <3>2. i \in InLeaf
      BY <3>1, PlacesAreBounded DEF InLeaf
    <3>3. t[p][i] = Value(g, c)
      BY <3>1 DEF TreeOf
    <3>4. Value(g, c) \in LeafValues
      BY DEF Value, LeafValues
    <3> QED
      BY <3>2, <3>3, <3>4
  <2> QED
    BY <2>2
<1> QED
  BY <1>2, <1>3, <1>4, <1>5, <1>6 DEF GoodTree

LEMMA EmptyTree ==
    ASSUME NEW g
    PROVE  TreeOf(<<>>, g, {})
  BY DEF TreeOf

\* Tree::insert, for a voxel that is not in the tree yet.
LEMMA StoredTree ==
    ASSUME NEW t, NEW g, NEW B \in SUBSET Cube, TreeOf(t, g, B), NEW c \in Cube
    PROVE  TreeOf(Stored(t, Place(c), At(c), Value(g, c)), g, B \cup {c})
<1> DEFINE v == Value(g, c)
           place == Place(c)
           at == At(c)
           old == IF place \in DOMAIN t THEN t[place] ELSE <<>>
           leaf == [n \in DOMAIN old \cup {at} |-> IF n = at THEN v ELSE old[n]]
           u == Stored(t, place, at, v)
           C == B \cup {c}
<1> HIDE DEF v, Place, At
<1>1. u = [p \in DOMAIN t \cup {place} |-> IF p # place THEN t[p] ELSE leaf]
  BY DEF Stored
<1> HIDE DEF u
<1>2. DOMAIN t = {Place(d) : d \in B}
  BY DEF TreeOf
<1>3. DOMAIN u = {Place(d) : d \in C}
  BY <1>1, <1>2
<1>4. DOMAIN old = {At(d) : d \in {e \in B : Place(e) = place}}
  <2>1. CASE place \in DOMAIN t
    <3>1. DOMAIN t[place] = {At(d) : d \in {e \in B : Place(e) = place}}
      BY <2>1 DEF TreeOf
    <3> QED
      BY <2>1, <3>1
  <2>2. CASE place \notin DOMAIN t
    <3>1. \A e \in B : Place(e) # place
      BY <1>2, <2>2
    <3>2. DOMAIN old = {}
      BY <2>2
    <3> HIDE DEF place, old
    <3> QED
      BY <3>1, <3>2
  <2> QED
    BY <2>1, <2>2
<1>5. ASSUME NEW p \in DOMAIN u
      PROVE  DOMAIN u[p] = {At(d) : d \in {e \in C : Place(e) = p}}
  <2>1. CASE p = place
    <3>1. u[p] = leaf
      BY <1>1, <2>1
    <3>2. DOMAIN leaf = DOMAIN old \cup {at}
      OBVIOUS
    <3>3. DOMAIN u[p] = DOMAIN old \cup {at}
      BY <3>1, <3>2
    <3> HIDE DEF old, leaf
    <3>4. {At(d) : d \in {e \in C : Place(e) = p}}
          = {At(d) : d \in {e \in B : Place(e) = place}} \cup {at}
      BY <2>1
    <3> QED
      BY <1>4, <3>3, <3>4
  <2>2. CASE p # place
    <3>1. p \in DOMAIN t /\ u[p] = t[p]
      BY <1>1, <2>2
    <3>2. DOMAIN t[p] = {At(d) : d \in {e \in B : Place(e) = p}}
      BY <3>1 DEF TreeOf
    <3>3. {e \in C : Place(e) = p} = {e \in B : Place(e) = p}
      BY <2>2
    <3> QED
      BY <3>1, <3>2, <3>3
  <2> QED
    BY <2>1, <2>2
<1>6. ASSUME NEW d \in C
      PROVE  u[Place(d)][At(d)] = Value(g, d)
  <2>1. CASE d = c
    <3>1. u[place] = leaf
      BY <1>1
    <3>2. leaf[at] = v
      <4> HIDE DEF old
      <4> QED
        OBVIOUS
    <3> HIDE DEF leaf, old
    <3> QED
      BY <2>1, <3>1, <3>2 DEF v
  <2>2. CASE d # c
    <3>1. d \in B /\ t[Place(d)][At(d)] = Value(g, d)
      BY <2>2 DEF TreeOf
    <3>2. CASE Place(d) # place
      <4>1. Place(d) \in DOMAIN t
        BY <1>2, <3>1
      <4>2. u[Place(d)] = t[Place(d)]
        BY <1>1, <3>2, <4>1
      <4> QED
        BY <3>1, <4>2
    <3>3. CASE Place(d) = place
      <4>1. At(d) # at
        BY <2>2, <3>3, PlacesDiffer
      <4>2. place \in DOMAIN t
        BY <1>2, <3>1, <3>3
      <4>3. old = t[place]
        BY <4>2
      <4>4. At(d) \in DOMAIN old
        BY <1>4, <3>1, <3>3
      <4> HIDE DEF old
      <4>5. leaf[At(d)] = old[At(d)]
        BY <4>1, <4>4
      <4>6. u[Place(d)] = leaf
        BY <1>1, <3>3
      <4> HIDE DEF leaf
      <4> QED
        BY <3>1, <3>3, <4>3, <4>5, <4>6
    <3> QED
      BY <3>2, <3>3
  <2> QED
    BY <2>1, <2>2
<1>7. TreeOf(u, g, C)
  BY <1>3, <1>5, <1>6 DEF TreeOf
<1> QED
  BY <1>7 DEF u, v

\* The active places of a tree.
Active(t) == UNION {{<<p, n>> : n \in DOMAIN t[p]} : p \in DOMAIN t}

LEMMA ActiveAre ==
    ASSUME NEW t, NEW g, NEW B, TreeOf(t, g, B)
    PROVE  Active(t) = {<<Place(c), At(c)>> : c \in B}
<1> HIDE DEF Place, At
<1>1. ASSUME NEW x \in Active(t) PROVE x \in {<<Place(c), At(c)>> : c \in B}
  <2>1. PICK p \in DOMAIN t : x \in {<<p, n>> : n \in DOMAIN t[p]}
    BY <1>1 DEF Active
  <2>2. PICK n \in DOMAIN t[p] : x = <<p, n>>
    BY <2>1
  <2>3. PICK c \in B : Place(c) = p /\ At(c) = n
    BY <2>2 DEF TreeOf
  <2> QED
    BY <2>2, <2>3
<1>2. ASSUME NEW c \in B PROVE <<Place(c), At(c)>> \in Active(t)
  <2> DEFINE p == Place(c)
  <2>1. p \in DOMAIN t
    BY DEF TreeOf
  <2>2. At(c) \in DOMAIN t[p]
    BY <2>1 DEF TreeOf
  <2> HIDE DEF p
  <2>3. <<p, At(c)>> \in Active(t)
    BY <2>1, <2>2 DEF Active
  <2> QED
    BY <2>3 DEF p
<1> QED
  BY <1>1, <1>2

-----------------------------------------------------------------------------
(***************************************************************************)
(* The layout: what ForEachLeaf writes, one child and one slot at a time.  *)
(***************************************************************************)
Items ==
    {Mask(S) : S \in SUBSET Nat}
    \cup {[item |-> "leaf", values |-> v] : v \in [InLeaf -> LeafValues]}
    \cup {Preamble} \cup [item : {"header"}, grids : Nat]
    \cup [item : {"descriptor"}, gridPos : Nat, blockPos : Nat, endPos : Nat]

LEMMA LeafIs ==
    ASSUME NEW t, GoodTree(t), NEW p \in DOMAIN t
    PROVE  /\ Mask(DOMAIN t[p]) \in Items /\ Leaf(t[p]) \in Items
           /\ Leaf(t[p]).item = "leaf"
           /\ \A n \in DOMAIN t[p] : n \in InLeaf /\ Leaf(t[p]).values[n] = t[p][n]
           /\ DOMAIN Leaf(t[p]).values = InLeaf
           /\ \A n \in InLeaf \ DOMAIN t[p] : Leaf(t[p]).values[n] = Background
<1> DEFINE b == t[p]
           v == [n \in InLeaf |-> IF n \in DOMAIN b THEN b[n] ELSE Background]
<1>1. DOMAIN b \in SUBSET InLeaf /\ \A n \in DOMAIN b : b[n] \in LeafValues
  BY DEF GoodTree
<1> HIDE DEF b
<1>2. Leaf(b) = [item |-> "leaf", values |-> v]
  BY DEF Leaf, InLeaf
<1>3. InLeaf \in SUBSET Nat
  BY DEF InLeaf
<1>4. v \in [InLeaf -> LeafValues]
  BY <1>1 DEF LeafValues
<1>5. \A n \in InLeaf : v[n] = IF n \in DOMAIN b THEN b[n] ELSE Background
  OBVIOUS
<1> HIDE DEF v
<1>6. Leaf(b) \in Items
  BY <1>2, <1>4 DEF Items
<1>7. Mask(DOMAIN b) \in Items
  BY <1>1, <1>3 DEF Items
<1>8. Leaf(b).item = "leaf" /\ Leaf(b).values = v
  BY <1>2
<1>9. DOMAIN v = InLeaf
  BY <1>4
<1> QED
  BY <1>1, <1>5, <1>6, <1>7, <1>8, <1>9 DEF b

LEMMA ChildrenAre ==
    ASSUME NEW t, GoodTree(t), NEW s, NEW c
    PROVE  c \in Children(t, s) <=> <<s, c>> \in DOMAIN t
  BY DEF GoodTree, Children

TopologyOfChildren(t, s, cs) ==
    Concatenated([k \in 1..Len(cs) |-> <<Mask(DOMAIN t[<<s, cs[k]>>])>>])

TopologyOfSlot(t, s) ==
    <<Mask(Children(t, s)), Mask({})>> \o
    TopologyOfChildren(t, s, Ascending(Children(t, s)))

TopologyOfSlots(t, ss) ==
    Concatenated([k \in 1..Len(ss) |-> TopologyOfSlot(t, ss[k])])

DataOfChildren(t, s, cs) ==
    Concatenated([k \in 1..Len(cs) |->
        <<Mask(DOMAIN t[<<s, cs[k]>>]), Leaf(t[<<s, cs[k]>>])>>])

DataOfSlot(t, s) == <<>> \o DataOfChildren(t, s, Ascending(Children(t, s)))

DataOfSlots(t, ss) == Concatenated([k \in 1..Len(ss) |-> DataOfSlot(t, ss[k])])

LEMMA TopologyUnfolds ==
    ASSUME NEW t
    PROVE  Topology(t) = <<Mask(Slots(t)), Mask({})>> \o
               TopologyOfSlots(t, Ascending(Slots(t)))
  BY DEF Topology, ForEachLeaf, TopologyOfSlots, TopologyOfSlot, TopologyOfChildren

LEMMA DataUnfolds ==
    ASSUME NEW t
    PROVE  Data(t) = DataOfSlots(t, Ascending(Slots(t)))
  BY DEF Data, ForEachLeaf, DataOfSlots, DataOfSlot, DataOfChildren

LEMMA TopologyOfChildrenAre ==
    ASSUME NEW t, GoodTree(t), NEW s, NEW xs \in Seq(Children(t, s))
    PROVE  /\ TopologyOfChildren(t, s, xs) \in Seq(Items)
           /\ xs = <<>> => TopologyOfChildren(t, s, xs) = <<>>
           /\ xs # <<>> => TopologyOfChildren(t, s, xs) =
                   <<Mask(DOMAIN t[<<s, xs[1]>>])>> \o TopologyOfChildren(t, s, Tail(xs))
<1> DEFINE F == [x \in Children(t, s) |-> <<Mask(DOMAIN t[<<s, x>>])>>]
<1>1. \A x \in Children(t, s) : <<Mask(DOMAIN t[<<s, x>>])>> \in Seq(Items)
  <2> SUFFICES ASSUME NEW x \in Children(t, s)
               PROVE  <<Mask(DOMAIN t[<<s, x>>])>> \in Seq(Items)
    OBVIOUS
  <2> DEFINE m == Mask(DOMAIN t[<<s, x>>])
             l == Leaf(t[<<s, x>>])
  <2>1. m \in Items /\ l \in Items
    BY ChildrenAre, LeafIs
  <2> HIDE DEF m, l
  <2>2. <<m>> \in Seq(Items) /\ <<m, l>> \in Seq(Items)
    BY <2>1
  <2> QED
    BY <2>2 DEF m, l
<1>2. F \in [Children(t, s) -> Seq(Items)]
  BY <1>1
<1>3. ASSUME NEW ys \in Seq(Children(t, s))
      PROVE  TopologyOfChildren(t, s, ys) = Concatenated(Mapped(F, ys))
  <2>1. \A k \in 1..Len(ys) : ys[k] \in Children(t, s)
    OBVIOUS
  <2>2. \A k \in 1..Len(ys) : F[ys[k]] = <<Mask(DOMAIN t[<<s, ys[k]>>])>>
    BY <2>1
  <2> HIDE DEF F
  <2>3. Mapped(F, ys) = [k \in 1..Len(ys) |-> <<Mask(DOMAIN t[<<s, ys[k]>>])>>]
    BY <2>2 DEF Mapped
  <2> QED
    BY <2>3 DEF TopologyOfChildren
<1>4. xs # <<>> => xs[1] \in Children(t, s) /\ Tail(xs) \in Seq(Children(t, s))
  OBVIOUS
<1>5. xs # <<>> => F[xs[1]] = <<Mask(DOMAIN t[<<s, xs[1]>>])>>
  BY <1>4
<1> HIDE DEF F
<1>6. TopologyOfChildren(t, s, xs) \in Seq(Items)
  <2>1. Concatenated(Mapped(F, xs)) \in Seq(Items)
    BY <1>2, MappedType
  <2>2. TopologyOfChildren(t, s, xs) = Concatenated(Mapped(F, xs))
    BY <1>3
  <2> QED
    BY <2>1, <2>2
<1>7. ASSUME xs = <<>> PROVE TopologyOfChildren(t, s, xs) = <<>>
  <2>1. TopologyOfChildren(t, s, xs) = Concatenated(Mapped(F, xs))
    BY <1>3
  <2>2. Concatenated(Mapped(F, <<>>)) = <<>>
    BY MappedNothing
  <2> QED
    BY <1>7, <2>1, <2>2
<1>8. ASSUME xs # <<>>
      PROVE  TopologyOfChildren(t, s, xs) =
                   <<Mask(DOMAIN t[<<s, xs[1]>>])>> \o TopologyOfChildren(t, s, Tail(xs))
  <2>1. Concatenated(Mapped(F, xs)) = F[xs[1]] \o Concatenated(Mapped(F, Tail(xs)))
    <3>1. HeadFirst(Items, Children(t, s), F, xs)
      BY <1>2, <1>8, MappedHead
    <3> QED
      BY <3>1 DEF HeadFirst
  <2>2. TopologyOfChildren(t, s, xs) = Concatenated(Mapped(F, xs))
    BY <1>3
  <2>3. TopologyOfChildren(t, s, Tail(xs)) = Concatenated(Mapped(F, Tail(xs)))
    BY <1>3, <1>4, <1>8
  <2> QED
    BY <1>5, <1>8, <2>1, <2>2, <2>3, Zenon
<1> QED
  BY <1>6, <1>7, <1>8

LEMMA DataOfChildrenAre ==
    ASSUME NEW t, GoodTree(t), NEW s, NEW xs \in Seq(Children(t, s))
    PROVE  /\ DataOfChildren(t, s, xs) \in Seq(Items)
           /\ xs = <<>> => DataOfChildren(t, s, xs) = <<>>
           /\ xs # <<>> => DataOfChildren(t, s, xs) =
                   <<Mask(DOMAIN t[<<s, xs[1]>>]), Leaf(t[<<s, xs[1]>>])>>
                   \o DataOfChildren(t, s, Tail(xs))
<1> DEFINE F == [x \in Children(t, s) |-> <<Mask(DOMAIN t[<<s, x>>]), Leaf(t[<<s, x>>])>>]
<1>1. \A x \in Children(t, s) : <<Mask(DOMAIN t[<<s, x>>]), Leaf(t[<<s, x>>])>> \in Seq(Items)
  <2> SUFFICES ASSUME NEW x \in Children(t, s)
               PROVE  <<Mask(DOMAIN t[<<s, x>>]), Leaf(t[<<s, x>>])>> \in Seq(Items)
    OBVIOUS
  <2> DEFINE m == Mask(DOMAIN t[<<s, x>>])
             l == Leaf(t[<<s, x>>])
  <2>1. m \in Items /\ l \in Items
    BY ChildrenAre, LeafIs
  <2> HIDE DEF m, l
  <2>2. <<m>> \in Seq(Items) /\ <<m, l>> \in Seq(Items)
    BY <2>1
  <2> QED
    BY <2>2 DEF m, l
<1>2. F \in [Children(t, s) -> Seq(Items)]
  BY <1>1
<1>3. ASSUME NEW ys \in Seq(Children(t, s))
      PROVE  DataOfChildren(t, s, ys) = Concatenated(Mapped(F, ys))
  <2>1. \A k \in 1..Len(ys) : ys[k] \in Children(t, s)
    OBVIOUS
  <2>2. \A k \in 1..Len(ys) : F[ys[k]] = <<Mask(DOMAIN t[<<s, ys[k]>>]), Leaf(t[<<s, ys[k]>>])>>
    BY <2>1
  <2> HIDE DEF F
  <2>3. Mapped(F, ys) = [k \in 1..Len(ys) |-> <<Mask(DOMAIN t[<<s, ys[k]>>]), Leaf(t[<<s, ys[k]>>])>>]
    BY <2>2 DEF Mapped
  <2> QED
    BY <2>3 DEF DataOfChildren
<1>4. xs # <<>> => xs[1] \in Children(t, s) /\ Tail(xs) \in Seq(Children(t, s))
  OBVIOUS
<1>5. xs # <<>> => F[xs[1]] = <<Mask(DOMAIN t[<<s, xs[1]>>]), Leaf(t[<<s, xs[1]>>])>>
  BY <1>4
<1> HIDE DEF F
<1>6. DataOfChildren(t, s, xs) \in Seq(Items)
  <2>1. Concatenated(Mapped(F, xs)) \in Seq(Items)
    BY <1>2, MappedType
  <2>2. DataOfChildren(t, s, xs) = Concatenated(Mapped(F, xs))
    BY <1>3
  <2> QED
    BY <2>1, <2>2
<1>7. ASSUME xs = <<>> PROVE DataOfChildren(t, s, xs) = <<>>
  <2>1. DataOfChildren(t, s, xs) = Concatenated(Mapped(F, xs))
    BY <1>3
  <2>2. Concatenated(Mapped(F, <<>>)) = <<>>
    BY MappedNothing
  <2> QED
    BY <1>7, <2>1, <2>2
<1>8. ASSUME xs # <<>>
      PROVE  DataOfChildren(t, s, xs) =
                   <<Mask(DOMAIN t[<<s, xs[1]>>]), Leaf(t[<<s, xs[1]>>])>>
                   \o DataOfChildren(t, s, Tail(xs))
  <2>1. Concatenated(Mapped(F, xs)) = F[xs[1]] \o Concatenated(Mapped(F, Tail(xs)))
    <3>1. HeadFirst(Items, Children(t, s), F, xs)
      BY <1>2, <1>8, MappedHead
    <3> QED
      BY <3>1 DEF HeadFirst
  <2>2. DataOfChildren(t, s, xs) = Concatenated(Mapped(F, xs))
    BY <1>3
  <2>3. DataOfChildren(t, s, Tail(xs)) = Concatenated(Mapped(F, Tail(xs)))
    BY <1>3, <1>4, <1>8
  <2> QED
    BY <1>5, <1>8, <2>1, <2>2, <2>3, Zenon
<1> QED
  BY <1>6, <1>7, <1>8

LEMMA SlotsOf ==
    ASSUME NEW t, GoodTree(t), NEW s \in Slots(t)
    PROVE  /\ Ascending(Children(t, s)) \in Seq(Children(t, s))
           /\ \A c \in Children(t, s) :
                  \E k \in 1..Len(Ascending(Children(t, s))) : Ascending(Children(t, s))[k] = c
           /\ Mask(Children(t, s)) \in Items
<1>1. Children(t, s) \in SUBSET Nat /\ IsFiniteSet(Children(t, s))
  BY DEF GoodTree
<1>2. Mask(Children(t, s)) \in Items
  BY <1>1 DEF Items
<1> DEFINE C == Children(t, s)
<1> HIDE DEF C
<1>3. C \in SUBSET Nat /\ IsFiniteSet(C)
  BY <1>1 DEF C
<1>4. Ascending(C) \in Seq(C) /\ \A c \in C : \E k \in 1..Len(Ascending(C)) : Ascending(C)[k] = c
  BY <1>3, AscendingEnumerates
<1> QED
  BY <1>2, <1>4 DEF C

LEMMA RootOf ==
    ASSUME NEW t, GoodTree(t)
    PROVE  /\ Ascending(Slots(t)) \in Seq(Slots(t))
           /\ \A s \in Slots(t) :
                  \E k \in 1..Len(Ascending(Slots(t))) : Ascending(Slots(t))[k] = s
           /\ Mask(Slots(t)) \in Items /\ Mask({}) \in Items
<1>1. Slots(t) \in SUBSET Nat /\ IsFiniteSet(Slots(t))
  BY DEF GoodTree
<1>2. Mask(Slots(t)) \in Items /\ Mask({}) \in Items
  BY <1>1 DEF Items
<1> DEFINE C == Slots(t)
<1> HIDE DEF C
<1>3. C \in SUBSET Nat /\ IsFiniteSet(C)
  BY <1>1 DEF C
<1>4. Ascending(C) \in Seq(C) /\ \A c \in C : \E k \in 1..Len(Ascending(C)) : Ascending(C)[k] = c
  BY <1>3, AscendingEnumerates
<1> QED
  BY <1>2, <1>4 DEF C

LEMMA TopologyOfSlotIs ==
    ASSUME NEW t, GoodTree(t), NEW s \in Slots(t)
    PROVE  TopologyOfSlot(t, s) \in Seq(Items)
<1> DEFINE a == Mask(Children(t, s))
           b == Mask({})
           r == TopologyOfChildren(t, s, Ascending(Children(t, s)))
<1>1. a \in Items /\ b \in Items
  BY SlotsOf, RootOf
<1>2. r \in Seq(Items)
  BY SlotsOf, TopologyOfChildrenAre
<1> HIDE DEF a, b, r
<1>3. <<a, b>> \o r \in Seq(Items)
  BY <1>1, <1>2
<1> QED
  BY <1>3 DEF a, b, r, TopologyOfSlot

LEMMA DataOfSlotIs ==
    ASSUME NEW t, GoodTree(t), NEW s \in Slots(t)
    PROVE  /\ DataOfSlot(t, s) \in Seq(Items)
           /\ DataOfSlot(t, s) = DataOfChildren(t, s, Ascending(Children(t, s)))
<1> DEFINE r == DataOfChildren(t, s, Ascending(Children(t, s)))
<1>1. r \in Seq(Items)
  BY SlotsOf, DataOfChildrenAre
<1> HIDE DEF r
<1>2. <<>> \o r = r
  BY <1>1
<1> QED
  BY <1>1, <1>2 DEF r, DataOfSlot

LEMMA TopologyOfSlotsAre ==
    ASSUME NEW t, GoodTree(t), NEW xs \in Seq(Slots(t))
    PROVE  /\ TopologyOfSlots(t, xs) \in Seq(Items)
           /\ xs = <<>> => TopologyOfSlots(t, xs) = <<>>
           /\ xs # <<>> => TopologyOfSlots(t, xs) =
                   TopologyOfSlot(t, xs[1]) \o TopologyOfSlots(t, Tail(xs))
<1> DEFINE F == [x \in Slots(t) |-> TopologyOfSlot(t, x)]
<1>1. \A x \in Slots(t) : TopologyOfSlot(t, x) \in Seq(Items)
  BY TopologyOfSlotIs
<1>2. F \in [Slots(t) -> Seq(Items)]
  BY <1>1
<1>3. ASSUME NEW ys \in Seq(Slots(t))
      PROVE  TopologyOfSlots(t, ys) = Concatenated(Mapped(F, ys))
  <2>1. \A k \in 1..Len(ys) : ys[k] \in Slots(t)
    OBVIOUS
  <2>2. \A k \in 1..Len(ys) : F[ys[k]] = TopologyOfSlot(t, ys[k])
    BY <2>1
  <2> HIDE DEF F
  <2>3. Mapped(F, ys) = [k \in 1..Len(ys) |-> TopologyOfSlot(t, ys[k])]
    BY <2>2 DEF Mapped
  <2> QED
    BY <2>3 DEF TopologyOfSlots
<1>4. xs # <<>> => xs[1] \in Slots(t) /\ Tail(xs) \in Seq(Slots(t))
  OBVIOUS
<1>5. xs # <<>> => F[xs[1]] = TopologyOfSlot(t, xs[1])
  BY <1>4
<1> HIDE DEF F
<1>6. TopologyOfSlots(t, xs) \in Seq(Items)
  <2>1. Concatenated(Mapped(F, xs)) \in Seq(Items)
    BY <1>2, MappedType
  <2>2. TopologyOfSlots(t, xs) = Concatenated(Mapped(F, xs))
    BY <1>3
  <2> QED
    BY <2>1, <2>2
<1>7. ASSUME xs = <<>> PROVE TopologyOfSlots(t, xs) = <<>>
  <2>1. TopologyOfSlots(t, xs) = Concatenated(Mapped(F, xs))
    BY <1>3
  <2>2. Concatenated(Mapped(F, <<>>)) = <<>>
    BY MappedNothing
  <2> QED
    BY <1>7, <2>1, <2>2
<1>8. ASSUME xs # <<>>
      PROVE  TopologyOfSlots(t, xs) = TopologyOfSlot(t, xs[1]) \o TopologyOfSlots(t, Tail(xs))
  <2>1. Concatenated(Mapped(F, xs)) = F[xs[1]] \o Concatenated(Mapped(F, Tail(xs)))
    <3>1. HeadFirst(Items, Slots(t), F, xs)
      BY <1>2, <1>8, MappedHead
    <3> QED
      BY <3>1 DEF HeadFirst
  <2>2. TopologyOfSlots(t, xs) = Concatenated(Mapped(F, xs))
    BY <1>3
  <2>3. TopologyOfSlots(t, Tail(xs)) = Concatenated(Mapped(F, Tail(xs)))
    BY <1>3, <1>4, <1>8
  <2> QED
    BY <1>5, <1>8, <2>1, <2>2, <2>3, Zenon
<1> QED
  BY <1>6, <1>7, <1>8

LEMMA DataOfSlotsAre ==
    ASSUME NEW t, GoodTree(t), NEW xs \in Seq(Slots(t))
    PROVE  /\ DataOfSlots(t, xs) \in Seq(Items)
           /\ xs = <<>> => DataOfSlots(t, xs) = <<>>
           /\ xs # <<>> => DataOfSlots(t, xs) = DataOfSlot(t, xs[1]) \o DataOfSlots(t, Tail(xs))
<1> DEFINE F == [x \in Slots(t) |-> DataOfSlot(t, x)]
<1>1. \A x \in Slots(t) : DataOfSlot(t, x) \in Seq(Items)
  BY DataOfSlotIs
<1>2. F \in [Slots(t) -> Seq(Items)]
  BY <1>1
<1>3. ASSUME NEW ys \in Seq(Slots(t))
      PROVE  DataOfSlots(t, ys) = Concatenated(Mapped(F, ys))
  <2>1. \A k \in 1..Len(ys) : ys[k] \in Slots(t)
    OBVIOUS
  <2>2. \A k \in 1..Len(ys) : F[ys[k]] = DataOfSlot(t, ys[k])
    BY <2>1
  <2> HIDE DEF F
  <2>3. Mapped(F, ys) = [k \in 1..Len(ys) |-> DataOfSlot(t, ys[k])]
    BY <2>2 DEF Mapped
  <2> QED
    BY <2>3 DEF DataOfSlots
<1>4. xs # <<>> => xs[1] \in Slots(t) /\ Tail(xs) \in Seq(Slots(t))
  OBVIOUS
<1>5. xs # <<>> => F[xs[1]] = DataOfSlot(t, xs[1])
  BY <1>4
<1> HIDE DEF F
<1>6. DataOfSlots(t, xs) \in Seq(Items)
  <2>1. Concatenated(Mapped(F, xs)) \in Seq(Items)
    BY <1>2, MappedType
  <2>2. DataOfSlots(t, xs) = Concatenated(Mapped(F, xs))
    BY <1>3
  <2> QED
    BY <2>1, <2>2
<1>7. ASSUME xs = <<>> PROVE DataOfSlots(t, xs) = <<>>
  <2>1. DataOfSlots(t, xs) = Concatenated(Mapped(F, xs))
    BY <1>3
  <2>2. Concatenated(Mapped(F, <<>>)) = <<>>
    BY MappedNothing
  <2> QED
    BY <1>7, <2>1, <2>2
<1>8. ASSUME xs # <<>>
      PROVE  DataOfSlots(t, xs) = DataOfSlot(t, xs[1]) \o DataOfSlots(t, Tail(xs))
  <2>1. Concatenated(Mapped(F, xs)) = F[xs[1]] \o Concatenated(Mapped(F, Tail(xs)))
    <3>1. HeadFirst(Items, Slots(t), F, xs)
      BY <1>2, <1>8, MappedHead
    <3> QED
      BY <3>1 DEF HeadFirst
  <2>2. DataOfSlots(t, xs) = Concatenated(Mapped(F, xs))
    BY <1>3
  <2>3. DataOfSlots(t, Tail(xs)) = Concatenated(Mapped(F, Tail(xs)))
    BY <1>3, <1>4, <1>8
  <2> QED
    BY <1>5, <1>8, <2>1, <2>2, <2>3, Zenon
<1> QED
  BY <1>6, <1>7, <1>8

LEMMA TreeIsWritten ==
    ASSUME NEW t, GoodTree(t)
    PROVE  Topology(t) \in Seq(Items) /\ Data(t) \in Seq(Items)
<1> DEFINE a == Mask(Slots(t))
           b == Mask({})
           r == TopologyOfSlots(t, Ascending(Slots(t)))
<1>1. a \in Items /\ b \in Items /\ Ascending(Slots(t)) \in Seq(Slots(t))
  BY RootOf
<1>2. r \in Seq(Items)
  BY <1>1, TopologyOfSlotsAre
<1>3. Data(t) \in Seq(Items)
  BY <1>1, DataOfSlotsAre, DataUnfolds
<1> HIDE DEF a, b, r
<1>4. <<a, b>> \o r \in Seq(Items)
  BY <1>1, <1>2
<1> QED
  BY <1>3, <1>4, TopologyUnfolds DEF a, b, r

-----------------------------------------------------------------------------
(***************************************************************************)
(* The inductive invariant.                                                *)
(***************************************************************************)
\* The coordinates build_tree has passed when it is at v.
Before(v) == {c \in Coordinates : \/ c[3] < v[3]
                                  \/ c[3] = v[3] /\ c[2] < v[2]
                                  \/ c[3] = v[3] /\ c[2] = v[2] /\ c[1] < v[1]}

\* The grid whose tree is t is written from at up to next.
Segment(f, t, at, next) ==
    LET block == at + 2 + Len(Topology(t)) IN
    /\ f[at] = [item |-> "descriptor", gridPos |-> at + 1, blockPos |-> block,
                endPos |-> next]
    /\ f[at + 1] = Preamble
    /\ Occurs(f, at + 2, Topology(t))
    /\ Occurs(f, block, Data(t))
    /\ next = block + Len(Data(t))

\* The first n - 1 grids begin at d[1], d[2] and so on, and the next at d[n].
Laid(f, ts, d, n) ==
    /\ d[1] = 2
    /\ \A g \in 1..n : d[g] \in Nat /\ 2 <= d[g] /\ d[g] <= d[n]
    /\ d[n] <= Len(f) + 1
    /\ \A g \in 1..(n - 1) : Segment(f, ts[g], d[g], d[g + 1])

Writing == stage \in {"describe", "topology", "data"}
Reading == stage \in {"written", "readGrid", "readTopology", "readData", "read"}

NotBegun == stage = "check" => grid = 1 /\ voxel = <<0, 0, 0>> /\ file = <<>>

\* Voxel by voxel, tree by tree.
BuiltSoFar ==
    stage = "build" =>
        /\ ~TooLarge /\ grid \in 1..count /\ file = <<>>
        /\ DOMAIN trees = 1..count
        /\ \A g \in 1..count :
               TreeOf(trees[g], g, IF g < grid THEN Coordinates
                                   ELSE IF g = grid THEN Before(voxel) ELSE {})
        /\ IsFiniteSet(Active(trees[grid]))

\* Once they are built, the trees are the field.
TreesAreTheField ==
    Writing \/ Reading =>
        /\ ~TooLarge /\ grid \in 1..count
        /\ \A g \in 1..count : TreeOf(trees[g], g, Coordinates)
        /\ file \in Seq(Items) /\ Len(file) >= 1
        /\ file[1] = [item |-> "header", grids |-> count]

\* The grids before this one are in the file, and this one as far as it goes.
WrittenSoFar ==
    Writing =>
        \E d :
            /\ Laid(file, trees, d, grid)
            /\ stage = "describe" => d[grid] = Len(file) + 1
            /\ stage # "describe" => /\ descriptor = d[grid]
                                     /\ descriptor <= Len(file)
                                     /\ file[descriptor] = Descriptor
            /\ stage = "topology" => Len(file) = descriptor
            /\ stage = "data" =>
                   /\ file[descriptor + 1] = Preamble
                   /\ Len(file) = descriptor + 1 + Len(Topology(trees[grid]))
                   /\ Occurs(file, descriptor + 2, Topology(trees[grid]))

\* The leaf is that of place p in the tree t, its data written at at.
LeafFrom(leaf, f, at, t, p) ==
    /\ leaf.origin = Origin(p[1], p[2]) /\ leaf.mask = DOMAIN t[p]
    /\ f[at] = Mask(DOMAIN t[p]) /\ f[at + 1] = Leaf(t[p])
    /\ at + 2 <= Len(f) + 1

\* The leaf is that of place p in the tree t, with its values.
LeafRead(leaf, t, p) ==
    /\ leaf.origin = Origin(p[1], p[2]) /\ leaf.mask = DOMAIN t[p]
    /\ leaf.values = Leaf(t[p]).values

LeafReads(t) ==
    [origin : {Origin(p[1], p[2]) : p \in DOMAIN t}, mask : {DOMAIN t[p] : p \in DOMAIN t},
     values : {<<>>} \cup {Leaf(t[p]).values : p \in DOMAIN t}]

\* The leaves ls are those of the tree t.
ReadGrid(ls, t) ==
    /\ \A k \in 1..Len(ls) : \E p \in DOMAIN t : LeafRead(ls[k], t, p)
    /\ \A p \in DOMAIN t : \E k \in 1..Len(ls) : LeafRead(ls[k], t, p)

\* The leaves ls have been found, those of the children cs of slot s and of
\* the slots ss come next, at at in the topology and after ls in the data.
ReadTopology(f, at, block, t, ls, s, cs, ss) ==
    LET next == block + 2 * Len(ls) IN
    /\ cs \in Seq(Children(t, s)) /\ ss \in Seq(Slots(t))
    /\ Occurs(f, at, TopologyOfChildren(t, s, cs))
    /\ Occurs(f, at + Len(TopologyOfChildren(t, s, cs)), TopologyOfSlots(t, ss))
    /\ Occurs(f, next, DataOfChildren(t, s, cs))
    /\ Occurs(f, next + Len(DataOfChildren(t, s, cs)), DataOfSlots(t, ss))
    /\ \A k \in 1..Len(ls) : \E p \in DOMAIN t : LeafFrom(ls[k], f, block + 2 * k - 2, t, p)
    /\ \A p \in DOMAIN t :
           \/ \E k \in 1..Len(ls) : LeafFrom(ls[k], f, block + 2 * k - 2, t, p)
           \/ p[1] = s /\ \E k \in 1..Len(cs) : cs[k] = p[2]
           \/ \E k \in 1..Len(ss) : ss[k] = p[1]

\* The k-th leaf, before or after its values are read.
LeafIn(leaf, f, at, t, p, filled) ==
    LeafFrom(leaf, f, at, t, p) /\ (filled => leaf.values = Leaf(t[p]).values)

\* The values of the leaves before the n-th have been read, up to at.
ReadData(f, at, block, t, ls, n) ==
    /\ n \in 1..(Len(ls) + 1) /\ at = block + 2 * n - 2
    /\ \A k \in 1..Len(ls) : \E p \in DOMAIN t :
           LeafIn(ls[k], f, block + 2 * k - 2, t, p, k < n)
    /\ \A p \in DOMAIN t : \E k \in 1..Len(ls) :
           LeafIn(ls[k], f, block + 2 * k - 2, t, p, k < n)

\* The reader is where the writer was when it wrote the same.
ReadSoFar ==
    Reading =>
        \E d :
            /\ Laid(file, trees, d, count + 1)
            /\ stage = "written" => grid = 1
            /\ stage # "written" =>
                   /\ descriptor = d[grid]
                   /\ leaves = [g \in 1..count |-> leaves[g]]
                   /\ \A g \in 1..count :
                          /\ leaves[g] \in Seq(LeafReads(trees[g]))
                          /\ g < grid \/ stage = "read" => ReadGrid(leaves[g], trees[g])
                          /\ g > grid \/ (g = grid /\ stage = "readGrid") => leaves[g] = <<>>
            /\ stage = "readTopology" =>
                   /\ pos # 0
                   /\ ReadTopology(file, pos, file[descriptor].blockPos, trees[grid],
                                   leaves[grid], todo.slot, todo.children, todo.slots)
            /\ stage = "readData" =>
                   ReadData(file, pos, file[descriptor].blockPos, trees[grid],
                            leaves[grid], todo.leaf)

TodoIs == todo \in [slot : {todo.slot}, slots : {todo.slots},
                    children : {todo.children}, leaf : {todo.leaf}]

Inductive ==
    /\ TypeOK /\ stage # "malformed"
    /\ NothingOverlaps
    /\ NotBegun
    /\ BuiltSoFar
    /\ TreesAreTheField
    /\ WrittenSoFar
    /\ ReadSoFar
    /\ TodoIs

-----------------------------------------------------------------------------
(***************************************************************************)
(* Building.                                                               *)
(***************************************************************************)
LEMMA Sizes ==
    ASSUME TypeOK
    PROVE  /\ dims = <<dims[1], dims[2], dims[3]>>
           /\ dims[1] \in Nat /\ dims[2] \in Nat /\ dims[3] \in Nat /\ count \in Nat
           /\ voxel = <<voxel[1], voxel[2], voxel[3]>>
           /\ voxel[1] \in Nat /\ voxel[2] \in Nat /\ voxel[3] \in Nat
<1>1. dims \in Nat \X Nat \X Nat /\ count \in Nat /\ voxel \in Nat \X Nat \X Nat
  BY VdbTreeAssumption DEF TypeOK
<1> QED
  BY <1>1

LEMMA CoordinatesAre ==
    ASSUME TypeOK, NEW c
    PROVE  c \in Coordinates <=>
               /\ c = <<c[1], c[2], c[3]>>
               /\ c[1] \in 0..(dims[1] - 1) /\ c[2] \in 0..(dims[2] - 1) /\ c[3] \in 0..(dims[3] - 1)
  BY DEF Coordinates

LEMMA CoordinatesFit ==
    ASSUME TypeOK, ~TooLarge
    PROVE  Coordinates \in SUBSET Cube
<1> SUFFICES ASSUME NEW c \in Coordinates
             PROVE  c \in Cube
  OBVIOUS
<1>1. c = <<c[1], c[2], c[3]>> /\ c[1] \in 0..(dims[1] - 1) /\ c[2] \in 0..(dims[2] - 1)
      /\ c[3] \in 0..(dims[3] - 1)
  BY CoordinatesAre
<1>2. dims[1] <= RootChildDim /\ dims[2] <= RootChildDim /\ dims[3] <= RootChildDim
  BY Sizes, EdgesDivide DEF TooLarge
<1>3. c[1] \in 0..(RootChildDim - 1) /\ c[2] \in 0..(RootChildDim - 1)
      /\ c[3] \in 0..(RootChildDim - 1)
  BY <1>1, <1>2, Sizes, EdgesDivide
<1> QED
  BY <1>1, <1>3 DEF Cube

LEMMA NoneBefore ==
    ASSUME TypeOK
    PROVE  Before(<<0, 0, 0>>) = {}
<1> SUFFICES ASSUME NEW c \in Before(<<0, 0, 0>>)
             PROVE  FALSE
  OBVIOUS
<1>1. c[1] \in Nat /\ c[2] \in Nat /\ c[3] \in Nat
  BY CoordinatesAre, Sizes DEF Before
<1>2. \/ c[3] < 0
      \/ c[3] = 0 /\ c[2] < 0
      \/ c[3] = 0 /\ c[2] = 0 /\ c[1] < 0
  BY DEF Before
<1> QED
  BY <1>1, <1>2

\* The loops pass every voxel, and no voxel twice.
LEMMA PassedIs ==
    ASSUME TypeOK, ~Hollow, voxel[3] < dims[3]
    PROVE  /\ voxel \in Coordinates /\ voxel \notin Before(voxel)
           /\ Before(Following(voxel)) = Before(voxel) \cup {voxel}
<1> DEFINE v == voxel
           w == Following(v)
<1>1. /\ dims[1] \in Nat /\ dims[2] \in Nat /\ dims[3] \in Nat
      /\ v = <<v[1], v[2], v[3]>> /\ v[1] \in Nat /\ v[2] \in Nat /\ v[3] \in Nat
      /\ v[1] < dims[1] /\ v[2] < dims[2] /\ v[3] < dims[3]
  BY Sizes DEF TypeOK
<1>2. v \in Coordinates
  BY <1>1, CoordinatesAre
<1>3. v \notin Before(v)
  BY <1>1 DEF Before
<1>4. \/ v[1] + 1 < dims[1] /\ w[1] = v[1] + 1 /\ w[2] = v[2] /\ w[3] = v[3]
      \/ v[1] + 1 = dims[1] /\ v[2] + 1 < dims[2] /\ w[1] = 0 /\ w[2] = v[2] + 1 /\ w[3] = v[3]
      \/ v[1] + 1 = dims[1] /\ v[2] + 1 = dims[2] /\ w[1] = 0 /\ w[2] = 0 /\ w[3] = v[3] + 1
  BY <1>1 DEF Following
<1> HIDE DEF v, w
<1>5. ASSUME NEW c \in Coordinates
      PROVE  c \in Before(w) <=> c \in Before(v) \/ c = v
  <2>1. /\ c = <<c[1], c[2], c[3]>> /\ c[1] \in Nat /\ c[2] \in Nat /\ c[3] \in Nat
        /\ c[1] < dims[1] /\ c[2] < dims[2] /\ c[3] < dims[3]
    BY <1>1, CoordinatesAre
  <2>2. c = v <=> c[1] = v[1] /\ c[2] = v[2] /\ c[3] = v[3]
    BY <1>1, <2>1
  <2>3. \A u : c \in Before(u) <=> \/ c[3] < u[3]
                                   \/ c[3] = u[3] /\ c[2] < u[2]
                                   \/ c[3] = u[3] /\ c[2] = u[2] /\ c[1] < u[1]
    BY DEF Before
  <2>4. (\/ c[3] < w[3]
         \/ c[3] = w[3] /\ c[2] < w[2]
         \/ c[3] = w[3] /\ c[2] = w[2] /\ c[1] < w[1])
        <=> \/ c[3] < v[3]
            \/ c[3] = v[3] /\ c[2] < v[2]
            \/ c[3] = v[3] /\ c[2] = v[2] /\ c[1] < v[1]
            \/ c[1] = v[1] /\ c[2] = v[2] /\ c[3] = v[3]
    <3> DEFINE x == c[1]
               y == c[2]
               z == c[3]
    <3>1. x \in Nat /\ y \in Nat /\ z \in Nat /\ x < dims[1] /\ y < dims[2] /\ z < dims[3]
      BY <2>1
    <3> HIDE DEF x, y, z
    <3>2. (\/ z < w[3]
           \/ z = w[3] /\ y < w[2]
           \/ z = w[3] /\ y = w[2] /\ x < w[1])
          <=> \/ z < v[3]
              \/ z = v[3] /\ y < v[2]
              \/ z = v[3] /\ y = v[2] /\ x < v[1]
              \/ x = v[1] /\ y = v[2] /\ z = v[3]
      BY <1>1, <1>4, <3>1
    <3> QED
      BY <3>2 DEF x, y, z
  <2> QED
    BY <2>2, <2>3, <2>4
<1>6. Before(w) = Before(v) \cup {v}
  <2>1. Before(w) \in SUBSET Coordinates /\ Before(v) \in SUBSET Coordinates
    BY DEF Before
  <2> QED
    BY <1>2, <1>5, <2>1 DEF v
<1> QED
  BY <1>2, <1>3, <1>6 DEF v, w

\* The number of voxels passed.
Number(v) == v[1] + dims[1] * (v[2] + dims[2] * v[3])

LEMMA NumberGrows ==
    ASSUME TypeOK, ~Hollow, voxel[3] < dims[3]
    PROVE  Number(voxel) \in Nat /\ Number(Following(voxel)) = Number(voxel) + 1
<1> DEFINE v == voxel
           w == Following(v)
<1>1. /\ dims[1] \in Nat /\ dims[2] \in Nat
      /\ v[1] \in Nat /\ v[2] \in Nat /\ v[3] \in Nat /\ v[1] < dims[1] /\ v[2] < dims[2]
  BY Sizes DEF TypeOK
<1>2. \/ w[1] = v[1] + 1 /\ w[2] = v[2] /\ w[3] = v[3]
      \/ v[1] + 1 = dims[1] /\ w[1] = 0 /\ w[2] = v[2] + 1 /\ w[3] = v[3]
      \/ v[1] + 1 = dims[1] /\ v[2] + 1 = dims[2] /\ w[1] = 0 /\ w[2] = 0 /\ w[3] = v[3] + 1
  BY <1>1 DEF Following
<1> HIDE DEF v, w
<1>3. Number(v) \in Nat
  BY <1>1 DEF Number
<1>4. Number(w) = Number(v) + 1
  <2> DEFINE a == dims[1]
             b == dims[2]
             x == v[1]
             y == v[2]
             z == v[3]
  <2>1. a \in Nat /\ b \in Nat /\ x \in Nat /\ y \in Nat /\ z \in Nat
    BY <1>1
  <2>2. CASE w[1] = x + 1 /\ w[2] = y /\ w[3] = z
    <3>1. Number(w) = (x + 1) + a * (y + b * z) /\ Number(v) = x + a * (y + b * z)
      BY <2>2 DEF Number
    <3> HIDE DEF a, b, x, y, z
    <3> DEFINE r == a * (y + b * z)
    <3>2. r \in Nat
      BY <2>1
    <3> HIDE DEF r
    <3>3. (x + 1) + r = x + r + 1
      BY <2>1, <3>2
    <3> QED
      BY <3>1, <3>3 DEF r
  <2>3. CASE x + 1 = a /\ w[1] = 0 /\ w[2] = y + 1 /\ w[3] = z
    <3>1. Number(w) = 0 + a * ((y + 1) + b * z) /\ Number(v) = x + a * (y + b * z) /\ x + 1 = a
      BY <2>3 DEF Number
    <3> HIDE DEF a, b, x, y, z
    <3> DEFINE r == b * z
    <3>2. r \in Nat
      BY <2>1
    <3> HIDE DEF r
    <3>3. 0 + a * ((y + 1) + r) = a * (y + r) + a /\ a * (y + r) \in Nat
      BY <2>1, <3>2
    <3>4. Number(w) = a * (y + r) + a /\ Number(v) = x + a * (y + r)
      BY <3>1, <3>3 DEF r
    <3> QED
      BY <2>1, <3>1, <3>3, <3>4
  <2>4. CASE x + 1 = a /\ y + 1 = b /\ w[1] = 0 /\ w[2] = 0 /\ w[3] = z + 1
    <3>1. Number(w) = 0 + a * (0 + b * (z + 1)) /\ Number(v) = x + a * (y + b * z)
          /\ x + 1 = a /\ y + 1 = b
      BY <2>4 DEF Number
    <3> HIDE DEF a, b, x, y, z
    <3> DEFINE r == b * z
    <3>2. r \in Nat
      BY <2>1
    <3>3. b * (z + 1) = r + b
      BY <2>1
    <3> HIDE DEF r
    <3>4. 0 + a * (0 + (r + b)) = a * (y + r) + a /\ a * (y + r) \in Nat
      <4>1. 0 + (r + b) = (y + r) + 1
        BY <2>1, <3>1, <3>2
      <4> DEFINE q == y + r
      <4>2. q \in Nat
        BY <2>1, <3>2
      <4> HIDE DEF q
      <4>3. a * (q + 1) = a * q + a /\ a * q \in Nat
        BY <2>1, <4>2
      <4> QED
        BY <4>1, <4>3, <2>1 DEF q
    <3>5. Number(w) = a * (y + r) + a /\ Number(v) = x + a * (y + r)
      BY <3>1, <3>3, <3>4 DEF r
    <3> QED
      BY <2>1, <3>1, <3>4, <3>5
  <2> QED
    BY <1>2, <2>2, <2>3, <2>4
<1> QED
  BY <1>3, <1>4 DEF v, w

-----------------------------------------------------------------------------
LEMMA InitInductive ==
    ASSUME Init
    PROVE  Inductive
<1>1. count \in Nat /\ dims \in Nat \X Nat \X Nat
  BY VdbTreeAssumption DEF Init
<1>2. dims[1] \in Nat /\ dims[2] \in Nat /\ dims[3] \in Nat
  BY <1>1
<1>3. TypeOK
  <2>1. ~Hollow => voxel[1] < dims[1] /\ voxel[2] < dims[2] /\ voxel[3] <= dims[3]
    BY <1>2 DEF Init, Hollow
  <2>2. grid \in 1..(count + 1)
    BY <1>1 DEF Init
  <2>3. descriptor \in 0..Len(file) /\ pos \in 0..(Len(file) + 1)
    BY DEF Init
  <2> QED
    BY <2>1, <2>2, <2>3 DEF Init, TypeOK
<1>4. TodoIs
  BY DEF Init, TodoIs, NothingToDo
<1>5. stage = "check" /\ NotBegun
  BY DEF Init, NotBegun
<1> QED
  BY <1>3, <1>4, <1>5
     DEF Inductive, NothingOverlaps, BuiltSoFar, TreesAreTheField, WrittenSoFar, ReadSoFar,
         Writing, Reading

\* Nothing is known to the reader yet.
LEMMA CheckStep ==
    ASSUME Inductive, Check
    PROVE  Inductive'
<1>1. /\ TypeOK /\ stage = "check"
      /\ \/ stage' = "refused"
         \/ stage' = "build" /\ count # 0 /\ ~TooLarge
      /\ trees' = [g \in 1..count |-> <<>>]
      /\ UNCHANGED <<dims, count, voxel, file, descriptor, grid, reader>>
  BY DEF Inductive, Check
<1>2. TodoIs' /\ TypeOK'
  <2>1. TodoIs'
    BY <1>1 DEF Inductive, TodoIs, reader
  <2>2. TypeOK'
    BY <1>1 DEF TypeOK, Hollow, reader
  <2> QED
    BY <2>1, <2>2
<1>3. CASE stage' = "refused"
  BY <1>2, <1>3
     DEF Inductive, NotBegun, NothingOverlaps, BuiltSoFar, TreesAreTheField, WrittenSoFar, ReadSoFar,
         Writing, Reading
<1>4. CASE stage' = "build" /\ count # 0 /\ ~TooLarge
  <2>1. grid = 1 /\ voxel = <<0, 0, 0>> /\ file = <<>> /\ count \in Nat /\ 1 \in 1..count
    BY <1>1, <1>4, Sizes DEF Inductive, NotBegun
  <2>2. DOMAIN trees' = 1..count /\ \A g \in 1..count : trees'[g] = <<>>
    BY <1>1
  <2>3. /\ grid' = 1 /\ file' = <<>> /\ count' = count /\ voxel' = voxel /\ dims' = dims
    BY <1>1, <2>1
  <2>4. Before(voxel) = {}
    BY <1>1, <2>1, NoneBefore
  <2>5. Before(voxel)' = {} /\ ~TooLarge'
    BY <1>4, <2>3, <2>4 DEF Before, Coordinates, TooLarge
  <2>6. \A g \in 1..count :
            TreeOf(trees'[g], g, IF g < 1 THEN Coordinates'
                                 ELSE IF g = 1 THEN Before(voxel)' ELSE {})
    <3> SUFFICES ASSUME NEW g \in 1..count
                 PROVE  TreeOf(trees'[g], g, IF g < 1 THEN Coordinates'
                                             ELSE IF g = 1 THEN Before(voxel)' ELSE {})
      OBVIOUS
    <3>1. (IF g < 1 THEN Coordinates' ELSE IF g = 1 THEN Before(voxel)' ELSE {}) = {}
      BY <2>5
    <3> QED
      BY <2>2, <3>1, EmptyTree
  <2>7. Active(trees'[1]) = {}
    BY <2>1, <2>2 DEF Active
  <2>8. IsFiniteSet(Active(trees'[1])) /\ Cardinality(Active(trees'[1])) = 0
    BY <2>7, FS_EmptySet
  <2>9. BuiltSoFar'
    BY <2>1, <2>2, <2>3, <2>5, <2>6, <2>8, Zenon DEF BuiltSoFar
  <2>10. NothingOverlaps'
    <3>1. dims[1] \in Nat /\ dims[2] \in Nat
      BY <1>1, Sizes
    <3>2. voxel'[1] + dims'[1] * (voxel'[2] + dims'[2] * voxel'[3]) = 0
      <4>1. voxel'[1] = 0 /\ voxel'[2] = 0 /\ voxel'[3] = 0 /\ dims'[1] = dims[1] /\ dims'[2] = dims[2]
        BY <2>1, <2>3
      <4>2. 0 + dims[1] * (0 + dims[2] * 0) = 0
        BY <3>1
      <4> QED
        BY <4>1, <4>2
    <3> QED
      BY <2>3, <2>8, <3>2 DEF NothingOverlaps, Active
  <2> QED
    BY <1>2, <1>4, <2>9, <2>10
       DEF Inductive, NotBegun, TreesAreTheField, WrittenSoFar, ReadSoFar, Writing, Reading
<1> QED
  BY <1>1, <1>3, <1>4

LEMMA AddVoxelStep ==
    ASSUME Inductive, AddVoxel
    PROVE  Inductive'
<1>1. /\ TypeOK /\ stage = "build" /\ ~Hollow /\ voxel[3] < dims[3]
      /\ trees' = [trees EXCEPT ![grid] =
             Stored(@, Place(voxel), At(voxel), Value(grid, voxel))]
      /\ voxel' = Following(voxel)
      /\ UNCHANGED <<dims, count, file, descriptor, stage, grid, reader>>
  BY DEF Inductive, AddVoxel, Place, At
<1>2. /\ ~TooLarge /\ grid \in 1..count /\ file = <<>> /\ DOMAIN trees = 1..count
      /\ \A g \in 1..count :
             TreeOf(trees[g], g, IF g < grid THEN Coordinates
                                 ELSE IF g = grid THEN Before(voxel) ELSE {})
      /\ IsFiniteSet(Active(trees[grid]))
  BY <1>1 DEF Inductive, BuiltSoFar
<1> DEFINE t == trees[grid]
           u == Stored(t, Place(voxel), At(voxel), Value(grid, voxel))
           new == <<Place(voxel), At(voxel)>>
<1>3. voxel \in Coordinates /\ voxel \notin Before(voxel)
      /\ Before(Following(voxel)) = Before(voxel) \cup {voxel}
  BY <1>1, PassedIs
<1>4. voxel \in Cube /\ Before(voxel) \in SUBSET Cube /\ Coordinates \in SUBSET Cube
  <2>1. Coordinates \in SUBSET Cube
    BY <1>1, <1>2, CoordinatesFit
  <2>2. Before(voxel) \in SUBSET Coordinates
    BY DEF Before
  <2> QED
    BY <1>3, <2>1, <2>2
<1>5. TreeOf(t, grid, Before(voxel))
  <2>1. count \in Nat /\ ~ (grid < grid)
    BY <1>1, <1>2, Sizes
  <2> QED
    BY <1>2, <2>1
<1>6. TreeOf(u, grid, Before(voxel) \cup {voxel})
  <2> HIDE DEF t
  <2> QED
    BY <1>4, <1>5, StoredTree
<1>7. trees'[grid] = u /\ DOMAIN trees' = 1..count
      /\ \A g \in 1..count : g # grid => trees'[g] = trees[g]
  <2> HIDE DEF Place, At
  <2> QED
    BY <1>1, <1>2
<1> HIDE DEF u, new
<1>8. Coordinates' = Coordinates /\ Before(voxel)' = Before(voxel) \cup {voxel}
      /\ ~TooLarge' /\ ~Hollow'
  <2>1. dims' = dims
    BY <1>1
  <2>2. Coordinates' = Coordinates /\ ~TooLarge' /\ ~Hollow'
    BY <1>1, <1>2, <2>1 DEF Coordinates, TooLarge, Hollow
  <2>3. Before(voxel)' = Before(Following(voxel))
    BY <1>1, <2>2 DEF Before
  <2> QED
    BY <1>3, <2>2, <2>3
<1>9. Active(u) = Active(t) \cup {new} /\ new \notin Active(t)
  <2> DEFINE pair(c) == <<Place(c), At(c)>>
  <2> HIDE DEF t, Place, At
  <2>1. Active(t) = {<<Place(c), At(c)>> : c \in Before(voxel)}
    BY <1>5, ActiveAre
  <2>2. Active(u) = {<<Place(c), At(c)>> : c \in Before(voxel) \cup {voxel}}
    BY <1>6, ActiveAre
  <2>3. Active(u) = Active(t) \cup {new}
    BY <2>1, <2>2 DEF new
  <2>4. ASSUME new \in Active(t) PROVE FALSE
    <3>1. PICK c \in Before(voxel) : <<Place(voxel), At(voxel)>> = <<Place(c), At(c)>>
      BY <2>1, <2>4 DEF new
    <3>2. c = voxel
      BY <1>4, <3>1, PlacesDiffer
    <3> QED
      BY <1>3, <3>1, <3>2
  <2> QED
    BY <2>3, <2>4
<1>10. IsFiniteSet(Active(u)) /\ Cardinality(Active(u)) = Cardinality(Active(t)) + 1
  <2>1. IsFiniteSet(Active(t))
    BY <1>2
  <2> HIDE DEF t
  <2> QED
    BY <1>9, <2>1, FS_AddElement
<1>11. BuiltSoFar'
  <2>1. \A g \in 1..count :
            TreeOf(trees'[g], g, IF g < grid THEN Coordinates'
                                 ELSE IF g = grid THEN Before(voxel)' ELSE {})
    <3> SUFFICES ASSUME NEW g \in 1..count
                 PROVE  TreeOf(trees'[g], g, IF g < grid THEN Coordinates'
                                             ELSE IF g = grid THEN Before(voxel)' ELSE {})
      OBVIOUS
    <3>1. CASE g = grid
      <4>1. count \in Nat /\ ~ (g < grid)
        BY <1>1, <1>2, <3>1, Sizes
      <4> QED
        BY <1>6, <1>7, <1>8, <3>1, <4>1, Zenon
    <3>2. CASE g # grid
      <4>1. trees'[g] = trees[g]
        BY <1>7, <3>2
      <4>2. TreeOf(trees[g], g, IF g < grid THEN Coordinates
                                ELSE IF g = grid THEN Before(voxel) ELSE {})
        BY <1>2
      <4>3. (IF g < grid THEN Coordinates ELSE IF g = grid THEN Before(voxel) ELSE {})
            = (IF g < grid THEN Coordinates' ELSE IF g = grid THEN Before(voxel)' ELSE {})
        BY <1>8, <3>2, Zenon
      <4> QED
        BY <4>1, <4>2, <4>3, Zenon
    <3> QED
      BY <3>1, <3>2
  <2>2. IsFiniteSet(Active(trees'[grid]))
    BY <1>7, <1>10
  <2>3. count' = count /\ grid' = grid /\ file' = <<>>
    BY <1>1, <1>2
  <2> QED
    BY <1>2, <1>7, <1>8, <2>1, <2>2, <2>3, Zenon DEF BuiltSoFar
<1>12. NothingOverlaps'
  <2>1. Cardinality(Active(t)) = Number(voxel)
    <3>1. Cardinality(Active(t)) = IF Hollow THEN 0 ELSE Number(voxel)
      BY <1>1 DEF Inductive, NothingOverlaps, Active, Number
    <3> QED
      BY <1>1, <3>1
  <2>2. Number(voxel) + 1 = Number(Following(voxel))
    BY <1>1, NumberGrows
  <2>3. Cardinality(Active(trees'[grid])) = Number(Following(voxel))
    <3> HIDE DEF t
    <3> QED
      BY <1>7, <1>10, <2>1, <2>2
  <2>4. Number(Following(voxel)) = (Number(voxel))'
    BY <1>1 DEF Number
  <2>5. grid' = grid
    BY <1>1
  <2>6. Cardinality(Active(trees[grid])') = Number(voxel)'
    BY <2>3, <2>4, <2>5, Zenon
  <2> QED
    BY <1>8, <2>6 DEF NothingOverlaps, Active, Number
<1>13. TypeOK'
  <2>1. /\ dims[1] \in Nat /\ dims[2] \in Nat /\ dims[3] \in Nat
        /\ voxel[1] \in Nat /\ voxel[2] \in Nat /\ voxel[3] \in Nat
        /\ voxel[1] < dims[1] /\ voxel[2] < dims[2]
    BY <1>1, Sizes DEF TypeOK
  <2> DEFINE w == Following(voxel)
  <2>2. /\ w \in Nat \X Nat \X Nat
        /\ w[1] < dims[1] /\ w[2] < dims[2] /\ w[3] <= dims[3]
    <3>1. CASE voxel[1] + 1 < dims[1]
      <4>1. w = <<voxel[1] + 1, voxel[2], voxel[3]>>
        BY <3>1 DEF Following
      <4> HIDE DEF w
      <4> QED
        BY <1>1, <2>1, <3>1, <4>1
    <3>2. CASE ~ (voxel[1] + 1 < dims[1]) /\ voxel[2] + 1 < dims[2]
      <4>1. w = <<0, voxel[2] + 1, voxel[3]>>
        BY <3>2 DEF Following
      <4> HIDE DEF w
      <4> QED
        BY <1>1, <2>1, <3>2, <4>1
    <3>3. CASE ~ (voxel[1] + 1 < dims[1]) /\ ~ (voxel[2] + 1 < dims[2])
      <4>1. w = <<0, 0, voxel[3] + 1>>
        BY <3>3 DEF Following
      <4> HIDE DEF w
      <4> QED
        BY <1>1, <2>1, <3>3, <4>1
    <3> QED
      BY <3>1, <3>2, <3>3
  <2> HIDE DEF w
  <2>3. voxel' = w
    BY <1>1 DEF w
  <2> QED
    BY <1>1, <2>2, <2>3 DEF TypeOK, reader
<1>14. TodoIs'
  BY <1>1 DEF Inductive, TodoIs, reader
<1> QED
  BY <1>1, <1>11, <1>12, <1>13, <1>14
     DEF Inductive, NotBegun, TreesAreTheField, WrittenSoFar, ReadSoFar, Writing, Reading

LEMMA AllPassed ==
    ASSUME TypeOK, Hollow \/ voxel[3] >= dims[3]
    PROVE  Before(voxel) = Coordinates
<1> SUFFICES ASSUME NEW c \in Coordinates
             PROVE  c \in Before(voxel)
  BY DEF Before
<1>1. c[1] \in 0..(dims[1] - 1) /\ c[2] \in 0..(dims[2] - 1) /\ c[3] \in 0..(dims[3] - 1)
  BY CoordinatesAre
<1>2. ~Hollow
  <2>1. dims[1] \in Nat /\ dims[2] \in Nat /\ dims[3] \in Nat
    BY Sizes
  <2>2. dims[1] # 0 /\ dims[2] # 0 /\ dims[3] # 0
    BY <1>1, <2>1
  <2> QED
    BY <2>2 DEF Hollow
<1>3. c[3] < voxel[3]
  BY <1>1, <1>2, Sizes
<1> QED
  BY <1>3 DEF Before

LEMMA TreeBuiltStep ==
    ASSUME Inductive, TreeBuilt
    PROVE  Inductive'
<1>1. /\ TypeOK /\ stage = "build" /\ (Hollow \/ voxel[3] >= dims[3])
      /\ voxel' = <<0, 0, 0>>
      /\ UNCHANGED <<dims, count, trees, descriptor, reader>>
  BY DEF Inductive, TreeBuilt
<1>2. /\ ~TooLarge /\ grid \in 1..count /\ file = <<>> /\ DOMAIN trees = 1..count
      /\ \A g \in 1..count :
             TreeOf(trees[g], g, IF g < grid THEN Coordinates
                                 ELSE IF g = grid THEN Before(voxel) ELSE {})
  BY <1>1 DEF Inductive, BuiltSoFar
<1>3. \A g \in 1..count :
          /\ g < grid + 1 => TreeOf(trees[g], g, Coordinates)
          /\ g >= grid + 1 => TreeOf(trees[g], g, {})
  <2> SUFFICES ASSUME NEW g \in 1..count
               PROVE  /\ g < grid + 1 => TreeOf(trees[g], g, Coordinates)
                      /\ g >= grid + 1 => TreeOf(trees[g], g, {})
    OBVIOUS
  <2>1. Before(voxel) = Coordinates
    BY <1>1, AllPassed
  <2>2. TreeOf(trees[g], g, IF g < grid THEN Coordinates
                            ELSE IF g = grid THEN Before(voxel) ELSE {})
    BY <1>2
  <2>3. count \in Nat
    BY <1>1, Sizes
  <2>4. ASSUME g < grid + 1
        PROVE  (IF g < grid THEN Coordinates ELSE IF g = grid THEN Before(voxel) ELSE {})
               = Coordinates
    BY <1>2, <2>1, <2>3, <2>4
  <2>5. ASSUME g >= grid + 1
        PROVE  (IF g < grid THEN Coordinates ELSE IF g = grid THEN Before(voxel) ELSE {}) = {}
    BY <1>2, <2>3, <2>5
  <2> DEFINE B == IF g < grid THEN Coordinates ELSE IF g = grid THEN Before(voxel) ELSE {}
  <2>6. TreeOf(trees[g], g, B) /\ (g < grid + 1 => B = Coordinates) /\ (g >= grid + 1 => B = {})
    BY <2>2, <2>4, <2>5
  <2> HIDE DEF B
  <2> QED
    BY <2>6
<1>4. Coordinates' = Coordinates /\ ~TooLarge' /\ TodoIs'
      /\ (Hollow' <=> Hollow)
  BY <1>1, <1>2 DEF Coordinates, TooLarge, Hollow, Inductive, TodoIs, reader
<1>5. count \in Nat /\ dims[1] \in Nat /\ dims[2] \in Nat /\ dims[3] \in Nat
  BY <1>1, Sizes
<1>6. ~Hollow' => voxel'[1] < dims'[1] /\ voxel'[2] < dims'[2] /\ voxel'[3] <= dims'[3]
  <2>1. ~Hollow => 0 < dims[1] /\ 0 < dims[2] /\ 0 <= dims[3]
    BY <1>5 DEF Hollow
  <2> QED
    BY <1>1, <1>4, <2>1
<1>7. CASE grid < count
  <2>1. grid' = grid + 1 /\ UNCHANGED <<stage, file>>
    BY <1>7 DEF TreeBuilt
  <2>2. grid + 1 \in 1..count /\ grid + 1 >= grid + 1
    BY <1>2, <1>5, <1>7
  <2>3. Before(voxel)' = {}
    <3>1. Before(<<0, 0, 0>>) = {}
      BY <1>1, NoneBefore
    <3>2. Before(voxel)' = Before(<<0, 0, 0>>)
      BY <1>1, <1>4 DEF Before
    <3> QED
      BY <3>1, <3>2
  <2>4. \A g \in 1..count :
            TreeOf(trees[g], g, IF g < grid + 1 THEN Coordinates'
                                ELSE IF g = grid + 1 THEN Before(voxel)' ELSE {})
    <3> SUFFICES ASSUME NEW g \in 1..count
                 PROVE  TreeOf(trees[g], g, IF g < grid + 1 THEN Coordinates'
                                            ELSE IF g = grid + 1 THEN Before(voxel)' ELSE {})
      OBVIOUS
    <3>1. CASE g < grid + 1
      BY <1>3, <1>4, <3>1
    <3>2. CASE ~ (g < grid + 1)
      <4>1. g >= grid + 1
        BY <1>2, <1>5, <3>2
      <4>2. TreeOf(trees[g], g, {})
        BY <1>3, <4>1
      <4>3. (IF g < grid + 1 THEN Coordinates' ELSE IF g = grid + 1 THEN Before(voxel)' ELSE {}) = {}
        BY <2>3, <3>2
      <4> QED
        BY <4>2, <4>3
    <3> QED
      BY <3>1, <3>2
  <2>5. TreeOf(trees[grid + 1], grid + 1, {})
    BY <1>3, <2>2
  <2>6. Active(trees[grid + 1]) = {}
    <3>1. Active(trees[grid + 1]) = {<<Place(c), At(c)>> : c \in {}}
      <4> HIDE DEF Place, At
      <4> QED
        BY <2>5, ActiveAre
    <3> HIDE DEF Place, At
    <3> QED
      BY <3>1
  <2>7. IsFiniteSet(Active(trees[grid + 1])) /\ Cardinality(Active(trees[grid + 1])) = 0
    BY <2>6, FS_EmptySet
  <2>8. BuiltSoFar'
    <3>1. file' = <<>> /\ count' = count /\ trees' = trees
      BY <1>1, <1>2, <2>1
    <3> QED
      BY <1>2, <1>4, <2>1, <2>2, <2>4, <2>7, <3>1, Zenon DEF BuiltSoFar
  <2>9. NothingOverlaps'
    <3>1. voxel'[1] + dims'[1] * (voxel'[2] + dims'[2] * voxel'[3]) = 0
      <4>1. voxel'[1] = 0 /\ voxel'[2] = 0 /\ voxel'[3] = 0 /\ dims' = dims
        BY <1>1
      <4>2. 0 + dims[1] * (0 + dims[2] * 0) = 0
        BY <1>5
      <4> QED
        BY <4>1, <4>2
    <3>2. trees'[grid'] = trees[grid + 1]
      BY <1>1, <2>1
    <3> QED
      BY <2>7, <3>1, <3>2 DEF NothingOverlaps, Active
  <2>10. TypeOK'
    <3>1. grid' \in 1..(count' + 1)
      BY <1>1, <1>5, <2>1, <2>2
    <3> QED
      BY <1>1, <1>6, <2>1, <3>1 DEF TypeOK, reader
  <2>11. stage' = "build"
    BY <1>1, <2>1
  <2> QED
    BY <1>4, <2>8, <2>9, <2>10, <2>11
       DEF Inductive, NotBegun, TreesAreTheField, WrittenSoFar, ReadSoFar, Writing, Reading
<1>8. CASE ~ (grid < count)
  <2> DEFINE head == [item |-> "header", grids |-> count]
  <2>1. grid' = 1 /\ stage' = "describe" /\ file' = <<head>>
    BY <1>8 DEF TreeBuilt
  <2>2. 1 \in 1..count /\ \A g \in 1..count : g < grid + 1
    BY <1>2, <1>5, <1>8
  <2>3. head \in Items
    BY <1>5 DEF Items
  <2> HIDE DEF head
  <2>4. file' \in Seq(Items) /\ Len(file') = 1 /\ file'[1] = head
    BY <2>1, <2>3
  <2>5. TreesAreTheField'
    <3>1. /\ count' = count /\ trees' = trees /\ grid' \in 1..count /\ Len(file') >= 1
          /\ \A g \in 1..count : TreeOf(trees[g], g, Coordinates')
      BY <1>1, <1>3, <1>4, <2>1, <2>2, <2>4
    <3> QED
      BY <1>4, <2>4, <3>1, Zenon DEF TreesAreTheField, head
  <2>6. WrittenSoFar'
    <3> DEFINE d == [g \in 1..1 |-> 2]
    <3>1. d[1] = 2 /\ 1 + 1 = 2
      OBVIOUS
    <3> HIDE DEF d
    <3>2. Laid(file', trees', d, 1)
      BY <2>4, <3>1 DEF Laid
    <3>3. d[1] = Len(file') + 1
      BY <2>4, <3>1
    <3> QED
      BY <2>1, <3>2, <3>3 DEF WrittenSoFar
  <2>7. TypeOK'
    <3>1. grid' \in 1..(count' + 1)
      BY <1>1, <1>5, <2>1
    <3>2. descriptor' \in 0..Len(file') /\ pos' \in 0..(Len(file') + 1)
      <4>1. descriptor \in 0..0 /\ pos \in 0..1
        BY <1>1, <1>2 DEF TypeOK
      <4> QED
        BY <1>1, <2>4, <4>1 DEF reader
    <3> QED
      BY <1>1, <1>6, <2>1, <3>1, <3>2 DEF TypeOK
  <2> QED
    BY <1>4, <2>1, <2>5, <2>6, <2>7
       DEF Inductive, NotBegun, NothingOverlaps, BuiltSoFar, ReadSoFar, Reading
<1> QED
  BY <1>7, <1>8

-----------------------------------------------------------------------------
(***************************************************************************)
(* Writing.                                                                *)
(***************************************************************************)
LEMMA SegmentStill ==
    ASSUME NEW f, NEW h, NEW t, NEW at \in Nat, at >= 2, NEW next \in Nat,
           Topology(t) \in Seq(Items), Data(t) \in Seq(Items),
           Segment(f, t, at, next),
           Len(f) \in Nat, Len(h) \in Nat, Len(f) <= Len(h),
           \A i \in 1..(next - 1) : h[i] = f[i]
    PROVE  Segment(h, t, at, next)
<1> DEFINE top == Topology(t)
           dat == Data(t)
           m == Len(top)
           n == Len(dat)
           block == at + 2 + m
<1>1. m \in Nat /\ n \in Nat
  OBVIOUS
<1>2. /\ f[at] = [item |-> "descriptor", gridPos |-> at + 1, blockPos |-> block,
                  endPos |-> next]
      /\ f[at + 1] = Preamble
      /\ Occurs(f, at + 2, top) /\ Occurs(f, block, dat) /\ next = block + n
  BY DEF Segment
<1> HIDE DEF m, n, top, dat
<1>3. block \in Nat \ {0} /\ at + 2 \in Nat \ {0} /\ next = at + 2 + m + n
  BY <1>1, <1>2
<1>4. h[at] = f[at] /\ h[at + 1] = f[at + 1]
  <2>1. at \in 1..(next - 1) /\ at + 1 \in 1..(next - 1)
    BY <1>1, <1>3
  <2> QED
    BY <2>1
<1>5. Occurs(h, at + 2, top)
  <2>1. \A i \in (at + 2)..((at + 2) + m - 1) : i \in 1..(next - 1)
    BY <1>1, <1>3
  <2>2. \A i \in (at + 2)..((at + 2) + m - 1) : h[i] = f[i]
    BY <2>1
  <2>3. Len(top) \in Nat
    BY <1>1 DEF m
  <2> DEFINE from == at + 2
  <2>4. from \in Nat \ {0} /\ Occurs(f, from, top) /\ \A i \in from..(from + Len(top) - 1) : h[i] = f[i]
    BY <1>2, <1>3, <2>2 DEF m
  <2> HIDE DEF from
  <2>5. Occurs(h, from, top)
    BY <2>3, <2>4, OccursStill
  <2> QED
    BY <2>5 DEF from
<1>6. Occurs(h, block, dat)
  <2>1. \A i \in block..(block + n - 1) : i \in 1..(next - 1)
    BY <1>1, <1>3
  <2>2. \A i \in block..(block + n - 1) : h[i] = f[i]
    BY <2>1
  <2>3. Len(dat) \in Nat
    BY <1>1 DEF n
  <2> HIDE DEF block
  <2>4. \A i \in block..(block + Len(dat) - 1) : h[i] = f[i]
    BY <2>2 DEF n
  <2> QED
    BY <1>2, <1>3, <2>3, <2>4, OccursStill
<1>7. h[at] = [item |-> "descriptor", gridPos |-> at + 1, blockPos |-> block,
               endPos |-> next]
  BY <1>2, <1>4
<1> QED
  BY <1>2, <1>4, <1>5, <1>6, <1>7, Zenon DEF Segment, m, n, top, dat

\* The segments are where they were if what is before the last of them is.
LEMMA LaidStill ==
    ASSUME NEW f, NEW h, NEW ts, NEW d, NEW n \in Nat \ {0}, Laid(f, ts, d, n),
           \A g \in 1..(n - 1) : Topology(ts[g]) \in Seq(Items) /\ Data(ts[g]) \in Seq(Items),
           Len(f) \in Nat, Len(h) \in Nat, Len(f) <= Len(h),
           \A i \in 1..(d[n] - 1) : h[i] = f[i]
    PROVE  Laid(h, ts, d, n)
<1>1. /\ d[1] = 2
      /\ \A g \in 1..n : d[g] \in Nat /\ 2 <= d[g] /\ d[g] <= d[n]
      /\ d[n] <= Len(f) + 1
      /\ \A g \in 1..(n - 1) : Segment(f, ts[g], d[g], d[g + 1])
  BY DEF Laid
<1>2. ASSUME NEW g \in 1..(n - 1)
      PROVE  Segment(h, ts[g], d[g], d[g + 1])
  <2>1. g \in 1..n /\ g + 1 \in 1..n /\ n \in 1..n
    OBVIOUS
  <2> DEFINE at == d[g]
             next == d[g + 1]
             t == ts[g]
  <2>2. at \in Nat /\ at >= 2 /\ next \in Nat /\ next <= d[n] /\ d[n] \in Nat
    BY <1>1, <2>1
  <2>3. \A i \in 1..(next - 1) : i \in 1..(d[n] - 1)
    <3> HIDE DEF next
    <3> QED
      BY <2>2
  <2>4. \A i \in 1..(next - 1) : h[i] = f[i]
    BY <2>3
  <2>5. Segment(f, t, at, next) /\ Topology(t) \in Seq(Items) /\ Data(t) \in Seq(Items)
    BY <1>1
  <2> HIDE DEF at, next, t
  <2>6. Segment(h, t, at, next)
    BY <2>2, <2>4, <2>5, SegmentStill
  <2> QED
    BY <2>6 DEF at, next, t
<1>3. d[n] <= Len(h) + 1
  <2> DEFINE l == Len(f)
             m == Len(h)
  <2>1. d[n] \in Nat /\ l \in Nat /\ m \in Nat /\ l <= m /\ d[n] <= l + 1
    BY <1>1
  <2> HIDE DEF l, m
  <2>2. d[n] <= m + 1
    BY <2>1
  <2> QED
    BY <2>2 DEF m
<1> QED
  BY <1>1, <1>2, <1>3 DEF Laid

LEMMA LaidNext ==
    ASSUME NEW f, NEW ts, NEW d, NEW n \in Nat \ {0}, Laid(f, ts, d, n), NEW next \in Nat,
           d[n] <= next, next <= Len(f) + 1, Segment(f, ts[n], d[n], next)
    PROVE  \E e : Laid(f, ts, e, n + 1) /\ e[n + 1] = next
<1> DEFINE e == [g \in 1..(n + 1) |-> IF g <= n THEN d[g] ELSE next]
<1>1. /\ d[1] = 2
      /\ \A g \in 1..n : d[g] \in Nat /\ 2 <= d[g] /\ d[g] <= d[n]
      /\ \A g \in 1..(n - 1) : Segment(f, ts[g], d[g], d[g + 1])
  BY DEF Laid
<1>2. e[n + 1] = next /\ \A g \in 1..n : e[g] = d[g]
  OBVIOUS
<1> HIDE DEF e
<1>3. e[1] = 2
  BY <1>1, <1>2
<1>4. ASSUME NEW g \in 1..(n + 1) PROVE e[g] \in Nat /\ 2 <= e[g] /\ e[g] <= e[n + 1]
  <2>1. n \in 1..n
    OBVIOUS
  <2>2. d[n] \in Nat /\ 2 <= d[n]
    BY <1>1, <2>1
  <2>3. CASE g = n + 1
    BY <1>2, <2>2, <2>3
  <2>4. CASE g # n + 1
    <3>1. g \in 1..n
      BY <2>4
    <3>2. e[g] = d[g] /\ d[g] \in Nat /\ 2 <= d[g] /\ d[g] <= d[n]
      BY <1>1, <1>2, <3>1
    <3> QED
      BY <1>2, <2>2, <3>2
  <2> QED
    BY <2>3, <2>4
<1>5. ASSUME NEW g \in 1..((n + 1) - 1) PROVE Segment(f, ts[g], e[g], e[g + 1])
  <2>1. g \in 1..n /\ e[g] = d[g]
    BY <1>2
  <2>2. CASE g = n
    BY <1>2, <2>1, <2>2
  <2>3. CASE g # n
    <3>1. g \in 1..(n - 1) /\ g + 1 \in 1..n
      BY <2>1, <2>3
    <3>2. e[g + 1] = d[g + 1]
      BY <1>2, <3>1
    <3> QED
      BY <1>1, <2>1, <3>1, <3>2
  <2> QED
    BY <2>2, <2>3
<1>6. Laid(f, ts, e, n + 1)
  BY <1>2, <1>3, <1>4, <1>5 DEF Laid
<1> QED
  BY <1>2, <1>6

LEMMA FieldTrees ==
    ASSUME Inductive, Writing \/ Reading, NEW g \in 1..count
    PROVE  /\ GoodTree(trees[g]) /\ TreeOf(trees[g], g, Coordinates)
           /\ Topology(trees[g]) \in Seq(Items) /\ Data(trees[g]) \in Seq(Items)
<1>1. TypeOK /\ ~TooLarge /\ TreeOf(trees[g], g, Coordinates)
  BY DEF Inductive, TreesAreTheField
<1>2. g \in Nat
  BY <1>1, Sizes
<1>3. Coordinates \in SUBSET Cube
  BY <1>1, CoordinatesFit
<1>4. GoodTree(trees[g])
  BY <1>1, <1>2, <1>3, TreesAreGood
<1> QED
  BY <1>1, <1>4, TreeIsWritten

\* What the steps that write have in common.
LEMMA WritingKeeps ==
    ASSUME Inductive, Writing, UNCHANGED <<built, reader>>, grid' \in 1..count,
           file' \in Seq(Items), Len(file) <= Len(file'), file'[1] = file[1],
           descriptor' \in 0..Len(file'), stage' \in {"describe", "topology", "data", "written"}
    PROVE  TypeOK' /\ TreesAreTheField' /\ TodoIs' /\ NotBegun' /\ NothingOverlaps' /\ BuiltSoFar'
<1>1. /\ TypeOK /\ ~TooLarge /\ Len(file) >= 1 /\ file \in Seq(Items)
      /\ \A g \in 1..count : TreeOf(trees[g], g, Coordinates)
      /\ file[1] = [item |-> "header", grids |-> count]
  BY DEF Inductive, TreesAreTheField
<1>2. dims' = dims /\ count' = count /\ trees' = trees /\ voxel' = voxel /\ pos' = pos /\ todo' = todo
  BY DEF built, reader
<1>3. Coordinates' = Coordinates /\ ~TooLarge' /\ (Hollow' <=> Hollow)
  BY <1>1, <1>2 DEF Coordinates, TooLarge, Hollow
<1>4. count \in Nat
  BY <1>1, Sizes
<1>5. grid' \in 1..(count' + 1)
  BY <1>2, <1>4
<1>6. pos' \in 0..(Len(file') + 1) /\ Len(file') >= 1
  <2> DEFINE l == Len(file)
             m == Len(file')
  <2>1. l \in Nat /\ m \in Nat /\ l <= m /\ l >= 1
    BY <1>1
  <2>2. pos \in 0..(l + 1)
    BY <1>1 DEF TypeOK
  <2> HIDE DEF l, m
  <2>3. pos \in 0..(m + 1) /\ m >= 1
    BY <2>1, <2>2
  <2> QED
    BY <1>2, <2>3 DEF m
<1>7. TypeOK'
  BY <1>1, <1>2, <1>3, <1>5, <1>6 DEF TypeOK
<1>8. TreesAreTheField'
  <2>1. \A g \in 1..count' : TreeOf(trees'[g], g, Coordinates')
    BY <1>1, <1>2, <1>3
  <2>2. file'[1] = [item |-> "header", grids |-> count']
    BY <1>1, <1>2
  <2> QED
    BY <1>2, <1>3, <1>6, <2>1, <2>2 DEF TreesAreTheField
<1>9. TodoIs'
  BY <1>2 DEF Inductive, TodoIs
<1> QED
  BY <1>7, <1>8, <1>9 DEF NotBegun, NothingOverlaps, BuiltSoFar

LEMMA DescribeStep ==
    ASSUME Inductive, Describe
    PROVE  Inductive'
<1>1. /\ stage = "describe" /\ stage' = "topology" /\ file' = Append(file, Descriptor)
      /\ descriptor' = Len(file) + 1 /\ UNCHANGED <<built, grid, reader>>
  BY DEF Describe
<1>2. Writing /\ TypeOK /\ file \in Seq(Items) /\ Len(file) >= 1 /\ grid \in 1..count /\ count \in Nat
  BY <1>1, Sizes DEF Inductive, TreesAreTheField, Writing
<1>3. Descriptor \in Items
  BY DEF Descriptor, Items
<1> DEFINE l == Len(file)
<1>4. /\ file' \in Seq(Items) /\ Len(file') = l + 1 /\ l \in Nat /\ l >= 1
      /\ \A i \in 1..l : file'[i] = file[i]
      /\ file'[l + 1] = Descriptor
  <2> HIDE DEF Descriptor
  <2> QED
    BY <1>1, <1>2, <1>3
<1>5. PICK d : Laid(file, trees, d, grid) /\ d[grid] = l + 1
  BY <1>1, <1>2 DEF Inductive, WrittenSoFar
<1>6. Laid(file', trees, d, grid)
  <2>1. \A g \in 1..(grid - 1) : Topology(trees[g]) \in Seq(Items) /\ Data(trees[g]) \in Seq(Items)
    <3>1. \A g \in 1..(grid - 1) : g \in 1..count
      BY <1>2
    <3> QED
      BY <1>2, <3>1, FieldTrees
  <2>2. \A i \in 1..(d[grid] - 1) : file'[i] = file[i]
    BY <1>4, <1>5
  <2>3. grid \in Nat \ {0}
    BY <1>2
  <2>4. Len(file) \in Nat /\ Len(file') \in Nat /\ Len(file) <= Len(file')
    BY <1>4
  <2> QED
    BY <1>5, <2>1, <2>2, <2>3, <2>4, LaidStill
<1>7. TypeOK' /\ TreesAreTheField' /\ TodoIs' /\ NotBegun' /\ NothingOverlaps' /\ BuiltSoFar'
  <2>1. Len(file) <= Len(file') /\ file'[1] = file[1] /\ descriptor' \in 0..Len(file')
    BY <1>1, <1>4
  <2>2. grid' \in 1..count /\ stage' \in {"describe", "topology", "data", "written"}
        /\ UNCHANGED <<built, reader>>
    BY <1>1, <1>2
  <2> QED
    BY <1>2, <1>4, <2>1, <2>2, WritingKeeps
<1>8. WrittenSoFar'
  <2>1. trees' = trees /\ grid' = grid
    BY <1>1 DEF built
  <2>2. descriptor' = d[grid] /\ descriptor' <= Len(file') /\ file'[descriptor'] = Descriptor
        /\ Len(file') = descriptor'
    BY <1>1, <1>4, <1>5
  <2> QED
    BY <1>1, <1>6, <2>1, <2>2 DEF WrittenSoFar
<1> QED
  BY <1>1, <1>7, <1>8 DEF Inductive, ReadSoFar, Reading

LEMMA WriteTopologyStep ==
    ASSUME Inductive, WriteTopology
    PROVE  Inductive'
<1> DEFINE l == Len(file)
           top == Topology(trees[grid])
           added == <<Preamble>> \o top
<1>1. /\ stage = "topology" /\ stage' = "data" /\ file' = (file \o <<Preamble>>) \o top
      /\ UNCHANGED <<built, descriptor, grid, reader>>
  BY DEF WriteTopology
<1>2. Writing /\ TypeOK /\ file \in Seq(Items) /\ Len(file) >= 1 /\ grid \in 1..count /\ count \in Nat
  BY <1>1, Sizes DEF Inductive, TreesAreTheField, Writing
<1>3. Preamble \in Items /\ top \in Seq(Items)
  BY <1>2, FieldTrees DEF Items
<1> HIDE DEF top
<1>4. /\ file' \in Seq(Items) /\ Len(file') = l + 1 + Len(top) /\ l \in Nat /\ l >= 1
      /\ Len(top) \in Nat
      /\ \A i \in 1..l : file'[i] = file[i]
      /\ file'[l + 1] = Preamble
  <2> DEFINE p == Preamble
             a == file \o <<p>>
  <2>0. p \in Items /\ file' = a \o top
    BY <1>1, <1>3
  <2> HIDE DEF p
  <2>1. a \in Seq(Items) /\ Len(a) = l + 1 /\ l \in Nat /\ l >= 1
        /\ (\A i \in 1..l : a[i] = file[i]) /\ a[l + 1] = p
    BY <1>2, <2>0
  <2> HIDE DEF a, l
  <2>2. /\ file' \in Seq(Items) /\ Len(file') = (l + 1) + Len(top) /\ Len(top) \in Nat
        /\ \A i \in 1..(l + 1) : file'[i] = a[i]
    <3>1. /\ a \o top \in Seq(Items) /\ Len(a \o top) = Len(a) + Len(top) /\ Len(top) \in Nat
          /\ \A i \in 1..Len(a) : (a \o top)[i] = a[i]
      BY <1>3, <2>1, ConcatIs
    <3> QED
      BY <2>0, <2>1, <3>1
  <2>3. \A i \in 1..l : i \in 1..(l + 1)
    BY <2>1
  <2>4. l + 1 \in 1..(l + 1)
    BY <2>1
  <2> QED
    BY <2>1, <2>2, <2>3, <2>4 DEF p
<1>5. Occurs(file', l + 2, top)
  <2> DEFINE a == file \o <<Preamble>>
  <2>1. a \in Seq(Items) /\ Len(a) = l + 1
    BY <1>2, <1>3
  <2>2. file' = a \o top
    BY <1>1
  <2> HIDE DEF a
  <2>3. Occurs(a \o top, Len(a) + 1, top)
    BY <1>3, <2>1, OccursAppended
  <2>4. Len(a) + 1 = l + 2
    BY <1>4, <2>1
  <2> QED
    BY <2>2, <2>3, <2>4
<1>6. PICK d : /\ Laid(file, trees, d, grid) /\ descriptor = d[grid] /\ descriptor <= l
               /\ file[descriptor] = Descriptor /\ l = descriptor
  BY <1>1, <1>2 DEF Inductive, WrittenSoFar
<1>7. Laid(file', trees, d, grid)
  <2>1. \A g \in 1..(grid - 1) : Topology(trees[g]) \in Seq(Items) /\ Data(trees[g]) \in Seq(Items)
    <3>1. \A g \in 1..(grid - 1) : g \in 1..count
      BY <1>2
    <3> QED
      BY <1>2, <3>1, FieldTrees
  <2>2. \A i \in 1..(d[grid] - 1) : file'[i] = file[i]
    BY <1>4, <1>6
  <2>3. grid \in Nat \ {0}
    BY <1>2
  <2>4. Len(file) \in Nat /\ Len(file') \in Nat /\ Len(file) <= Len(file')
    BY <1>4
  <2> QED
    BY <1>6, <2>1, <2>2, <2>3, <2>4, LaidStill
<1>8. TypeOK' /\ TreesAreTheField' /\ TodoIs' /\ NotBegun' /\ NothingOverlaps' /\ BuiltSoFar'
  <2>1. Len(file) <= Len(file') /\ file'[1] = file[1] /\ descriptor' \in 0..Len(file')
    BY <1>1, <1>4, <1>6
  <2>2. grid' \in 1..count /\ stage' \in {"describe", "topology", "data", "written"}
        /\ UNCHANGED <<built, reader>>
    BY <1>1, <1>2
  <2> QED
    BY <1>2, <1>4, <2>1, <2>2, WritingKeeps
<1>9. WrittenSoFar'
  <2>1. trees' = trees /\ grid' = grid /\ descriptor' = descriptor
    BY <1>1 DEF built
  <2>2. /\ descriptor' = d[grid] /\ descriptor' <= Len(file')
        /\ file'[descriptor'] = Descriptor /\ file'[descriptor' + 1] = Preamble
        /\ Len(file') = descriptor' + 1 + Len(top)
    BY <1>1, <1>4, <1>6, <2>1
  <2>3. Occurs(file', descriptor' + 2, top)
    BY <1>5, <1>6, <2>1
  <2> QED
    BY <1>1, <1>7, <2>1, <2>2, <2>3 DEF WrittenSoFar, top
<1> QED
  BY <1>1, <1>8, <1>9 DEF Inductive, ReadSoFar, Reading

Described(gridPos, blockPos, endPos) ==
    [item |-> "descriptor", gridPos |-> gridPos, blockPos |-> blockPos, endPos |-> endPos]

LEMMA PatchedIs ==
    ASSUME NEW b, NEW c
    PROVE  Patched(Descriptor, b, c) = Described(descriptor + 1, b, c)
<1> DEFINE a == descriptor + 1
<1>1. Descriptor = Described(0, 0, 0)
  BY DEF Descriptor, Described
<1>2. Patched(Descriptor, b, c)
      = [[[Descriptor EXCEPT !.gridPos = a] EXCEPT !.blockPos = b] EXCEPT !.endPos = c]
  BY DEF Patched
<1> HIDE DEF a
<1>3. [Described(0, 0, 0) EXCEPT !.gridPos = a] = Described(a, 0, 0)
  BY DEF Described
<1>4. [Described(a, 0, 0) EXCEPT !.blockPos = b] = Described(a, b, 0)
  BY DEF Described
<1>5. [Described(a, b, 0) EXCEPT !.endPos = c] = Described(a, b, c)
  BY DEF Described
<1>6. Patched(Descriptor, b, c) = Described(a, b, c)
  BY <1>1, <1>2, <1>3, <1>4, <1>5, Zenon
<1> QED
  BY <1>6 DEF a

LEMMA SeqExcept ==
    ASSUME NEW X, NEW s \in Seq(X), NEW i \in 1..Len(s), NEW x \in X
    PROVE  [s EXCEPT ![i] = x] \in Seq(X) /\ Len([s EXCEPT ![i] = x]) = Len(s)
  OBVIOUS

LEMMA WriteDataStep ==
    ASSUME Inductive, WriteData
    PROVE  Inductive'
<1> DEFINE l == Len(file)
           t == trees[grid]
           top == Topology(t)
           dat == Data(t)
           written == file \o dat
           end == Len(written) + 1
           patched == Patched(written[descriptor], l + 1, end)
<1>1. /\ stage = "data" /\ file' = [written EXCEPT ![descriptor] = patched]
      /\ IF grid < count THEN grid' = grid + 1 /\ stage' = "describe"
         ELSE grid' = 1 /\ stage' = "written"
      /\ UNCHANGED <<built, descriptor, reader>>
  BY DEF WriteData
<1>2. Writing /\ TypeOK /\ file \in Seq(Items) /\ l >= 1 /\ grid \in 1..count /\ count \in Nat
      /\ file[1] = [item |-> "header", grids |-> count]
  BY <1>1, Sizes DEF Inductive, TreesAreTheField, Writing
<1>3. top \in Seq(Items) /\ dat \in Seq(Items)
  BY <1>2, FieldTrees
<1>4. PICK d : /\ Laid(file, trees, d, grid) /\ descriptor = d[grid] /\ descriptor <= l
               /\ file[descriptor] = Descriptor /\ file[descriptor + 1] = Preamble
               /\ l = descriptor + 1 + Len(top) /\ Occurs(file, descriptor + 2, top)
  BY <1>1, <1>2 DEF Inductive, WrittenSoFar
<1>5. descriptor \in Nat /\ descriptor >= 2
  <2>1. grid \in 1..grid
    BY <1>2
  <2> QED
    BY <1>4, <2>1 DEF Laid
<1> DEFINE m == Len(top)
           n == Len(dat)
<1> HIDE DEF top, dat
<1>6. /\ written \in Seq(Items) /\ Len(written) = l + n /\ l \in Nat /\ n \in Nat
      /\ \A i \in 1..l : written[i] = file[i]
  BY <1>2, <1>3, ConcatIs
<1>7. Occurs(written, l + 1, dat) /\ m \in Nat
  BY <1>2, <1>3, OccursAppended
<1>8. d[grid] = descriptor /\ descriptor <= l /\ l = descriptor + 1 + m /\ end = l + n + 1
  BY <1>4, <1>6
<1>9. written[descriptor] = Descriptor
  <2> HIDE DEF written, l, m
  <2>1. descriptor \in 1..l
    BY <1>5, <1>6, <1>8
  <2> QED
    BY <1>4, <1>6, <2>1
<1>10. patched = [item |-> "descriptor", gridPos |-> descriptor + 1, blockPos |-> l + 1,
                  endPos |-> end]
  <2>1. patched = Patched(written[descriptor], l + 1, end)
    OBVIOUS
  <2> HIDE DEF written, l, end, patched
  <2>2. patched = Described(descriptor + 1, l + 1, end)
    BY <1>9, <2>1, PatchedIs
  <2> QED
    BY <2>2 DEF Described
<1> HIDE DEF l, m, n, written, end, patched
<1>11. patched \in Items
  <2>1. l + 1 \in Nat /\ end \in Nat /\ descriptor + 1 \in Nat
    BY <1>5, <1>6, <1>8
  <2> QED
    BY <1>10, <2>1 DEF Items
<1>12. /\ file' \in Seq(Items) /\ Len(file') = l + n
       /\ file'[descriptor] = patched
       /\ \A i \in 1..(l + n) : i # descriptor => file'[i] = written[i]
       /\ \A i \in 1..l : i # descriptor => file'[i] = file[i]
  <2>1. descriptor \in 1..(l + n) /\ \A i \in 1..l : i \in 1..(l + n)
    BY <1>5, <1>6, <1>8
  <2>2. DOMAIN written = 1..(l + n)
    BY <1>6
  <2>3. file' \in Seq(Items) /\ Len(file') = Len(written)
    <3>1. file' = [written EXCEPT ![descriptor] = patched]
      BY <1>1
    <3>2. written \in Seq(Items) /\ patched \in Items
      BY <1>6, <1>11
    <3>3. descriptor \in 1..Len(written)
      BY <1>6, <2>1
    <3> QED
      BY <3>1, <3>2, <3>3, SeqExcept
  <2>4. file'[descriptor] = patched /\ \A i \in 1..(l + n) : i # descriptor => file'[i] = written[i]
    BY <1>1, <2>1, <2>2
  <2> QED
    BY <1>6, <2>1, <2>3, <2>4
<1>13. Len(file) = l /\ Len(file) \in Nat /\ Len(file') \in Nat /\ Len(file) <= Len(file')
  BY <1>6, <1>12 DEF l
<1>14. Laid(file', trees, d, grid)
  <2>1. \A g \in 1..(grid - 1) : Topology(trees[g]) \in Seq(Items) /\ Data(trees[g]) \in Seq(Items)
    <3>1. \A g \in 1..(grid - 1) : g \in 1..count
      BY <1>2
    <3> QED
      BY <1>2, <3>1, FieldTrees
  <2>2. \A i \in 1..(d[grid] - 1) : i \in 1..l /\ i # descriptor
    BY <1>5, <1>6, <1>8
  <2>3. \A i \in 1..(d[grid] - 1) : file'[i] = file[i]
    BY <1>12, <2>2
  <2>4. grid \in Nat \ {0}
    BY <1>2
  <2> QED
    BY <1>4, <1>13, <2>1, <2>3, <2>4, LaidStill
<1>15. Segment(file', t, descriptor, end)
  <2> DEFINE block == descriptor + 2 + m
  <2>1. block = l + 1 /\ end = block + n
    BY <1>5, <1>6, <1>7, <1>8
  <2>2. file'[descriptor] = [item |-> "descriptor", gridPos |-> descriptor + 1,
                             blockPos |-> block, endPos |-> end]
    BY <1>10, <1>12, <2>1
  <2>3. file'[descriptor + 1] = Preamble
    <3>1. descriptor + 1 \in 1..l /\ descriptor + 1 # descriptor
      BY <1>5, <1>7, <1>8
    <3> QED
      BY <1>4, <1>12, <3>1
  <2>4. Occurs(file', descriptor + 2, top)
    <3> DEFINE from == descriptor + 2
    <3>1. from \in Nat \ {0} /\ Occurs(file, from, top)
      BY <1>4, <1>5
    <3>2. \A i \in from..(from + m - 1) : i \in 1..l /\ i # descriptor
      BY <1>5, <1>6, <1>7, <1>8
    <3>3. \A i \in from..(from + Len(top) - 1) : file'[i] = file[i]
      BY <1>12, <3>2 DEF m
    <3> HIDE DEF from
    <3>4. Len(top) \in Nat
      BY <1>7 DEF m
    <3>5. Occurs(file', from, top)
      BY <1>13, <3>1, <3>3, <3>4, OccursStill
    <3> QED
      BY <3>5 DEF from
  <2>5. Occurs(file', block, dat)
    <3> DEFINE from == l + 1
    <3>1. from \in Nat \ {0} /\ Occurs(written, from, dat)
      BY <1>6, <1>7
    <3>2. \A i \in from..(from + n - 1) : i \in 1..(l + n) /\ i # descriptor
      BY <1>5, <1>6, <1>8
    <3>3. \A i \in from..(from + Len(dat) - 1) : file'[i] = written[i]
      BY <1>12, <3>2 DEF n
    <3>4. Len(dat) \in Nat /\ Len(written) \in Nat /\ Len(written) <= Len(file')
      BY <1>6, <1>12 DEF n
    <3>5. block = from
      BY <2>1
    <3> HIDE DEF from, block
    <3>6. Occurs(file', from, dat)
      BY <1>13, <3>1, <3>3, <3>4, OccursStill
    <3> QED
      BY <3>5, <3>6
  <2> HIDE DEF t
  <2>6. end = block + Len(dat)
    BY <2>1 DEF n
  <2> QED
    BY <2>2, <2>3, <2>4, <2>5, <2>6, Zenon DEF Segment, top, dat, m
<1>16. \E e : Laid(file', trees, e, grid + 1) /\ e[grid + 1] = end
  <2>1. grid \in Nat \ {0} /\ end \in Nat
    BY <1>2, <1>6, <1>8
  <2>2. d[grid] <= end /\ end <= Len(file') + 1
    BY <1>5, <1>6, <1>8, <1>12
  <2>3. Segment(file', trees[grid], d[grid], end)
    BY <1>8, <1>15
  <2> HIDE DEF t
  <2> QED
    BY <1>14, <2>1, <2>2, <2>3, LaidNext
<1>17. PICK e : Laid(file', trees, e, grid + 1) /\ e[grid + 1] = end
  BY <1>16
<1>18. trees' = trees /\ count' = count /\ descriptor' = descriptor
  BY <1>1 DEF built
<1>19. grid' \in 1..count /\ stage' \in {"describe", "topology", "data", "written"}
       /\ stage' \in {"describe", "written"}
  BY <1>1, <1>2
<1>20. TypeOK' /\ TreesAreTheField' /\ TodoIs' /\ NotBegun' /\ NothingOverlaps' /\ BuiltSoFar'
  <2>1. file'[1] = file[1]
    <3>1. 1 \in 1..l /\ 1 # descriptor
      BY <1>5, <1>6, <1>8
    <3> QED
      BY <1>12, <3>1
  <2>2. descriptor' \in 0..Len(file')
    <3>1. descriptor \in 0..(l + n)
      BY <1>5, <1>6, <1>8
    <3> QED
      BY <1>12, <1>18, <3>1
  <2>3. UNCHANGED <<built, reader>>
    BY <1>1
  <2> QED
    BY <1>2, <1>12, <1>13, <1>19, <2>1, <2>2, <2>3, WritingKeeps
<1>21. WrittenSoFar'
  <2>1. CASE grid < count
    <3>1. grid' = grid + 1 /\ stage' = "describe"
      BY <1>1, <2>1
    <3>2. end = Len(file') + 1
      BY <1>8, <1>12
    <3>3. Laid(file', trees', e, grid') /\ e[grid'] = Len(file') + 1
      BY <1>17, <1>18, <3>1, <3>2
    <3> QED
      BY <3>1, <3>3 DEF WrittenSoFar
  <2>2. CASE ~ (grid < count)
    <3>1. stage' = "written"
      BY <1>1, <2>2
    <3> QED
      BY <3>1 DEF WrittenSoFar, Writing
  <2> QED
    BY <2>1, <2>2
<1>22. ReadSoFar'
  <2>1. CASE grid < count
    <3>1. stage' = "describe"
      BY <1>1, <2>1
    <3> QED
      BY <3>1 DEF ReadSoFar, Reading
  <2>2. CASE ~ (grid < count)
    <3>1. stage' = "written" /\ grid' = 1 /\ grid = count
      BY <1>1, <1>2, <2>2
    <3>2. Laid(file', trees', e, count' + 1)
      BY <1>17, <1>18, <3>1
    <3> QED
      BY <3>1, <3>2 DEF ReadSoFar
  <2> QED
    BY <2>1, <2>2
<1> QED
  BY <1>19, <1>20, <1>21, <1>22 DEF Inductive

-----------------------------------------------------------------------------
(***************************************************************************)
(* Reading, one step at a time.                                            *)
(***************************************************************************)
LEMMA PairOccurs ==
    ASSUME NEW f, NEW at \in Nat, NEW a, NEW b, Occurs(f, at, <<a, b>>)
    PROVE  f[at] = a /\ f[at + 1] = b /\ at + 2 <= Len(f) + 1
<1> DEFINE s == <<a, b>>
<1>1. Len(s) = 2 /\ s[1] = a /\ s[2] = b
  OBVIOUS
<1> HIDE DEF s
<1>2. at + 2 <= Len(f) + 1 /\ \A k \in 1..2 : f[at + k - 1] = s[k]
  BY <1>1 DEF Occurs, s
<1>3. f[at + 1 - 1] = s[1] /\ f[at + 2 - 1] = s[2]
  BY <1>2
<1>4. at + 1 - 1 = at /\ at + 2 - 1 = at + 1
  OBVIOUS
<1> QED
  BY <1>1, <1>2, <1>3, <1>4

LEMMA OneOccurs ==
    ASSUME NEW f, NEW at \in Nat, NEW a, Occurs(f, at, <<a>>)
    PROVE  f[at] = a /\ at + 1 <= Len(f) + 1
<1> DEFINE s == <<a>>
<1>1. Len(s) = 1 /\ s[1] = a
  OBVIOUS
<1> HIDE DEF s
<1>2. at + 1 <= Len(f) + 1 /\ \A k \in 1..1 : f[at + k - 1] = s[k]
  BY <1>1 DEF Occurs, s
<1>3. f[at + 1 - 1] = s[1]
  BY <1>2
<1>4. at + 1 - 1 = at
  OBVIOUS
<1> QED
  BY <1>1, <1>2, <1>3, <1>4

\* The root child's masks come first.
LEMMA RootRead ==
    ASSUME NEW f, Len(f) \in Nat, NEW t, GoodTree(t), NEW at \in Nat, NEW next,
           Segment(f, t, at, next)
    PROVE  /\ f[at].item = "descriptor" /\ f[at].gridPos = at + 1 /\ f[at].endPos = next
           /\ f[at].blockPos \in Nat \ {0} /\ f[at].blockPos <= Len(f) + 1
           /\ f[at + 2] = Mask(Slots(t)) /\ f[at + 3] = Mask({}) /\ at + 4 <= Len(f) + 1
           /\ ReadTopology(f, at + 4, f[at].blockPos, t, <<>>, 0, <<>>, Ascending(Slots(t)))
<1> DEFINE top == Topology(t)
           dat == Data(t)
           m == Len(top)
           n == Len(dat)
           l == Len(f)
           block == at + 2 + m
           ss == Ascending(Slots(t))
           rest == TopologyOfSlots(t, ss)
           pair == <<Mask(Slots(t)), Mask({})>>
<1>1. top \in Seq(Items) /\ dat \in Seq(Items) /\ m \in Nat /\ n \in Nat /\ l \in Nat
  BY TreeIsWritten
<1>2. /\ f[at] = [item |-> "descriptor", gridPos |-> at + 1, blockPos |-> block,
                  endPos |-> next]
      /\ Occurs(f, at + 2, top) /\ Occurs(f, block, dat)
  BY DEF Segment
<1>3. /\ ss \in Seq(Slots(t)) /\ Mask(Slots(t)) \in Items /\ Mask({}) \in Items
      /\ \A s \in Slots(t) : \E k \in 1..Len(ss) : ss[k] = s
  BY RootOf
<1>4. rest \in Seq(Items)
  BY <1>3, TopologyOfSlotsAre
<1>5. top = pair \o rest
  BY TopologyUnfolds
<1>6. dat = DataOfSlots(t, ss)
  BY DataUnfolds
<1>7. block + n <= l + 1
  BY <1>2 DEF Occurs
<1> HIDE DEF ss, rest
<1>8. pair \in Seq(Items) /\ Len(pair) = 2
  BY <1>3
<1> HIDE DEF top, pair
<1>9. Occurs(f, at + 2, pair) /\ Occurs(f, (at + 2) + Len(pair), rest)
  <2> DEFINE from == at + 2
  <2>1. from \in Nat /\ Occurs(f, from, pair \o rest)
    BY <1>2, <1>5
  <2> HIDE DEF from
  <2>2. Occurs(f, from, pair) /\ Occurs(f, from + Len(pair), rest)
    BY <1>4, <1>8, <2>1, OccursOneByOne
  <2> QED
    BY <2>2 DEF from
<1>10. (at + 2) + Len(pair) = at + 4 /\ (at + 2) + 1 = at + 3 /\ (at + 2) + 2 = at + 4
  BY <1>8
<1>11. f[at + 2] = Mask(Slots(t)) /\ f[at + 3] = Mask({}) /\ at + 4 <= l + 1
  <2> DEFINE from == at + 2
             a == Mask(Slots(t))
             b == Mask({})
  <2>1. from \in Nat /\ Occurs(f, from, <<a, b>>)
    BY <1>9 DEF pair
  <2>2. from + 1 = at + 3 /\ from + 2 = at + 4
    OBVIOUS
  <2> HIDE DEF from, a, b
  <2>3. f[from] = a /\ f[from + 1] = b /\ from + 2 <= l + 1
    BY <2>1, PairOccurs
  <2> QED
    BY <2>2, <2>3 DEF from, a, b
<1>12. block \in Nat \ {0} /\ block <= l + 1
  <2> HIDE DEF m, n, l
  <2> QED
    BY <1>1, <1>7
<1>13. f[at].item = "descriptor" /\ f[at].gridPos = at + 1 /\ f[at].endPos = next
       /\ f[at].blockPos = block
  <2> HIDE DEF block
  <2> QED
    BY <1>2
<1>14. ReadTopology(f, at + 4, block, t, <<>>, 0, <<>>, ss)
  <2>1. <<>> \in Seq(Children(t, 0)) /\ Len(<<>>) = 0
    OBVIOUS
  <2>2. TopologyOfChildren(t, 0, <<>>) = <<>> /\ DataOfChildren(t, 0, <<>>) = <<>>
    BY <2>1, TopologyOfChildrenAre, DataOfChildrenAre
  <2>3. Occurs(f, at + 4, rest) /\ (at + 4) + 0 = at + 4
    BY <1>9, <1>10
  <2>4. at + 4 <= l + 1
    BY <1>11
  <2> DEFINE from == at + 4
  <2>5. Occurs(f, from, <<>>) /\ Occurs(f, from + Len(<<>>), rest)
    <3>1. from + Len(<<>>) = from
      BY <2>1
    <3>2. from + Len(<<>>) <= l + 1
      BY <2>4, <3>1
    <3> HIDE DEF from
    <3>3. Occurs(f, from, <<>>)
      BY <2>1, <3>2 DEF Occurs
    <3> QED
      BY <2>3, <3>1, <3>3 DEF from
  <2>6. block + 2 * Len(<<>>) = block /\ block + Len(<<>>) = block
    <3> HIDE DEF block
    <3> QED
      BY <1>12, <2>1
  <2> HIDE DEF block, dat, from
  <2>7. Occurs(f, block, <<>>) /\ Occurs(f, block + Len(<<>>), DataOfSlots(t, ss))
    <3>1. Occurs(f, block, <<>>)
      BY <1>12, <2>1, <2>6 DEF Occurs
    <3> QED
      BY <1>2, <1>6, <2>6, <3>1
  <2>8. \A p \in DOMAIN t : \E k \in 1..Len(ss) : ss[k] = p[1]
    <3>1. \A p \in DOMAIN t : p[1] \in Slots(t)
      BY DEF Slots
    <3> QED
      BY <1>3, <3>1
  <2>9. ReadTopology(f, from, block, t, <<>>, 0, <<>>, ss)
    <3>1. \A k \in 1..Len(<<>>) : FALSE
      BY <2>1
    <3> DEFINE tc == TopologyOfChildren(t, 0, <<>>)
               dc == DataOfChildren(t, 0, <<>>)
    <3>2. /\ Occurs(f, from, tc) /\ Occurs(f, from + Len(tc), TopologyOfSlots(t, ss))
          /\ Occurs(f, block + 2 * Len(<<>>), dc)
          /\ Occurs(f, block + 2 * Len(<<>>) + Len(dc), DataOfSlots(t, ss))
      BY <2>2, <2>5, <2>6, <2>7 DEF rest
    <3> HIDE DEF tc, dc
    <3> QED
      BY <1>3, <2>1, <2>8, <3>1, <3>2 DEF ReadTopology, tc, dc
  <2> QED
    BY <2>9 DEF from
<1> QED
  BY <1>11, <1>12, <1>13, <1>14 DEF ss

\* An internal node's masks, and its children come next.
LEMMA InternalRead ==
    ASSUME NEW f, Len(f) \in Nat, NEW t, GoodTree(t), NEW at \in Nat, NEW block \in Nat,
           NEW R, NEW ls \in Seq(R), NEW s, NEW ss, ss # <<>>,
           ReadTopology(f, at, block, t, ls, s, <<>>, ss)
    PROVE  /\ ss[1] \in Slots(t)
           /\ f[at] = Mask(Children(t, ss[1])) /\ f[at + 1] = Mask({}) /\ at + 2 <= Len(f) + 1
           /\ ReadTopology(f, at + 2, block, t, ls, ss[1], Ascending(Children(t, ss[1])), Tail(ss))
<1> DEFINE o == ss[1]
           cs == Ascending(Children(t, o))
           tt == Tail(ss)
           next == block + 2 * Len(ls)
           pair == <<Mask(Children(t, o)), Mask({})>>
           tc == TopologyOfChildren(t, o, cs)
           ts == TopologyOfSlots(t, tt)
           dc == DataOfChildren(t, o, cs)
           ds == DataOfSlots(t, tt)
<1>1. next \in Nat /\ Len(ls) \in Nat
  OBVIOUS
<1> HIDE DEF next
<1>2. /\ ss \in Seq(Slots(t))
      /\ Occurs(f, at + Len(TopologyOfChildren(t, s, <<>>)), TopologyOfSlots(t, ss))
      /\ Occurs(f, next + Len(DataOfChildren(t, s, <<>>)), DataOfSlots(t, ss))
      /\ \A k \in 1..Len(ls) : \E p \in DOMAIN t : LeafFrom(ls[k], f, block + 2 * k - 2, t, p)
      /\ \A p \in DOMAIN t :
             \/ \E k \in 1..Len(ls) : LeafFrom(ls[k], f, block + 2 * k - 2, t, p)
             \/ p[1] = s /\ \E k \in 1..Len(<<>>) : <<>>[k] = p[2]
             \/ \E k \in 1..Len(ss) : ss[k] = p[1]
  BY DEF ReadTopology, next
<1>3. o \in Slots(t) /\ tt \in Seq(Slots(t))
      /\ \A k \in 1..Len(ss) : ss[k] = o \/ \E j \in 1..Len(tt) : tt[j] = ss[k]
  <2>1. o \in Slots(t) /\ tt \in Seq(Slots(t)) /\ Len(tt) = Len(ss) - 1
        /\ \A j \in 1..(Len(ss) - 1) : tt[j] = ss[j + 1]
    BY <1>2
  <2> HIDE DEF tt
  <2>2. ASSUME NEW k \in 1..Len(ss), k # 1 PROVE \E j \in 1..Len(tt) : tt[j] = ss[k]
    <3>1. k - 1 \in 1..(Len(ss) - 1) /\ (k - 1) + 1 = k
      BY <1>2, <2>2
    <3>2. tt[k - 1] = ss[(k - 1) + 1]
      BY <2>1, <3>1
    <3>3. tt[k - 1] = ss[k] /\ k - 1 \in 1..Len(tt)
      BY <2>1, <3>1, <3>2
    <3> QED
      BY <3>3
  <2> QED
    BY <2>1, <2>2
<1>4. <<>> \in Seq(Children(t, s)) /\ Len(<<>>) = 0
  OBVIOUS
<1>5. TopologyOfChildren(t, s, <<>>) = <<>> /\ DataOfChildren(t, s, <<>>) = <<>>
  BY <1>4, TopologyOfChildrenAre, DataOfChildrenAre
<1>6. at + Len(<<>>) = at /\ next + Len(<<>>) = next
  BY <1>1, <1>4
<1>7. Occurs(f, at, TopologyOfSlots(t, ss)) /\ Occurs(f, next, DataOfSlots(t, ss))
  BY <1>2, <1>5, <1>6
<1>8. /\ TopologyOfSlots(t, ss) = TopologyOfSlot(t, o) \o ts
      /\ DataOfSlots(t, ss) = DataOfSlot(t, o) \o ds
  BY <1>2, TopologyOfSlotsAre, DataOfSlotsAre
<1> HIDE DEF o, tt
<1>9. /\ ts \in Seq(Items) /\ ds \in Seq(Items)
      /\ TopologyOfSlot(t, o) \in Seq(Items) /\ DataOfSlot(t, o) \in Seq(Items)
      /\ DataOfSlot(t, o) = dc
  BY <1>3, TopologyOfSlotsAre, DataOfSlotsAre, TopologyOfSlotIs, DataOfSlotIs
<1>10. /\ cs \in Seq(Children(t, o)) /\ Mask(Children(t, o)) \in Items /\ Mask({}) \in Items
       /\ \A c \in Children(t, o) : \E k \in 1..Len(cs) : cs[k] = c
  BY <1>3, SlotsOf, RootOf
<1>11. TopologyOfSlot(t, o) = pair \o tc
  BY DEF TopologyOfSlot
<1> HIDE DEF cs
<1>12. tc \in Seq(Items) /\ pair \in Seq(Items) /\ Len(pair) = 2
  <2>1. tc \in Seq(Items)
    BY <1>10, TopologyOfChildrenAre
  <2> DEFINE a == Mask(Children(t, o))
             b == Mask({})
  <2>2. a \in Items /\ b \in Items
    BY <1>10
  <2> HIDE DEF a, b
  <2>3. <<a, b>> \in Seq(Items) /\ Len(<<a, b>>) = 2
    BY <2>2
  <2> QED
    BY <2>1, <2>3 DEF a, b
<1> DEFINE to == TopologyOfSlot(t, o)
           do == DataOfSlot(t, o)
<1>13. Occurs(f, at, to) /\ Occurs(f, at + Len(to), ts) /\ Occurs(f, next, do)
       /\ Occurs(f, next + Len(do), ds)
  <2> HIDE DEF to, do, ts, ds
  <2>1. Occurs(f, at, to \o ts) /\ Occurs(f, next, do \o ds)
    BY <1>7, <1>8 DEF to, do
  <2>2. to \in Seq(Items) /\ do \in Seq(Items) /\ ts \in Seq(Items) /\ ds \in Seq(Items)
    BY <1>9 DEF to, do
  <2> QED
    BY <1>1, <2>1, <2>2, OccursOneByOne
<1> HIDE DEF tc, ts, dc, ds
<1>14. Occurs(f, at, pair) /\ Occurs(f, at + Len(pair), tc) /\ Len(pair \o tc) = Len(pair) + Len(tc)
  <2> HIDE DEF pair, to
  <2>1. Occurs(f, at, pair \o tc)
    BY <1>11, <1>13 DEF to
  <2>2. tc \in Seq(Items) /\ pair \in Seq(Items)
    BY <1>12
  <2> QED
    BY <2>1, <2>2, OccursOneByOne
<1>15. at + Len(pair) = at + 2 /\ at + Len(to) = (at + 2) + Len(tc) /\ Len(do) = Len(dc)
  <2>1. Len(to) = 2 + Len(tc) /\ Len(tc) \in Nat
    BY <1>11, <1>12, <1>14
  <2> HIDE DEF to, tc
  <2>2. Len(do) = Len(dc)
    BY <1>9
  <2> QED
    BY <1>12, <2>1, <2>2
<1>16. f[at] = Mask(Children(t, o)) /\ f[at + 1] = Mask({}) /\ at + 2 <= Len(f) + 1
  <2> DEFINE a == Mask(Children(t, o))
             b == Mask({})
  <2>1. Occurs(f, at, <<a, b>>)
    BY <1>14
  <2> HIDE DEF a, b
  <2>2. f[at] = a /\ f[at + 1] = b /\ at + 2 <= Len(f) + 1
    BY <2>1, PairOccurs
  <2> QED
    BY <2>2 DEF a, b
<1> HIDE DEF pair
<1>17. ASSUME NEW p \in DOMAIN t
       PROVE  \/ \E k \in 1..Len(ls) : LeafFrom(ls[k], f, block + 2 * k - 2, t, p)
              \/ p[1] = o /\ \E k \in 1..Len(cs) : cs[k] = p[2]
              \/ \E k \in 1..Len(tt) : tt[k] = p[1]
  <2>1. CASE \E k \in 1..Len(ls) : LeafFrom(ls[k], f, block + 2 * k - 2, t, p)
    BY <2>1
  <2>2. CASE \E k \in 1..Len(ss) : ss[k] = p[1]
    <3>1. PICK k \in 1..Len(ss) : ss[k] = p[1]
      BY <2>2
    <3>2. CASE p[1] = o
      <4>1. p[2] \in Children(t, o)
        BY <3>2 DEF Children
      <4> QED
        BY <1>10, <3>2, <4>1
    <3>3. CASE p[1] # o
      BY <1>3, <3>1, <3>3
    <3> QED
      BY <3>2, <3>3
  <2>3. ~ (p[1] = s /\ \E k \in 1..Len(<<>>) : <<>>[k] = p[2])
    BY <1>4
  <2> QED
    BY <1>2, <2>1, <2>2, <2>3
<1>18. /\ Occurs(f, at + 2, tc) /\ Occurs(f, (at + 2) + Len(tc), ts)
       /\ Occurs(f, next, dc) /\ Occurs(f, next + Len(dc), ds)
  BY <1>9, <1>13, <1>14, <1>15
<1>19. ReadTopology(f, at + 2, block, t, ls, o, cs, tt)
  <2> DEFINE from == at + 2
  <2>1. Occurs(f, from, tc) /\ Occurs(f, from + Len(tc), ts)
    BY <1>18
  <2> HIDE DEF from
  <2>2. ReadTopology(f, from, block, t, ls, o, cs, tt)
    BY <1>2, <1>3, <1>10, <1>17, <1>18, <2>1 DEF ReadTopology, tc, ts, dc, ds, next
  <2> QED
    BY <2>2 DEF from
<1> QED
  BY <1>3, <1>16, <1>19 DEF o, cs, tt

\* A leaf's mask: the leaf is noted, and its data is where its turn will come.
LEMMA LeafMaskRead ==
    ASSUME NEW f, Len(f) \in Nat, NEW t, GoodTree(t), NEW at \in Nat, NEW block \in Nat,
           NEW R, NEW ls \in Seq(R), NEW s, NEW cs, cs # <<>>, NEW ss,
           ReadTopology(f, at, block, t, ls, s, cs, ss),
           NEW r \in R, r.origin = Origin(s, cs[1]), r.mask = DOMAIN t[<<s, cs[1]>>]
    PROVE  /\ <<s, cs[1]>> \in DOMAIN t
           /\ f[at] = Mask(DOMAIN t[<<s, cs[1]>>]) /\ at + 1 <= Len(f) + 1
           /\ ReadTopology(f, at + 1, block, t, Append(ls, r), s, Tail(cs), ss)
<1> DEFINE o == cs[1]
           p0 == <<s, o>>
           tt == Tail(cs)
           n == Len(ls)
           next == block + 2 * n
           a == Mask(DOMAIN t[p0])
           b == Leaf(t[p0])
           tc == TopologyOfChildren(t, s, tt)
           ts == TopologyOfSlots(t, ss)
           dc == DataOfChildren(t, s, tt)
           ds == DataOfSlots(t, ss)
           tx == TopologyOfChildren(t, s, cs)
           dx == DataOfChildren(t, s, cs)
           rs == Append(ls, r)
<1>1. n \in Nat /\ Len(rs) = n + 1 /\ rs[n + 1] = r /\ \A k \in 1..n : rs[k] = ls[k]
  OBVIOUS
<1>2. /\ cs \in Seq(Children(t, s)) /\ ss \in Seq(Slots(t))
      /\ Occurs(f, at, tx) /\ Occurs(f, at + Len(tx), ts)
      /\ Occurs(f, next, dx) /\ Occurs(f, next + Len(dx), ds)
      /\ \A k \in 1..n : \E p \in DOMAIN t : LeafFrom(ls[k], f, block + 2 * k - 2, t, p)
      /\ \A p \in DOMAIN t :
             \/ \E k \in 1..n : LeafFrom(ls[k], f, block + 2 * k - 2, t, p)
             \/ p[1] = s /\ \E k \in 1..Len(cs) : cs[k] = p[2]
             \/ \E k \in 1..Len(ss) : ss[k] = p[1]
  BY DEF ReadTopology
<1>3. o \in Children(t, s) /\ tt \in Seq(Children(t, s))
      /\ \A k \in 1..Len(cs) : cs[k] = o \/ \E j \in 1..Len(tt) : tt[j] = cs[k]
  <2>1. o \in Children(t, s) /\ tt \in Seq(Children(t, s)) /\ Len(tt) = Len(cs) - 1
        /\ \A j \in 1..(Len(cs) - 1) : tt[j] = cs[j + 1]
    BY <1>2
  <2> HIDE DEF tt
  <2>2. ASSUME NEW k \in 1..Len(cs), k # 1 PROVE \E j \in 1..Len(tt) : tt[j] = cs[k]
    <3>1. k - 1 \in 1..(Len(cs) - 1) /\ (k - 1) + 1 = k
      BY <1>2, <2>2
    <3>2. tt[k - 1] = cs[(k - 1) + 1]
      BY <2>1, <3>1
    <3>3. tt[k - 1] = cs[k] /\ k - 1 \in 1..Len(tt)
      BY <2>1, <3>1, <3>2
    <3> QED
      BY <3>3
  <2> QED
    BY <2>1, <2>2
<1>4. tx = <<a>> \o tc /\ dx = <<a, b>> \o dc
  BY <1>2, TopologyOfChildrenAre, DataOfChildrenAre
<1> HIDE DEF tt, n, rs, ts, ds, tx, dx
<1>5. tc \in Seq(Items) /\ dc \in Seq(Items)
  BY <1>3, TopologyOfChildrenAre, DataOfChildrenAre
<1>6. p0 \in DOMAIN t
  BY <1>3, ChildrenAre
<1>7. a \in Items /\ b \in Items
  <2> HIDE DEF p0
  <2> QED
    BY <1>6, LeafIs
<1>8. LeafFrom(r, f, next, t, p0) <=> f[next] = a /\ f[next + 1] = b /\ next + 2 <= Len(f) + 1
  <2>1. p0[1] = s /\ p0[2] = o
    OBVIOUS
  <2> HIDE DEF p0, next
  <2> QED
    BY <2>1 DEF LeafFrom, p0
<1> HIDE DEF o, p0, a, b, tc, dc
<1>9. <<a>> \in Seq(Items) /\ <<a, b>> \in Seq(Items) /\ Len(<<a>>) = 1 /\ Len(<<a, b>>) = 2
  BY <1>7
<1> DEFINE one == <<a>>
           two == <<a, b>>
<1>10. one \in Seq(Items) /\ two \in Seq(Items)
  BY <1>9
<1>11. Len(one) = 1 /\ Len(two) = 2
  BY <1>9
<1> HIDE DEF one, two
<1>12. next \in Nat
  BY <1>1
<1> HIDE DEF next
<1>13. Occurs(f, at, one) /\ Occurs(f, at + Len(one), tc) /\ Len(one \o tc) = Len(one) + Len(tc)
  <2>1. Occurs(f, at, one \o tc)
    BY <1>2, <1>4 DEF one
  <2> QED
    BY <1>5, <1>10, <2>1, OccursOneByOne
<1>14. Occurs(f, next, two) /\ Occurs(f, next + Len(two), dc) /\ Len(two \o dc) = Len(two) + Len(dc)
  <2>1. Occurs(f, next, two \o dc)
    BY <1>2, <1>4 DEF two
  <2> QED
    BY <1>5, <1>10, <1>12, <2>1, OccursOneByOne
<1>15. Len(tx) = 1 + Len(tc) /\ Len(dx) = 2 + Len(dc) /\ Len(tc) \in Nat /\ Len(dc) \in Nat
  <2>1. Len(tx) = Len(one) + Len(tc) /\ Len(dx) = Len(two) + Len(dc)
    BY <1>4, <1>13, <1>14 DEF one, two
  <2> QED
    BY <1>5, <1>11, <2>1
<1>16. f[at] = a /\ at + 1 <= Len(f) + 1
  BY <1>13, OneOccurs DEF one
<1>17. f[next] = a /\ f[next + 1] = b /\ next + 2 <= Len(f) + 1
  BY <1>12, <1>14, PairOccurs DEF two
<1>18. LeafFrom(r, f, next, t, p0)
  BY <1>8, <1>17
<1> DEFINE next2 == block + 2 * Len(rs)
<1>19. /\ block + 2 * (n + 1) - 2 = next /\ next2 = next + 2
       /\ (at + 1) + Len(tc) = at + Len(tx) /\ next2 + Len(dc) = next + Len(dx)
       /\ at + Len(one) = at + 1 /\ next + Len(two) = next2
  <2> DEFINE x == Len(tc)
             y == Len(dc)
  <2>1. Len(tx) = 1 + x /\ Len(dx) = 2 + y /\ x \in Nat /\ y \in Nat
    BY <1>15
  <2>2. next = block + 2 * n /\ next2 = block + 2 * (n + 1)
    BY <1>1 DEF next
  <2> HIDE DEF x, y, next2
  <2>3. block + 2 * (n + 1) - 2 = next /\ next2 = next + 2
    BY <1>1, <2>2
  <2>4. (at + 1) + x = at + Len(tx) /\ next2 + y = next + Len(dx)
    BY <1>12, <2>1, <2>3
  <2> QED
    BY <1>11, <2>3, <2>4 DEF x, y
<1>20. \A k \in 1..Len(rs) : \E p \in DOMAIN t : LeafFrom(rs[k], f, block + 2 * k - 2, t, p)
  <2> SUFFICES ASSUME NEW k \in 1..Len(rs)
               PROVE  \E p \in DOMAIN t : LeafFrom(rs[k], f, block + 2 * k - 2, t, p)
    OBVIOUS
  <2>1. CASE k = n + 1
    <3>1. LeafFrom(rs[k], f, block + 2 * k - 2, t, p0)
      BY <1>1, <1>18, <1>19, <2>1, Zenon
    <3> QED
      BY <1>6, <3>1
  <2>2. CASE k # n + 1
    <3>1. k \in 1..n
      BY <1>1, <2>2
    <3> QED
      BY <1>1, <1>2, <3>1
  <2> QED
    BY <2>1, <2>2
<1>21. ASSUME NEW p \in DOMAIN t
       PROVE  \/ \E k \in 1..Len(rs) : LeafFrom(rs[k], f, block + 2 * k - 2, t, p)
              \/ p[1] = s /\ \E k \in 1..Len(tt) : tt[k] = p[2]
              \/ \E k \in 1..Len(ss) : ss[k] = p[1]
  <2>0. n + 1 \in 1..Len(rs) /\ \A k \in 1..n : k \in 1..Len(rs)
    BY <1>1
  <2>1. CASE \E k \in 1..n : LeafFrom(ls[k], f, block + 2 * k - 2, t, p)
    <3>1. PICK k \in 1..n : LeafFrom(ls[k], f, block + 2 * k - 2, t, p)
      BY <2>1
    <3>2. k \in 1..Len(rs) /\ rs[k] = ls[k]
      BY <1>1, <2>0
    <3> QED
      BY <3>1, <3>2
  <2>2. CASE p[1] = s /\ \E k \in 1..Len(cs) : cs[k] = p[2]
    <3>1. CASE p[2] = o
      <4>1. p = <<p[1], p[2]>>
        BY DEF GoodTree
      <4>2. p = p0
        BY <2>2, <3>1, <4>1 DEF p0
      <4>3. LeafFrom(rs[n + 1], f, block + 2 * (n + 1) - 2, t, p)
        BY <1>1, <1>18, <1>19, <4>2, Zenon
      <4> QED
        BY <2>0, <4>3
    <3>2. CASE p[2] # o
      BY <1>3, <2>2, <3>2
    <3> QED
      BY <3>1, <3>2
  <2>3. CASE \E k \in 1..Len(ss) : ss[k] = p[1]
    BY <2>3
  <2> QED
    BY <1>2, <2>1, <2>2, <2>3
<1>22. ReadTopology(f, at + 1, block, t, rs, s, tt, ss)
  <2> DEFINE from == at + 1
  <2>1. /\ Occurs(f, from, tc) /\ Occurs(f, from + Len(tc), ts)
        /\ Occurs(f, next2, dc) /\ Occurs(f, next2 + Len(dc), ds)
    BY <1>2, <1>13, <1>14, <1>19
  <2> HIDE DEF from
  <2>2. ReadTopology(f, from, block, t, rs, s, tt, ss)
    BY <1>2, <1>3, <1>20, <1>21, <2>1 DEF ReadTopology, tc, ts, dc, ds
  <2> QED
    BY <2>2 DEF from
<1> QED
  BY <1>6, <1>16, <1>22 DEF a, o, p0, rs, tt

\* When the topology has been read, every leaf of the tree is known.
LEMMA TopologyRead ==
    ASSUME NEW f, NEW t, NEW at, NEW block \in Nat, NEW R, NEW ls \in Seq(R), NEW s,
           ReadTopology(f, at, block, t, ls, s, <<>>, <<>>)
    PROVE  ReadData(f, block, block, t, ls, 1)
<1>1. /\ \A k \in 1..Len(ls) : \E p \in DOMAIN t : LeafFrom(ls[k], f, block + 2 * k - 2, t, p)
      /\ \A p \in DOMAIN t :
             \/ \E k \in 1..Len(ls) : LeafFrom(ls[k], f, block + 2 * k - 2, t, p)
             \/ p[1] = s /\ \E k \in 1..Len(<<>>) : <<>>[k] = p[2]
             \/ \E k \in 1..Len(<<>>) : <<>>[k] = p[1]
  BY DEF ReadTopology
<1>2. Len(<<>>) = 0 /\ Len(ls) \in Nat
  OBVIOUS
<1>3. \A p \in DOMAIN t : \E k \in 1..Len(ls) : LeafFrom(ls[k], f, block + 2 * k - 2, t, p)
  <2>1. \A k \in 1..Len(<<>>) : FALSE
    BY <1>2
  <2> QED
    BY <1>1, <2>1
<1>4. \A k \in 1..Len(ls) : ~ (k < 1)
  BY <1>2
<1>5. block = block + 2 * 1 - 2 /\ 1 \in 1..(Len(ls) + 1)
  BY <1>2
<1>6. \A k \in 1..Len(ls) : \A p \in DOMAIN t :
          LeafFrom(ls[k], f, block + 2 * k - 2, t, p)
          => LeafIn(ls[k], f, block + 2 * k - 2, t, p, k < 1)
  BY <1>4 DEF LeafIn
<1> QED
  BY <1>1, <1>3, <1>5, <1>6 DEF ReadData

\* A leaf's mask and values.
LEMMA BlockRead ==
    ASSUME NEW f, Len(f) \in Nat, NEW t, NEW at \in Nat, NEW block \in Nat,
           NEW R, NEW ls \in Seq(R), NEW n, n <= Len(ls),
           ReadData(f, at, block, t, ls, n),
           NEW rs \in Seq(R), Len(rs) = Len(ls),
           \A k \in 1..Len(ls) : k # n => rs[k] = ls[k],
           rs[n].origin = ls[n].origin, rs[n].mask = ls[n].mask, rs[n].values = f[at + 1].values
    PROVE  /\ \E p \in DOMAIN t : /\ f[at] = Mask(DOMAIN t[p]) /\ f[at + 1] = Leaf(t[p])
                                  /\ at + 2 <= Len(f) + 1
           /\ ReadData(f, at + 2, block, t, rs, n + 1)
<1> DEFINE l == Len(ls)
<1>1. /\ l \in Nat /\ n \in 1..(l + 1) /\ at = block + 2 * n - 2
      /\ \A k \in 1..l : \E p \in DOMAIN t : LeafIn(ls[k], f, block + 2 * k - 2, t, p, k < n)
      /\ \A p \in DOMAIN t : \E k \in 1..l : LeafIn(ls[k], f, block + 2 * k - 2, t, p, k < n)
  BY DEF ReadData
<1>2. n \in 1..l
  BY <1>1
<1>3. ASSUME NEW k \in 1..l, NEW p \in DOMAIN t,
             LeafIn(ls[k], f, block + 2 * k - 2, t, p, k < n)
      PROVE  LeafIn(rs[k], f, block + 2 * k - 2, t, p, k < n + 1)
  <2>1. LeafFrom(ls[k], f, block + 2 * k - 2, t, p) /\ (k < n => ls[k].values = Leaf(t[p]).values)
    BY <1>3 DEF LeafIn
  <2>2. CASE k = n
    <3>1. f[at + 1] = Leaf(t[p])
      BY <1>1, <2>1, <2>2 DEF LeafFrom
    <3>2. rs[k].values = Leaf(t[p]).values
      BY <2>2, <3>1
    <3>3. LeafFrom(rs[k], f, block + 2 * k - 2, t, p)
      BY <2>1, <2>2 DEF LeafFrom
    <3> QED
      BY <3>2, <3>3 DEF LeafIn
  <2>3. CASE k # n
    <3>1. rs[k] = ls[k]
      BY <1>3, <2>3
    <3>2. k \in Nat /\ n \in Nat /\ (k < n + 1 => k < n)
      <4>1. k \in Nat /\ n \in Nat
        <5> HIDE DEF l
        <5> QED
          BY <1>1, <1>3
      <4> QED
        BY <2>3, <4>1
    <3> QED
      BY <2>1, <3>1, <3>2 DEF LeafIn
  <2> QED
    BY <2>2, <2>3
<1>4. \E p \in DOMAIN t : /\ f[at] = Mask(DOMAIN t[p]) /\ f[at + 1] = Leaf(t[p])
                          /\ at + 2 <= Len(f) + 1
  <2>1. PICK p \in DOMAIN t : LeafIn(ls[n], f, block + 2 * n - 2, t, p, n < n)
    BY <1>1, <1>2
  <2> QED
    BY <1>1, <2>1 DEF LeafIn, LeafFrom
<1>5. n + 1 \in 1..(Len(rs) + 1) /\ at + 2 = block + 2 * (n + 1) - 2
  <2>1. Len(rs) = l
    OBVIOUS
  <2>2. l \in Nat /\ n \in 1..l /\ at = block + 2 * n - 2
    BY <1>1, <1>2
  <2> HIDE DEF l
  <2>3. n + 1 \in 1..(l + 1) /\ at + 2 = block + 2 * (n + 1) - 2
    BY <2>2
  <2> QED
    BY <2>1, <2>3, Zenon
<1>6. \A k \in 1..Len(rs) : \E p \in DOMAIN t :
          LeafIn(rs[k], f, block + 2 * k - 2, t, p, k < n + 1)
  BY <1>1, <1>3
<1>7. \A p \in DOMAIN t : \E k \in 1..Len(rs) :
          LeafIn(rs[k], f, block + 2 * k - 2, t, p, k < n + 1)
  <2> SUFFICES ASSUME NEW p \in DOMAIN t
               PROVE  \E k \in 1..Len(rs) : LeafIn(rs[k], f, block + 2 * k - 2, t, p, k < n + 1)
    OBVIOUS
  <2>1. PICK k \in 1..l : LeafIn(ls[k], f, block + 2 * k - 2, t, p, k < n)
    BY <1>1
  <2> QED
    BY <1>3, <2>1
<1>8. ReadData(f, at + 2, block, t, rs, n + 1)
  <2> DEFINE from == at + 2
             m == n + 1
  <2>1. m \in 1..(Len(rs) + 1) /\ from = block + 2 * m - 2
    BY <1>5
  <2>2. \A k \in 1..Len(rs) : \E p \in DOMAIN t :
            LeafIn(rs[k], f, block + 2 * k - 2, t, p, k < m)
    BY <1>6
  <2>3. \A p \in DOMAIN t : \E k \in 1..Len(rs) :
            LeafIn(rs[k], f, block + 2 * k - 2, t, p, k < m)
    BY <1>7
  <2> HIDE DEF from, m
  <2>4. ReadData(f, from, block, t, rs, m)
    BY <2>1, <2>2, <2>3 DEF ReadData
  <2> QED
    BY <2>4 DEF from, m
<1> QED
  BY <1>4, <1>8

LEMMA DataRead ==
    ASSUME NEW f, NEW t, NEW at, NEW block, NEW R, NEW ls \in Seq(R), NEW n, n > Len(ls),
           ReadData(f, at, block, t, ls, n)
    PROVE  ReadGrid(ls, t)
<1>1. /\ n \in 1..(Len(ls) + 1)
      /\ \A k \in 1..Len(ls) : \E p \in DOMAIN t : LeafIn(ls[k], f, block + 2 * k - 2, t, p, k < n)
      /\ \A p \in DOMAIN t : \E k \in 1..Len(ls) : LeafIn(ls[k], f, block + 2 * k - 2, t, p, k < n)
  BY DEF ReadData
<1>2. ASSUME NEW k \in 1..Len(ls), NEW p \in DOMAIN t,
             LeafIn(ls[k], f, block + 2 * k - 2, t, p, k < n)
      PROVE  LeafRead(ls[k], t, p)
  <2>1. k < n
    BY <1>1
  <2> QED
    BY <1>2, <2>1 DEF LeafIn, LeafFrom, LeafRead
<1> QED
  BY <1>1, <1>2 DEF ReadGrid

-----------------------------------------------------------------------------
(***************************************************************************)
(* The reader's steps.                                                     *)
(***************************************************************************)
\* The descriptor and the reader's position are within the file, or just after.
Within(d, at) == d \in 0..Len(file) /\ at \in 0..(Len(file) + 1)

\* What the steps that read have in common.
LEMMA ReadingKeeps ==
    ASSUME Inductive, Reading, UNCHANGED <<built, file>>, grid' \in 1..count,
           Within(descriptor', pos'),
           stage' \in {"readGrid", "readTopology", "readData", "read"}
    PROVE  /\ TypeOK' /\ stage' # "malformed" /\ NothingOverlaps' /\ NotBegun'
           /\ BuiltSoFar' /\ TreesAreTheField' /\ WrittenSoFar'
<1>1. /\ TypeOK /\ ~TooLarge /\ Len(file) >= 1 /\ file \in Seq(Items)
      /\ \A g \in 1..count : TreeOf(trees[g], g, Coordinates)
      /\ file[1] = [item |-> "header", grids |-> count]
  BY DEF Inductive, TreesAreTheField
<1>2. dims' = dims /\ count' = count /\ trees' = trees /\ voxel' = voxel /\ file' = file
  BY DEF built
<1>3. Coordinates' = Coordinates /\ ~TooLarge' /\ (Hollow' <=> Hollow)
  BY <1>1, <1>2 DEF Coordinates, TooLarge, Hollow
<1>4. count \in Nat
  BY <1>1, Sizes
<1>5. grid' \in 1..(count' + 1)
  BY <1>2, <1>4
<1>6. TypeOK'
  <2>1. descriptor' \in 0..Len(file') /\ pos' \in 0..(Len(file') + 1)
    BY <1>2 DEF Within
  <2> QED
    BY <1>1, <1>2, <1>3, <1>5, <2>1 DEF TypeOK
<1>7. TreesAreTheField'
  <2>1. \A g \in 1..count' : TreeOf(trees'[g], g, Coordinates')
    BY <1>1, <1>2, <1>3
  <2>2. file'[1] = [item |-> "header", grids |-> count']
    BY <1>1, <1>2
  <2> QED
    BY <1>1, <1>2, <1>3, <2>1, <2>2 DEF TreesAreTheField
<1> QED
  BY <1>6, <1>7 DEF NotBegun, NothingOverlaps, BuiltSoFar, WrittenSoFar, Writing

\* The grids that were read, and those to come.
LeavesAre(ls, ts, g, started) ==
    /\ ls = [h \in 1..count |-> ls[h]]
    /\ \A h \in 1..count :
           /\ ls[h] \in Seq(LeafReads(ts[h]))
           /\ h < g => ReadGrid(ls[h], ts[h])
           /\ h > g \/ (h = g /\ ~ started) => ls[h] = <<>>

\* The descriptor of the grid that is read, and its tree.
LEMMA ReaderIs ==
    ASSUME Inductive, stage \in {"readGrid", "readTopology", "readData"}
    PROVE  /\ Reading /\ TypeOK /\ count \in Nat /\ grid \in 1..count
           /\ Len(file) \in Nat /\ GoodTree(trees[grid])
           /\ descriptor \in Nat \ {0} /\ descriptor <= Len(file)
           /\ LeavesAre(leaves, trees, grid, stage # "readGrid")
           /\ \E d : /\ Laid(file, trees, d, count + 1) /\ descriptor = d[grid]
                     /\ d[grid + 1] \in Nat /\ d[grid + 1] >= 2 /\ d[grid + 1] <= Len(file) + 1
                     /\ Segment(file, trees[grid], descriptor, d[grid + 1])
<1>0. Reading /\ TypeOK
  BY DEF Inductive, Reading
<1>1. grid \in 1..count /\ count \in Nat
  BY <1>0, Sizes DEF Inductive, TreesAreTheField
<1>2. GoodTree(trees[grid]) /\ Len(file) \in Nat
  <2>1. file \in Seq(Items)
    BY <1>0 DEF Inductive, TreesAreTheField
  <2> QED
    BY <1>0, <1>1, <2>1, FieldTrees
<1>3. PICK d : /\ Laid(file, trees, d, count + 1)
               /\ descriptor = d[grid]
               /\ leaves = [g \in 1..count |-> leaves[g]]
               /\ \A g \in 1..count :
                      /\ leaves[g] \in Seq(LeafReads(trees[g]))
                      /\ g < grid => ReadGrid(leaves[g], trees[g])
                      /\ g > grid \/ (g = grid /\ stage = "readGrid") => leaves[g] = <<>>
  BY <1>0 DEF Inductive, ReadSoFar
<1>4. LeavesAre(leaves, trees, grid, stage # "readGrid")
  BY <1>3 DEF LeavesAre
<1> DEFINE n == count + 1
           next == d[grid + 1]
<1>5. grid \in 1..n /\ grid + 1 \in 1..n /\ grid \in 1..(n - 1)
  BY <1>1
<1>6. /\ \A g \in 1..n : d[g] \in Nat /\ 2 <= d[g] /\ d[g] <= d[n]
      /\ d[n] <= Len(file) + 1
      /\ \A g \in 1..(n - 1) : Segment(file, trees[g], d[g], d[g + 1])
  BY <1>3 DEF Laid
<1> HIDE DEF n
<1>7. Segment(file, trees[grid], descriptor, next)
  BY <1>3, <1>5, <1>6
<1>8. next \in Nat /\ next >= 2 /\ next <= Len(file) + 1
  <2> DEFINE l == Len(file)
  <2>1. d[n] \in Nat /\ d[n] <= l + 1 /\ next \in Nat /\ next >= 2 /\ next <= d[n] /\ l \in Nat
    <3>1. n \in 1..n
      BY <1>1 DEF n
    <3> QED
      BY <1>2, <1>5, <1>6, <3>1
  <2> HIDE DEF l, next
  <2>2. next <= l + 1
    BY <2>1
  <2> QED
    BY <2>1, <2>2 DEF l
<1>9. descriptor \in Nat \ {0} /\ descriptor <= Len(file)
  <2>1. descriptor \in Nat /\ descriptor >= 2
    BY <1>3, <1>5, <1>6
  <2>2. descriptor \in 0..Len(file)
    BY <1>0 DEF TypeOK
  <2> DEFINE l == Len(file)
  <2>3. l \in Nat /\ descriptor \in 0..l
    BY <1>2, <2>2
  <2> HIDE DEF l
  <2>4. descriptor \in Nat \ {0} /\ descriptor <= l
    BY <2>1, <2>3
  <2> QED
    BY <2>4 DEF l
<1> QED
  BY <1>0, <1>1, <1>2, <1>3, <1>4, <1>7, <1>8, <1>9 DEF n

\* A step of the reader within the grid leaves it where the writer was, if
\* what it has read of this grid does.
LEMMA GridStep ==
    ASSUME Inductive, stage \in {"readGrid", "readTopology", "readData"},
           UNCHANGED <<built, file, descriptor, grid>>,
           Within(descriptor, pos'), stage' \in {"readTopology", "readData"}, TodoIs',
           NEW ls \in Seq(LeafReads(trees[grid])), leaves' = [leaves EXCEPT ![grid] = ls],
           stage' = "readTopology" =>
               /\ pos' # 0
               /\ ReadTopology(file, pos', file[descriptor].blockPos, trees[grid], ls,
                               todo'.slot, todo'.children, todo'.slots),
           stage' = "readData" =>
               ReadData(file, pos', file[descriptor].blockPos, trees[grid], ls, todo'.leaf)
    PROVE  Inductive'
<1>1. /\ Reading /\ TypeOK /\ count \in Nat /\ grid \in 1..count
      /\ LeavesAre(leaves, trees, grid, stage # "readGrid")
  BY ReaderIs
<1>2. PICK d : Laid(file, trees, d, count + 1) /\ descriptor = d[grid]
  BY ReaderIs
<1>3. dims' = dims /\ count' = count /\ trees' = trees /\ file' = file
      /\ descriptor' = descriptor /\ grid' = grid
  BY DEF built
<1>4. leaves = [h \in 1..count |-> leaves[h]]
      /\ \A h \in 1..count : /\ leaves[h] \in Seq(LeafReads(trees[h]))
                             /\ h < grid => ReadGrid(leaves[h], trees[h])
                             /\ h > grid => leaves[h] = <<>>
  BY <1>1 DEF LeavesAre
<1>5. DOMAIN leaves = 1..count
  BY <1>4
<1>6. /\ leaves' = [h \in 1..count |-> leaves'[h]]
      /\ leaves'[grid] = ls /\ \A h \in 1..count : h # grid => leaves'[h] = leaves[h]
  BY <1>1, <1>5
<1>7. ASSUME NEW h \in 1..count
      PROVE  /\ leaves'[h] \in Seq(LeafReads(trees[h]))
             /\ h < grid => ReadGrid(leaves'[h], trees[h])
             /\ h > grid => leaves'[h] = <<>>
  <2>1. CASE h = grid
    <3>1. leaves'[h] \in Seq(LeafReads(trees[h]))
      BY <1>6, <2>1
    <3>2. ~ (h < grid) /\ ~ (h > grid)
      <4>1. grid \in Nat
        BY <1>1
      <4> QED
        BY <2>1, <4>1
    <3> QED
      BY <3>1, <3>2
  <2>2. CASE h # grid
    BY <1>4, <1>6, <2>2
  <2> QED
    BY <2>1, <2>2
<1>8. /\ TypeOK' /\ stage' # "malformed" /\ NothingOverlaps' /\ NotBegun'
      /\ BuiltSoFar' /\ TreesAreTheField' /\ WrittenSoFar'
  <2>1. grid' \in 1..count /\ Within(descriptor', pos')
        /\ stage' \in {"readGrid", "readTopology", "readData", "read"}
        /\ UNCHANGED <<built, file>>
    BY <1>1, <1>3
  <2> QED
    BY <1>1, <2>1, ReadingKeeps
<1>9. ReadSoFar'
  <2>1. Laid(file', trees', d, count' + 1) /\ descriptor' = d[grid']
    BY <1>2, <1>3
  <2>2. leaves' = [g \in 1..count' |-> leaves'[g]]
    BY <1>3, <1>6
  <2>3. \A g \in 1..count' :
            /\ leaves'[g] \in Seq(LeafReads(trees'[g]))
            /\ g < grid' \/ stage' = "read" => ReadGrid(leaves'[g], trees'[g])
            /\ g > grid' \/ (g = grid' /\ stage' = "readGrid") => leaves'[g] = <<>>
    BY <1>3, <1>7
  <2>4. /\ stage' = "readTopology" =>
               /\ pos' # 0
               /\ ReadTopology(file', pos', file'[descriptor'].blockPos, trees'[grid'],
                               leaves'[grid'], todo'.slot, todo'.children, todo'.slots)
        /\ stage' = "readData" =>
               ReadData(file', pos', file'[descriptor'].blockPos, trees'[grid'],
                        leaves'[grid'], todo'.leaf)
    BY <1>3, <1>6
  <2> QED
    BY <2>1, <2>2, <2>3, <2>4 DEF ReadSoFar
<1> QED
  BY <1>8, <1>9 DEF Inductive

Todo(slot, slots, children, leaf) ==
    [slot |-> slot, slots |-> slots, children |-> children, leaf |-> leaf]

LEMMA TodoNow ==
    ASSUME TodoIs
    PROVE  todo = Todo(todo.slot, todo.slots, todo.children, todo.leaf)
  BY DEF TodoIs, Todo

LEMMA TodoNext ==
    ASSUME NEW a, NEW b, NEW c, NEW n, todo' = Todo(a, b, c, n)
    PROVE  /\ TodoIs' /\ todo'.slot = a /\ todo'.slots = b /\ todo'.children = c
           /\ todo'.leaf = n
<1>1. todo'.slot = a /\ todo'.slots = b /\ todo'.children = c /\ todo'.leaf = n
  BY DEF Todo
<1>2. todo' \in [slot : {a}, slots : {b}, children : {c}, leaf : {n}]
  BY DEF Todo
<1> QED
  BY <1>1, <1>2 DEF TodoIs

\* The leaves of the grid that is read, and all of them if they stay as they are.
LEMMA LeavesNow ==
    ASSUME NEW ls, NEW ts, NEW g \in 1..count, NEW started, LeavesAre(ls, ts, g, started)
    PROVE  /\ ls[g] \in Seq(LeafReads(ts[g])) /\ ls = [ls EXCEPT ![g] = ls[g]]
           /\ DOMAIN ls = 1..count
<1>1. /\ ls = [h \in 1..count |-> ls[h]]
      /\ ls[g] \in Seq(LeafReads(ts[g]))
  BY DEF LeavesAre
<1>2. DOMAIN ls = 1..count
  BY <1>1
<1>3. ls = [ls EXCEPT ![g] = ls[g]]
  BY <1>1
<1> QED
  BY <1>1, <1>2, <1>3

LEMMA WithinBy ==
    ASSUME NEW d \in Nat, d <= Len(file), NEW at \in Nat, at <= Len(file) + 1, Len(file) \in Nat
    PROVE  Within(d, at)
  BY DEF Within

LEMMA FoundBy ==
    ASSUME NEW at \in Nat \ {0}, NEW n \in Nat \ {0}, at + n <= Len(file) + 1, Len(file) \in Nat,
           NEW k \in 0..(n - 1), NEW item, file[at + k].item = item
    PROVE  Found(at + k, item)
<1>1. at + k \in 1..Len(file)
  <2> DEFINE l == Len(file)
  <2>1. l \in Nat /\ at + n <= l + 1
    OBVIOUS
  <2> HIDE DEF l
  <2>2. at + k \in 1..l
    BY <2>1
  <2> QED
    BY <2>2 DEF l
<1> QED
  BY <1>1 DEF Found

LEMMA OpenStep ==
    ASSUME Inductive, Open
    PROVE  Inductive'
<1>1. /\ stage = "written" /\ stage' = "readGrid" /\ descriptor' = 2
      /\ leaves' = [g \in 1..file[1].grids |-> <<>>]
      /\ UNCHANGED <<built, file, grid, pos, todo>>
  BY DEF Open
<1>2. Reading /\ TypeOK
  BY <1>1 DEF Inductive, Reading
<1>3. grid \in 1..count /\ count \in Nat /\ file[1].grids = count
  BY <1>2, Sizes DEF Inductive, TreesAreTheField
<1>4. GoodTree(trees[1]) /\ Len(file) \in Nat
  <2>1. 1 \in 1..count /\ file \in Seq(Items)
    BY <1>2, <1>3 DEF Inductive, TreesAreTheField
  <2> QED
    BY <1>2, <2>1, FieldTrees
<1>5. PICK d : Laid(file, trees, d, count + 1) /\ grid = 1
  BY <1>1, <1>2 DEF Inductive, ReadSoFar
<1>6. d[1] = 2 /\ Segment(file, trees[1], 2, d[2])
  <2>1. d[1] = 2 /\ \A g \in 1..((count + 1) - 1) : Segment(file, trees[g], d[g], d[g + 1])
    BY <1>5 DEF Laid
  <2>2. 1 \in 1..((count + 1) - 1) /\ 1 + 1 = 2
    BY <1>3
  <2> QED
    BY <2>1, <2>2
<1>7. 2 + 4 <= Len(file) + 1
  BY <1>4, <1>6, RootRead
<1>8. Within(descriptor', pos')
  <2> DEFINE l == Len(file)
  <2>1. l \in Nat /\ 2 + 4 <= l + 1 /\ pos \in 0..(l + 1) /\ pos' = pos
    BY <1>1, <1>2, <1>4, <1>7 DEF TypeOK
  <2> HIDE DEF l
  <2>2. 2 \in 0..l /\ pos' \in 0..(l + 1)
    BY <2>1
  <2> QED
    BY <1>1, <2>2 DEF Within, l
<1>9. dims' = dims /\ count' = count /\ trees' = trees /\ file' = file /\ grid' = grid /\ todo' = todo
  BY <1>1 DEF built
<1>10. /\ TypeOK' /\ stage' # "malformed" /\ NothingOverlaps' /\ NotBegun'
       /\ BuiltSoFar' /\ TreesAreTheField' /\ WrittenSoFar'
  <2>1. grid' \in 1..count /\ UNCHANGED <<built, file>>
        /\ stage' \in {"readGrid", "readTopology", "readData", "read"}
    BY <1>1, <1>3
  <2> QED
    BY <1>2, <1>8, <2>1, ReadingKeeps
<1>11. TodoIs'
  BY <1>9 DEF Inductive, TodoIs
<1>12. ReadSoFar'
  <2>1. Laid(file', trees', d, count' + 1) /\ descriptor' = d[grid'] /\ grid' = 1
    BY <1>1, <1>5, <1>6, <1>9
  <2>2. leaves' = [g \in 1..count' |-> leaves'[g]]
    BY <1>1, <1>3, <1>9
  <2>3. \A g \in 1..count' :
            /\ leaves'[g] \in Seq(LeafReads(trees'[g]))
            /\ g < grid' \/ stage' = "read" => ReadGrid(leaves'[g], trees'[g])
            /\ g > grid' \/ (g = grid' /\ stage' = "readGrid") => leaves'[g] = <<>>
    <3>1. \A g \in 1..count' : leaves'[g] = <<>> /\ ~ (g < 1)
      BY <1>1, <1>3, <1>9
    <3>2. \A g : <<>> \in Seq(LeafReads(trees'[g]))
      OBVIOUS
    <3> QED
      BY <1>1, <2>1, <3>1, <3>2
  <2> QED
    BY <1>1, <2>1, <2>2, <2>3 DEF ReadSoFar
<1> QED
  BY <1>10, <1>11, <1>12 DEF Inductive

LEMMA ReadRootStep ==
    ASSUME Inductive, ReadRoot
    PROVE  Inductive'
<1> DEFINE t == trees[grid]
           at == descriptor
           l == Len(file)
<1>1. stage = "readGrid"
  BY DEF ReadRoot
<1>2. /\ count \in Nat /\ grid \in 1..count /\ l \in Nat /\ GoodTree(t)
      /\ at \in Nat \ {0} /\ at <= l /\ LeavesAre(leaves, trees, grid, stage # "readGrid")
  BY <1>1, ReaderIs
<1>3. PICK d : Segment(file, t, at, d[grid + 1])
  BY <1>1, ReaderIs
<1>4. leaves[grid] = <<>> /\ leaves = [leaves EXCEPT ![grid] = leaves[grid]]
      /\ leaves[grid] \in Seq(LeafReads(t))
  <2> DEFINE started == stage # "readGrid"
  <2>1. ~ started /\ LeavesAre(leaves, trees, grid, started)
    BY <1>1, <1>2
  <2>2. leaves[grid] = <<>>
    BY <1>2, <2>1 DEF LeavesAre
  <2> HIDE DEF started
  <2>3. leaves = [leaves EXCEPT ![grid] = leaves[grid]] /\ leaves[grid] \in Seq(LeafReads(t))
    BY <1>2, <2>1, LeavesNow
  <2> QED
    BY <2>2, <2>3
<1> HIDE DEF t, at
<1>5. /\ file[at].item = "descriptor" /\ file[at].gridPos = at + 1
      /\ file[at + 2] = Mask(Slots(t)) /\ file[at + 3] = Mask({}) /\ at + 4 <= l + 1
      /\ ReadTopology(file, at + 4, file[at].blockPos, t, <<>>, 0, <<>>, Ascending(Slots(t)))
  <2> DEFINE next == d[grid + 1]
  <2>1. Segment(file, t, at, next) /\ at \in Nat /\ Len(file) \in Nat /\ GoodTree(t)
    BY <1>2, <1>3
  <2> HIDE DEF next, l
  <2> QED
    BY <2>1, RootRead DEF l
<1>6. at + 1 + 1 = at + 2 /\ at + 1 + 2 = at + 3 /\ at + 1 + 3 = at + 4 /\ at + 0 = at
      /\ at + 4 \in Nat \ {0}
  BY <1>2
<1>7. Found(at, "descriptor") /\ Found(at + 2, "mask") /\ Found(at + 3, "mask")
  <2>1. file[at + 0].item = "descriptor" /\ file[at + 2].item = "mask" /\ file[at + 3].item = "mask"
    BY <1>5, <1>6 DEF Mask
  <2>2. 0 \in 0..(4 - 1) /\ 2 \in 0..(4 - 1) /\ 3 \in 0..(4 - 1) /\ 4 \in Nat \ {0}
    OBVIOUS
  <2> HIDE DEF l
  <2>3. Found(at + 0, "descriptor") /\ Found(at + 2, "mask") /\ Found(at + 3, "mask")
    BY <1>2, <1>5, <2>1, <2>2, FoundBy DEF l
  <2> QED
    BY <1>6, <2>3
<1>8. \A k \in 1..2 : Found(file[at].gridPos + k, "mask")
  <2>1. Found(file[at].gridPos + 1, "mask") /\ Found(file[at].gridPos + 2, "mask")
    BY <1>5, <1>6, <1>7
  <2>2. \A k \in 1..2 : k = 1 \/ k = 2
    OBVIOUS
  <2> QED
    BY <2>1, <2>2
<1>9. /\ pos' = file[at].gridPos + 3
      /\ todo' = [NothingToDo EXCEPT !.slots = Ascending(file[file[at].gridPos + 1].bits)]
      /\ stage' = "readTopology"
      /\ UNCHANGED <<built, file, descriptor, grid, leaves>>
  BY <1>7, <1>8 DEF ReadRoot, at
<1>10. pos' = at + 4
  BY <1>5, <1>6, <1>9
<1>11. todo' = Todo(0, Ascending(Slots(t)), <<>>, 0)
  <2> DEFINE ss == Ascending(Slots(t))
  <2>1. file[file[at].gridPos + 1].bits = Slots(t)
    BY <1>5, <1>6 DEF Mask
  <2>2. todo' = [NothingToDo EXCEPT !.slots = ss]
    BY <1>9, <2>1
  <2> HIDE DEF ss
  <2>3. [NothingToDo EXCEPT !.slots = ss] = Todo(0, ss, <<>>, 0)
    BY DEF NothingToDo, Todo
  <2> QED
    BY <2>2, <2>3 DEF ss
<1>12. /\ TodoIs' /\ todo'.slot = 0 /\ todo'.slots = Ascending(Slots(t)) /\ todo'.children = <<>>
  <2> DEFINE ss == Ascending(Slots(t))
             e == <<>>
  <2>1. todo' = Todo(0, ss, e, 0)
    BY <1>11
  <2> HIDE DEF ss, e
  <2>2. TodoIs' /\ todo'.slot = 0 /\ todo'.slots = ss /\ todo'.children = e
    BY <2>1, TodoNext
  <2> QED
    BY <2>2 DEF ss, e
<1>13. Within(descriptor, pos')
  <2>1. pos' \in Nat /\ pos' <= Len(file) + 1
    BY <1>5, <1>6, <1>10
  <2> HIDE DEF l
  <2> QED
    BY <1>2, <2>1, WithinBy DEF at, l
<1>14. pos' # 0 /\ ReadTopology(file, pos', file[descriptor].blockPos, trees[grid], leaves[grid],
                                todo'.slot, todo'.children, todo'.slots)
  BY <1>4, <1>5, <1>6, <1>10, <1>12 DEF at, t
<1>15. leaves' = [leaves EXCEPT ![grid] = leaves[grid]] /\ stage' \in {"readTopology", "readData"}
       /\ ~ (stage' = "readData")
  BY <1>4, <1>9
<1>16. UNCHANGED <<built, file, descriptor, grid>>
       /\ stage \in {"readGrid", "readTopology", "readData"}
  BY <1>1, <1>9
<1>17. leaves[grid] \in Seq(LeafReads(trees[grid]))
  BY <1>4 DEF t
<1> QED
  BY <1>12, <1>13, <1>14, <1>15, <1>16, <1>17, GridStep

LEMMA ReadInternalStep ==
    ASSUME Inductive, ReadInternal
    PROVE  Inductive'
<1> DEFINE t == trees[grid]
           at == pos
           l == Len(file)
           block == file[descriptor].blockPos
           ls == leaves[grid]
           ss == todo.slots
           o == ss[1]
           cs == Ascending(Children(t, o))
           tt == Tail(ss)
<1>1. stage = "readTopology" /\ todo.children = <<>> /\ ss # <<>>
  BY DEF ReadInternal
<1>2. /\ count \in Nat /\ grid \in 1..count /\ l \in Nat /\ GoodTree(t)
      /\ descriptor \in Nat \ {0} /\ descriptor <= l /\ TypeOK
      /\ LeavesAre(leaves, trees, grid, stage # "readGrid")
  BY <1>1, ReaderIs
<1>3. block \in Nat
  <2>1. PICK d : Segment(file, t, descriptor, d[grid + 1])
    BY <1>1, ReaderIs
  <2> DEFINE next == d[grid + 1]
  <2>2. Segment(file, t, descriptor, next) /\ descriptor \in Nat
    BY <1>2, <2>1
  <2> HIDE DEF next, t
  <2> QED
    BY <1>2, <2>2, RootRead
<1>4. leaves = [leaves EXCEPT ![grid] = ls] /\ ls \in Seq(LeafReads(t))
  <2> DEFINE started == stage # "readGrid"
  <2>1. LeavesAre(leaves, trees, grid, started)
    BY <1>2
  <2> HIDE DEF started
  <2> QED
    BY <1>2, <2>1, LeavesNow
<1>5. at # 0 /\ ReadTopology(file, at, block, t, ls, todo.slot, <<>>, ss)
  BY <1>1, <1>2, ReaderIs DEF Inductive, ReadSoFar
<1>6. at \in Nat \ {0}
  BY <1>2, <1>5 DEF TypeOK
<1> HIDE DEF t, at, l, block, ls, ss, o, cs, tt
<1>7. /\ file[at] = Mask(Children(t, o)) /\ file[at + 1] = Mask({}) /\ at + 2 <= l + 1
      /\ ReadTopology(file, at + 2, block, t, ls, o, cs, tt)
      /\ ss \in Seq(Slots(t))
  <2> DEFINE s == todo.slot
             R == LeafReads(t)
  <2>1. ReadTopology(file, at, block, t, ls, s, <<>>, ss) /\ ss # <<>> /\ at \in Nat
        /\ Len(file) \in Nat /\ ls \in Seq(R)
    BY <1>1, <1>2, <1>4, <1>5, <1>6 DEF l
  <2> HIDE DEF s, R
  <2>2. /\ file[at] = Mask(Children(t, o)) /\ file[at + 1] = Mask({}) /\ at + 2 <= Len(file) + 1
        /\ ReadTopology(file, at + 2, block, t, ls, o, cs, tt)
    BY <1>2, <1>3, <2>1, InternalRead DEF o, cs, tt
  <2>3. ss \in Seq(Slots(t))
    BY <2>1 DEF ReadTopology
  <2> QED
    BY <2>2, <2>3 DEF l
<1>8. Found(at, "mask") /\ Found(at + 1, "mask")
  <2>1. at + 0 = at /\ 0 \in 0..(2 - 1) /\ 1 \in 0..(2 - 1) /\ 2 \in Nat \ {0}
    BY <1>6
  <2>2. file[at + 0].item = "mask" /\ file[at + 1].item = "mask"
    BY <1>7, <2>1 DEF Mask
  <2>3. Found(at + 0, "mask") /\ Found(at + 1, "mask")
    BY <1>2, <1>6, <1>7, <2>1, <2>2, FoundBy DEF l
  <2> QED
    BY <2>1, <2>3
<1>9. /\ todo' = [todo EXCEPT !.slot = Head(todo.slots), !.slots = Tail(@),
                              !.children = Ascending(file[pos].bits)]
      /\ pos' = pos + 2
      /\ UNCHANGED <<built, file, descriptor, stage, grid, leaves>>
  BY <1>8 DEF ReadInternal, at
<1>10. todo' = Todo(o, tt, cs, todo.leaf)
  <2> DEFINE n == todo.leaf
             s == todo.slot
             c == todo.children
  <2>1. Head(ss) = o /\ file[pos].bits = Children(t, o)
    BY <1>1, <1>7 DEF o, Mask, at
  <2>2. todo' = [[[todo EXCEPT !.slot = o] EXCEPT !.slots = tt] EXCEPT !.children = cs]
    BY <1>9, <2>1 DEF ss, tt, cs
  <2>3. todo = Todo(s, ss, c, n)
    BY TodoNow DEF Inductive, ss
  <2> HIDE DEF s, c, n
  <2>4. [Todo(s, ss, c, n) EXCEPT !.slot = o] = Todo(o, ss, c, n)
    BY DEF Todo
  <2>5. [Todo(o, ss, c, n) EXCEPT !.slots = tt] = Todo(o, tt, c, n)
    BY DEF Todo
  <2>6. [Todo(o, tt, c, n) EXCEPT !.children = cs] = Todo(o, tt, cs, n)
    BY DEF Todo
  <2>7. todo' = Todo(o, tt, cs, n)
    BY <2>2, <2>3, <2>4, <2>5, <2>6, Zenon
  <2> QED
    BY <2>7 DEF n
<1>11. TodoIs' /\ todo'.slot = o /\ todo'.slots = tt /\ todo'.children = cs
  <2> DEFINE n == todo.leaf
  <2>1. todo' = Todo(o, tt, cs, n)
    BY <1>10
  <2> HIDE DEF n
  <2> QED
    BY <2>1, TodoNext
<1>12. pos' = at + 2
  BY <1>9 DEF at
<1>13. Within(descriptor, pos')
  <2>1. pos' \in Nat /\ pos' <= Len(file) + 1
    BY <1>6, <1>7, <1>12 DEF l
  <2> QED
    BY <1>2, <2>1, WithinBy DEF l
<1>14. pos' # 0 /\ ReadTopology(file, pos', file[descriptor].blockPos, trees[grid], ls,
                                todo'.slot, todo'.children, todo'.slots)
  BY <1>6, <1>7, <1>11, <1>12 DEF block, t
<1>15. leaves' = [leaves EXCEPT ![grid] = ls] /\ stage' = "readTopology"
       /\ ls \in Seq(LeafReads(trees[grid]))
  BY <1>1, <1>4, <1>9 DEF t
<1>16. UNCHANGED <<built, file, descriptor, grid>> /\ ~ (stage' = "readData")
       /\ stage \in {"readGrid", "readTopology", "readData"}
       /\ stage' \in {"readTopology", "readData"}
  BY <1>1, <1>9, <1>15
<1> QED
  BY <1>11, <1>13, <1>14, <1>15, <1>16, GridStep

LEMMA ReadLeafMaskStep ==
    ASSUME Inductive, ReadLeafMask
    PROVE  Inductive'
<1> DEFINE t == trees[grid]
           at == pos
           l == Len(file)
           block == file[descriptor].blockPos
           ls == leaves[grid]
           ss == todo.slots
           s == todo.slot
           cs == todo.children
           o == cs[1]
           tt == Tail(cs)
           p == <<s, o>>
           r == [origin |-> Origin(s, o), mask |-> DOMAIN t[p], values |-> <<>>]
           rs == Append(ls, r)
<1>1. stage = "readTopology" /\ cs # <<>>
  BY DEF ReadLeafMask
<1>2. /\ count \in Nat /\ grid \in 1..count /\ l \in Nat /\ GoodTree(t)
      /\ descriptor \in Nat \ {0} /\ descriptor <= l /\ TypeOK
      /\ LeavesAre(leaves, trees, grid, stage # "readGrid")
  BY <1>1, ReaderIs
<1>3. block \in Nat
  <2>1. PICK d : Segment(file, t, descriptor, d[grid + 1])
    BY <1>1, ReaderIs
  <2> DEFINE next == d[grid + 1]
  <2>2. Segment(file, t, descriptor, next) /\ descriptor \in Nat
    BY <1>2, <2>1
  <2> HIDE DEF next, t
  <2> QED
    BY <1>2, <2>2, RootRead
<1>4. ls \in Seq(LeafReads(t))
  <2> DEFINE started == stage # "readGrid"
  <2>1. LeavesAre(leaves, trees, grid, started)
    BY <1>2
  <2> HIDE DEF started
  <2> QED
    BY <1>2, <2>1, LeavesNow
<1>5. at # 0 /\ ReadTopology(file, at, block, t, ls, s, cs, ss)
  BY <1>1, <1>2, ReaderIs DEF Inductive, ReadSoFar
<1>6. at \in Nat \ {0}
  BY <1>2, <1>5 DEF TypeOK
<1> HIDE DEF t, at, l, block, ls, ss, s, cs
<1>7. o \in Children(t, s) /\ cs \in Seq(Children(t, s))
  <2>1. cs \in Seq(Children(t, s))
    BY <1>5 DEF ReadTopology
  <2> QED
    BY <1>1, <2>1
<1> HIDE DEF o, tt
<1>8. p \in DOMAIN t /\ p[1] = s /\ p[2] = o
  BY <1>2, <1>7, ChildrenAre
<1> HIDE DEF p
<1>9. r \in LeafReads(t)
  <2>1. Origin(s, o) \in {Origin(q[1], q[2]) : q \in DOMAIN t}
    BY <1>8
  <2>2. DOMAIN t[p] \in {DOMAIN t[q] : q \in DOMAIN t}
    BY <1>8
  <2> DEFINE a == Origin(s, o)
             b == DOMAIN t[p]
             A == {Origin(q[1], q[2]) : q \in DOMAIN t}
             B == {DOMAIN t[q] : q \in DOMAIN t}
             C == {<<>>} \cup {Leaf(t[q]).values : q \in DOMAIN t}
  <2>3. a \in A /\ b \in B /\ <<>> \in C
    BY <2>1, <2>2
  <2>4. LeafReads(t) = [origin : A, mask : B, values : C]
    BY DEF LeafReads
  <2>5. r = [origin |-> a, mask |-> b, values |-> <<>>]
    OBVIOUS
  <2> HIDE DEF a, b, A, B, C, r
  <2> QED
    BY <2>3, <2>4, <2>5
<1>10. r.origin = Origin(s, o) /\ r.mask = DOMAIN t[p]
  OBVIOUS
<1> HIDE DEF r
<1>11. /\ file[at] = Mask(DOMAIN t[p]) /\ at + 1 <= l + 1
       /\ ReadTopology(file, at + 1, block, t, rs, s, tt, ss)
  <2> DEFINE R == LeafReads(t)
  <2>1. ReadTopology(file, at, block, t, ls, s, cs, ss) /\ cs # <<>> /\ at \in Nat
        /\ Len(file) \in Nat /\ ls \in Seq(R) /\ r \in R
    BY <1>1, <1>2, <1>4, <1>5, <1>6, <1>9 DEF l
  <2>2. r.origin = Origin(s, cs[1]) /\ r.mask = DOMAIN t[<<s, cs[1]>>]
    BY <1>10 DEF o, p
  <2> HIDE DEF R, rs
  <2>3. /\ file[at] = Mask(DOMAIN t[<<s, cs[1]>>]) /\ at + 1 <= Len(file) + 1
        /\ ReadTopology(file, at + 1, block, t, Append(ls, r), s, Tail(cs), ss)
    BY <1>2, <1>3, <2>1, <2>2, LeafMaskRead
  <2> QED
    BY <2>3 DEF l, p, o, rs, tt
<1>12. Found(at, "mask") /\ file[at].bits = DOMAIN t[p]
  <2>1. at + 0 = at /\ 0 \in 0..(1 - 1) /\ 1 \in Nat \ {0}
    BY <1>6
  <2>2. file[at + 0].item = "mask" /\ file[at].bits = DOMAIN t[p]
    BY <1>11, <2>1 DEF Mask
  <2>3. Found(at + 0, "mask")
    BY <1>2, <1>6, <1>11, <2>1, <2>2, FoundBy DEF l
  <2> QED
    BY <2>1, <2>2, <2>3
<1>13. /\ leaves' = [leaves EXCEPT ![grid] = Append(@,
               [origin |-> Origin(todo.slot, Head(todo.children)),
                mask |-> file[pos].bits, values |-> <<>>])]
       /\ todo' = [todo EXCEPT !.children = Tail(@)]
       /\ pos' = pos + 1
       /\ UNCHANGED <<built, file, descriptor, stage, grid>>
  BY <1>12 DEF ReadLeafMask, at
<1>14. leaves' = [leaves EXCEPT ![grid] = rs]
  <2>1. Head(cs) = o /\ file[pos].bits = DOMAIN t[p]
    BY <1>1, <1>7, <1>12 DEF o, at
  <2>2. leaves' = [leaves EXCEPT ![grid] = Append(ls,
               [origin |-> Origin(s, Head(cs)), mask |-> file[pos].bits, values |-> <<>>])]
    BY <1>13 DEF ls, s, cs
  <2> QED
    BY <2>1, <2>2 DEF r
<1>15. todo' = Todo(s, ss, tt, todo.leaf)
  <2> DEFINE n == todo.leaf
  <2>1. todo = Todo(s, ss, cs, n)
    BY TodoNow DEF Inductive, ss, s, cs
  <2>2. todo' = [todo EXCEPT !.children = tt]
    BY <1>13 DEF tt, cs
  <2> HIDE DEF n
  <2>3. [Todo(s, ss, cs, n) EXCEPT !.children = tt] = Todo(s, ss, tt, n)
    BY DEF Todo
  <2>4. todo' = Todo(s, ss, tt, n)
    BY <2>1, <2>2, <2>3, Zenon
  <2> QED
    BY <2>4 DEF n
<1>16. TodoIs' /\ todo'.slot = s /\ todo'.slots = ss /\ todo'.children = tt
  <2> DEFINE n == todo.leaf
  <2>1. todo' = Todo(s, ss, tt, n)
    BY <1>15
  <2> HIDE DEF n
  <2> QED
    BY <2>1, TodoNext
<1>17. pos' = at + 1
  BY <1>13 DEF at
<1>18. Within(descriptor, pos')
  <2>1. pos' \in Nat /\ pos' <= Len(file) + 1
    BY <1>6, <1>11, <1>17 DEF l
  <2> QED
    BY <1>2, <2>1, WithinBy DEF l
<1>19. pos' # 0 /\ ReadTopology(file, pos', file[descriptor].blockPos, trees[grid], rs,
                                todo'.slot, todo'.children, todo'.slots)
  BY <1>6, <1>11, <1>16, <1>17 DEF block, t
<1>20. stage' = "readTopology" /\ rs \in Seq(LeafReads(trees[grid]))
  BY <1>1, <1>4, <1>9, <1>13 DEF t
<1>21. UNCHANGED <<built, file, descriptor, grid>> /\ ~ (stage' = "readData")
       /\ stage \in {"readGrid", "readTopology", "readData"}
       /\ stage' \in {"readTopology", "readData"}
  BY <1>1, <1>13, <1>20
<1> HIDE DEF rs
<1> QED
  BY <1>14, <1>16, <1>18, <1>19, <1>20, <1>21, GridStep

LEMMA EndTopologyStep ==
    ASSUME Inductive, EndTopology
    PROVE  Inductive'
<1> DEFINE t == trees[grid]
           l == Len(file)
           block == file[descriptor].blockPos
           ls == leaves[grid]
<1>1. /\ stage = "readTopology" /\ todo.children = <<>> /\ todo.slots = <<>>
      /\ pos' = block /\ todo' = [todo EXCEPT !.leaf = 1] /\ stage' = "readData"
      /\ UNCHANGED <<built, file, descriptor, grid, leaves>>
  BY DEF EndTopology
<1>2. /\ count \in Nat /\ grid \in 1..count /\ l \in Nat /\ GoodTree(t)
      /\ descriptor \in Nat \ {0} /\ descriptor <= l /\ TypeOK
      /\ LeavesAre(leaves, trees, grid, stage # "readGrid")
  BY <1>1, ReaderIs
<1>3. block \in Nat \ {0} /\ block <= l + 1
  <2>1. PICK d : Segment(file, t, descriptor, d[grid + 1])
    BY <1>1, ReaderIs
  <2> DEFINE next == d[grid + 1]
  <2>2. Segment(file, t, descriptor, next) /\ descriptor \in Nat
    BY <1>2, <2>1
  <2> HIDE DEF next, t
  <2> QED
    BY <1>2, <2>2, RootRead
<1>4. leaves = [leaves EXCEPT ![grid] = ls] /\ ls \in Seq(LeafReads(t))
  <2> DEFINE started == stage # "readGrid"
  <2>1. LeavesAre(leaves, trees, grid, started)
    BY <1>2
  <2> HIDE DEF started
  <2> QED
    BY <1>2, <2>1, LeavesNow
<1>5. ReadTopology(file, pos, block, t, ls, todo.slot, <<>>, <<>>)
  BY <1>1, <1>2, ReaderIs DEF Inductive, ReadSoFar
<1>6. ReadData(file, block, block, t, ls, 1)
  <2> DEFINE s == todo.slot
             R == LeafReads(t)
  <2>1. ReadTopology(file, pos, block, t, ls, s, <<>>, <<>>) /\ block \in Nat /\ ls \in Seq(R)
    BY <1>3, <1>4, <1>5
  <2> HIDE DEF s, R, block, t, ls
  <2> QED
    BY <2>1, TopologyRead
<1> HIDE DEF l, ls, t, block
<1>7. todo' = Todo(todo.slot, todo.slots, todo.children, 1)
  <2> DEFINE n == todo.leaf
             s == todo.slot
             ss == todo.slots
             cs == todo.children
  <2>1. todo = Todo(s, ss, cs, n)
    BY TodoNow DEF Inductive
  <2>2. todo' = [todo EXCEPT !.leaf = 1]
    BY <1>1
  <2> HIDE DEF s, ss, cs, n
  <2>3. [Todo(s, ss, cs, n) EXCEPT !.leaf = 1] = Todo(s, ss, cs, 1)
    BY DEF Todo
  <2>4. todo' = Todo(s, ss, cs, 1)
    BY <2>1, <2>2, <2>3, Zenon
  <2> QED
    BY <2>4 DEF s, ss, cs
<1>8. TodoIs' /\ todo'.leaf = 1
  <2> DEFINE s == todo.slot
             ss == todo.slots
             cs == todo.children
  <2>1. todo' = Todo(s, ss, cs, 1)
    BY <1>7
  <2> HIDE DEF s, ss, cs
  <2> QED
    BY <2>1, TodoNext
<1>9. Within(descriptor, pos')
  BY <1>1, <1>2, <1>3, WithinBy DEF l
<1>10. ReadData(file, pos', file[descriptor].blockPos, trees[grid], ls, todo'.leaf)
  BY <1>1, <1>6, <1>8 DEF block, t
<1>11. leaves' = [leaves EXCEPT ![grid] = ls] /\ ls \in Seq(LeafReads(trees[grid]))
  BY <1>1, <1>4 DEF t
<1>12. UNCHANGED <<built, file, descriptor, grid>> /\ ~ (stage' = "readTopology")
       /\ stage \in {"readGrid", "readTopology", "readData"}
       /\ stage' \in {"readTopology", "readData"}
  BY <1>1
<1> QED
  BY <1>8, <1>9, <1>10, <1>11, <1>12, GridStep

LEMMA ReadLeafStep ==
    ASSUME Inductive, ReadLeaf
    PROVE  Inductive'
<1> DEFINE t == trees[grid]
           at == pos
           l == Len(file)
           block == file[descriptor].blockPos
           ls == leaves[grid]
           n == todo.leaf
           v == file[at + 1].values
           r == [ls[n] EXCEPT !.values = v]
           rs == [ls EXCEPT ![n] = r]
<1>1. stage = "readData" /\ n <= Len(ls)
  BY DEF ReadLeaf
<1>2. /\ count \in Nat /\ grid \in 1..count /\ l \in Nat /\ GoodTree(t)
      /\ descriptor \in Nat \ {0} /\ descriptor <= l /\ TypeOK
      /\ LeavesAre(leaves, trees, grid, stage # "readGrid")
  BY <1>1, ReaderIs
<1>3. block \in Nat \ {0}
  <2>1. PICK d : Segment(file, t, descriptor, d[grid + 1])
    BY <1>1, ReaderIs
  <2> DEFINE next == d[grid + 1]
  <2>2. Segment(file, t, descriptor, next) /\ descriptor \in Nat
    BY <1>2, <2>1
  <2> HIDE DEF next, t
  <2> QED
    BY <1>2, <2>2, RootRead
<1>4. ls \in Seq(LeafReads(t)) /\ DOMAIN leaves = 1..count
  <2> DEFINE started == stage # "readGrid"
  <2>1. LeavesAre(leaves, trees, grid, started)
    BY <1>2
  <2> HIDE DEF started
  <2> QED
    BY <1>2, <2>1, LeavesNow
<1>5. ReadData(file, at, block, t, ls, n)
  BY <1>1, <1>2, ReaderIs DEF Inductive, ReadSoFar
<1> HIDE DEF t, at, l, block, ls, n
<1>6. /\ n \in 1..(Len(ls) + 1) /\ at = block + 2 * n - 2
      /\ \A k \in 1..Len(ls) : \E p \in DOMAIN t : LeafIn(ls[k], file, block + 2 * k - 2, t, p, k < n)
  BY <1>5 DEF ReadData
<1>7. n \in 1..Len(ls) /\ at \in Nat \ {0} /\ n \in Nat
  <2> DEFINE m == Len(ls)
  <2>1. m \in Nat /\ n \in 1..(m + 1) /\ n <= m /\ at = block + 2 * n - 2 /\ block \in Nat \ {0}
    BY <1>1, <1>3, <1>4, <1>6
  <2> HIDE DEF m
  <2>2. n \in 1..m /\ at \in Nat \ {0} /\ n \in Nat
    BY <2>1
  <2> QED
    BY <2>2 DEF m
<1>8. PICK p \in DOMAIN t : /\ file[at] = Mask(DOMAIN t[p]) /\ file[at + 1] = Leaf(t[p])
                            /\ at + 2 <= l + 1
  <2>1. PICK p \in DOMAIN t : LeafIn(ls[n], file, block + 2 * n - 2, t, p, n < n)
    BY <1>6, <1>7
  <2>2. LeafFrom(ls[n], file, at, t, p)
    BY <1>6, <2>1 DEF LeafIn
  <2> QED
    BY <2>2 DEF LeafFrom, l
<1>9. v = Leaf(t[p]).values
  BY <1>8
<1> HIDE DEF v
<1>10. r \in LeafReads(t) /\ r.origin = ls[n].origin /\ r.mask = ls[n].mask /\ r.values = v
  <2> DEFINE A == {Origin(q[1], q[2]) : q \in DOMAIN t}
             B == {DOMAIN t[q] : q \in DOMAIN t}
             C == {<<>>} \cup {Leaf(t[q]).values : q \in DOMAIN t}
             x == ls[n]
  <2>1. LeafReads(t) = [origin : A, mask : B, values : C]
    BY DEF LeafReads
  <2>2. v \in C
    BY <1>9
  <2>3. x \in LeafReads(t)
    BY <1>4, <1>7
  <2>4. r = [x EXCEPT !.values = v]
    OBVIOUS
  <2> HIDE DEF A, B, C, x, r
  <2>5. r \in LeafReads(t) /\ r.origin = x.origin /\ r.mask = x.mask /\ r.values = v
    BY <2>1, <2>2, <2>3, <2>4
  <2> QED
    BY <2>5 DEF x
<1> HIDE DEF r
<1>11. /\ rs \in Seq(LeafReads(t)) /\ Len(rs) = Len(ls)
       /\ rs[n] = r /\ \A k \in 1..Len(ls) : k # n => rs[k] = ls[k]
  <2> DEFINE R == LeafReads(t)
  <2>1. ls \in Seq(R) /\ r \in R
    BY <1>4, <1>10
  <2> HIDE DEF R
  <2>2. rs \in Seq(R) /\ Len(rs) = Len(ls)
    BY <1>7, <2>1, SeqExcept
  <2>3. DOMAIN ls = 1..Len(ls)
    BY <2>1
  <2>4. rs[n] = r /\ \A k \in 1..Len(ls) : k # n => rs[k] = ls[k]
    BY <1>7, <2>3
  <2> QED
    BY <2>2, <2>4 DEF R
<1> HIDE DEF rs
<1>12. ReadData(file, at + 2, block, t, rs, n + 1)
  <2> DEFINE R == LeafReads(t)
  <2>1. ls \in Seq(R) /\ rs \in Seq(R) /\ Len(rs) = Len(ls) /\ n <= Len(ls)
        /\ \A k \in 1..Len(ls) : k # n => rs[k] = ls[k]
    BY <1>1, <1>4, <1>11
  <2>2. rs[n].origin = ls[n].origin /\ rs[n].mask = ls[n].mask
        /\ rs[n].values = file[at + 1].values
    BY <1>10, <1>11 DEF v
  <2>3. Len(file) \in Nat /\ at \in Nat /\ block \in Nat
    BY <1>2, <1>3, <1>7 DEF l
  <2> HIDE DEF R
  <2> QED
    BY <1>2, <1>5, <2>1, <2>2, <2>3, BlockRead
<1>13. Found(at, "mask") /\ Found(at + 1, "leaf")
  <2>1. at + 0 = at /\ 0 \in 0..(2 - 1) /\ 1 \in 0..(2 - 1) /\ 2 \in Nat \ {0}
    BY <1>7
  <2>2. file[at].item = "mask"
    BY <1>8 DEF Mask
  <2>3. file[at + 1].item = "leaf"
    BY <1>2, <1>8, LeafIs
  <2>4. Found(at + 0, "mask") /\ Found(at + 1, "leaf")
    BY <1>2, <1>7, <1>8, <2>1, <2>2, <2>3, FoundBy DEF l
  <2> QED
    BY <2>1, <2>4
<1>14. /\ leaves' = [leaves EXCEPT ![grid][todo.leaf].values = file[pos + 1].values]
       /\ todo' = [todo EXCEPT !.leaf = @ + 1]
       /\ pos' = pos + 2
       /\ UNCHANGED <<built, file, descriptor, stage, grid>>
  BY <1>13 DEF ReadLeaf, at
<1>15. leaves' = [leaves EXCEPT ![grid] = rs]
  <2>1. leaves' = [leaves EXCEPT ![grid][n].values = v]
    BY <1>14 DEF n, v, at
  <2> QED
    BY <1>2, <1>4, <1>7, <2>1 DEF rs, r, ls
<1>16. todo' = Todo(todo.slot, todo.slots, todo.children, n + 1)
  <2> DEFINE s == todo.slot
             ss == todo.slots
             cs == todo.children
             m == n + 1
  <2>1. todo = Todo(s, ss, cs, n)
    BY TodoNow DEF Inductive, n
  <2>2. todo' = [todo EXCEPT !.leaf = m]
    BY <1>14 DEF n
  <2> HIDE DEF s, ss, cs, m
  <2>3. [Todo(s, ss, cs, n) EXCEPT !.leaf = m] = Todo(s, ss, cs, m)
    BY DEF Todo
  <2>4. todo' = Todo(s, ss, cs, m)
    BY <2>1, <2>2, <2>3, Zenon
  <2> QED
    BY <2>4 DEF s, ss, cs, m
<1>17. TodoIs' /\ todo'.leaf = n + 1
  <2> DEFINE s == todo.slot
             ss == todo.slots
             cs == todo.children
             m == n + 1
  <2>1. todo' = Todo(s, ss, cs, m)
    BY <1>16
  <2> HIDE DEF s, ss, cs, m
  <2>2. TodoIs' /\ todo'.leaf = m
    BY <2>1, TodoNext
  <2> QED
    BY <2>2 DEF m
<1>18. pos' = at + 2
  BY <1>14 DEF at
<1>19. Within(descriptor, pos')
  <2>1. pos' \in Nat /\ pos' <= Len(file) + 1
    BY <1>7, <1>8, <1>18 DEF l
  <2> QED
    BY <1>2, <2>1, WithinBy DEF l
<1>20. ReadData(file, pos', file[descriptor].blockPos, trees[grid], rs, todo'.leaf)
  BY <1>12, <1>17, <1>18 DEF block, t
<1>21. stage' = "readData" /\ rs \in Seq(LeafReads(trees[grid]))
  BY <1>1, <1>11, <1>14 DEF t
<1>22. UNCHANGED <<built, file, descriptor, grid>> /\ ~ (stage' = "readTopology")
       /\ stage \in {"readGrid", "readTopology", "readData"}
       /\ stage' \in {"readTopology", "readData"}
  BY <1>1, <1>14, <1>21
<1> QED
  BY <1>15, <1>17, <1>19, <1>20, <1>21, <1>22, GridStep

LEMMA EndDataStep ==
    ASSUME Inductive, EndData
    PROVE  Inductive'
<1> DEFINE t == trees[grid]
           l == Len(file)
           ls == leaves[grid]
<1>1. /\ stage = "readData" /\ todo.leaf > Len(ls)
      /\ IF grid < Len(leaves)
         THEN /\ grid' = grid + 1 /\ descriptor' = file[descriptor].endPos
              /\ stage' = "readGrid"
         ELSE stage' = "read" /\ UNCHANGED <<grid, descriptor>>
      /\ todo' = NothingToDo /\ UNCHANGED <<built, file, pos, leaves>>
  BY DEF EndData
<1>2. /\ Reading /\ count \in Nat /\ grid \in 1..count /\ l \in Nat /\ GoodTree(t)
      /\ descriptor \in Nat \ {0} /\ descriptor <= l /\ TypeOK
      /\ LeavesAre(leaves, trees, grid, stage # "readGrid")
  BY <1>1, ReaderIs
<1>3. PICK d : /\ Laid(file, trees, d, count + 1) /\ descriptor = d[grid]
               /\ Segment(file, t, descriptor, d[grid + 1])
  BY <1>1, ReaderIs
<1> DEFINE next == d[grid + 1]
<1>4. file[descriptor].endPos = next
  <2>1. Segment(file, t, descriptor, next) /\ descriptor \in Nat
    BY <1>2, <1>3
  <2> HIDE DEF next, t
  <2> QED
    BY <1>2, <2>1, RootRead
<1>5. /\ leaves = [h \in 1..count |-> leaves[h]]
      /\ \A h \in 1..count : /\ leaves[h] \in Seq(LeafReads(trees[h]))
                             /\ h < grid => ReadGrid(leaves[h], trees[h])
                             /\ h > grid => leaves[h] = <<>>
  BY <1>2 DEF LeavesAre
<1>6. ReadGrid(leaves[grid], trees[grid])
  <2> DEFINE R == LeafReads(t)
             n == todo.leaf
             block == file[descriptor].blockPos
  <2>1. ReadData(file, pos, block, t, ls, n) /\ n > Len(ls)
    BY <1>1, <1>2 DEF Inductive, ReadSoFar
  <2>2. ls \in Seq(R)
    BY <1>2, <1>5
  <2> HIDE DEF R, n, block, t, ls
  <2>3. ReadGrid(ls, t)
    BY <2>1, <2>2, DataRead
  <2> QED
    BY <2>3 DEF t, ls
<1>7. Len(leaves) = count
  BY <1>2, <1>5
<1>8. dims' = dims /\ count' = count /\ trees' = trees /\ file' = file /\ leaves' = leaves
      /\ pos' = pos
  BY <1>1 DEF built
<1>9. TodoIs'
  <2>1. todo' = Todo(0, <<>>, <<>>, 0)
    BY <1>1 DEF NothingToDo, Todo
  <2> QED
    BY <2>1, TodoNext
<1>10. pos \in 0..(l + 1) /\ descriptor \in 0..l
  BY <1>2 DEF TypeOK
<1>11. CASE grid < count
  <2>1. grid' = grid + 1 /\ descriptor' = next /\ stage' = "readGrid"
    BY <1>1, <1>4, <1>7, <1>11
  <2>2. grid + 1 \in 1..count
    BY <1>2, <1>11
  <2>3. next \in Nat /\ next <= l
    <3> DEFINE u == trees[grid + 1]
               last == d[(grid + 1) + 1]
    <3>1. Segment(file, u, next, last) /\ next \in Nat
      <4>1. /\ \A g \in 1..(count + 1) : d[g] \in Nat
            /\ \A g \in 1..((count + 1) - 1) : Segment(file, trees[g], d[g], d[g + 1])
        BY <1>3 DEF Laid
      <4>2. grid + 1 \in 1..(count + 1) /\ grid + 1 \in 1..((count + 1) - 1)
        BY <1>2, <2>2
      <4> QED
        BY <4>1, <4>2
    <3>2. GoodTree(u)
      BY <1>2, <2>2, FieldTrees
    <3> HIDE DEF u, last, next
    <3>3. next + 4 <= Len(file) + 1
      BY <1>2, <3>1, <3>2, RootRead
    <3>4. next + 4 <= l + 1
      BY <3>3
    <3> HIDE DEF l
    <3> QED
      BY <1>2, <3>1, <3>4
  <2>4. Within(descriptor', pos')
    BY <1>2, <1>8, <1>10, <2>1, <2>3 DEF Within
  <2>5. /\ TypeOK' /\ stage' # "malformed" /\ NothingOverlaps' /\ NotBegun'
        /\ BuiltSoFar' /\ TreesAreTheField' /\ WrittenSoFar'
    <3>1. grid' \in 1..count /\ UNCHANGED <<built, file>>
          /\ stage' \in {"readGrid", "readTopology", "readData", "read"}
      BY <1>1, <2>1, <2>2
    <3> QED
      BY <1>2, <2>4, <3>1, ReadingKeeps
  <2>6. ReadSoFar'
    <3>1. Laid(file', trees', d, count' + 1) /\ descriptor' = d[grid']
      BY <1>3, <1>8, <2>1
    <3>2. leaves' = [g \in 1..count' |-> leaves'[g]]
      BY <1>5, <1>8
    <3>3. ASSUME NEW g \in 1..count
          PROVE  /\ leaves[g] \in Seq(LeafReads(trees[g]))
                 /\ g < grid + 1 => ReadGrid(leaves[g], trees[g])
                 /\ g > grid + 1 \/ g = grid + 1 => leaves[g] = <<>>
      <4>1. g < grid + 1 => g < grid \/ g = grid
        BY <1>2
      <4>2. g > grid + 1 \/ g = grid + 1 => g > grid
        BY <1>2
      <4> QED
        BY <1>5, <1>6, <4>1, <4>2
    <3>4. \A g \in 1..count' :
              /\ leaves'[g] \in Seq(LeafReads(trees'[g]))
              /\ g < grid' \/ stage' = "read" => ReadGrid(leaves'[g], trees'[g])
              /\ g > grid' \/ (g = grid' /\ stage' = "readGrid") => leaves'[g] = <<>>
      BY <1>8, <2>1, <3>3
    <3> QED
      BY <2>1, <3>1, <3>2, <3>4 DEF ReadSoFar
  <2> QED
    BY <1>9, <2>5, <2>6 DEF Inductive
<1>12. CASE ~ (grid < count)
  <2>1. grid' = grid /\ descriptor' = descriptor /\ stage' = "read" /\ grid = count
    BY <1>1, <1>2, <1>7, <1>12
  <2>2. Within(descriptor', pos')
    BY <1>8, <1>10, <2>1 DEF Within
  <2>3. /\ TypeOK' /\ stage' # "malformed" /\ NothingOverlaps' /\ NotBegun'
        /\ BuiltSoFar' /\ TreesAreTheField' /\ WrittenSoFar'
    <3>1. grid' \in 1..count /\ UNCHANGED <<built, file>>
          /\ stage' \in {"readGrid", "readTopology", "readData", "read"}
      BY <1>1, <1>2, <2>1
    <3> QED
      BY <1>2, <2>2, <3>1, ReadingKeeps
  <2>4. ReadSoFar'
    <3>1. Laid(file', trees', d, count' + 1) /\ descriptor' = d[grid']
      BY <1>3, <1>8, <2>1
    <3>2. leaves' = [g \in 1..count' |-> leaves'[g]]
      BY <1>5, <1>8
    <3>3. ASSUME NEW g \in 1..count
          PROVE  /\ leaves[g] \in Seq(LeafReads(trees[g])) /\ ReadGrid(leaves[g], trees[g])
                 /\ ~ (g > grid)
      <4>1. ~ (g > grid) /\ (g < grid \/ g = grid)
        BY <1>2, <2>1
      <4> QED
        BY <1>5, <1>6, <4>1
    <3>4. \A g \in 1..count' :
              /\ leaves'[g] \in Seq(LeafReads(trees'[g]))
              /\ g < grid' \/ stage' = "read" => ReadGrid(leaves'[g], trees'[g])
              /\ g > grid' \/ (g = grid' /\ stage' = "readGrid") => leaves'[g] = <<>>
      BY <1>8, <2>1, <3>3
    <3> QED
      BY <2>1, <3>1, <3>2, <3>4 DEF ReadSoFar
  <2> QED
    BY <1>9, <2>3, <2>4 DEF Inductive
<1> QED
  BY <1>11, <1>12

LEMMA StepInductive ==
    ASSUME Inductive, [Next]_vars
    PROVE  Inductive'
<1>1. CASE Write
  BY <1>1, CheckStep, AddVoxelStep, TreeBuiltStep, DescribeStep, WriteTopologyStep, WriteDataStep
     DEF Write
<1>2. CASE ReadBack
  BY <1>2, OpenStep, ReadRootStep, ReadInternalStep, ReadLeafMaskStep, EndTopologyStep,
     ReadLeafStep, EndDataStep DEF ReadBack
<1>3. CASE UNCHANGED vars
  <2>1. /\ dims' = dims /\ count' = count /\ trees' = trees /\ voxel' = voxel /\ file' = file
        /\ descriptor' = descriptor /\ stage' = stage /\ grid' = grid
        /\ pos' = pos /\ todo' = todo /\ leaves' = leaves
    BY <1>3 DEF vars, built, reader
  <2>2. (Hollow' <=> Hollow) /\ (TooLarge' <=> TooLarge) /\ Coordinates' = Coordinates
    BY <2>1 DEF Hollow, TooLarge, Coordinates
  <2>3. TypeOK'
    BY <2>1, <2>2 DEF Inductive, TypeOK
  <2>4. Before(voxel)' = Before(voxel)
    BY <2>1, <2>2 DEF Before
  <2>5. NothingOverlaps' /\ NotBegun'
    BY <2>1, <2>2 DEF Inductive, NothingOverlaps, NotBegun
  <2>6. BuiltSoFar' /\ TreesAreTheField'
    BY <2>1, <2>2, <2>4 DEF Inductive, BuiltSoFar, TreesAreTheField, Writing, Reading
  <2>7. WrittenSoFar' /\ ReadSoFar'
    BY <2>1 DEF Inductive, WrittenSoFar, ReadSoFar, Writing, Reading
  <2>8. TodoIs'
    BY <2>1 DEF Inductive, TodoIs
  <2> QED
    BY <2>1, <2>3, <2>5, <2>6, <2>7, <2>8 DEF Inductive
<1> QED
  BY <1>1, <1>2, <1>3 DEF Next

LEMMA AlwaysInductive == Spec => []Inductive
<1>1. Init => Inductive
  BY InitInductive
<1>2. Inductive /\ [Next]_vars => Inductive'
  BY StepInductive
<1> QED
  BY <1>1, <1>2, PTL DEF Spec

-----------------------------------------------------------------------------
(***************************************************************************)
(* What the reader has in the end.                                         *)
(***************************************************************************)
LEMMA LeavesAreTheField ==
    ASSUME NEW t, GoodTree(t), NEW g, NEW B \in SUBSET Cube, TreeOf(t, g, B),
           NEW ls, ReadGrid(ls, t)
    PROVE  UNION {{<<Plus(leaf.origin, offset_to_coord(n, LeafDim, 1)), leaf.values[n]>> :
                       n \in leaf.mask} : leaf \in {ls[k] : k \in 1..Len(ls)}}
           = {<<c, Value(g, c)>> : c \in B}
<1> DEFINE Of(leaf) == {<<Plus(leaf.origin, offset_to_coord(n, LeafDim, 1)), leaf.values[n]>> :
                            n \in leaf.mask}
           L == UNION {Of(leaf) : leaf \in {ls[k] : k \in 1..Len(ls)}}
<1>1. /\ \A k \in 1..Len(ls) : \E p \in DOMAIN t : LeafRead(ls[k], t, p)
      /\ \A p \in DOMAIN t : \E k \in 1..Len(ls) : LeafRead(ls[k], t, p)
  BY DEF ReadGrid
<1> HIDE DEF Place, At
<1>2. ASSUME NEW c \in B, NEW k \in 1..Len(ls), LeafRead(ls[k], t, Place(c))
      PROVE  /\ At(c) \in ls[k].mask
             /\ <<Plus(ls[k].origin, offset_to_coord(At(c), LeafDim, 1)), ls[k].values[At(c)]>>
                    = <<c, Value(g, c)>>
  <2> DEFINE p == Place(c)
             n == At(c)
  <2>1. p \in DOMAIN t /\ n \in DOMAIN t[p] /\ t[p][n] = Value(g, c)
    BY DEF TreeOf
  <2>2. ls[k].origin = Origin(p[1], p[2]) /\ ls[k].mask = DOMAIN t[p]
        /\ ls[k].values = Leaf(t[p]).values
    BY <1>2 DEF LeafRead
  <2>3. Plus(Origin(p[1], p[2]), offset_to_coord(n, LeafDim, 1)) = c
    BY PlaceIsFoundAgain
  <2> HIDE DEF p, n
  <2>4. Leaf(t[p]).values[n] = t[p][n]
    BY <2>1, LeafIs
  <2>5. Plus(ls[k].origin, offset_to_coord(n, LeafDim, 1)) = c
    BY <2>2, <2>3
  <2>6. ls[k].values[n] = Value(g, c)
    BY <2>1, <2>2, <2>4
  <2>7. n \in ls[k].mask
    BY <2>1, <2>2
  <2> QED
    BY <2>5, <2>6, <2>7 DEF n
<1>3. ASSUME NEW x \in L
      PROVE  x \in {<<c, Value(g, c)>> : c \in B}
  <2>1. PICK k \in 1..Len(ls) : x \in Of(ls[k])
    BY <1>3
  <2>2. PICK n \in ls[k].mask :
            x = <<Plus(ls[k].origin, offset_to_coord(n, LeafDim, 1)), ls[k].values[n]>>
    BY <2>1
  <2>3. PICK p \in DOMAIN t : LeafRead(ls[k], t, p)
    BY <1>1
  <2>4. n \in DOMAIN t[p]
    BY <2>2, <2>3 DEF LeafRead
  <2>5. PICK c \in B : Place(c) = p /\ At(c) = n
    BY <2>4 DEF TreeOf
  <2>6. x = <<c, Value(g, c)>>
    BY <1>2, <2>2, <2>3, <2>5
  <2> QED
    BY <2>6
<1>4. ASSUME NEW c \in B
      PROVE  <<c, Value(g, c)>> \in L
  <2>1. Place(c) \in DOMAIN t
    BY DEF TreeOf
  <2>2. PICK k \in 1..Len(ls) : LeafRead(ls[k], t, Place(c))
    BY <1>1, <2>1
  <2>3. <<c, Value(g, c)>> \in Of(ls[k])
    BY <1>2, <2>2
  <2> HIDE DEF Of
  <2> QED
    BY <2>3
<1>5. L = {<<c, Value(g, c)>> : c \in B}
  <2> HIDE DEF L
  <2>1. \A x \in {<<c, Value(g, c)>> : c \in B} : x \in L
    BY <1>4
  <2> QED
    BY <1>3, <2>1
<1> QED
  BY <1>5

LEMMA InductiveIsTheField ==
    ASSUME Inductive
    PROVE  FileIsTheField
<1>1. TypeOK /\ NothingOverlaps /\ stage # "malformed"
  BY DEF Inductive
<1>2. ASSUME stage = "read"
      PROVE  /\ Len(leaves) = count
             /\ \A g \in 1..count : GoodTree(trees[g]) /\ TreeOf(trees[g], g, Coordinates)
             /\ \A g \in 1..count : ReadGrid(leaves[g], trees[g])
             /\ Coordinates \in SUBSET Cube
  <2>1. Reading
    BY <1>2 DEF Reading
  <2>2. \A g \in 1..count : GoodTree(trees[g]) /\ TreeOf(trees[g], g, Coordinates)
    BY <2>1, FieldTrees
  <2>3. ~ TooLarge /\ count \in Nat
    BY <1>1, <2>1, Sizes DEF Inductive, TreesAreTheField
  <2>4. leaves = [g \in 1..count |-> leaves[g]]
        /\ \A g \in 1..count : ReadGrid(leaves[g], trees[g])
    BY <1>2, <2>1 DEF Inductive, ReadSoFar
  <2>5. Len(leaves) = count
    BY <2>3, <2>4
  <2> QED
    BY <1>1, <2>2, <2>3, <2>4, <2>5, CoordinatesFit
<1>3. ReadsBackTheField
  <2> SUFFICES ASSUME stage = "read"
               PROVE  /\ Len(leaves) = count
                      /\ \A g \in 1..count :
                             ActiveIn(g) = {<<c, Value(g, c)>> : c \in Coordinates}
    BY DEF ReadsBackTheField
  <2>1. ASSUME NEW g \in 1..count
        PROVE  ActiveIn(g) = {<<c, Value(g, c)>> : c \in Coordinates}
    <3> DEFINE t == trees[g]
               ls == leaves[g]
               B == Coordinates
    <3>1. GoodTree(t) /\ TreeOf(t, g, B) /\ ReadGrid(ls, t) /\ B \in SUBSET Cube
      BY <1>2
    <3>2. ActiveIn(g) = UNION {{<<Plus(leaf.origin, offset_to_coord(n, LeafDim, 1)),
                                  leaf.values[n]>> : n \in leaf.mask} :
                               leaf \in {ls[k] : k \in 1..Len(ls)}}
      BY DEF ActiveIn
    <3> HIDE DEF t, ls, B
    <3>3. ActiveIn(g) = {<<c, Value(g, c)>> : c \in B}
      BY <3>1, <3>2, LeavesAreTheField
    <3> QED
      BY <3>3 DEF B
  <2> QED
    BY <1>2, <2>1
<1>4. NeverMalformed
  <2> SUFFICES ASSUME stage = "read", NEW g \in 1..count, NEW k \in 1..Len(leaves[g]),
                      NEW n \in DOMAIN leaves[g][k].values \ leaves[g][k].mask
               PROVE  leaves[g][k].values[n] = Background
    BY <1>1 DEF NeverMalformed
  <2> DEFINE t == trees[g]
             leaf == leaves[g][k]
  <2>1. GoodTree(t) /\ ReadGrid(leaves[g], t)
    BY <1>2
  <2>2. PICK p \in DOMAIN t : LeafRead(leaf, t, p)
    BY <2>1 DEF ReadGrid
  <2>3. leaf.mask = DOMAIN t[p] /\ leaf.values = Leaf(t[p]).values
    BY <2>2 DEF LeafRead
  <2> HIDE DEF t
  <2>4. /\ DOMAIN Leaf(t[p]).values = InLeaf
        /\ \A i \in InLeaf \ DOMAIN t[p] : Leaf(t[p]).values[i] = Background
    BY <2>1, LeafIs
  <2>5. n \in DOMAIN leaf.values \ leaf.mask
    OBVIOUS
  <2> HIDE DEF leaf
  <2>6. n \in InLeaf \ DOMAIN t[p]
    BY <2>3, <2>4, <2>5
  <2>7. leaf.values[n] = Background
    BY <2>3, <2>4, <2>6
  <2> QED
    BY <2>7 DEF leaf
<1> QED
  BY <1>1, <1>3, <1>4 DEF FileIsTheField

\* Two voxels never share a place, at any resolution up to the root child's:
\* no boundary of a leaf or of an internal node folds a field onto itself.
\* This is internal_node_slot_offset, internal_child_offset and
\* leaf_voxel_offset as build_tree uses them.
THEOREM VoxelsNeverShareAPlace == Spec => []NothingOverlaps
<1>1. Inductive => NothingOverlaps
  BY DEF Inductive
<1> QED
  BY <1>1, AlwaysInductive, PTL

\* The reader finds what it expects wherever an offset or a mask leads it, and
\* a voxel that is not active has the background: this is write_float_grids,
\* whose three patched positions are the only way into a grid.
THEOREM ReaderNeverMalformed == Spec => []NeverMalformed
<1>1. Inductive => NeverMalformed
  BY InductiveIsTheField DEF FileIsTheField
<1> QED
  BY <1>1, AlwaysInductive, PTL

\* The file is the field: for any edges that divide one another, any
\* resolutions and any number of grids, each grid read back has the field's
\* voxels active, no others, and each with its own value.
THEOREM FileReadsBackTheField == Spec => []FileIsTheField
<1>1. Inductive => FileIsTheField
  BY InductiveIsTheField
<1> QED
  BY <1>1, AlwaysInductive, PTL
=============================================================================
