---------------------------- MODULE MerkleProofs ----------------------------
(***************************************************************************)
(* Proofs about module Merkle, for trees of every depth, every set of      *)
(* leaves, every width of the index and every path.                        *)
(*                                                                         *)
(* The climb is followed in both directions. If it has reached a node of   *)
(* the tree (Reached), it started from the leaf below that node at the low *)
(* bits of the index and read the siblings on the way; if it started from  *)
(* the right leaf and read the right siblings (Followed), it is at the     *)
(* node above them. Neither says anything of the root alone, so that both  *)
(* are kept from level to level.                                           *)
(***************************************************************************)
EXTENDS Merkle, Induction

LEMMA Sizes ==
  /\ INDEX_BITS \in Nat \ {0} /\ MaxDepth \in Nat \ {0}
  /\ HASH_BYTES \in Nat \ {0} /\ HEADER \in Nat \ {0}
BY SizesArePositive

(***************************************************************************)
(* Powers of two                                                           *)
(***************************************************************************)
Top == INDEX_BITS + MaxDepth

LEMMA Pow2Powers == Powers(Pow2, Top, 2)
<1>1. Pow2 = CHOOSE f : f = Raising(f, Top, 2)
  BY DEF Pow2, Raising, Top
<1>2. Top \in Nat /\ 2 \in Nat \ {0}
  BY Sizes DEF Top
<1> QED BY <1>1, <1>2, PowersChosen

LEMMA Pow2Def ==
  /\ \A k \in 0..Top : Pow2[k] \in Nat \ {0}
  /\ Pow2[0] = 1
  /\ \A k \in 0..(Top - 1) : Pow2[k + 1] = 2 * Pow2[k]
<1>1. Top \in Nat
  BY Sizes DEF Top
<1>2. ASSUME NEW k \in 0..(Top - 1) PROVE Pow2[k + 1] = 2 * Pow2[k]
  <2>1. k + 1 \in 1..Top /\ (k + 1) - 1 = k
    BY <1>1
  <2> QED BY <2>1, Pow2Powers DEF Powers
<1> QED BY <1>2, Pow2Powers DEF Powers

LEMMA Pow2Grows ==
  ASSUME NEW j \in 0..Top, NEW k \in j..Top PROVE Pow2[j] <= Pow2[k]
<1>1. Top \in Nat /\ 2 \in Nat \ {0}
  BY Sizes DEF Top
<1> QED BY <1>1, Pow2Powers, PowersGrow

(***************************************************************************)
(* The levels of a tree                                                    *)
(***************************************************************************)
LEMMA DepthDef ==
  ASSUME NEW t \in Trees
  PROVE  Depth(t) \in 0..MaxDepth /\ DOMAIN t = 0..(Pow2[Depth(t)] - 1)
BY TreesAreFull DEF Depth

(* One step of the recursion of Levels *)
Hashing(f, t, d) ==
    [l \in 0..d |->
        [i \in 0..(Pow2[d - l] - 1) |->
            IF l = 0 THEN <<0, t[i]>>
            ELSE <<1, f[l - 1][2 * i], f[l - 1][2 * i + 1]>>]]

Width(d, l) == 0..(Pow2[d - l] - 1)

(* f gives the nodes of a tree of depth d *)
Hashed(f, t, d) ==
    /\ \A i \in Width(d, 0) : f[0][i] = <<0, t[i]>>
    /\ \A l \in 1..d : \A i \in Width(d, l) :
            f[l][i] = <<1, f[l - 1][2 * i], f[l - 1][2 * i + 1]>>

LEMMA HashingAt ==
  ASSUME NEW d \in Nat, NEW t, NEW f, NEW h, h = Hashing(f, t, d)
  PROVE  /\ \A i \in Width(d, 0) : h[0][i] = <<0, t[i]>>
         /\ \A l \in 1..d : \A i \in Width(d, l) :
              h[l][i] = <<1, f[l - 1][2 * i], f[l - 1][2 * i + 1]>>
<1>1. ASSUME NEW l \in 0..d
      PROVE  h[l] = [i \in Width(d, l) |->
                IF l = 0 THEN <<0, t[i]>>
                ELSE <<1, f[l - 1][2 * i], f[l - 1][2 * i + 1]>>]
  BY DEF Hashing, Width
<1>2. \A i \in Width(d, 0) : h[0][i] = <<0, t[i]>>
  <2>1. 0 \in 0..d
    OBVIOUS
  <2>2. h[0] = [i \in Width(d, 0) |-> <<0, t[i]>>]
    BY <1>1, <2>1
  <2> QED BY <2>2
<1>3. ASSUME NEW l \in 1..d, NEW i \in Width(d, l)
      PROVE  h[l][i] = <<1, f[l - 1][2 * i], f[l - 1][2 * i + 1]>>
  <2>1. l \in 0..d /\ l # 0
    OBVIOUS
  <2> QED BY <1>1, <2>1
<1> QED BY <1>2, <1>3

LEMMA HashedExists ==
  ASSUME NEW d \in Nat, NEW t
  PROVE  \E f : f = Hashing(f, t, d)
<1> DEFINE Step(f, l) == [i \in Width(d, l) |->
                            <<1, f[l - 1][2 * i], f[l - 1][2 * i + 1]>>]
           Upto(f, n) ==
             /\ f = [l \in 0..n |-> f[l]]
             /\ f[0] = [i \in Width(d, 0) |-> <<0, t[i]>>]
             /\ \A l \in 1..n : f[l] = Step(f, l)
           S == {n \in 0..d : \E f : Upto(f, n)}
<1>1. 0 \in S
  <2> DEFINE g == [l \in 0..0 |-> [i \in Width(d, 0) |-> <<0, t[i]>>]]
  <2>1. g[0] = [i \in Width(d, 0) |-> <<0, t[i]>>] /\ g = [l \in 0..0 |-> g[l]]
    OBVIOUS
  <2>2. Upto(g, 0)
    <3> HIDE DEF g
    <3> QED BY <2>1
  <2>3. 0 \in 0..d
    OBVIOUS
  <2> HIDE DEF g, Upto
  <2> QED BY <2>2, <2>3
<1>2. ASSUME NEW n \in 0..(d - 1), n \in S PROVE n + 1 \in S
  <2>1. PICK f : Upto(f, n)
    BY <1>2
  <2>2. n + 1 \in 0..d /\ n + 1 \in 0..(n + 1) /\ 0 \in 0..(n + 1) /\ 0 # n + 1
    OBVIOUS
  <2> DEFINE x == Step(f, n + 1)
             g == [l \in 0..(n + 1) |-> IF l = n + 1 THEN x ELSE f[l]]
  <2>3. g[n + 1] = x /\ \A l \in 0..n : g[l] = f[l]
    <3> HIDE DEF x
    <3> QED BY <2>2
  <2>4. g = [l \in 0..(n + 1) |-> g[l]]
    <3> HIDE DEF x
    <3> QED OBVIOUS
  <2> HIDE DEF g
  <2>5. \A l \in 1..(n + 1) : Step(g, l) = Step(f, l)
    <3> TAKE l \in 1..(n + 1)
    <3>1. g[l - 1] = f[l - 1]
      BY <2>3
    <3> QED BY <3>1
  <2>6. g[n + 1] = Step(g, n + 1)
    BY <2>3, <2>5, <2>2
  <2>7. ASSUME NEW l \in 1..(n + 1) PROVE g[l] = Step(g, l)
    <3> HIDE DEF Step
    <3>1. CASE l = n + 1
      BY <2>6, <3>1
    <3>2. CASE l \in 1..n
      <4>1. g[l] = f[l] /\ f[l] = Step(f, l)
        BY <2>1, <2>3, <3>2
      <4> QED BY <4>1, <2>5
    <3> QED BY <3>1, <3>2
  <2>8. g[0] = [i \in Width(d, 0) |-> <<0, t[i]>>]
    <3>1. 0 \in 0..n /\ f[0] = [i \in Width(d, 0) |-> <<0, t[i]>>]
      BY <2>1
    <3> QED BY <2>3, <3>1
  <2>9. Upto(g, n + 1)
    <3> HIDE DEF Step
    <3> QED BY <2>4, <2>7, <2>8
  <2> HIDE DEF Upto
  <2> QED BY <2>2, <2>9
<1>3. d \in S
  <2> HIDE DEF S
  <2>1. \A i \in 0..d : i \in S
    BY <1>1, <1>2, UpTo
  <2> QED BY <2>1
<1>4. PICK f : Upto(f, d)
  BY <1>3
<1>5. ASSUME NEW l \in 0..d
      PROVE  f[l] = [i \in 0..(Pow2[d - l] - 1) |->
                IF l = 0 THEN <<0, t[i]>>
                ELSE <<1, f[l - 1][2 * i], f[l - 1][2 * i + 1]>>]
  <2>1. CASE l = 0
    BY <1>4, <2>1 DEF Width
  <2>2. CASE l \in 1..d
    BY <1>4, <2>2 DEF Width
  <2> QED BY <2>1, <2>2
<1>6. f = [l \in 0..d |-> f[l]]
  BY <1>4
<1>7. f = Hashing(f, t, d)
  BY <1>5, <1>6 DEF Hashing
<1> QED BY <1>7

(* Levels(t) gives the hashes of the tree, level by level. *)
LEMMA LevelsDef ==
  ASSUME NEW t \in Trees
  PROVE  Hashed(Levels(t), t, Depth(t))
<1> DEFINE d == Depth(t)
           V == Levels(t)
<1>1. d \in Nat
  BY DepthDef, Sizes
<1>2. V = CHOOSE f : f = Hashing(f, t, d)
  BY DEF Levels, Hashing
<1> HIDE DEF d, V
<1>3. V = Hashing(V, t, d)
  BY <1>1, <1>2, HashedExists
<1>4. Hashed(V, t, d)
  BY <1>1, <1>3, HashingAt DEF Hashed
<1> QED BY <1>4 DEF d, V

(* The nodes of a level, from those of the level below *)
LEMMA NodesOf ==
  ASSUME NEW t \in Trees, NEW l \in 0..(Depth(t) - 1),
         NEW i \in Width(Depth(t), l + 1)
  PROVE  /\ 2 * i \in Width(Depth(t), l) /\ 2 * i + 1 \in Width(Depth(t), l)
         /\ Levels(t)[l + 1][i] =
                <<1, Levels(t)[l][2 * i], Levels(t)[l][2 * i + 1]>>
<1> DEFINE d == Depth(t)
<1>1. d \in 0..MaxDepth /\ MaxDepth \in Nat /\ Top \in Nat /\ MaxDepth <= Top
  BY DepthDef, Sizes DEF Top
<1>2. Hashed(Levels(t), t, d)
  BY LevelsDef
<1> HIDE DEF d
<1>3. l \in 0..(d - 1) /\ i \in Width(d, l + 1)
  BY DEF d
<1>4. l + 1 \in 1..d /\ (l + 1) - 1 = l
  BY <1>1, <1>3
<1>5. Levels(t)[l + 1][i] =
        <<1, Levels(t)[l][2 * i], Levels(t)[l][2 * i + 1]>>
  BY <1>2, <1>3, <1>4 DEF Hashed
<1>6. 2 * i \in Width(d, l) /\ 2 * i + 1 \in Width(d, l)
  <2> DEFINE k == d - (l + 1)
  <2>1. k \in 0..(Top - 1) /\ k \in 0..Top /\ k + 1 = d - l
    BY <1>1, <1>3
  <2>2. Pow2[d - l] = 2 * Pow2[k] /\ Pow2[k] \in Nat
    BY <2>1, Pow2Def
  <2>3. i \in 0..(Pow2[k] - 1)
    BY <1>3 DEF Width
  <2> HIDE DEF k
  <2> QED BY <2>2, <2>3 DEF Width
<1> QED BY <1>5, <1>6 DEF d

LEMMA LeavesOf ==
  ASSUME NEW t \in Trees, NEW i \in Width(Depth(t), 0)
  PROVE  Levels(t)[0][i] = <<0, t[i]>>
BY LevelsDef DEF Hashed

(***************************************************************************)
(* The bits of the index                                                   *)
(***************************************************************************)
LEMMA Halves ==
  ASSUME NEW x \in Nat, NEW l \in 0..(Top - 1)
  PROVE  /\ x \div Pow2[l] \in Nat
         /\ x \div Pow2[l + 1] = (x \div Pow2[l]) \div 2
         /\ x % Pow2[l + 1] =
                Pow2[l] * ((x \div Pow2[l]) % 2) + (x % Pow2[l])
         /\ x % Pow2[l] \in 0..(Pow2[l] - 1)
<1>1. Top \in Nat
  BY Sizes DEF Top
<1>2. PICK p \in Nat \ {0} : p = Pow2[l]
  BY <1>1, Pow2Def
<1>3. Pow2[l + 1] = 2 * p
  BY <1>2, Pow2Def
<1>4. x \div (2 * p) = (x \div p) \div 2
  <2>1. 2 \in Nat \ {0}
    OBVIOUS
  <2> QED BY <2>1, DivDiv, Zenon
<1>5. x % (2 * p) = p * ((x \div p) % 2) + (x % p)
  <2>1. 2 \in Nat \ {0}
    OBVIOUS
  <2> QED BY <2>1, ModMod, Zenon
<1>6. x \div p \in Nat /\ x % p \in 0..(p - 1)
  BY DivMod
<1> QED BY <1>2, <1>3, <1>4, <1>5, <1>6

(* A level past the bits of the index is on the left like any other whose  *)
(* bit is zero.                                                            *)
LEMMA OnLeftIsBit ==
  ASSUME index \in 0..(Pow2[INDEX_BITS] - 1), level \in 0..Top
  PROVE  OnLeft <=> (index \div Pow2[level]) % 2 = 0
<1>1. CASE level < INDEX_BITS
  <2>1. ~ (level >= INDEX_BITS)
    BY <1>1, Sizes
  <2> QED BY <2>1 DEF OnLeft
<1>2. CASE level >= INDEX_BITS
  <2>1. INDEX_BITS \in 0..Top /\ level \in INDEX_BITS..Top
    BY <1>2, Sizes DEF Top
  <2>2. Pow2[INDEX_BITS] <= Pow2[level]
    BY <2>1, Pow2Grows
  <2>3. PICK p \in Nat \ {0} : p = Pow2[level]
    BY Pow2Def
  <2>4. PICK b \in Nat \ {0} : b = Pow2[INDEX_BITS]
    BY <2>1, Pow2Def
  <2>5. index \in Nat /\ index < p
    BY <2>2, <2>3, <2>4
  <2>6. index \div p = 0
    <3>1. p * 0 + index = index /\ 0 \in Nat
      BY <2>5
    <3> QED BY <2>5, <3>1, DivUnique
  <2>7. (index \div Pow2[level]) % 2 = 0
    BY <2>3, <2>6
  <2> QED BY <1>2, <2>7 DEF OnLeft
<1> QED BY <1>1, <1>2, Sizes

(***************************************************************************)
(* The invariant                                                           *)
(***************************************************************************)
(* The leaf below node i of level l, at the low bits of the index *)
Below(l, i) == Pow2[l] * i + (index % Pow2[l])

(* If the climb is at a node of the tree, it came from the leaf below it   *)
(* and past the siblings on the way.                                       *)
Reached ==
    \A l \in 0..Depth(tree) : \A i \in Width(Depth(tree), l) :
        node = Levels(tree)[l][i] =>
            /\ level = l
            /\ leaf = tree[Below(l, i)]
            /\ \A m \in 1..l : path[m] = Beside(tree, m - 1, Below(l, i))

(* If it came from the leaf at the index and past the siblings on the way, *)
(* it is at the node above.                                                *)
Followed ==
    /\ level <= Depth(tree)
    /\ index \in DOMAIN tree /\ leaf = tree[index]
    /\ \A m \in 1..level : path[m] = Beside(tree, m - 1, index)
    => node = Levels(tree)[level][index \div Pow2[level]]

MerkleTypes ==
    /\ tree \in Trees /\ len \in Lengths
    /\ index \in 0..(Pow2[INDEX_BITS] - 1)
    /\ level \in Nat /\ path \in Seq(Bytes32(tree)) /\ Len(path) = level

MerkleInv ==
    /\ MerkleTypes
    /\ Reached
    /\ Followed
    /\ result = "checking" => level = 0
    /\ result = "climbing" => ~BadRegion /\ ~OutOfTree /\ level <= depth
    /\ AcceptsExactlyGenuine

LEMMA IndexIsNat ==
  ASSUME MerkleTypes
  PROVE  index \in Nat /\ Depth(tree) \in 0..MaxDepth /\ Depth(tree) \in 0..Top
         /\ Top \in Nat /\ MaxDepth \in Nat
         /\ DOMAIN tree = Width(Depth(tree), 0)
<1>1. Pow2[INDEX_BITS] \in Nat
  BY Pow2Def, Sizes DEF Top
<1>2. Depth(tree) \in 0..MaxDepth /\ DOMAIN tree = 0..(Pow2[Depth(tree)] - 1)
  BY DepthDef DEF MerkleTypes
<1>3. DOMAIN tree = Width(Depth(tree), 0)
  BY <1>2 DEF Width
<1> QED BY <1>1, <1>2, <1>3, Sizes DEF MerkleTypes, Top

(* The leaf below a node is the one below its child on the index's side. *)
LEMMA BelowChild ==
  ASSUME index \in Nat, NEW l \in 0..(Top - 1), NEW i \in Nat
  PROVE  Below(l + 1, i) = Below(l, 2 * i + ((index \div Pow2[l]) % 2))
<1>1. PICK p \in Nat \ {0} : p = Pow2[l]
  BY Pow2Def, Sizes DEF Top
<1>2. PICK b \in Nat : b = (index \div Pow2[l]) % 2
  BY Halves
<1>3. PICK r \in Nat : r = index % Pow2[l]
  BY Halves, <1>1
<1>4. Pow2[l + 1] = 2 * p
  BY <1>1, Pow2Def
<1>5. index % Pow2[l + 1] = p * b + r
  BY <1>1, <1>2, <1>3, Halves
<1>6. (2 * p) * i + (p * b + r) = p * (2 * i + b) + r
  OBVIOUS
<1>7. Below(l + 1, i) = (2 * p) * i + (p * b + r)
  BY <1>4, <1>5 DEF Below
<1>8. Below(l, 2 * i + ((index \div Pow2[l]) % 2)) = p * (2 * i + b) + r
  BY <1>1, <1>2, <1>3 DEF Below
<1> QED BY <1>6, <1>7, <1>8

(* The node above a leaf is the one it lies below. *)
LEMMA AboveBelow ==
  ASSUME index \in Nat, NEW l \in 0..(Top - 1), NEW i \in Nat
  PROVE  Below(l, i) \div Pow2[l] = i
<1>1. PICK p \in Nat \ {0} : p = Pow2[l]
  BY Pow2Def, Sizes DEF Top
<1>2. PICK r \in 0..(p - 1) : r = index % Pow2[l]
  BY Halves, <1>1
<1>3. (p * i + r) \div p = i
  <2>1. r \in Nat /\ r < p
    OBVIOUS
  <2> QED BY <2>1, DivUnique
<1> QED BY <1>1, <1>2, <1>3 DEF Below

(***************************************************************************)
(* One level of the climb                                                  *)
(***************************************************************************)
(* The node next to node c of its level *)
Twin(c) == IF c % 2 = 0 THEN c + 1 ELSE c - 1

LEMMA TwinOf ==
  ASSUME NEW i \in Nat
  PROVE  Twin(2 * i) = 2 * i + 1 /\ Twin(2 * i + 1) = 2 * i
<1>1. (2 * i) % 2 = 0 /\ (2 * i + 1) % 2 = 1
  OBVIOUS
<1> QED BY <1>1 DEF Twin

LEMMA BesideIsTwin ==
  ASSUME NEW l, NEW j
  PROVE  Beside(tree, l, j) = Levels(tree)[l][Twin(j \div Pow2[l])]
BY DEF Beside, Twin

(* The node above a leaf of the tree is a node of the tree. *)
LEMMA AboveInTree ==
  ASSUME NEW t \in Trees, NEW j \in Width(Depth(t), 0),
         NEW l \in 0..Depth(t)
  PROVE  j \div Pow2[l] \in Width(Depth(t), l)
<1>1. PICK d \in Nat : d = Depth(t) /\ d <= Top
  BY DepthDef, Sizes DEF Top
<1>2. Top \in Nat
  BY Sizes DEF Top
<1> DEFINE S == {k \in 0..d : j \div Pow2[k] \in 0..(Pow2[d - k] - 1)}
<1>3. j \in 0..(Pow2[d] - 1) /\ Pow2[d] \in Nat /\ d - 0 = d
  BY <1>1, <1>2, Pow2Def DEF Width
<1>4. 0 \in S
  <2>1. j \div Pow2[0] = j
    BY <1>3, Pow2Def
  <2> QED BY <1>3, <2>1
<1>5. ASSUME NEW k \in 0..(d - 1), k \in S PROVE k + 1 \in S
  <2> DEFINE n == d - (k + 1)
  <2>1. /\ k + 1 \in 0..d /\ k \in 0..(Top - 1)
        /\ n \in 0..(Top - 1) /\ n \in 0..Top /\ n + 1 = d - k
    BY <1>1, <1>2
  <2> HIDE DEF n
  <2>2. PICK b \in Nat : b = Pow2[n] /\ Pow2[d - k] = 2 * b
    BY <2>1, Pow2Def
  <2>3. PICK x \in 0..(2 * b - 1) : x = j \div Pow2[k]
    BY <1>5, <2>2
  <2>4. j \div Pow2[k + 1] = x \div 2
    BY <1>3, <2>1, <2>3, Halves
  <2>5. x \div 2 \in 0..(b - 1)
    BY <2>3
  <2>6. j \div Pow2[k + 1] \in 0..(Pow2[d - (k + 1)] - 1)
    BY <2>2, <2>4, <2>5 DEF n
  <2> QED BY <2>1, <2>6
<1>6. \A k \in 0..d : k \in S
  <2> HIDE DEF S
  <2> QED BY <1>4, <1>5, UpTo
<1> QED BY <1>1, <1>6 DEF Width

LEMMA AppendAt ==
  ASSUME NEW S, NEW s \in Seq(S), NEW x \in S
  PROVE  /\ Append(s, x) \in Seq(S) /\ Len(Append(s, x)) = Len(s) + 1
         /\ \A m \in 1..Len(s) : Append(s, x)[m] = s[m]
         /\ Append(s, x)[Len(s) + 1] = x
OBVIOUS

(* A climb that is at node c and reads its twin has read what is beside    *)
(* every node on the way up from the leaf below c.                         *)
LEMMA ReadsTwin ==
  ASSUME MerkleTypes, Reached, NEW sib \in Bytes32(tree),
         NEW k \in 0..(Depth(tree) - 1), NEW c \in Width(Depth(tree), k),
         node = Levels(tree)[k][c], sib = Levels(tree)[k][Twin(c)]
  PROVE  /\ level = k /\ leaf = tree[Below(k, c)]
         /\ \A m \in 1..(k + 1) :
              Append(path, sib)[m] = Beside(tree, m - 1, Below(k, c))
<1>1. /\ index \in Nat /\ Depth(tree) \in 0..Top /\ Top \in Nat
  BY IndexIsNat
<1>2. k \in 0..Depth(tree) /\ k \in 0..(Top - 1) /\ k \in Nat
  BY <1>1
<1>3. /\ level = k /\ leaf = tree[Below(k, c)]
      /\ \A m \in 1..k : path[m] = Beside(tree, m - 1, Below(k, c))
  BY <1>2 DEF Reached
<1>4. c \in Nat
  BY DEF Width
<1>5. Beside(tree, k, Below(k, c)) = sib
  BY <1>1, <1>2, <1>4, AboveBelow, BesideIsTwin
<1>6. Len(path) = k /\ path \in Seq(Bytes32(tree))
  BY <1>3 DEF MerkleTypes
<1>7. /\ \A m \in 1..k : Append(path, sib)[m] = path[m]
      /\ Append(path, sib)[k + 1] = sib
  BY <1>6, AppendAt
<1>8. ASSUME NEW m \in 1..(k + 1)
      PROVE  Append(path, sib)[m] = Beside(tree, m - 1, Below(k, c))
  <2>1. CASE m \in 1..k
    BY <1>3, <1>7, <2>1
  <2>2. CASE m = k + 1
    <3>1. m - 1 = k
      BY <1>2, <2>2
    <3> QED BY <1>5, <1>7, <2>2, <3>1
  <2>3. m \in 1..k \/ m = k + 1
    BY <1>2
  <2> QED BY <2>1, <2>2, <2>3
<1> QED BY <1>3, <1>8

LEMMA ClimbReached ==
  ASSUME MerkleTypes, Reached, NEW sib \in Bytes32(tree), Climb(sib)
  PROVE  Reached'
<1>1. /\ tree' = tree /\ index' = index /\ leaf' = leaf
      /\ level' = level + 1 /\ path' = Append(path, sib)
      /\ node' = IF OnLeft THEN <<1, node, sib>> ELSE <<1, sib, node>>
  BY DEF Climb, claim, merkle_node
<1>2. \A l, i : Below(l, i)' = Below(l, i)
  BY <1>1 DEF Below
<1>3. /\ index \in Nat /\ Depth(tree) \in 0..Top /\ Top \in Nat /\ level \in Nat
  BY IndexIsNat DEF MerkleTypes
<1>4. ASSUME NEW l \in 0..Depth(tree), NEW i \in Width(Depth(tree), l),
             node' = Levels(tree)[l][i]
      PROVE  /\ level' = l
             /\ leaf = tree[Below(l, i)]
             /\ \A m \in 1..l : path'[m] = Beside(tree, m - 1, Below(l, i))
  <2>1. l # 0
    <3> SUFFICES ASSUME l = 0 PROVE FALSE
      OBVIOUS
    <3>1. node' = <<0, tree[i]>>
      BY <1>4, LeavesOf DEF MerkleTypes
    <3> QED BY <1>1, <3>1
  <2>2. PICK k \in 0..(Depth(tree) - 1) : l = k + 1
    <3>1. l - 1 \in 0..(Depth(tree) - 1) /\ l = (l - 1) + 1
      BY <2>1, <1>3
    <3> QED BY <3>1
  <2>3. k \in 0..(Top - 1) /\ k \in 0..Top /\ k \in Nat /\ i \in Nat
    BY <1>3 DEF Width
  <2>4. /\ 2 * i \in Width(Depth(tree), k)
        /\ 2 * i + 1 \in Width(Depth(tree), k)
        /\ node' = <<1, Levels(tree)[k][2 * i], Levels(tree)[k][2 * i + 1]>>
    BY <1>4, <2>2, NodesOf DEF MerkleTypes
  <2>5. \E c \in Width(Depth(tree), k) :
            /\ node = Levels(tree)[k][c] /\ sib = Levels(tree)[k][Twin(c)]
            /\ Below(l, i) = Below(k, c)
    <3>1. CASE OnLeft
      <4>1. node = Levels(tree)[k][2 * i] /\ sib = Levels(tree)[k][2 * i + 1]
        BY <1>1, <2>4, <3>1
      <4>2. sib = Levels(tree)[k][Twin(2 * i)]
        BY <4>1, <2>3, TwinOf
      <4>3. level = k
        BY <4>1, <4>2, <2>4, ReadsTwin
      <4>4. (index \div Pow2[k]) % 2 = 0
        BY <3>1, <4>3, <2>3, OnLeftIsBit DEF MerkleTypes
      <4>5. Below(l, i) = Below(k, 2 * i + 0) /\ 2 * i + 0 = 2 * i
        BY <2>2, <2>3, <4>4, <1>3, BelowChild
      <4> QED BY <4>1, <4>2, <4>5, <2>4
    <3>2. CASE ~OnLeft
      <4>1. sib = Levels(tree)[k][2 * i] /\ node = Levels(tree)[k][2 * i + 1]
        BY <1>1, <2>4, <3>2
      <4>2. sib = Levels(tree)[k][Twin(2 * i + 1)]
        BY <4>1, <2>3, TwinOf
      <4>3. level = k
        BY <4>1, <4>2, <2>4, ReadsTwin
      <4>4. (index \div Pow2[k]) % 2 = 1
        <5>1. (index \div Pow2[k]) % 2 # 0
          BY <3>2, <4>3, <2>3, OnLeftIsBit DEF MerkleTypes
        <5>2. PICK q \in Nat : q = index \div Pow2[k]
          BY <1>3, <2>3, Halves
        <5> QED BY <5>1, <5>2
      <4>5. Below(l, i) = Below(k, 2 * i + 1)
        BY <2>2, <2>3, <4>4, <1>3, BelowChild
      <4> QED BY <4>1, <4>2, <4>5, <2>4
    <3> QED BY <3>1, <3>2
  <2>6. PICK c \in Width(Depth(tree), k) :
            /\ node = Levels(tree)[k][c] /\ sib = Levels(tree)[k][Twin(c)]
            /\ Below(l, i) = Below(k, c)
    BY <2>5
  <2>7. /\ level = k /\ leaf = tree[Below(k, c)]
        /\ \A m \in 1..(k + 1) :
              Append(path, sib)[m] = Beside(tree, m - 1, Below(k, c))
    BY <2>6, ReadsTwin
  <2> QED BY <1>1, <2>2, <2>6, <2>7
<1> QED BY <1>1, <1>2, <1>4 DEF Reached

LEMMA ClimbFollowed ==
  ASSUME MerkleTypes, Followed, NEW sib \in Bytes32(tree), Climb(sib)
  PROVE  Followed'
<1>1. /\ tree' = tree /\ index' = index /\ leaf' = leaf
      /\ level' = level + 1 /\ path' = Append(path, sib)
      /\ node' = IF OnLeft THEN <<1, node, sib>> ELSE <<1, sib, node>>
  BY DEF Climb, claim, merkle_node
<1>2. /\ index \in Nat /\ Depth(tree) \in 0..Top /\ Top \in Nat /\ level \in Nat
      /\ DOMAIN tree = Width(Depth(tree), 0)
  BY IndexIsNat DEF MerkleTypes
<1>3. ASSUME level + 1 <= Depth(tree), index \in DOMAIN tree, leaf = tree[index],
             \A m \in 1..(level + 1) :
                Append(path, sib)[m] = Beside(tree, m - 1, index)
      PROVE  node' = Levels(tree)[level + 1][index \div Pow2[level + 1]]
  <2>1. /\ level \in 0..(Top - 1) /\ level <= Depth(tree) /\ level \in 0..Top
        /\ level \in 0..(Depth(tree) - 1)
    BY <1>2, <1>3
  <2>2. path \in Seq(Bytes32(tree)) /\ Len(path) = level
    BY DEF MerkleTypes
  <2>3. /\ \A m \in 1..level : Append(path, sib)[m] = path[m]
        /\ Append(path, sib)[level + 1] = sib
    BY <2>2, AppendAt
  <2>4. \A m \in 1..level : path[m] = Beside(tree, m - 1, index)
    <3> TAKE m \in 1..level
    <3>1. m \in 1..(level + 1)
      BY <1>2
    <3> QED BY <1>3, <2>3, <3>1
  <2>5. PICK p \in Nat : p = index \div Pow2[level]
    BY <1>2, <2>1, Halves
  <2>6. node = Levels(tree)[level][p]
    BY <1>3, <2>1, <2>4, <2>5 DEF Followed
  <2>7. sib = Levels(tree)[level][Twin(p)]
    <3>1. level + 1 \in 1..(level + 1) /\ (level + 1) - 1 = level
      BY <1>2
    <3>2. sib = Beside(tree, level, index)
      BY <1>3, <2>3, <3>1
    <3> QED BY <3>2, <2>5, BesideIsTwin
  <2>8. PICK i \in Nat : i = p \div 2 /\ (p = 2 * i \/ p = 2 * i + 1)
    OBVIOUS
  <2>9. index \div Pow2[level + 1] = i
    BY <1>2, <2>1, <2>5, <2>8, Halves
  <2>10. i \in Width(Depth(tree), level + 1)
    <3>1. level + 1 \in 0..Depth(tree) /\ index \in Width(Depth(tree), 0)
      BY <1>2, <1>3
    <3> QED BY <2>9, <3>1, AboveInTree DEF MerkleTypes
  <2>11. /\ Levels(tree)[level + 1][i] =
            <<1, Levels(tree)[level][2 * i], Levels(tree)[level][2 * i + 1]>>
    BY <2>1, <2>10, NodesOf DEF MerkleTypes
  <2>12. OnLeft <=> p % 2 = 0
    BY <2>1, <2>5, OnLeftIsBit DEF MerkleTypes
  <2>13. CASE p = 2 * i
    <3>1. p % 2 = 0 /\ Twin(p) = 2 * i + 1
      BY <2>13, TwinOf
    <3> QED BY <1>1, <2>6, <2>7, <2>9, <2>11, <2>12, <2>13, <3>1
  <2>14. CASE p = 2 * i + 1
    <3>1. p % 2 # 0 /\ Twin(p) = 2 * i
      BY <2>14, TwinOf
    <3> QED BY <1>1, <2>6, <2>7, <2>9, <2>11, <2>12, <2>14, <3>1
  <2> QED BY <2>8, <2>13, <2>14
<1> QED BY <1>1, <1>3 DEF Followed

(***************************************************************************)
(* The checks                                                              *)
(***************************************************************************)
LEMMA DepthIsNat ==
  ASSUME MerkleTypes, ~BadRegion PROVE depth \in Nat
<1>1. len \in Nat /\ len >= HEADER
  BY LengthsAreNatural, Sizes DEF MerkleTypes, BadRegion
<1>2. PICK n \in Nat : n = len - HEADER
  BY <1>1, Sizes
<1>3. n \div HASH_BYTES \in Nat
  BY Sizes, DivMod
<1> QED BY <1>2, <1>3 DEF depth

(* An index that passes the checks is one of a tree of that depth. *)
LEMMA IndexInTree ==
  ASSUME MerkleTypes, ~BadRegion, ~OutOfTree, depth = Depth(tree)
  PROVE  index \in DOMAIN tree
<1>1. /\ index \in Nat /\ Depth(tree) \in 0..Top /\ Top \in Nat
      /\ DOMAIN tree = Width(Depth(tree), 0)
  BY IndexIsNat
<1>2. PICK p \in Nat \ {0} : p = Pow2[Depth(tree)]
  BY <1>1, Pow2Def
<1>3. index < p
  <2>1. CASE depth < INDEX_BITS
    <3>1. index \div p = 0
      BY <2>1, <1>2 DEF OutOfTree
    <3>2. index = p * (index \div p) + (index % p) /\ index % p \in 0..(p - 1)
      BY <1>1, DivMod
    <3> QED BY <3>1, <3>2
  <2>2. CASE depth >= INDEX_BITS
    <3>1. INDEX_BITS \in 0..Top /\ Depth(tree) \in INDEX_BITS..Top
      BY <2>2, <1>1, Sizes DEF Top
    <3>2. PICK b \in Nat \ {0} : b = Pow2[INDEX_BITS]
      BY <3>1, Pow2Def
    <3>3. b <= p
      BY <1>2, <3>1, <3>2, Pow2Grows
    <3>4. index \in 0..(b - 1)
      BY <3>2 DEF MerkleTypes
    <3> QED BY <3>3, <3>4
  <2> QED BY <2>1, <2>2, <1>1, Sizes
<1>4. Depth(tree) - 0 = Depth(tree)
  BY <1>1
<1> QED BY <1>1, <1>2, <1>3, <1>4 DEF Width

(* The index of a leaf has no bits above the root. *)
LEMMA AtRoot ==
  ASSUME MerkleTypes, index \in DOMAIN tree
  PROVE  /\ index \div Pow2[Depth(tree)] = 0
         /\ Below(Depth(tree), 0) = index
<1>1. /\ index \in Nat /\ Depth(tree) \in 0..Top /\ Top \in Nat
      /\ DOMAIN tree = Width(Depth(tree), 0)
  BY IndexIsNat
<1>2. PICK p \in Nat \ {0} : p = Pow2[Depth(tree)]
  BY <1>1, Pow2Def
<1>3. Depth(tree) - 0 = Depth(tree)
  BY <1>1
<1>4. index \in 0..(p - 1)
  BY <1>1, <1>2, <1>3 DEF Width
<1>5. index \div p = 0
  <2>1. p * 0 + index = index /\ 0 \in Nat /\ index < p
    BY <1>1, <1>4
  <2> QED BY <1>1, <2>1, DivUnique
<1>6. index % p = index
  <2>1. index = p * (index \div p) + (index % p) /\ index % p \in 0..(p - 1)
    BY <1>1, DivMod
  <2> QED BY <1>5, <2>1
<1>7. p * 0 + index = index
  BY <1>1
<1> QED BY <1>2, <1>5, <1>6, <1>7 DEF Below

(***************************************************************************)
(* The actions                                                             *)
(***************************************************************************)
LEMMA MerkleInit == Init => MerkleInv
<1> SUFFICES ASSUME Init PROVE MerkleInv
  OBVIOUS
<1>1. MerkleTypes
  <2>1. <<>> \in Seq(Bytes32(tree)) /\ Len(<<>>) = 0 /\ 0 \in Nat
    OBVIOUS
  <2> QED BY <2>1 DEF Init, MerkleTypes
<1>2. /\ index \in Nat /\ Depth(tree) \in 0..Top /\ Top \in Nat
      /\ DOMAIN tree = Width(Depth(tree), 0)
  BY <1>1, IndexIsNat
<1>3. tree \in Trees /\ level = 0 /\ node = <<0, leaf>>
  BY DEF Init, merkle_leaf
<1>4. Reached
  <2> SUFFICES ASSUME NEW l \in 0..Depth(tree), NEW i \in Width(Depth(tree), l),
                      node = Levels(tree)[l][i]
               PROVE  /\ level = l /\ leaf = tree[Below(l, i)]
                      /\ \A m \in 1..l :
                            path[m] = Beside(tree, m - 1, Below(l, i))
    BY DEF Reached
  <2>1. l = 0
    <3> SUFFICES ASSUME l # 0 PROVE FALSE
      OBVIOUS
    <3>1. PICK k \in 0..(Depth(tree) - 1) : l = k + 1
      <4>1. l - 1 \in 0..(Depth(tree) - 1) /\ l = (l - 1) + 1
        BY <1>2
      <4> QED BY <4>1
    <3>2. node = <<1, Levels(tree)[k][2 * i], Levels(tree)[k][2 * i + 1]>>
      BY <1>3, <3>1, NodesOf
    <3> QED BY <1>3, <3>2
  <2>2. leaf = tree[i]
    <3>1. node = <<0, tree[i]>>
      BY <1>3, <2>1, LeavesOf
    <3> QED BY <1>3, <3>1
  <2>3. Below(0, i) = i
    <3>1. i \in Nat /\ index % 1 = 0 /\ 1 * i + 0 = i
      BY <1>2 DEF Width
    <3> QED BY <3>1, Pow2Def DEF Below
  <2> QED BY <1>3, <2>1, <2>2, <2>3
<1>5. Followed
  <2> SUFFICES ASSUME index \in DOMAIN tree, leaf = tree[index]
               PROVE  node = Levels(tree)[0][index \div Pow2[0]]
    BY <1>3 DEF Followed
  <2>1. index \div Pow2[0] = index
    BY <1>2, Pow2Def
  <2> QED BY <1>2, <1>3, <2>1, LeavesOf
<1>6. result = "checking"
  BY DEF Init
<1> QED BY <1>1, <1>3, <1>4, <1>5, <1>6 DEF MerkleInv, AcceptsExactlyGenuine

(* What the checks and the comparison leave alone *)
LEMMA SameClimb ==
  ASSUME MerkleInv, UNCHANGED <<claim, level, node, path>>
  PROVE  /\ MerkleTypes' /\ Reached' /\ Followed'
         /\ (BadRegion' <=> BadRegion) /\ (OutOfTree' <=> OutOfTree)
         /\ depth' = depth /\ (Genuine' <=> Genuine)
<1>1. /\ tree' = tree /\ len' = len /\ strict' = strict /\ index' = index
      /\ leaf' = leaf /\ level' = level /\ node' = node /\ path' = path
  BY DEF claim
<1>2. MerkleTypes'
  BY <1>1 DEF MerkleInv, MerkleTypes
<1>3. Reached'
  BY <1>1 DEF MerkleInv, Reached, Below
<1>4. Followed'
  BY <1>1 DEF MerkleInv, Followed
<1>5. depth' = depth
  BY <1>1 DEF depth
<1>6. (BadRegion' <=> BadRegion) /\ (OutOfTree' <=> OutOfTree)
  BY <1>1, <1>5 DEF BadRegion, OutOfTree
<1>7. Genuine' <=> Genuine
  BY <1>1 DEF Genuine
<1> QED BY <1>2, <1>3, <1>4, <1>5, <1>6, <1>7

LEMMA RefuseRegionKeeps == ASSUME MerkleInv, RefuseRegion PROVE MerkleInv'
<1>1. result' = "BadMemory" /\ UNCHANGED <<claim, level, node, path>>
  BY DEF RefuseRegion
<1> QED BY <1>1, SameClimb DEF MerkleInv, AcceptsExactlyGenuine

LEMMA RefuseIndexKeeps == ASSUME MerkleInv, RefuseIndex PROVE MerkleInv'
<1>1. /\ result' = "zero" /\ ~BadRegion /\ OutOfTree
      /\ UNCHANGED <<claim, level, node, path>>
  BY DEF RefuseIndex
<1>2. /\ tree' = tree /\ index' = index /\ strict' = strict /\ depth' = depth
  BY <1>1, SameClimb DEF claim
<1>3. \/ depth # Depth(tree) \/ index \notin DOMAIN tree
      \/ depth = 0 \/ (strict /\ depth > INDEX_BITS)
  <2>1. CASE depth < INDEX_BITS /\ index \div Pow2[depth] # 0
    <3> SUFFICES ASSUME depth = Depth(tree), index \in DOMAIN tree PROVE FALSE
      OBVIOUS
    <3>1. index \div Pow2[depth] = 0
      BY AtRoot DEF MerkleInv
    <3> QED BY <2>1, <3>1
  <2> QED BY <1>1, <2>1 DEF OutOfTree
<1>4. AcceptsExactlyGenuine'
  BY <1>1, <1>2, <1>3 DEF AcceptsExactlyGenuine
<1> QED BY <1>1, <1>4, SameClimb DEF MerkleInv

LEMMA BeginKeeps == ASSUME MerkleInv, Begin PROVE MerkleInv'
<1>1. /\ result' = "climbing" /\ ~BadRegion /\ ~OutOfTree
      /\ result = "checking" /\ UNCHANGED <<claim, level, node, path>>
  BY DEF Begin
<1>2. level' = 0 /\ depth \in Nat
  BY <1>1, DepthIsNat DEF MerkleInv
<1>3. level' <= depth'
  BY <1>1, <1>2, SameClimb
<1> QED BY <1>1, <1>3, SameClimb DEF MerkleInv, AcceptsExactlyGenuine

LEMMA ClimbKeeps ==
  ASSUME MerkleInv, NEW sib \in Bytes32(tree), Climb(sib) PROVE MerkleInv'
<1>1. /\ tree' = tree /\ len' = len /\ strict' = strict /\ index' = index
      /\ level' = level + 1 /\ path' = Append(path, sib)
      /\ result = "climbing" /\ result' = "climbing" /\ level < depth
  BY DEF Climb, claim
<1>2. /\ path \in Seq(Bytes32(tree)) /\ Len(path) = level /\ level \in Nat
      /\ ~BadRegion /\ ~OutOfTree
  BY <1>1 DEF MerkleInv, MerkleTypes
<1>3. MerkleTypes'
  <2>1. path' \in Seq(Bytes32(tree)) /\ Len(path') = level + 1
        /\ level + 1 \in Nat
    BY <1>1, <1>2, AppendAt
  <2> QED BY <1>1, <2>1 DEF MerkleInv, MerkleTypes
<1>4. depth' = depth /\ depth \in Nat
  BY <1>1, <1>2, DepthIsNat DEF MerkleInv, depth
<1>5. ~BadRegion' /\ ~OutOfTree' /\ level' <= depth'
  BY <1>1, <1>2, <1>4 DEF BadRegion, OutOfTree
<1>6. Reached' /\ Followed'
  BY ClimbReached, ClimbFollowed DEF MerkleInv
<1> QED BY <1>1, <1>3, <1>5, <1>6 DEF MerkleInv, AcceptsExactlyGenuine

LEMMA CompareKeeps == ASSUME MerkleInv, Compare PROVE MerkleInv'
<1>1. /\ result = "climbing" /\ level = depth
      /\ result' = IF node = Root(tree) THEN "one" ELSE "zero"
      /\ UNCHANGED <<claim, level, node, path>>
  BY DEF Compare
<1>2. /\ tree' = tree /\ index' = index /\ strict' = strict /\ path' = path
      /\ depth' = depth /\ (Genuine' <=> Genuine)
  BY <1>1, SameClimb DEF claim
<1>3. /\ MerkleTypes /\ ~BadRegion /\ ~OutOfTree /\ Len(path) = level
      /\ Depth(tree) \in Nat
  BY <1>1, IndexIsNat DEF MerkleInv, MerkleTypes
<1>4. ASSUME node = Root(tree) PROVE Genuine
  <2>1. Depth(tree) \in 0..Depth(tree) /\ 0 \in Width(Depth(tree), Depth(tree))
    <3>1. Depth(tree) - Depth(tree) = 0 /\ 0 \in 0..(1 - 1)
      BY <1>3
    <3> QED BY <1>3, <3>1, Pow2Def DEF Width
  <2>2. /\ level = Depth(tree) /\ leaf = tree[Below(Depth(tree), 0)]
        /\ \A m \in 1..Depth(tree) :
              path[m] = Beside(tree, m - 1, Below(Depth(tree), 0))
    BY <1>4, <2>1 DEF MerkleInv, Reached, Root
  <2>3. index \in DOMAIN tree
    BY <1>1, <1>3, <2>2, IndexInTree
  <2>4. Below(Depth(tree), 0) = index
    BY <1>3, <2>3, AtRoot
  <2> QED BY <1>3, <2>2, <2>3, <2>4 DEF Genuine
<1>5. ASSUME node # Root(tree), depth = Depth(tree), depth # 0
      PROVE  path # <<>> /\ ~Genuine
  <2>1. path # <<>>
    BY <1>1, <1>3, <1>5
  <2>2. ASSUME Genuine PROVE FALSE
    <3>1. /\ index \in DOMAIN tree /\ leaf = tree[index]
          /\ level = Depth(tree)
          /\ \A m \in 1..level : path[m] = Beside(tree, m - 1, index)
      BY <1>1, <1>3, <1>5, <2>2 DEF Genuine
    <3>2. level <= Depth(tree)
      BY <1>3, <3>1
    <3>3. node = Levels(tree)[Depth(tree)][index \div Pow2[Depth(tree)]]
      BY <3>1, <3>2 DEF MerkleInv, Followed
    <3>4. index \div Pow2[Depth(tree)] = 0
      BY <1>3, <3>1, AtRoot
    <3> QED BY <1>5, <3>3, <3>4 DEF Root
  <2> QED BY <2>1, <2>2
<1>6. AcceptsExactlyGenuine'
  <2>1. CASE node = Root(tree)
    BY <1>1, <1>2, <1>4, <2>1 DEF AcceptsExactlyGenuine
  <2>2. CASE node # Root(tree)
    BY <1>1, <1>2, <1>5, <2>2 DEF AcceptsExactlyGenuine
  <2> QED BY <2>1, <2>2
<1>7. result' # "climbing"
  BY <1>1
<1> QED BY <1>1, <1>6, <1>7, SameClimb DEF MerkleInv

LEMMA MerkleStep == MerkleInv /\ [Next]_vars => MerkleInv'
<1> SUFFICES ASSUME MerkleInv, [Next]_vars PROVE MerkleInv'
  OBVIOUS
<1>1. CASE RefuseRegion
  BY <1>1, RefuseRegionKeeps
<1>2. CASE RefuseIndex
  BY <1>2, RefuseIndexKeeps
<1>3. CASE Begin
  BY <1>3, BeginKeeps
<1>4. CASE \E sib \in Bytes32(tree) : Climb(sib)
  BY <1>4, ClimbKeeps
<1>5. CASE Compare
  BY <1>5, CompareKeeps
<1>6. CASE UNCHANGED vars
  <2>1. result' = result /\ UNCHANGED <<claim, level, node, path>>
    BY <1>6 DEF vars, claim
  <2>2. /\ tree' = tree /\ index' = index /\ strict' = strict /\ path' = path
        /\ level' = level /\ depth' = depth /\ (Genuine' <=> Genuine)
    BY <2>1, SameClimb DEF claim
  <2>3. AcceptsExactlyGenuine'
    BY <2>1, <2>2 DEF MerkleInv, AcceptsExactlyGenuine
  <2> QED BY <2>1, <2>2, <2>3, SameClimb DEF MerkleInv
<1> QED BY <1>1, <1>2, <1>3, <1>4, <1>5, <1>6 DEF Next

(* MERKLE_VERIFY accepts exactly the genuine proofs, for a tree of every   *)
(* depth, an index of every width and a path of every length.              *)
THEOREM MerkleIsExact == Spec => []AcceptsExactlyGenuine
<1>1. MerkleInv => AcceptsExactlyGenuine
  BY DEF MerkleInv
<1> QED BY <1>1, MerkleInit, MerkleStep, PTL DEF Spec
=============================================================================
