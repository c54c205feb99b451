------------------------------- MODULE Merkle -------------------------------
(***************************************************************************)
(* The MERKLE_VERIFY opcode, merkle_verify in crates/qtv-vm/src/crypto.rs: *)
(* the checks on the operand region, and the climb from the leaf to the    *)
(* root, one sibling at a time.                                            *)
(*                                                                         *)
(* sha3_256 is symbolic and free of collisions: a hash is the tuple of     *)
(* what was hashed. INDEX_BITS stands for the 64 bits of the leaf index.   *)
(***************************************************************************)
EXTENDS Integers, Sequences

CONSTANTS
    INDEX_BITS,     \* 64 in the source
    MaxDepth,       \* bound on the depth of a tree
    HASH_BYTES,     \* H
    HEADER,         \* root, index and leaf
    Datum,          \* 32-byte strings that are no hash
    Trees,          \* trees whose root a program may hold
    Lengths,        \* lengths of the operand region
    NoRegion        \* the operands name no region of memory

Pow2[k \in 0..(INDEX_BITS + MaxDepth)] ==
    IF k = 0 THEN 1 ELSE 2 * Pow2[k - 1]

ASSUME SizesArePositive ==
    {INDEX_BITS, MaxDepth, HASH_BYTES, HEADER} \subseteq Nat \ {0}
ASSUME LengthsAreNatural == Lengths \subseteq Nat \cup {NoRegion}
ASSUME TreesAreFull ==
    \A t \in Trees : \E d \in 0..MaxDepth : DOMAIN t = 0..(Pow2[d] - 1)

VARIABLES
    tree,           \* the tree whose root the region holds
    len,            \* bytes of the region
    strict,         \* FALSE under with_legacy_rules
    index, leaf,    \* the claim: tree holds leaf at index
    level, node,    \* of the climb
    path,           \* the siblings read so far
    result          \* "checking", "climbing", "BadMemory", "zero" or "one"

vars == <<tree, len, strict, index, leaf, level, node, path, result>>

merkle_leaf(x) == <<0, x>>

merkle_node(left, right) == <<1, left, right>>

(***************************************************************************)
(* A tree is a function from 0..(Pow2[d] - 1) to its leaves. Nodes[l][i]   *)
(* is node i of level l, counting levels from the leaves.                  *)
(***************************************************************************)
Depth(t) == CHOOSE d \in 0..MaxDepth : DOMAIN t = 0..(Pow2[d] - 1)

Levels(t) ==
    LET Nodes[l \in 0..Depth(t)] ==
            [i \in 0..(Pow2[Depth(t) - l] - 1) |->
                IF l = 0 THEN <<0, t[i]>>
                ELSE <<1, Nodes[l - 1][2 * i], Nodes[l - 1][2 * i + 1]>>]
    IN  Nodes

Root(t) == Levels(t)[Depth(t)][0]

Hashes(t) == UNION {{Levels(t)[l][i] : i \in DOMAIN Levels(t)[l]} :
                        l \in 0..Depth(t)}

(* Any 32 bytes a region may hold: data, or a hash of the tree *)
Bytes32(t) == {<<2, x>> : x \in Datum} \cup Hashes(t)

Init ==
    /\ tree \in Trees
    /\ len \in Lengths
    /\ strict \in BOOLEAN
    /\ index \in 0..(Pow2[INDEX_BITS] - 1)
    /\ leaf \in Bytes32(tree)
    /\ level = 0
    /\ node = merkle_leaf(leaf)
    /\ path = <<>>
    /\ result = "checking"

claim == <<tree, len, strict, index, leaf>>

(***************************************************************************)
(* The checks, in the order of the source                                  *)
(***************************************************************************)
BadRegion ==
    len # NoRegion => (len < HEADER \/ (len - HEADER) % HASH_BYTES # 0)

depth == (len - HEADER) \div HASH_BYTES

(* Mutant of OutOfTree: an index past the last leaf is let through. *)
OutOfTreeUnchecked == depth = 0 \/ (strict /\ depth > INDEX_BITS)

OutOfTree ==
    \/ depth = 0
    \/ depth < INDEX_BITS /\ index \div Pow2[depth] # 0
    \/ strict /\ depth > INDEX_BITS

RefuseRegion ==
    /\ result = "checking" /\ BadRegion
    /\ result' = "BadMemory"
    /\ UNCHANGED <<claim, level, node, path>>

RefuseIndex ==
    /\ result = "checking" /\ ~BadRegion /\ OutOfTree
    /\ result' = "zero"
    /\ UNCHANGED <<claim, level, node, path>>

Begin ==
    /\ result = "checking" /\ ~BadRegion /\ ~OutOfTree
    /\ result' = "climbing"
    /\ UNCHANGED <<claim, level, node, path>>

(* node_on_left; levels past the index are on the left *)
OnLeft == level >= INDEX_BITS \/ (index \div Pow2[level]) % 2 = 0

Climb(sib) ==
    /\ result = "climbing" /\ level < depth
    /\ node' = IF OnLeft THEN merkle_node(node, sib) ELSE merkle_node(sib, node)
    /\ path' = Append(path, sib)
    /\ level' = level + 1
    /\ UNCHANGED <<claim, result>>

Compare ==
    /\ result = "climbing" /\ level = depth
    /\ result' = IF node = Root(tree) THEN "one" ELSE "zero"
    /\ UNCHANGED <<claim, level, node, path>>

Next ==
    \/ RefuseRegion
    \/ RefuseIndex
    \/ Begin
    \/ \E sib \in Bytes32(tree) : Climb(sib)
    \/ Compare

Spec == Init /\ [][Next]_vars

(***************************************************************************)
(* Properties                                                              *)
(***************************************************************************)
(* The hash beside the one above leaf i, at level l *)
Beside(t, l, i) ==
    LET p == i \div Pow2[l] IN Levels(t)[l][IF p % 2 = 0 THEN p + 1 ELSE p - 1]

(* The region proves the claim: leaf is the tree's leaf at index, and the  *)
(* siblings are those on the way from there to the root.                   *)
Genuine ==
    /\ index \in DOMAIN tree
    /\ leaf = tree[index]
    /\ Len(path) = Depth(tree)
    /\ \A l \in 1..Len(path) : path[l] = Beside(tree, l - 1, index)

(* A proof is accepted exactly when it is genuine: neither an index past   *)
(* the tree, a shorter or longer path, a node passed off as a leaf nor a   *)
(* swapped sibling is taken, and no genuine proof is refused, whether      *)
(* before the climb or after it, except that of a single leaf and, under   *)
(* the strict rules, of a tree deeper than the index has bits              *)
(* (merkle_verify).                                                        *)
AcceptsExactlyGenuine ==
    /\ result = "one" => Genuine
    /\ result = "zero" =>
        \/ path # <<>> /\ ~Genuine
        \/ depth # Depth(tree) \/ index \notin DOMAIN tree
        \/ depth = 0 \/ (strict /\ depth > INDEX_BITS)
=============================================================================
