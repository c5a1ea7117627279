------------------------------- MODULE SpentTree ------------------------------
(***************************************************************************)
(* doge/src/custody_ops.rs: the Merkle trees of the bridge.  The tree of    *)
(* spent outputs has a bit per output in its leaves, and a payment proves   *)
(* its inputs one after the other; the tree of requested withdrawals is     *)
(* filled from the left; a block's transactions form a tree whose odd nodes *)
(* are paired with themselves.                                              *)
(*                                                                          *)
(* A hash is the pair of what it hashes, a leaf of bits the set of those    *)
(* that are set, and a sparse tree a function on its non-empty nodes.       *)
(***************************************************************************)
EXTENDS Integers, Sequences, SequencesExt, Functions

CONSTANT LeafBits   \* outputs per leaf of the tree of spent outputs: 256

ASSUME LeafBitsPositive == LeafBits \in Nat \ {0}

\* decode_combined_index: the leaf of an output and its bit in there.
LeafOf(output) == output \div LeafBits
BitOf(output)  == output % LeafBits

\* The root of an empty tree of a height, as in SHA256_ZERO_HASHES.
EmptyLeaf == {}
ZeroHash[height \in Nat] ==
  IF height = 0 THEN EmptyLeaf ELSE <<ZeroHash[height - 1], ZeroHash[height - 1]>>

\* A node, or the root of an empty tree of its height.
NodeOr(nodes, height, i) ==
  IF i \in DOMAIN nodes THEN nodes[i] ELSE ZeroHash[height]

\* rebuild_merkle_leaves and compute_updated_leaf_values: the bits of some
\* outputs are added to the leaves there are.
UpdatedLeaves(outputs, leaves) ==
  [i \in {LeafOf(o) : o \in outputs} |->
     NodeOr(leaves, 0, i) \cup {BitOf(o) : o \in {p \in outputs : LeafOf(p) = i}}]
RebuiltLeaves(outputs) == UpdatedLeaves(outputs, <<>>)

\* build_sparse_levels: the non-empty nodes of every height.
SparseLevels(leaves, height) ==
  LET level[h \in 0 .. height] ==
        IF h = 0 THEN Restrict(leaves, {i \in DOMAIN leaves : leaves[i] # EmptyLeaf})
        ELSE LET below == level[h - 1]
             IN  [i \in {j \div 2 : j \in DOMAIN below} |->
                    <<NodeOr(below, h - 1, 2 * i), NodeOr(below, h - 1, 2 * i + 1)>>]
  IN  level

\* compute_sparse_merkle_root.
SparseRoot(leaves, height) ==
  NodeOr(SparseLevels(leaves, height)[height], height, 0)

\* The node that is hashed together with a node: its index with the last bit
\* flipped.
Sibling(i) == IF i % 2 = 0 THEN i + 1 ELSE i - 1

\* The siblings on the way from a leaf to the root.
Siblings(levels, height, i) ==
  [h \in 1 .. height |-> NodeOr(levels[h - 1], h - 1, Sibling(i \div 2 ^ (h - 1)))]

\* merkle_root_from_proof.
RootFromProof(leaf, index, siblings) ==
  LET node[h \in 0 .. Len(siblings)] ==
        IF h = 0 THEN leaf
        ELSE IF (index \div 2 ^ (h - 1)) % 2 = 0 THEN <<node[h - 1], siblings[h]>>
                                                 ELSE <<siblings[h], node[h - 1]>>
  IN  node[Len(siblings)]

-----------------------------------------------------------------------------

\* The leaves with one of them put there or replaced.
WithLeaf(leaves, i, leaf) ==
  [k \in DOMAIN leaves \cup {i} |-> IF k = i THEN leaf ELSE leaves[k]]

\* Mutant: a bit that is set is set again.
SpendAgain(proved, output, height) ==
  LET i     == LeafOf(output)
      old   == NodeOr(proved.leaves, 0, i)
      new   == old \cup {BitOf(output)}
      path  == Siblings(SparseLevels(proved.leaves, height), height, i)
      proof == [leaf |-> old, bit |-> BitOf(output), index |-> i, siblings |-> path,
                oldRoot |-> RootFromProof(old, i, path),
                newRoot |-> RootFromProof(new, i, path)]
  IN  [ok |-> proved.ok, leaves |-> WithLeaf(proved.leaves, i, new),
       proofs |-> Append(proved.proofs, proof)]

\* One output is proved unspent and spent.  The roots that follow from the
\* witness have to be those of the tree before and after.
Spend(proved, output, height) ==
  LET i     == LeafOf(output)
      old   == NodeOr(proved.leaves, 0, i)
      new   == old \cup {BitOf(output)}
      after == WithLeaf(proved.leaves, i, new)
      path  == Siblings(SparseLevels(proved.leaves, height), height, i)
      proof == [leaf |-> old, bit |-> BitOf(output), index |-> i, siblings |-> path,
                oldRoot |-> RootFromProof(old, i, path),
                newRoot |-> RootFromProof(new, i, path)]
  IN  IF /\ proved.ok
         /\ BitOf(output) \notin old
         /\ proof.oldRoot = SparseRoot(proved.leaves, height)
         /\ proof.newRoot = SparseRoot(after, height)
        THEN [ok |-> TRUE, leaves |-> after, proofs |-> Append(proved.proofs, proof)]
        ELSE [proved EXCEPT !.ok = FALSE]

\* build_sequential_spent_txo_proofs.
SpentProofs(leaves, outputs, height) ==
  LET proved[n \in 0 .. Len(outputs)] ==
        IF n = 0 THEN [ok |-> TRUE, leaves |-> leaves, proofs |-> <<>>]
                 ELSE Spend(proved[n - 1], outputs[n], height)
  IN  proved[Len(outputs)]

\* build_fixed_merkle_proofs: membership of some indices, counted from 0, in a
\* tree of a sequence of leaves.
FixedProofs(leaves, indices, height) ==
  LET tree   == [i \in 0 .. Len(leaves) - 1 |-> leaves[i + 1]]
      levels == SparseLevels(tree, height)
      path(i) == Siblings(levels, height, i)
      root   == SparseRoot(tree, height)
  IN  IF \A i \in ToSet(indices) : i \in DOMAIN tree
                                   /\ RootFromProof(tree[i], i, path(i)) = root
        THEN [ok |-> TRUE, root |-> root,
              proofs |-> [k \in DOMAIN indices |->
                [index |-> indices[k], siblings |-> path(indices[k])]]]
        ELSE [ok |-> FALSE]

\* Mutant: an odd node goes up a level as it is.
ClimbLone(at) ==
  LET size    == Len(at.level)
      sibling == IF Sibling(at.index) < size THEN Sibling(at.index) ELSE at.index
  IN  IF size <= 1 THEN at
      ELSE [level  |-> [k \in 1 .. (size + 1) \div 2 |->
                          IF 2 * k > size THEN at.level[size]
                          ELSE <<at.level[2 * k - 1], at.level[2 * k]>>],
            index  |-> at.index \div 2,
            branch |-> Append(at.branch, at.level[sibling + 1])]

\* One level of build_transaction_merkle_branch, unless it is the last.
Climb(at) ==
  LET size     == Len(at.level)
      sibling  == IF Sibling(at.index) < size THEN Sibling(at.index) ELSE at.index
      right(k) == IF k + 1 <= size THEN at.level[k + 1] ELSE at.level[k]
  IN  IF size <= 1 THEN at
      ELSE [level  |-> [k \in 1 .. (size + 1) \div 2 |->
                          <<at.level[2 * k - 1], right(2 * k - 1)>>],
            index  |-> at.index \div 2,
            branch |-> Append(at.branch, at.level[sibling + 1])]

\* build_transaction_merkle_branch, of an index counted from 0.
TransactionBranch(txids, index) ==
  IF index \notin 0 .. Len(txids) - 1 THEN [ok |-> FALSE]
  ELSE LET at[n \in 0 .. Len(txids)] ==
             IF n = 0 THEN [level |-> txids, index |-> index, branch |-> <<>>]
                      ELSE Climb(at[n - 1])
           top == at[Len(txids)]
       IN  [ok |-> TRUE, root |-> top.level[1], branch |-> top.branch]
=============================================================================
