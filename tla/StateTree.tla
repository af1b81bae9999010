----------------------------- MODULE StateTree -----------------------------
(***************************************************************************)
(* The Merkle trees of the state as the database holds them: of accounts   *)
(* (tsAccountTree.service.ts), of the tokens of one account                *)
(* (tsTokenTree.service.ts) and of orders (obsOrderTree.service.ts), over  *)
(* common/tsMerkleTree.ts.                                                 *)
(*                                                                         *)
(* An update writes the leaf and then the path above it inside a database  *)
(* transaction, but reads the path through the repository, that is through *)
(* another connection, which sees what was committed before.  Hashes are   *)
(* modelled by what they hash.                                             *)
(***************************************************************************)
EXTENDS Naturals, Sequences, FiniteSets, TLC

CONSTANTS
    Height,     \* treeHeigt
    Values,     \* what an order or the token amounts may be
    Updaters,   \* updates that may be under way at the same time
    MaxUpdates  \* bound: updates

Trees == {"account", "token", "order"}
Leaves == 0 .. 2 ^ Height - 1
Ids == 1 .. 2 ^ (Height + 1) - 1

\* The account whose tokens are modelled.
Owner == 0

VARIABLES
    node,    \* tree -> id -> hash, as committed
    leaf,    \* tree -> leaf -> the leaf's row, as committed
    update,  \* updater -> the update it is in
    updates  \* how many there were

vars == <<node, leaf, update, updates>>

-----------------------------------------------------------------------------
(* tsMerkleTree.ts                                                         *)

Null == [null |-> TRUE]
Hash(left, right) == [left |-> left, right |-> right]
LeafHash(value) == [leaf |-> value]

getLeafIdInTree(l) == l + 2 ^ Height
Sibling(i) == IF i % 2 = 0 THEN i + 1 ELSE i - 1
LevelOf(i) == CHOOSE n \in 0 .. Height : 2 ^ n <= i /\ i < 2 ^ (n + 1)

\* The siblings of a leaf and of the nodes above it, upwards.
getProofIds(l) == [n \in 1 .. Height |-> Sibling(getLeafIdInTree(l) \div 2 ^ (n - 1))]

\* setLevelDefaultHash, from the leaves' level up.
LevelDefaultHash(leafHash) ==
    LET above[n \in 0 .. Height] ==
            IF n = 0 THEN leafHash ELSE Hash(above[n - 1], above[n - 1])
    IN  [level \in 0 .. Height |-> above[Height - level]]

NoValue == [value |-> "none"]
SomeValue(v) == [value |-> v]
TokenDefaults == LevelDefaultHash(LeafHash(NoValue))
\* getDefaultRoot is the hash of level 1, not of the root's level 0.
DefaultTokenRoot == TokenDefaults[1]
DefaultAccount == [nonce |-> 0, tokenRoot |-> DefaultTokenRoot]

DefaultLeaf(tree) == IF tree = "account" THEN DefaultAccount ELSE NoValue
Defaults == [tree \in Trees |-> LevelDefaultHash(LeafHash(DefaultLeaf(tree)))]

getDefaultHashByLevel(tree, level) == Defaults[tree][level]
HashAt(tree, i) ==
    IF node[tree][i] = Null THEN getDefaultHashByLevel(tree, LevelOf(i)) ELSE node[tree][i]

-----------------------------------------------------------------------------
Idle == [pc |-> "idle"]

Init ==
    /\ node = [tree \in Trees |-> [i \in Ids |-> Null]]
    /\ leaf = [tree \in Trees |-> [l \in Leaves |-> Null]]
    /\ update = [u \in Updaters |-> Idle]
    /\ updates = 0

NoWrites == [tree \in Trees |-> <<>>]

\* The leaf's row and its node are written first, inside the transaction.
Begun(tree, l, value, writes, rows) ==
    [pc |-> "path", tree |-> tree, leafId |-> l, i |-> getLeafIdInTree(l),
     writes |-> [writes EXCEPT ![tree] = (getLeafIdInTree(l) :> LeafHash(value)) @@ @],
     rows |-> [rows EXCEPT ![tree] = (l :> value) @@ @]]

\* Only the writes of orders are not awaited and may overlap in their tree.
MayBegin(u, tree) ==
    /\ update[u].pc = "idle"
    /\ updates < MaxUpdates
    /\ \A v \in Updaters : update[v].pc = "path" => update[v].tree = "order"
    /\ updates' = updates + 1

\* Registration: the default hash, whatever the leaf holds.
addLeaf(l) ==
    /\ leaf["account"][l] = Null
    /\ leaf' = [leaf EXCEPT !["account"][l] = DefaultAccount]
    /\ node' = [node EXCEPT !["account"][getLeafIdInTree(l)] = getDefaultHashByLevel("account", Height)]
    /\ UNCHANGED <<update, updates>>

\* Reading a token's leaf that is not there inserts it.
getTokenLeaf(l) ==
    /\ leaf["account"][Owner] # Null
    /\ leaf["token"][l] = Null
    /\ leaf' = [leaf EXCEPT !["token"][l] = NoValue]
    /\ node' = [node EXCEPT !["token"][getLeafIdInTree(l)] = getDefaultHashByLevel("token", Height)]
    /\ UNCHANGED <<update, updates>>

updateObsOrder(u, l, value) ==
    /\ MayBegin(u, "order")
    /\ update' = [update EXCEPT ![u] = Begun("order", l, value, NoWrites, NoWrites)]
    /\ UNCHANGED <<node, leaf>>

updateAccountNonce(u, l) ==
    /\ leaf["account"][l] # Null
    /\ MayBegin(u, "account")
    /\ update' = [update EXCEPT ![u] =
            Begun("account", l, [leaf["account"][l] EXCEPT !.nonce = @ + 1], NoWrites, NoWrites)]
    /\ UNCHANGED <<node, leaf>>

updateTokenLeaf(u, l, value) ==
    /\ leaf["token"][l] # Null
    /\ MayBegin(u, "token")
    /\ update' = [update EXCEPT ![u] = Begun("token", l, value, NoWrites, NoWrites)]
    /\ UNCHANGED <<node, leaf>>

-----------------------------------------------------------------------------
(* _updateLeaf: one level of the path.                                     *)

\* Which of the two is on the left is decided by the leaf's id at every level.
ParentHash(tree, l, i) ==
    IF getLeafIdInTree(l) % 2 = 0
    THEN Hash(HashAt(tree, Sibling(i)), HashAt(tree, i))
    ELSE Hash(HashAt(tree, i), HashAt(tree, Sibling(i)))

\* Nodes not found are written with the default hash: the leaf's, too, if its
\* row is not committed yet.
Filled(tree, i) ==
    [k \in {k \in {i, Sibling(i)} : node[tree][k] = Null} |-> getDefaultHashByLevel(tree, LevelOf(k))]

\* The tokens' tree writes the parent through the repository: at once.
UpdateLevel(u) ==
    LET w == update[u]
        parent == ParentHash(w.tree, w.leafId, w.i)
        filled == Filled(w.tree, w.i)
    IN  /\ w.pc = "path"
        /\ w.i > 1
        /\ IF w.tree = "token"
           THEN /\ node' = [node EXCEPT !["token"][w.i \div 2] = parent]
                /\ update' = [update EXCEPT ![u].i = w.i \div 2,
                                            ![u].writes["token"] = filled @@ @]
           ELSE /\ update' = [update EXCEPT ![u].i = w.i \div 2,
                                            ![u].writes[w.tree] = (w.i \div 2 :> parent) @@ filled @@ @]
                /\ UNCHANGED node
        /\ UNCHANGED <<leaf, updates>>

\* The tokens' new root goes into the account's leaf, in the same transaction.
UpdateOwner(u) ==
    LET w == update[u]
    IN  /\ w.pc = "path"
        /\ w.i = 1
        /\ w.tree = "token"
        /\ update' = [update EXCEPT ![u] =
                Begun("account", Owner, [leaf["account"][Owner] EXCEPT !.tokenRoot = HashAt("token", 1)],
                      w.writes, w.rows)]
        /\ UNCHANGED <<node, leaf, updates>>

Commit(u) ==
    LET w == update[u]
    IN  /\ w.pc = "path"
        /\ w.i = 1
        /\ w.tree # "token"
        /\ node' = [tree \in Trees |-> w.writes[tree] @@ node[tree]]
        /\ leaf' = [tree \in Trees |-> w.rows[tree] @@ leaf[tree]]
        /\ update' = [update EXCEPT ![u] = Idle]
        /\ UNCHANGED updates

Next ==
    \/ \E l \in Leaves : addLeaf(l) \/ getTokenLeaf(l)
    \/ \E u \in Updaters, l \in Leaves :
         \/ updateAccountNonce(u, l)
         \/ \E value \in Values : updateObsOrder(u, l, SomeValue(value)) \/ updateTokenLeaf(u, l, SomeValue(value))
    \/ \E u \in Updaters : UpdateLevel(u) \/ UpdateOwner(u) \/ Commit(u)

Spec == Init /\ [][Next]_vars

-----------------------------------------------------------------------------
(* What a witness is made of, and what the circuits ask of it.             *)

getRoot(tree) ==
    IF node[tree][1] = Null THEN getDefaultHashByLevel(tree, 1) ELSE node[tree][1]

\* The nodes of the proof that are in the table, in the order of their ids.
getMerklerProof(tree, l) ==
    LET proof == {getProofIds(l)[n] : n \in 1 .. Height}
    IN  SelectSeq([i \in Ids |-> i], LAMBDA i : i \in proof /\ node[tree][i] # Null)

\* merkle_tree_poseidon.circom: the bits of the index tell, level by level
\* from the leaf up, whether the proof's node is on the left.
VerifyExists(idx, leafNode, proof, root) ==
    LET up[n \in 0 .. Height] ==
            IF n = 0 THEN leafNode
            ELSE IF (idx \div 2 ^ (n - 1)) % 2 = 1 THEN Hash(proof[n], up[n - 1])
                 ELSE Hash(up[n - 1], proof[n])
    IN  root = up[Height]

=============================================================================
