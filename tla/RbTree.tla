------------------------------- MODULE RbTree -------------------------------
(****************************************************************************)
(* The red-black tree of hev-rbtree.c with the cached first node of          *)
(* hev-rbtree-cached.c, as the scheduler uses it. A tree is a record of its  *)
(* pointers. The two mirrored halves of the C functions are one definition   *)
(* with the side as a parameter, and every round of a rebalancing loop is a  *)
(* step, so that the loop invariants the code states can be checked.         *)
(****************************************************************************)
EXTENDS Integers, Sequences, FiniteSets, SequencesExt

CONSTANTS
    Nodes,
    key,        \* what the owner of the tree compares
    NULL

ASSUME RbTreeAssumption ==
    /\ IsFiniteSet(Nodes) /\ NULL \notin Nodes
    /\ key \in [Nodes -> Int]

VARIABLES
    t,          \* the tree: root, leftmost, child, parent and colour of each node
    op,         \* what is going on: "idle", "insert" or "erase"
    node, parent    \* the variables of the loop of that name

treeVars == <<t, op, node, parent>>

Red == "red"
Black == "black"
Sides == {"left", "right"}
Opp(s) == IF s = "left" THEN "right" ELSE "left"

IsRed(tr, n) == n # NULL /\ tr.colour[n] = Red

\* A node is in the tree if it is the root or has a parent; Erase forgets both.
Linked(tr, n) == n = tr.root \/ tr.parent[n] # NULL

Members == {n \in Nodes : Linked(t, n)}

-----------------------------------------------------------------------------
(* Pointer assignments *)

SetChild(tr, n, s, c) == [tr EXCEPT !.child[n][s] = c]

\* hev_rbtree_node_set_parent_color; NULL where the code tests for it.
SetParentColour(tr, n, p, c) ==
    IF n = NULL THEN tr ELSE [tr EXCEPT !.parent[n] = p, !.colour[n] = c]

SetParent(tr, n, p) == IF n = NULL THEN tr ELSE [tr EXCEPT !.parent[n] = p]

ChangeChild(tr, old, new, p) ==
    IF p = NULL THEN [tr EXCEPT !.root = new]
    ELSE SetChild(tr, p, IF tr.child[p]["left"] = old THEN "left" ELSE "right", new)

\* old's parent and colour go to new, and new becomes the parent of old.
RotateSetParents(tr, old, new, colour) ==
    LET p == tr.parent[old]
        t1 == SetParentColour(tr, new, p, tr.colour[old])
        t2 == SetParentColour(t1, old, new, colour)
    IN  ChangeChild(t2, old, new, p)

\* p's child c on side s goes up and p takes c's inner child, a rotation
\* without the colours.
Lift(tr, p, s, c) == SetChild(SetChild(tr, p, s, tr.child[c][Opp(s)]), c, Opp(s), p)

-----------------------------------------------------------------------------
(* Walks *)

\* As far to side s as there are children, from n.
Outmost(tr, n, s) ==
    LET Down[m \in Nodes] == IF tr.child[m][s] = NULL THEN m ELSE Down[tr.child[m][s]]
    IN  IF n = NULL THEN NULL ELSE Down[n]

First(tr) == Outmost(tr, tr.root, "left")

\* hev_rbtree_node_next, and hev_rbtree_node_prev for the other side.
Neighbour(tr, n, s) ==
    LET Up[m \in Nodes] ==
            LET p == tr.parent[m]
            IN  IF p # NULL /\ m = tr.child[p][s] THEN Up[p] ELSE p
    IN  IF tr.child[n][s] # NULL THEN Outmost(tr, tr.child[n][s], Opp(s)) ELSE Up[n]

\* The nodes met by hev_rbtree_first and then hev_rbtree_node_next.
Walk(tr) ==
    LET From[n \in Nodes \cup {NULL}] ==
            IF n = NULL THEN <<>> ELSE <<n>> \o From[Neighbour(tr, n, "right")]
    IN  From[First(tr)]

-----------------------------------------------------------------------------
(* Inserting *)

\* Mutant: equal keys go to the left.
SideOfEqualLeft(n, m) == IF key[n] <= key[m] THEN "left" ELSE "right"

\* Where n belongs under m: equal keys go to the right.
SideOf(n, m) == IF key[n] < key[m] THEN "left" ELSE "right"

\* The free place for n; it is the first node if every turn was left.
Place(tr, n) ==
    LET Down[m \in Nodes] ==
            LET s == SideOf(n, m)
                c == tr.child[m][s]
                below == Down[c]
            IN  IF c = NULL THEN [parent |-> m, side |-> s, first |-> s = "left"]
                ELSE [below EXCEPT !.first = @ /\ s = "left"]
    IN  IF tr.root = NULL THEN [parent |-> NULL, side |-> "left", first |-> TRUE]
        ELSE Down[tr.root]

\* hev_rbtree_node_link and the start of hev_rbtree_cached_insert_color.
Insert(n) ==
    /\ op = "idle" /\ n \notin Members
    /\ LET at == Place(t, n)
           fresh == [t EXCEPT !.child[n] = [s \in Sides |-> NULL], !.parent[n] = at.parent,
                              !.colour[n] = Red,
                              !.leftmost = IF at.first THEN n ELSE @]
       IN  /\ t' = IF at.parent = NULL THEN [fresh EXCEPT !.root = n]
                   ELSE SetChild(fresh, at.parent, at.side, n)
           /\ parent' = at.parent
    /\ node' = n /\ op' = "insert"

Done == op' = "idle" /\ node' = NULL /\ parent' = NULL

\* The node is the root, or its parent is black.
InsertDone ==
    /\ op = "insert" /\ ~IsRed(t, parent)
    /\ t' = IF parent = NULL THEN SetParentColour(t, node, NULL, Black) ELSE t
    /\ Done

Grandparent == t.parent[parent]
ParentSide == IF parent # t.child[Grandparent]["right"] THEN "left" ELSE "right"
Uncle == t.child[Grandparent][Opp(ParentSide)]

\* Case 1: the uncle is red, colours flip and the loop goes on at the grandparent.
InsertFlip ==
    /\ op = "insert" /\ IsRed(t, parent) /\ IsRed(t, Uncle)
    /\ LET g == Grandparent
           t1 == SetParentColour(t, Uncle, g, Black)
           t2 == SetParentColour(t1, parent, g, Black)
       IN  /\ t' = SetParentColour(t2, g, t.parent[g], Red)
           /\ node' = g /\ parent' = t.parent[g]
    /\ UNCHANGED op

\* Case 2: an inner child is first rotated to the outside.
InnerToOuter(tr, p, n, s) ==
    IF n # tr.child[p][Opp(s)] THEN [tree |-> tr, top |-> p]
    ELSE LET t1 == Lift(tr, p, Opp(s), n)
             t2 == SetParentColour(t1, tr.child[n][s], p, Black)
         IN  [tree |-> SetParentColour(t2, p, n, Red), top |-> n]

\* Cases 2 and 3: the uncle is black, a rotation at the grandparent ends it.
InsertRotate ==
    /\ op = "insert" /\ IsRed(t, parent) /\ ~IsRed(t, Uncle)
    /\ LET s == ParentSide
           g == Grandparent
           two == InnerToOuter(t, parent, node, s)
           top == two.top
           inner == two.tree.child[top][Opp(s)]
           t1 == Lift(two.tree, g, s, top)
           t2 == SetParentColour(t1, inner, g, Black)
       IN  t' = RotateSetParents(t2, g, top, Red)
    /\ Done

-----------------------------------------------------------------------------
(* Erasing *)

\* hev_rbtree_cached_erase: the next node becomes the first before the tree changes.
NewLeftmost(n) == IF n = t.leftmost THEN Neighbour(t, n, "right") ELSE t.leftmost

\* Where a black node is missing once n has given its place to c.
Rebalance(c, n, p) == IF c = NULL /\ t.colour[n] = Black THEN p ELSE NULL

\* _hev_rbtree_erase, at most one child: the child takes the node's place.
UnlinkLeaf(n) ==
    LET c == IF t.child[n]["left"] = NULL THEN t.child[n]["right"] ELSE t.child[n]["left"]
        p == t.parent[n]
    IN  [tree |-> SetParentColour(ChangeChild(t, n, c, p), c, p, t.colour[n]),
         rebalance |-> Rebalance(c, n, p)]

\* _hev_rbtree_erase, two children: the successor takes the node's place.
UnlinkInner(n) ==
    LET c == t.child[n]["right"]
        s == Outmost(t, c, "left")
        c2 == t.child[s]["right"]
        p == IF s = c THEN s ELSE t.parent[s]
        t1 == IF s = c THEN t
              ELSE SetParent(SetChild(SetChild(t, p, "left", c2), s, "right", c), c, s)
        t2 == SetParent(SetChild(t1, s, "left", t.child[n]["left"]), t.child[n]["left"], s)
        t3 == ChangeChild(t2, n, s, t.parent[n])
        t4 == SetParentColour(t3, c2, p, Black)
    IN  [tree |-> SetParentColour(t4, s, t.parent[n], t.colour[n]),
         rebalance |-> Rebalance(c2, s, p)]

Erase(n) ==
    /\ op = "idle" /\ n \in Members
    /\ LET cut == IF NULL \in {t.child[n][s] : s \in Sides} THEN UnlinkLeaf(n)
                  ELSE UnlinkInner(n)
           tree == [cut.tree EXCEPT !.child[n] = [s \in Sides |-> NULL],
                                    !.parent[n] = NULL, !.colour[n] = Red,
                                    !.leftmost = NewLeftmost(n)]
       IN  /\ t' = tree
           /\ parent' = cut.rebalance
           /\ op' = IF cut.rebalance = NULL THEN "idle" ELSE "erase"
    /\ node' = NULL

\* The sides of _hev_rbtree_erase_color: node hangs on s, its sibling opposite.
NodeSide == IF node # t.child[parent]["right"] THEN "left" ELSE "right"

\* Case 1: a red sibling is rotated up, and its inner child is the new sibling.
RedSiblingUp(s) ==
    LET sib == t.child[parent][Opp(s)]
        inner == t.child[sib][s]
        t1 == Lift(t, parent, Opp(s), sib)
        t2 == SetParentColour(t1, inner, parent, Black)
    IN  IF ~IsRed(t, sib) THEN [tree |-> t, sibling |-> sib]
        ELSE [tree |-> RotateSetParents(t2, parent, sib, Red), sibling |-> inner]

\* Mutant: the loop stops at a black parent.
FlipContinuesNot(tr) == FALSE

\* After the sibling was coloured red, a black parent passes the lack upwards.
FlipContinues(tr) == ~IsRed(tr, parent) /\ tr.parent[parent] # NULL

\* Case 2: both children of the sibling are black.
EraseFlip ==
    /\ op = "erase"
    /\ LET one == RedSiblingUp(NodeSide)
           t1 == SetParentColour(one.tree, one.sibling, parent, Red)
       IN  /\ \A s \in Sides : ~IsRed(one.tree, one.tree.child[one.sibling][s])
           /\ t' = IF IsRed(t1, parent)
                   THEN SetParentColour(t1, parent, t1.parent[parent], Black) ELSE t1
           /\ IF FlipContinues(t1)
              THEN node' = parent /\ parent' = t1.parent[parent] /\ UNCHANGED op
              ELSE Done

\* Case 3: a red inner child of the sibling is rotated to the outside.
InnerNephewOut(tr, sib, s) ==
    LET inner == tr.child[sib][s]
        t1 == Lift(tr, sib, s, inner)
        t2 == SetChild(t1, parent, Opp(s), inner)
    IN  IF IsRed(tr, tr.child[sib][Opp(s)])
        THEN [tree |-> tr, sibling |-> sib, outer |-> tr.child[sib][Opp(s)]]
        ELSE [tree |-> SetParentColour(t2, tr.child[inner][Opp(s)], sib, Black),
              sibling |-> inner, outer |-> sib]

\* Cases 3 and 4: a rotation at the parent ends the loop.
EraseRotate ==
    /\ op = "erase"
    /\ LET s == NodeSide
           one == RedSiblingUp(s)
           three == InnerNephewOut(one.tree, one.sibling, s)
           inner == three.tree.child[three.sibling][s]
           t1 == Lift(three.tree, parent, Opp(s), three.sibling)
           t2 == SetParentColour(t1, three.outer, three.sibling, Black)
           t3 == SetParent(t2, inner, parent)
       IN  /\ \E side \in Sides : IsRed(one.tree, one.tree.child[one.sibling][side])
           /\ t' = RotateSetParents(t3, parent, three.sibling, Black)
    /\ Done

-----------------------------------------------------------------------------
TreeInit ==
    /\ t = [root |-> NULL, leftmost |-> NULL,
            child |-> [n \in Nodes |-> [s \in Sides |-> NULL]],
            parent |-> [n \in Nodes |-> NULL], colour |-> [n \in Nodes |-> Red]]
    /\ op = "idle" /\ node = NULL /\ parent = NULL

TreeNext ==
    \/ \E n \in Nodes : Insert(n) \/ Erase(n)
    \/ InsertDone \/ InsertFlip \/ InsertRotate
    \/ EraseFlip \/ EraseRotate

TreeSpec == TreeInit /\ [][TreeNext]_treeVars

-----------------------------------------------------------------------------
(* Properties *)

\* The nodes on the way from n up to the root.
Path(n) ==
    LET Up[m \in Nodes] == {m} \cup (IF t.parent[m] = NULL THEN {} ELSE Up[t.parent[m]])
    IN  Up[n]

BlackHeight(n) == Cardinality({m \in Path(n) : t.colour[m] = Black})

\* The nodes with a free place, at which a path to a leaf ends.
Ends == {n \in Members : NULL \in {t.child[n][s] : s \in Sides}}

Under(n, top) == top \in Path(n)

\* Between two operations: the root is black, no red node has a red parent, every
\* path to a leaf has the same number of black nodes, parents and children agree.
Balanced ==
    op = "idle" =>
        /\ ~IsRed(t, t.root)
        /\ \A n \in Members : IsRed(t, n) => ~IsRed(t, t.parent[n])
        /\ \A m, n \in Ends : BlackHeight(m) = BlackHeight(n)
        /\ \A n \in Members, s \in Sides :
              t.child[n][s] # NULL => t.parent[t.child[n][s]] = n

\* The loop invariants the code states at lines 200 and 456: an inserted node is
\* red and everything but its own parent is in order; while erasing, the paths
\* through node are exactly one black node short and the others agree, and node is
\* black and not the root.
LoopInvariant ==
    /\ op = "insert" =>
          /\ IsRed(t, node) /\ parent = t.parent[node]
          /\ \A m, n \in Ends : BlackHeight(m) = BlackHeight(n)
          /\ \A n \in Members \ {node} : IsRed(t, n) => ~IsRed(t, t.parent[n])
    /\ op = "erase" =>
          /\ parent # NULL /\ ~IsRed(t, node)
          /\ LET Short(n) == node # NULL /\ Under(n, node)
             IN  \A m \in Ends, n \in Ends \ {parent} :
                    ~Short(n) /\ (Short(m) \/ (node = NULL /\ m = parent))
                       => BlackHeight(n) = BlackHeight(m) + 1

(****************************************************************************)
(* The tree is a red-black tree whenever an operation has ended, and in the  *)
(* middle of its loops it is what the code's own loop invariants say. The    *)
(* depth of the scheduler's and the timers' trees rests on it.               *)
(****************************************************************************)
RedBlack == Balanced /\ LoopInvariant

Queue == INSTANCE OrderedQueue WITH queue <- Walk(t), first <- t.leftmost

(****************************************************************************)
(* The tree is an ordered queue: a walk from the first node meets the nodes  *)
(* by key and those of one key in the order of their insertion, an insertion *)
(* adds its node and an erasure takes its node out, whatever is rebalanced;  *)
(* and the cached first node, which the scheduler runs next and by which it  *)
(* computes how long to sleep, is the first node of that walk.               *)
(****************************************************************************)
IsOrderedQueue == Queue!Spec

=============================================================================
