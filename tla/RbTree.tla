-------------------------------- MODULE RbTree --------------------------------
(***************************************************************************)
(* The red-black trees of kern/libs/rb_tree.c, which index the areas of an *)
(* address space.  A tree is a function from its nodes to their links; two *)
(* sentinels belong to it: Nil stands for every missing child, and the     *)
(* real root is the left child of Root.  `key' orders the nodes (the       *)
(* compare function).  The operators return the changed tree.              *)
(***************************************************************************)
EXTENDS Integers, FiniteSets, TLC

Nil == 0
Root == -1

Leaf(parent, red) == [left |-> Nil, right |-> Nil, parent |-> parent, red |-> red]

\* rb_tree_create().
EmptyTree == [n \in {Nil, Root} |-> Leaf(Nil, FALSE)]

Nodes(t) == DOMAIN t \ {Nil, Root}
Opposite(side) == IF side = "left" THEN "right" ELSE "left"
SideOf(t, n) == IF t[t[n].parent].left = n THEN "left" ELSE "right"

\* rb_left_rotate() and rb_right_rotate().
Rotate(t, x, side) ==
    LET y == t[x][Opposite(side)]
        moved == t[y][side]
        turned == [t EXCEPT ![x][Opposite(side)] = moved,
                            ![y].parent = t[x].parent,
                            ![t[x].parent][SideOf(t, x)] = y,
                            ![y][side] = x,
                            ![x].parent = y]
    IN IF moved = Nil THEN turned ELSE [turned EXCEPT ![moved].parent = x]

\* rb_insert_binary(): where the new node belongs, and the tree with it.
RECURSIVE Descend(_, _, _, _, _)
Descend(t, y, x, n, key) ==
    IF x = Nil THEN y
    ELSE Descend(t, x, IF key[x] > key[n] THEN t[x].left ELSE t[x].right, n, key)

Attach(t, n, key) ==
    LET y == Descend(t, Root, t[Root].left, n, key)
        side == IF y = Root \/ key[y] > key[n] THEN "left" ELSE "right"
    IN (n :> Leaf(y, TRUE)) @@ [t EXCEPT ![y][side] = n]

\* The loop of rb_insert(): no red node keeps a red parent.
RECURSIVE InsertFixup(_, _)
InsertFixup(t, x) ==
    LET p == t[x].parent
        g == t[p].parent
        side == SideOf(t, p)
        uncle == t[g][Opposite(side)]
        inner == x = t[p][Opposite(side)]
        out == IF inner THEN Rotate(t, p, side) ELSE t
        low == IF inner THEN p ELSE x
        mid == out[low].parent
    IN CASE ~t[p].red -> [t EXCEPT ![t[Root].left].red = FALSE]
         [] t[p].red /\ t[uncle].red ->
              InsertFixup([t EXCEPT ![p].red = FALSE, ![uncle].red = FALSE, ![g].red = TRUE], g)
         [] OTHER ->
              InsertFixup(Rotate([out EXCEPT ![mid].red = FALSE, ![g].red = TRUE],
                                 g, Opposite(side)), low)

rb_insert(t, n, key) == InsertFixup(Attach(t, n, key), n)

-----------------------------------------------------------------------------

\* The outermost node on the way from n to one side.
RECURSIVE Outermost(_, _, _)
Outermost(t, n, side) ==
    IF t[n][side] = Nil THEN n ELSE Outermost(t, t[n][side], side)

\* The first ancestor that n is not on the given side of.
RECURSIVE Climb(_, _, _)
Climb(t, n, side) ==
    LET p == t[n].parent IN
    IF p = Root /\ side = "left" THEN Nil
    ELSE IF n = t[p][side] THEN Climb(t, p, side) ELSE p

\* rb_node_next() and rb_node_prev(); Nil stands for NULL.
rb_node_next(t, n) ==
    IF t[n].right # Nil THEN Outermost(t, t[n].right, "left")
    ELSE LET up == Climb(t, n, "right") IN IF up = Root THEN Nil ELSE up
rb_node_prev(t, n) ==
    IF t[n].left # Nil THEN Outermost(t, t[n].left, "right") ELSE Climb(t, n, "left")

\* rb_search(): the topmost node with this key.
RECURSIVE SearchFrom(_, _, _, _)
SearchFrom(t, n, k, key) ==
    IF n = Nil \/ key[n] = k THEN n
    ELSE SearchFrom(t, IF key[n] > k THEN t[n].left ELSE t[n].right, k, key)
rb_search(t, k, key) == SearchFrom(t, t[Root].left, k, key)

-----------------------------------------------------------------------------

\* rb_delete_fixup(): x carries a black too many; root is the root at the call.
RECURSIVE DeleteFixup(_, _, _)
DeleteFixup(t, x, root) ==
    LET p == t[x].parent
        side == SideOf(t, x)
        far == Opposite(side)
        w0 == t[p][far]
        t1 == IF t[w0].red
              THEN Rotate([t EXCEPT ![w0].red = FALSE, ![p].red = TRUE], p, side) ELSE t
        w == t1[p][far]
        t2 == IF t1[t1[w][far]].red THEN t1
              ELSE Rotate([t1 EXCEPT ![t1[w][side]].red = FALSE, ![w].red = TRUE], w, far)
        v == t2[p][far]
    IN IF x = root \/ t[x].red THEN [t EXCEPT ![x].red = FALSE]
       ELSE IF ~t1[t1[w].left].red /\ ~t1[t1[w].right].red
            THEN DeleteFixup([t1 EXCEPT ![w].red = TRUE], p, root)
            ELSE DeleteFixup(Rotate([t2 EXCEPT ![v].red = t2[p].red, ![p].red = FALSE,
                                               ![t2[v][far]].red = FALSE], p, side),
                             root, root)

\* Faulty variant of Spliced: the children of z keep their parent.
SplicedNoParent(t, z, y, x) ==
    LET cut == [t EXCEPT ![x].parent = t[y].parent, ![t[y].parent][SideOf(t, y)] = x]
    IN IF y = z THEN cut
       ELSE [cut EXCEPT ![t[z].parent][SideOf(cut, z)] = y, ![y] = cut[z]]

\* The middle of rb_delete(): x takes the place of y, and y that of z.
Spliced(t, z, y, x) ==
    LET cut == [t EXCEPT ![x].parent = t[y].parent, ![t[y].parent][SideOf(t, y)] = x]
    IN IF y = z THEN cut
       ELSE [cut EXCEPT ![t[z].parent][SideOf(cut, z)] = y,
                        ![cut[z].left].parent = y, ![cut[z].right].parent = y,
                        ![y] = cut[z]]

\* rb_delete().  The parent of Nil is scratch: it is reset here.
rb_delete(t, z) ==
    LET y == IF t[z].left = Nil \/ t[z].right = Nil THEN z ELSE rb_node_next(t, z)
        x == IF t[y].left # Nil THEN t[y].left ELSE t[y].right
        spliced == Spliced(t, z, y, x)
        without == [n \in DOMAIN t \ {z} |-> spliced[n]]
        fixed == IF t[y].red THEN without ELSE DeleteFixup(without, x, without[Root].left)
    IN [fixed EXCEPT ![Nil].parent = Nil]

-----------------------------------------------------------------------------
(* What a tree is *)

\* check_tree(): the black height below n, or 0 if the tree is not in order.
RECURSIVE check_tree(_, _, _)
check_tree(t, n, key) ==
    LET l == t[n].left
        r == t[n].right
        height == check_tree(t, l, key)
    IN IF n = Nil THEN (IF t[n].red THEN 0 ELSE 1)
       ELSE IF /\ l # Nil => key[n] >= key[l] /\ t[l].parent = n
               /\ r # Nil => key[n] <= key[r] /\ t[r].parent = n
               /\ t[n].red => ~t[l].red /\ ~t[r].red
               /\ height > 0 /\ check_tree(t, r, key) = height
            THEN (IF t[n].red THEN height ELSE height + 1)
            ELSE 0

\* The nodes below n.
RECURSIVE Below(_, _)
Below(t, n) == IF n = Nil THEN {} ELSE {n} \cup Below(t, t[n].left) \cup Below(t, t[n].right)

\* The tree t holds exactly the nodes of a set, is a red-black tree, and the
\* walks with rb_node_next() and rb_node_prev() follow the keys.
IsTreeOf(t, nodes, key) ==
    LET top == t[Root].left IN
    /\ Nodes(t) = nodes /\ Below(t, top) = nodes
    /\ check_tree(t, top, key) > 0
    /\ ~t[Root].red /\ ~t[top].red
    /\ \A n \in nodes :
          LET next == rb_node_next(t, n)
              prev == rb_node_prev(t, n)
          IN /\ IF next = Nil THEN \A m \in nodes : key[m] <= key[n]
                ELSE key[next] >= key[n] /\ rb_node_prev(t, next) = n
             /\ IF prev = Nil THEN \A m \in nodes : key[m] >= key[n]
                ELSE key[prev] <= key[n] /\ rb_node_next(t, prev) = n
=============================================================================
