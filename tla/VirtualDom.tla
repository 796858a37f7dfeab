----------------------------- MODULE VirtualDom -----------------------------
(***************************************************************************)
(* The tree of interface elements in the kernel (gui/dom_engine.c): nodes  *)
(* taken from a pool that starts over when it is used up, their layout     *)
(* when they are drawn, and the search for the node a click is for.        *)
(* Colours, texts and corners are left out; lengths are scaled.            *)
(***************************************************************************)
EXTENDS Integers, Sequences, SequencesExt, FiniteSets

CONSTANTS MaxNodes,      (* MAX_VDOM_NODES: 256 in the code                 *)
          MaxChildren,   (* 12 in the code                                  *)
          TitleH,        (* nested children start below a heading: 36 ...   *)
          Inset,         (* ... 10 from the left and from the right ...     *)
          RowH, RowStep, (* ... and are 36 high, 42 apart                   *)
          Gap,           (* gaps of rows and columns                        *)
          Margin,        (* margins of the root                             *)
          DomSize,       (* sizes the root is drawn in                      *)
          MaxCreated     (* bound: nodes created                            *)

ASSUME VirtualDomAssumption ==
    /\ MaxNodes \in Nat \ {0} /\ {MaxChildren, TitleH, Inset, RowH, RowStep, MaxCreated} \subseteq Nat
    /\ Gap \subseteq Nat /\ Margin \subseteq Nat /\ DomSize \subseteq Nat \X Nat
    /\ RowH <= RowStep

VARIABLES node,          (* g_node_pool                                     *)
          g_node_index,  (* the next node, from 0                           *)
          created,       (* bounds the nodes created since the last reset   *)
          grown          (* history: a node got a child after it was drawn  *)

domVars == <<node, g_node_index, created, grown>>

Node == 0 .. MaxNodes - 1
Type == {"row", "column", "card", "button"}
Unused == [type |-> "card", gap |-> 0, margin |-> 0, children |-> << >>, on_click |-> FALSE,
           x |-> 0, y |-> 0, width |-> 0, height |-> 0, drawn |-> FALSE]

DomInit ==
    /\ node = [n \in Node |-> Unused]
    /\ g_node_index = 0
    /\ created = 0
    /\ grown = FALSE

(* vdom_reset_pool; a node is not read before it is created again. *)
vdom_reset_pool ==
    /\ created > 0
    /\ g_node_index' = 0
    /\ created' = 0
    /\ grown' = FALSE
    /\ node' = [n \in Node |-> Unused]

(* vdom_create_node, from a jsx_ function that gives it its style: buttons
   have a handler.  The pool starts over without a look at who uses a node. *)
vdom_create_node(type, gap, margin) ==
    LET n == IF g_node_index >= MaxNodes THEN 0 ELSE g_node_index IN
    /\ created < MaxCreated
    /\ created' = created + 1
    /\ g_node_index' = n + 1
    /\ node' = [node EXCEPT ![n] = [Unused EXCEPT !.type = type, !.gap = gap, !.margin = margin,
                                                  !.on_click = type = "button"]]
    /\ UNCHANGED grown

Created == {n \in Node : n < created}
HasParent(n) == \E p \in Created : n \in ToSet(node[p].children)

(* vdom_add_child: callers add a node once, below one created before it. *)
vdom_add_child(parent, child) ==
    /\ created <= MaxNodes
    /\ {parent, child} \subseteq Created /\ parent < child /\ ~HasParent(child)
    /\ Len(node[parent].children) < MaxChildren
    /\ node' = [node EXCEPT ![parent].children = Append(@, child)]
    /\ grown' = (grown \/ node[parent].drawn)
    /\ UNCHANGED <<g_node_index, created>>

(* C divides towards zero. *)
Divided(a, b) == IF a >= 0 THEN a \div b ELSE -((-a) \div b)

(* Bug: the gaps are not taken off before the width is shared out. *)
Place_NoGaps(p, i) ==
    LET k == Len(p.children)
        w == Divided(p.width, k)
        h == Divided(p.height, k)
    IN  CASE p.type = "row"    -> [x |-> p.x + (i - 1) * (w + p.gap), y |-> p.y, w |-> w, h |-> p.height]
          [] p.type = "column" -> [x |-> p.x, y |-> p.y + (i - 1) * (h + p.gap), w |-> p.width, h |-> h]
          [] OTHER -> [x |-> p.x + Inset, y |-> p.y + TitleH + (i - 1) * RowStep,
                       w |-> p.width - 2 * Inset, h |-> RowH]

(* The room a child gets, and where: a row shares its width out, a column
   its height, and any other node stacks its children under a heading.      *)
Place(p, i) ==
    LET k == Len(p.children)
        w == Divided(p.width - (k - 1) * p.gap, k)
        h == Divided(p.height - (k - 1) * p.gap, k)
    IN  CASE p.type = "row"    -> [x |-> p.x + (i - 1) * (w + p.gap), y |-> p.y, w |-> w, h |-> p.height]
          [] p.type = "column" -> [x |-> p.x, y |-> p.y + (i - 1) * (h + p.gap), w |-> p.width, h |-> h]
          [] OTHER -> [x |-> p.x + Inset, y |-> p.y + TitleH + (i - 1) * RowStep,
                       w |-> p.width - 2 * Inset, h |-> RowH]

(* vdom_render_tree: a node keeps the width and the height it was once
   drawn with, and moves.                                                   *)
RECURSIVE vdom_render_tree(_, _, _)
vdom_render_tree(pool, root, box) ==
    LET n == pool[root]
        laid == [n EXCEPT !.x = box.x + n.margin, !.y = box.y + n.margin, !.drawn = TRUE,
                          !.width = IF n.width > 0 THEN n.width ELSE box.w - 2 * n.margin,
                          !.height = IF n.height > 0 THEN n.height ELSE box.h - 2 * n.margin]
        Below(before, i) == vdom_render_tree(before, n.children[i], Place(laid, i))
    IN  FoldLeft(Below, [pool EXCEPT ![root] = laid], [i \in DOMAIN n.children |-> i])

Render ==
    /\ created \in 1 .. MaxNodes
    /\ \E size \in DomSize :
          node' = vdom_render_tree(node, 0, [x |-> 0, y |-> 0, w |-> size[1], h |-> size[2]])
    /\ UNCHANGED <<g_node_index, created, grown>>

Hit(n, x, y) ==
    /\ x \in n.x .. n.x + n.width
    /\ y \in n.y .. n.y + n.height

(* Bug: a parent comes before its children. *)
RECURSIVE vdom_dispatch_click_ParentFirst(_, _, _)
vdom_dispatch_click_ParentFirst(root, x, y) ==
    LET below == [i \in DOMAIN node[root].children |->
                     vdom_dispatch_click_ParentFirst(node[root].children[i], x, y)]
        takers == {i \in DOMAIN below : below[i] # -1}
    IN  IF ~Hit(node[root], x, y) THEN -1
        ELSE IF node[root].on_click THEN root
        ELSE IF takers # {} THEN below[CHOOSE i \in takers : \A j \in takers : i <= j] ELSE -1

(* vdom_dispatch_click: who handles a click at a place, or nobody (-1):
   children come before their parent, in their order.                       *)
RECURSIVE vdom_dispatch_click(_, _, _)
vdom_dispatch_click(root, x, y) ==
    LET below == [i \in DOMAIN node[root].children |->
                     vdom_dispatch_click(node[root].children[i], x, y)]
        takers == {i \in DOMAIN below : below[i] # -1}
    IN  IF ~Hit(node[root], x, y) THEN -1
        ELSE IF takers # {} THEN below[CHOOSE i \in takers : \A j \in takers : i <= j]
        ELSE IF node[root].on_click THEN root ELSE -1

DomNext ==
    \/ vdom_reset_pool
    \/ \E type \in Type, gap \in Gap, margin \in Margin : vdom_create_node(type, gap, margin)
    \/ \E parent, child \in Node : vdom_add_child(parent, child)
    \/ Render

DomSpec == DomInit /\ [][DomNext]_domVars

-----------------------------------------------------------------------------
Boxes == {"row", "column"}
Siblings(p) == {s \in (DOMAIN node[p].children) \X (DOMAIN node[p].children) : s[1] < s[2]}
Inside(a, b) == /\ b.x <= a.x /\ a.x + a.width <= b.x + b.width
                /\ b.y <= a.y /\ a.y + a.height <= b.y + b.height
Apart(a, b) == a.x + a.width <= b.x \/ a.y + a.height <= b.y

(* While nodes are created from one turn of the pool and a tree is complete
   before it is drawn: siblings never overlap, whatever they are nested in
   and drawn again in, and what a row or a column holds stays inside of it.
   A row that grows after it was drawn is excepted: the widths kept from
   before make its children overlap.                                        *)
SiblingsApart ==
    created <= MaxNodes /\ ~grown =>
       \A p \in Created : node[p].drawn /\ node[p].width >= 0 /\ node[p].height >= 0 =>
          /\ \A s \in Siblings(p) :
                LET a == node[node[p].children[s[1]]]  b == node[node[p].children[s[2]]] IN
                a.width >= 0 /\ a.height >= 0 => Apart(a, b)
          /\ node[p].type \in Boxes =>
                \A c \in ToSet(node[p].children) : node[c].width >= 0 /\ node[c].height >= 0
                                                   => Inside(node[c], node[p])

(* The buttons that are under a place together with all they are in. *)
ParentOf(n) == CHOOSE p \in Created : n \in ToSet(node[p].children)
Chain[n \in Node] == IF HasParent(n) THEN {n} \cup Chain[ParentOf(n)] ELSE {n}
Pressable(x, y) == {n \in Created : /\ 0 \in Chain[n] /\ node[n].on_click
                                    /\ \A m \in Chain[n] : Hit(node[m], x, y)}

(* A click finds a button whenever there is one under it that is not cut
   off by what it is in, and then one that holds no other.                  *)
ClicksLand ==
    created \in 1 .. MaxNodes /\ node[0].drawn =>
       \A size \in DomSize : \A x \in 0 .. size[1], y \in 0 .. size[2] :
          LET by == vdom_dispatch_click(0, x, y) IN
          IF Pressable(x, y) = {} THEN by = -1
          ELSE by \in Pressable(x, y) /\ \A n \in Pressable(x, y) : by \in Chain[n] => n = by
=============================================================================
