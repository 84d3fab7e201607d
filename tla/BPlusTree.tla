------------------------------ MODULE BPlusTree ------------------------------
(***************************************************************************)
(* stx::btree, the B+ tree the stxbtree drivers measure: inserting and     *)
(* erasing with splits, merges and shifts, bulk loading, iterators, copies *)
(* and images.  The tree is sequential; what can go wrong is a long run of *)
(* legal calls that leaves a separator, a leaf link or a count wrong.      *)
(*                                                                         *)
(* Slots count from 1 here and from 0 in the code.  A data item travels    *)
(* with its key in every copy the code makes, so a slot holds its key      *)
(* only.  Addresses are interchangeable: after every call the nodes are    *)
(* numbered in the order a descent meets them.                             *)
(***************************************************************************)
EXTENDS Integers, FiniteSets, SequencesExt

CONSTANT
    \* Instances of the template and how each is used: allow_duplicates,
    \* leafslots, innerslots, the keys it may hold, the keys that calls name
    \* after it was built (changing), the bound on its items, and the
    \* sequences it is built from by bulk_load or by its range constructor.
    Instances

ASSUME InstancesAssumption == \A i \in Instances :
    /\ i.allow_duplicates \in BOOLEAN
    /\ i.leafslots \in Nat /\ i.leafslots >= 4
    /\ i.innerslots \in Nat /\ i.innerslots >= 2
    /\ i.keys \subseteq Nat \ {0} /\ i.changing \subseteq i.keys
    /\ i.maxitems \in Nat
    /\ i.loads \union i.ranges \subseteq Seq(i.keys)

VARIABLES
    tree,           \* root, leaf chain, nodes and statistics
    instance,       \* the instance the tree is of, never assigned
    items           \* abstract content: how often each key is stored

vars == <<tree, instance, items>>

Null == 0

EmptyTree == [root |-> Null, head |-> Null, tail |-> Null,
              itemcount |-> 0, leaves |-> 0, innernodes |-> 0, node |-> <<>>]

IsLeaf(n) == n.level = 0
Use(n) == Len(n.key)
SlotMax(n) == IF IsLeaf(n) THEN instance.leafslots ELSE instance.innerslots
IsFull(n) == Use(n) = SlotMax(n)
IsFew(n) == Use(n) <= SlotMax(n) \div 2
IsUnderflow(n) == Use(n) < SlotMax(n) \div 2

NewLeaf(key) == [level |-> 0, key |-> key, child |-> <<>>, prev |-> Null, next |-> Null]
NewInner(level, key, child) ==
    [level |-> level, key |-> key, child |-> child, prev |-> Null, next |-> Null]

Fresh(t) == Max(DOMAIN t.node \union {0}) + 1

Allocate(t, n) ==
    [t EXCEPT !.node = (Fresh(t) :> n) @@ @,
              !.leaves = @ + (IF IsLeaf(n) THEN 1 ELSE 0),
              !.innernodes = @ + (IF IsLeaf(n) THEN 0 ELSE 1)]

FreeNode(t, n) ==
    [t EXCEPT !.node = Restrict(@, DOMAIN @ \ {n}),
              !.leaves = @ - (IF IsLeaf(t.node[n]) THEN 1 ELSE 0),
              !.innernodes = @ - (IF IsLeaf(t.node[n]) THEN 0 ELSE 1)]

-----------------------------------------------------------------------------
(* Searching                                                               *)

FindLower(n, k) == Min({i \in DOMAIN n.key : n.key[i] >= k} \union {Use(n) + 1})
\* Mutant: stops at an equal key, as find_lower does.
UpperAtEqual(n, k) == Min({i \in DOMAIN n.key : n.key[i] >= k} \union {Use(n) + 1})

FindUpper(n, k) == Min({i \in DOMAIN n.key : n.key[i] > k} \union {Use(n) + 1})

FindSlot(n, k, bound) == IF bound = "lower" THEN FindLower(n, k) ELSE FindUpper(n, k)

RECURSIVE LeafFor(_, _, _, _)
LeafFor(t, n, k, bound) ==
    IF IsLeaf(t.node[n]) THEN n
    ELSE LeafFor(t, t.node[n].child[FindSlot(t.node[n], k, bound)], k, bound)

At(n, slot) == [leaf |-> n, slot |-> slot]

Begin(t) == At(t.head, 1)
End(t) == At(t.tail, IF t.tail = Null THEN 1 ELSE Use(t.node[t.tail]) + 1)

BoundOf(t, k, bound) ==
    IF t.root = Null THEN End(t)
    ELSE LET n == LeafFor(t, t.root, k, bound) IN At(n, FindSlot(t.node[n], k, bound))

LowerBound(t, k) == BoundOf(t, k, "lower")
UpperBound(t, k) == BoundOf(t, k, "upper")

Holds(t, it, k) ==
    /\ it.leaf # Null /\ it.slot <= Use(t.node[it.leaf])
    /\ t.node[it.leaf].key[it.slot] = k

Exists(t, k) == t.root # Null /\ Holds(t, LowerBound(t, k), k)
FindKey(t, k) == IF Exists(t, k) THEN LowerBound(t, k) ELSE End(t)

RECURSIVE CountFrom(_, _, _)
CountFrom(t, it, k) ==
    IF ~Holds(t, it, k) THEN 0
    ELSE 1 + CountFrom(t, IF it.slot < Use(t.node[it.leaf])
                            THEN At(it.leaf, it.slot + 1)
                            ELSE At(t.node[it.leaf].next, 1), k)

CountOf(t, k) == IF t.root = Null THEN 0 ELSE CountFrom(t, LowerBound(t, k), k)

(* Iterators: ++ and -- of iterator, ++ of reverse_iterator, whose slot is *)
(* one past the item it refers to.                                         *)

Forward(t, it) ==
    LET n == t.node[it.leaf] IN
    IF it.slot < Use(n) THEN At(it.leaf, it.slot + 1)
    ELSE IF n.next # Null THEN At(n.next, 1)
    ELSE At(it.leaf, Use(n) + 1)

Backward(t, it) ==
    LET n == t.node[it.leaf] IN
    IF it.slot > 1 THEN At(it.leaf, it.slot - 1)
    ELSE IF n.prev # Null THEN At(n.prev, Use(t.node[n.prev]))
    ELSE At(it.leaf, 1)

ReverseForward(t, it) ==
    LET n == t.node[it.leaf] IN
    IF it.slot > 2 THEN At(it.leaf, it.slot - 1)
    ELSE IF n.prev # Null THEN At(n.prev, Use(t.node[n.prev]) + 1)
    ELSE At(it.leaf, 1)

Step(t, it, way) ==
    CASE way = "forward" -> Forward(t, it)
      [] way = "backward" -> Backward(t, it)
      [] way = "reverse" -> ReverseForward(t, it)

RECURSIVE Walk(_, _, _, _)
Walk(t, it, last, way) ==
    IF it = last THEN <<>> ELSE <<it>> \o Walk(t, Step(t, it, way), last, way)

KeyAt(t, it) == t.node[it.leaf].key[it.slot]

-----------------------------------------------------------------------------
(* Inserting                                                               *)

SplitLeaf(t, n) ==
    LET leaf == t.node[n]
        mid == Use(leaf) \div 2
        new == Fresh(t)
        grown == Allocate(t, [leaf EXCEPT !.key = SubSeq(@, mid + 1, Len(@)), !.prev = n])
    IN  [tree |-> [grown EXCEPT
                      !.node = [i \in DOMAIN @ |->
                          IF i = n THEN [@[i] EXCEPT !.key = SubSeq(@, 1, mid), !.next = new]
                          ELSE IF i = leaf.next THEN [@[i] EXCEPT !.prev = new]
                          ELSE @[i]],
                      !.tail = IF leaf.next = Null THEN new ELSE @],
         splitkey |-> leaf.key[mid], splitnode |-> new]

SplitMid(n, slot) ==
    LET mid == Use(n) \div 2
    IN  IF slot - 1 <= mid /\ mid > Use(n) - (mid + 1) THEN mid - 1 ELSE mid

SplitInner(t, n, slot) ==
    LET inner == t.node[n]
        mid == SplitMid(inner, slot)
        grown == Allocate(t, NewInner(inner.level, SubSeq(inner.key, mid + 2, Use(inner)),
                                      SubSeq(inner.child, mid + 2, Use(inner) + 1)))
    IN  [tree |-> [grown EXCEPT !.node[n].key = SubSeq(@, 1, mid),
                                !.node[n].child = SubSeq(@, 1, mid + 1)],
         splitkey |-> inner.key[mid + 1], splitnode |-> Fresh(t)]

Inserted(t, splitkey, splitnode) ==
    [tree |-> t, done |-> TRUE, splitkey |-> splitkey, splitnode |-> splitnode]

InsertInLeaf(t, n, k) ==
    LET leaf == t.node[n]
        slot == FindLower(leaf, k)
        full == IsFull(leaf)
        s == IF full THEN SplitLeaf(t, n)
             ELSE [tree |-> t, splitkey |-> k, splitnode |-> Null]
        kept == Use(s.tree.node[n])
        right == full /\ slot > kept
        into == IF right THEN s.splitnode ELSE n
        put == IF right THEN slot - kept ELSE slot
        filled == [s.tree EXCEPT !.node[into].key = InsertAt(@, put, k)]
    IN  IF ~instance.allow_duplicates /\ slot <= Use(leaf) /\ leaf.key[slot] = k
          THEN [Inserted(t, k, Null) EXCEPT !.done = FALSE]
          ELSE Inserted(filled,
                        IF ~right /\ put = Use(filled.node[n]) THEN k ELSE s.splitkey,
                        s.splitnode)

AddChild(t, n, slot, k, child) ==
    [t EXCEPT !.node[n].key = InsertAt(@, slot, k),
              !.node[n].child = InsertAt(@, slot + 1, child)]

InsertChild(t, n, slot, k, child) ==
    LET s == SplitInner(t, n, slot)
        kept == Use(s.tree.node[n])
        right == s.tree.node[s.splitnode]
    IN  IF ~IsFull(t.node[n]) THEN Inserted(AddChild(t, n, slot, k, child), k, Null)
        ELSE IF slot = kept + 2 /\ kept < Use(right)
          THEN Inserted([s.tree EXCEPT
                            !.node[n].key = Append(@, s.splitkey),
                            !.node[n].child = Append(@, right.child[1]),
                            !.node[s.splitnode].child[1] = child],
                        k, s.splitnode)
        ELSE IF slot >= kept + 2
          THEN Inserted(AddChild(s.tree, s.splitnode, slot - (kept + 1), k, child),
                        s.splitkey, s.splitnode)
        ELSE Inserted(AddChild(s.tree, n, slot, k, child), s.splitkey, s.splitnode)

RECURSIVE InsertDescend(_, _, _)
InsertDescend(t, n, k) ==
    IF IsLeaf(t.node[n]) THEN InsertInLeaf(t, n, k)
    ELSE LET slot == FindLower(t.node[n], k)
             r == InsertDescend(t, t.node[n].child[slot], k)
         IN  IF r.splitnode = Null THEN r
             ELSE InsertChild(r.tree, n, slot, r.splitkey, r.splitnode)

InsertStart(t, k) ==
    LET first == [Allocate(t, NewLeaf(<<>>)) EXCEPT
                     !.root = Fresh(t), !.head = Fresh(t), !.tail = Fresh(t)]
        from == IF t.root = Null THEN first ELSE t
        r == InsertDescend(from, from.root, k)
        level == r.tree.node[from.root].level
        raised == [Allocate(r.tree, NewInner(level + 1, <<r.splitkey>>,
                                             <<from.root, r.splitnode>>))
                      EXCEPT !.root = Fresh(r.tree)]
        grown == IF r.splitnode = Null THEN r.tree ELSE raised
    IN  IF r.done THEN [grown EXCEPT !.itemcount = @ + 1] ELSE grown

-----------------------------------------------------------------------------
(* Erasing.  A descent carries its context c: the neighbours of the node   *)
(* on its level, their parents, its own parent and the slot it has there.  *)
(* It returns the flags of result_t: found, the last key the ancestors     *)
(* have to take over, and whether two children were merged.                *)

NoKey == -1

Erased(t, lastkey, merged) ==
    [tree |-> t, found |-> TRUE, lastkey |-> lastkey, merged |-> merged]
NotFound(t) == [tree |-> t, found |-> FALSE, lastkey |-> NoKey, merged |-> FALSE]

RootContext == [left |-> Null, right |-> Null, leftparent |-> Null,
                rightparent |-> Null, parent |-> Null, slot |-> 0]

ChildContext(t, n, slot, c) ==
    LET inner == t.node[n]
        left == t.node[c.left]
    IN  [left |-> IF slot > 1 THEN inner.child[slot - 1]
                  ELSE IF c.left = Null THEN Null ELSE left.child[Use(left)],
         leftparent |-> IF slot > 1 THEN n ELSE c.leftparent,
         right |-> IF slot <= Use(inner) THEN inner.child[slot + 1]
                   ELSE IF c.right = Null THEN Null ELSE t.node[c.right].child[1],
         rightparent |-> IF slot <= Use(inner) THEN n ELSE c.rightparent,
         parent |-> n, slot |-> slot]

\* Mutant: a last key is not carried beyond the parent.
KeepLastKey(t, c, k) ==
    IF c.parent # Null /\ c.slot <= Use(t.node[c.parent])
      THEN Erased([t EXCEPT !.node[c.parent].key[c.slot] = k], NoKey, FALSE)
      ELSE Erased(t, NoKey, FALSE)

(* The parent takes the last key over, or the result carries it upward.    *)
PassLastKey(t, c, k) ==
    IF c.parent # Null /\ c.slot <= Use(t.node[c.parent])
      THEN Erased([t EXCEPT !.node[c.parent].key[c.slot] = k], NoKey, FALSE)
      ELSE Erased(t, k, FALSE)

(* What is done about an underflow of n.                                   *)
Remedy(t, n, c) ==
    LET few(m) == IsFew(t.node[m])
        leftfew == c.left # Null /\ few(c.left)
        rightfew == c.right # Null /\ few(c.right)
        leftrich == c.left # Null /\ ~leftfew
        rightrich == c.right # Null /\ ~rightfew
    IN  CASE c.left = Null /\ c.right = Null -> "root"
          [] c.left # Null \/ c.right # Null ->
               IF ~leftrich /\ ~rightrich
                 THEN IF c.leftparent = c.parent THEN "merge left" ELSE "merge right"
               ELSE IF leftfew /\ rightrich
                 THEN IF c.rightparent = c.parent THEN "shift left" ELSE "merge left"
               ELSE IF leftrich /\ rightfew
                 THEN IF c.leftparent = c.parent THEN "shift right" ELSE "merge right"
               ELSE IF c.leftparent = c.rightparent
                 THEN IF Use(t.node[c.left]) <= Use(t.node[c.right])
                        THEN "shift left" ELSE "shift right"
               ELSE IF c.leftparent = c.parent THEN "shift right" ELSE "shift left"

MergeLeaves(t, l, r) ==
    LET after == t.node[r].next IN
    [t EXCEPT !.node = [i \in DOMAIN @ |->
                  IF i = l THEN [@[i] EXCEPT !.key = @ \o t.node[r].key, !.next = after]
                  ELSE IF i = r THEN [@[i] EXCEPT !.key = <<>>]
                  ELSE IF i = after THEN [@[i] EXCEPT !.prev = l]
                  ELSE @[i]],
              !.tail = IF after = Null THEN l ELSE @]

MergeInner(t, l, r, parent, slot) ==
    [t EXCEPT !.node[l].key = @ \o <<t.node[parent].key[slot]>> \o t.node[r].key,
              !.node[l].child = @ \o t.node[r].child,
              !.node[r].key = <<>>]

(* All but the first and the first n elements of s, the last n, the rest.  *)
Tails(s, n) == SubSeq(s, n + 1, Len(s))
Heads(s, n) == SubSeq(s, 1, n)

ShiftNum(more, less) == (Use(more) - Use(less)) \div 2

ShiftLeftLeaf(t, l, r, c) ==
    LET num == ShiftNum(t.node[r], t.node[l])
        left == t.node[l].key \o Heads(t.node[r].key, num)
        moved == [t EXCEPT !.node[l].key = left, !.node[r].key = Tails(@, num)]
    IN  PassLastKey(moved, [c EXCEPT !.parent = c.rightparent], Last(left))

ShiftRightLeaf(t, l, r, parent, slot) ==
    LET num == ShiftNum(t.node[l], t.node[r])
        keep == Use(t.node[l]) - num
    IN  [t EXCEPT !.node[l].key = Heads(@, keep),
                  !.node[r].key = Tails(t.node[l].key, keep) \o @,
                  !.node[parent].key[slot] = t.node[l].key[keep]]

ShiftLeftInner(t, l, r, parent, slot) ==
    LET right == t.node[r]
        num == ShiftNum(right, t.node[l])
    IN  [t EXCEPT !.node[l].key = @ \o <<t.node[parent].key[slot]>> \o Heads(right.key, num - 1),
                  !.node[l].child = @ \o Heads(right.child, num),
                  !.node[parent].key[slot] = right.key[num],
                  !.node[r].key = Tails(@, num),
                  !.node[r].child = Tails(@, num)]

ShiftRightInner(t, l, r, parent, slot) ==
    LET left == t.node[l]
        num == ShiftNum(left, t.node[r])
        keep == Use(left) - num
    IN  [t EXCEPT !.node[r].key = Tails(left.key, keep + 1) \o <<t.node[parent].key[slot]>> \o @,
                  !.node[r].child = Tails(left.child, keep + 1) \o @,
                  !.node[parent].key[slot] = left.key[keep + 1],
                  !.node[l].key = Heads(@, keep),
                  !.node[l].child = Heads(@, keep + 1)]

BalanceLeaf(r, n, c) ==
    LET t == r.tree
        merged(l, m) == [r EXCEPT !.tree = MergeLeaves(t, l, m), !.merged = TRUE]
        shifted == ShiftLeftLeaf(t, n, c.right, c)
    IN  CASE Remedy(t, n, c) = "root" ->
               Erased([FreeNode(t, n) EXCEPT !.root = Null, !.head = Null, !.tail = Null],
                      NoKey, FALSE)
          [] Remedy(t, n, c) = "merge left" -> merged(c.left, n)
          [] Remedy(t, n, c) = "merge right" -> merged(n, c.right)
          [] Remedy(t, n, c) = "shift left" ->
               [shifted EXCEPT !.lastkey = IF @ = NoKey THEN r.lastkey ELSE @]
          [] Remedy(t, n, c) = "shift right" ->
               [r EXCEPT !.tree = ShiftRightLeaf(t, c.left, n, c.leftparent, c.slot - 1)]

BalanceInner(r, n, c) ==
    LET t == r.tree IN
    CASE Remedy(t, n, c) = "root" ->
           Erased(FreeNode([t EXCEPT !.root = t.node[n].child[1]], n), NoKey, FALSE)
      [] Remedy(t, n, c) = "merge left" ->
           [r EXCEPT !.tree = MergeInner(t, c.left, n, c.leftparent, c.slot - 1), !.merged = TRUE]
      [] Remedy(t, n, c) = "merge right" ->
           [r EXCEPT !.tree = MergeInner(t, n, c.right, c.rightparent, c.slot), !.merged = TRUE]
      [] Remedy(t, n, c) = "shift left" ->
           [r EXCEPT !.tree = ShiftLeftInner(t, n, c.right, c.rightparent, c.slot)]
      [] Remedy(t, n, c) = "shift right" ->
           [r EXCEPT !.tree = ShiftRightInner(t, c.left, n, c.leftparent, c.slot - 1)]

Underflows(t, n) == IsUnderflow(t.node[n]) /\ ~(n = t.root /\ Use(t.node[n]) >= 1)

EraseInLeaf(t, n, slot, c) ==
    LET short == [t EXCEPT !.node[n].key = RemoveAt(@, slot)]
        left == Use(short.node[n])
        r == IF slot <= left \/ left = 0 THEN Erased(short, NoKey, FALSE)
             ELSE PassLastKey(short, c, Last(short.node[n].key))
    IN  IF Underflows(r.tree, n) THEN BalanceLeaf(r, n, c) ELSE r

(* The child a merge emptied is freed, with the separator to its left.     *)
DropMerged(t, n, slot) ==
    LET inner == t.node[n]
        gone == IF Use(t.node[inner.child[slot]]) # 0 THEN slot + 1 ELSE slot
        short == [FreeNode(t, inner.child[gone])
                    EXCEPT !.node[n].key = RemoveAt(@, gone - 1),
                           !.node[n].child = RemoveAt(@, gone)]
    IN  IF inner.level = 1 /\ gone - 1 <= Use(short.node[n])
          THEN [short EXCEPT !.node[n].key[gone - 1] =
                                Last(short.node[short.node[n].child[gone - 1]].key)]
          ELSE short

EraseInInner(result, n, slot, c) ==
    LET r == IF result.lastkey = NoKey THEN Erased(result.tree, NoKey, FALSE)
             ELSE PassLastKey(result.tree, c, result.lastkey)
        s == IF result.merged THEN [r EXCEPT !.tree = DropMerged(@, n, slot)] ELSE r
    IN  IF Underflows(s.tree, n) THEN BalanceInner(s, n, c) ELSE s

RECURSIVE EraseOneDescend(_, _, _, _)
EraseOneDescend(t, k, n, c) ==
    LET slot == FindLower(t.node[n], k)
        r == EraseOneDescend(t, k, t.node[n].child[slot], ChildContext(t, n, slot, c))
    IN  IF IsLeaf(t.node[n])
          THEN IF Holds(t, At(n, slot), k) THEN EraseInLeaf(t, n, slot, c) ELSE NotFound(t)
          ELSE IF r.found THEN EraseInInner(r, n, slot, c) ELSE r

(* The leaf of an iterator is searched below every slot that may hold its  *)
(* key, from slot on.                                                      *)
RECURSIVE EraseIterDescend(_, _, _, _, _)
EraseIterDescend(t, it, n, slot, c) ==
    LET inner == t.node[n]
        child == inner.child[slot]
        below == IF IsLeaf(t.node[child]) THEN 1 ELSE FindLower(t.node[child], KeyAt(t, it))
        r == EraseIterDescend(t, it, child, below, ChildContext(t, n, slot, c))
    IN  IF IsLeaf(inner)
          THEN IF n = it.leaf /\ it.slot <= Use(inner)
                 THEN EraseInLeaf(t, n, it.slot, c) ELSE NotFound(t)
        ELSE IF slot > Use(inner) + 1 THEN NotFound(t)
        ELSE IF r.found THEN EraseInInner(r, n, slot, c)
        ELSE IF slot <= Use(inner) /\ inner.key[slot] < KeyAt(t, it) THEN NotFound(t)
        ELSE EraseIterDescend(t, it, n, slot + 1, c)

-----------------------------------------------------------------------------
(* Building whole trees: bulk loading, copying, dumping and restoring      *)

AllocateAll(t, nodes) == FoldLeft(Allocate, t, nodes)

(* s cut into parts as even as integer division makes them.                *)
RECURSIVE Spread(_, _)
Spread(s, parts) ==
    IF parts = 0 THEN <<>>
    ELSE <<Heads(s, Len(s) \div parts)>> \o Spread(Tails(s, Len(s) \div parts), parts - 1)

Parts(n, max) == (n + max - 1) \div max

RECURSIVE LoadInner(_, _, _)
LoadInner(t, level, children) ==
    LET groups == Spread(children, Parts(Len(children), instance.innerslots + 1))
        inner(g) == NewInner(level, [i \in 1..Len(g) - 1 |-> g[i].maxkey],
                                    [i \in 1..Len(g) |-> g[i].node])
    IN  IF Len(children) = 1 THEN [t EXCEPT !.root = children[1].node]
        ELSE LoadInner(AllocateAll(t, [i \in DOMAIN groups |-> inner(groups[i])]), level + 1,
                       [i \in DOMAIN groups |-> [node |-> Fresh(t) + i - 1,
                                                 maxkey |-> Last(groups[i]).maxkey]])

BulkLoad(keys) ==
    LET num == Parts(Len(keys), instance.leafslots)
        parts == Spread(keys, num)
        leaf(i) == [NewLeaf(parts[i]) EXCEPT !.prev = i - 1,
                                             !.next = IF i = num THEN Null ELSE i + 1]
        chain == [AllocateAll(EmptyTree, [i \in 1..num |-> leaf(i)])
                    EXCEPT !.head = 1, !.tail = num, !.itemcount = Len(keys)]
    IN  IF num = 0 THEN EmptyTree
        ELSE LoadInner(chain, 1, [i \in 1..num |-> [node |-> i, maxkey |-> Last(parts[i])]])

RECURSIVE Preorder(_, _)
Preorder(t, n) ==
    <<n>> \o FlattenSeq([i \in DOMAIN t.node[n].child |-> Preorder(t, t.node[n].child[i])])

(* Every node after its parent; nodes no descent meets come last.          *)
NodeOrder(t) ==
    LET met == IF t.root = Null THEN <<>> ELSE Preorder(t, t.root)
    IN  met \o SetToSeq(DOMAIN t.node \ ToSet(met))

Lost == -1      \* a pointer to memory that is no node of the tree

Renumbered(t) ==
    LET order == NodeOrder(t)
        new(n) == IF n = Null THEN Null
                  ELSE IF n \in DOMAIN t.node THEN CHOOSE i \in DOMAIN order : order[i] = n
                  ELSE Lost
        renamed(n) == [n EXCEPT !.child = [i \in DOMAIN @ |-> new(@[i])],
                                !.prev = new(@), !.next = new(@)]
    IN  [t EXCEPT !.root = new(@), !.head = new(@), !.tail = new(@),
                  !.node = [i \in DOMAIN order |-> renamed(t.node[order[i]])]]

Image(t) ==
    IF t.root = Null THEN <<>>
    ELSE LET order == Preorder(t, t.root) IN [i \in DOMAIN order |-> t.node[order[i]]]

\* Mutant: only the forward pointer of the chain is rebuilt.
AppendForward(t, leaf) ==
    LET new == Fresh(t) IN
    IF t.head = Null THEN [Allocate(t, leaf) EXCEPT !.head = new, !.tail = new]
    ELSE [Allocate(t, leaf) EXCEPT !.node[t.tail].next = new, !.tail = new]

(* A leaf is appended to the chain; the pointers of the node it was made   *)
(* from are kept where nothing overwrites them.                            *)
AppendLeaf(t, leaf) ==
    LET new == Fresh(t) IN
    IF t.head = Null THEN [Allocate(t, leaf) EXCEPT !.head = new, !.tail = new]
    ELSE [Allocate(t, [leaf EXCEPT !.prev = t.tail]) EXCEPT !.node[t.tail].next = new, !.tail = new]

(* Reads the node at position at of an image and its subtree.  Where the   *)
(* image ends early, the child pointer that was being read becomes NULL.   *)
RECURSIVE RestoreNode(_, _, _), RestoreChildren(_, _, _, _)
RestoreNode(t, image, at) ==
    LET new == Fresh(t)
        n == [image[at] EXCEPT !.prev = IF @ = Null THEN Null ELSE Lost,
                               !.next = IF @ = Null THEN Null ELSE Lost]
    IN  IF at > Len(image) THEN [tree |-> t, node |-> Null, at |-> at]
        ELSE IF IsLeaf(n) THEN [tree |-> AppendLeaf(t, n), node |-> new, at |-> at + 1]
        ELSE [RestoreChildren(Allocate(t, n), image, at + 1, <<new, 1>>) EXCEPT !.node = new]

RestoreChildren(t, image, at, place) ==
    LET r == RestoreNode(t, image, at)
        linked == [r.tree EXCEPT !.node[place[1]].child[place[2]] = r.node]
    IN  IF place[2] > Len(t.node[place[1]].child) THEN [tree |-> t, node |-> Null, at |-> at]
        ELSE RestoreChildren(linked, image, r.at, <<place[1], place[2] + 1>>)

Restore(image, itemcount) ==
    LET r == RestoreNode(EmptyTree, image, 1) IN
    IF itemcount = 0 THEN [done |-> TRUE, tree |-> EmptyTree]
    ELSE IF r.node = Null THEN [done |-> FALSE, tree |-> r.tree]
    ELSE [done |-> TRUE, tree |-> [r.tree EXCEPT !.root = r.node, !.itemcount = itemcount]]

(* copy_recursive: as a restored image, but no leaf keeps a pointer.       *)
Copy(t) ==
    LET image == Image(t)
        bare == [i \in DOMAIN image |-> [image[i] EXCEPT !.prev = Null, !.next = Null]]
    IN  IF t.itemcount = 0 THEN [EmptyTree EXCEPT !.leaves = t.leaves, !.innernodes = t.innernodes]
        ELSE Restore(bare, t.itemcount).tree

-----------------------------------------------------------------------------
(* verify() and its recursion                                              *)

RECURSIVE MinKey(_, _), MaxKey(_, _), FirstLeaf(_, _), LastLeaf(_, _), VerifyNode(_, _)
FirstLeaf(t, n) == IF IsLeaf(t.node[n]) THEN n ELSE FirstLeaf(t, Head(t.node[n].child))
LastLeaf(t, n) == IF IsLeaf(t.node[n]) THEN n ELSE LastLeaf(t, Last(t.node[n].child))
MinKey(t, n) == Head(t.node[FirstLeaf(t, n)].key)
MaxKey(t, n) == Last(t.node[LastLeaf(t, n)].key)

Ordered(s) == \A i \in 1..Len(s) - 1 : s[i] <= s[i + 1]
Linked(t, a, b) == t.node[a].next = b /\ t.node[b].prev = a

VerifyNode(t, n) ==
    LET m == t.node[n] IN
    /\ n = t.root \/ ~IsUnderflow(m)
    /\ Use(m) > 0
    /\ Ordered(m.key)
    /\ \A i \in DOMAIN m.child :
        LET child == m.child[i] IN
        /\ t.node[child].level + 1 = m.level
        /\ VerifyNode(t, child)
        /\ i > 1 => MinKey(t, child) >= m.key[i - 1]
        /\ i <= Use(m) => m.key[i] = MaxKey(t, child)
        /\ i <= Use(m) /\ m.level <= 2 =>
              Linked(t, LastLeaf(t, child), FirstLeaf(t, m.child[i + 1]))

VerifyLeafLinks(t) ==
    LET leaves == SelectSeq(Preorder(t, t.root), LAMBDA n : IsLeaf(t.node[n])) IN
    /\ t.head = leaves[1] /\ t.tail = Last(leaves)
    /\ t.node[t.head].prev = Null /\ t.node[t.tail].next = Null
    /\ \A i \in 1..Len(leaves) - 1 :
        /\ Linked(t, leaves[i], leaves[i + 1])
        /\ Last(t.node[leaves[i]].key) <= Head(t.node[leaves[i + 1]].key)

Verify(t) ==
    t.root # Null =>
        LET met == ToSet(Preorder(t, t.root))
            leaves == {n \in met : IsLeaf(t.node[n])}
        IN  /\ VerifyNode(t, t.root)
            /\ VerifyLeafLinks(t)
            /\ t.itemcount = FoldSet(LAMBDA n, sum : sum + Use(t.node[n]), 0, leaves)
            /\ t.leaves = Cardinality(leaves)
            /\ t.innernodes = Cardinality(met \ leaves)

-----------------------------------------------------------------------------
(* The tree in use                                                         *)

Ascending(set) == SelectSeq([i \in 1..Max(set) |-> i], LAMBDA i : i \in set)

Total(bag) == FoldFunction(+, 0, bag)
BagOf(keys, set) == [k \in set |-> Cardinality({i \in DOMAIN keys : keys[i] = k})]

InsertAll(keys) == FoldLeft(InsertStart, EmptyTree, keys)

Init ==
    /\ instance \in Instances
    /\ \/ \E keys \in instance.loads :
            /\ tree = Renumbered(BulkLoad(keys))
            /\ items = BagOf(keys, instance.keys)
       \/ \E keys \in instance.ranges :
            /\ tree = Renumbered(InsertAll(keys))
            /\ items = BagOf(keys, instance.keys)

(* insert(), refused by a map that holds the key.                          *)
Insert(k) ==
    /\ Total(items) < instance.maxitems    \* bound
    /\ tree' = Renumbered(InsertStart(tree, k))
    /\ items' = IF instance.allow_duplicates THEN [items EXCEPT ![k] = @ + 1]
                ELSE [items EXCEPT ![k] = 1]
    /\ UNCHANGED instance

EraseOnce(t, k) ==
    LET r == EraseOneDescend(t, k, t.root, RootContext) IN
    IF t.root = Null THEN NotFound(t)
    ELSE IF r.found THEN [r EXCEPT !.tree.itemcount = @ - 1] ELSE r

RECURSIVE EraseAll(_, _)
EraseAll(t, k) ==
    LET r == EraseOnce(t, k) IN
    IF r.found /\ instance.allow_duplicates THEN EraseAll(r.tree, k) ELSE r.tree

(* erase_one(key) *)
EraseOne(k) ==
    /\ tree' = Renumbered(EraseOnce(tree, k).tree)
    /\ items' = [items EXCEPT ![k] = IF @ > 0 THEN @ - 1 ELSE 0]
    /\ UNCHANGED instance

(* erase(key) *)
EraseKey(k) ==
    /\ tree' = Renumbered(EraseAll(tree, k))
    /\ items' = [items EXCEPT ![k] = 0]
    /\ UNCHANGED instance

(* erase(iterator), for an iterator to any item.                           *)
EraseIter(n, slot) ==
    LET it == At(n, slot)
        at == IF IsLeaf(tree.node[tree.root]) THEN 1
              ELSE FindLower(tree.node[tree.root], KeyAt(tree, it))
        r == EraseIterDescend(tree, it, tree.root, at, RootContext)
    IN  /\ tree' = Renumbered(IF r.found THEN [r.tree EXCEPT !.itemcount = @ - 1] ELSE r.tree)
        /\ items' = [items EXCEPT ![KeyAt(tree, it)] = @ - 1]
        /\ UNCHANGED instance

Clear ==
    /\ tree' = IF tree.root = Null THEN tree ELSE EmptyTree
    /\ items' = [k \in instance.keys |-> 0]
    /\ UNCHANGED instance

Next ==
    \/ \E k \in instance.changing : Insert(k) \/ EraseOne(k) \/ EraseKey(k)
    \/ \E n \in {m \in DOMAIN tree.node : IsLeaf(tree.node[m])} :
        \E slot \in {i \in DOMAIN tree.node[n].key : tree.node[n].key[i] \in instance.changing} :
            EraseIter(n, slot)
    \/ Clear

Spec == Init /\ [][Next]_vars

-----------------------------------------------------------------------------
(* Properties                                                              *)

SortedItems ==
    LET keys == Ascending(instance.keys)
    IN  FlattenSeq([i \in DOMAIN keys |-> [j \in 1..items[keys[i]] |-> keys[i]]])

KeysOn(t, walk) == [i \in DOMAIN walk |-> KeyAt(t, walk[i])]

ItemsOf(t) == IF t.root = Null THEN <<>> ELSE KeysOn(t, Walk(t, Begin(t), End(t), "forward"))

(* Type: nodes within their capacity, inner nodes with one child more than *)
(* keys, and no node allocated that a descent does not meet.               *)
TypeOK ==
    /\ instance \in Instances
    /\ items \in [instance.keys -> Nat]
    /\ \A n \in DOMAIN tree.node :
        LET m == tree.node[n] IN
        /\ Use(m) <= SlotMax(m)
        /\ Len(m.child) = IF IsLeaf(m) THEN 0 ELSE Use(m) + 1
        /\ \A i \in DOMAIN m.child : m.child[i] \in DOMAIN tree.node
        /\ {m.prev, m.next} \subseteq DOMAIN tree.node \union {Null}
    /\ tree.root = Null => tree = EmptyTree
    /\ Len(NodeOrder(tree)) = tree.leaves + tree.innernodes

(* verify(): after every call the tree is balanced, half full, ordered,    *)
(* every separator is the largest key below its child, the leaves are      *)
(* linked in order and the statistics count what is there.  No node is     *)
(* allocated that a descent does not meet.                                 *)
Verified == TypeOK /\ Verify(tree)

(* The content is what the calls made it: a walk forward meets each item   *)
(* as often as it was inserted and not yet erased, in order of the keys,   *)
(* and backward and reverse iteration retrace it; find and exists know     *)
(* exactly the stored keys, count counts across leaves, and the bounds are *)
(* the iterators the walk reaches after the smaller, or not greater, items.*)
LookupsAgree ==
    LET empty == tree.root = Null
        walk == IF empty THEN <<>> ELSE Walk(tree, Begin(tree), End(tree), "forward")
        back == IF empty THEN <<>> ELSE
                Append(Walk(tree, Backward(tree, End(tree)), Begin(tree), "backward"), Begin(tree))
        reverse == IF empty THEN <<>> ELSE Walk(tree, End(tree), Begin(tree), "reverse")
        place(i) == Append(walk, End(tree))[i]
        number(Counts(_)) == Cardinality({i \in DOMAIN walk : Counts(KeyAt(tree, walk[i]))})
    IN  /\ KeysOn(tree, walk) = SortedItems
        /\ back = Reverse(walk)
        /\ [i \in DOMAIN reverse |-> At(reverse[i].leaf, reverse[i].slot - 1)] = Reverse(walk)
        /\ \A k \in instance.keys :
            /\ Exists(tree, k) <=> items[k] > 0
            /\ CountOf(tree, k) = items[k]
            /\ LowerBound(tree, k) = place(number(LAMBDA j : j < k) + 1)
            /\ UpperBound(tree, k) = place(number(LAMBDA j : j <= k) + 1)
            /\ FindKey(tree, k) = IF items[k] > 0 THEN LowerBound(tree, k) ELSE End(tree)

(* A copy, and a tree restored from a complete image, is a sound tree with *)
(* the same items.                                                         *)
CopiesAreSound ==
    LET restored == Restore(Image(tree), tree.itemcount) IN
    /\ Verify(Copy(tree)) /\ ItemsOf(Copy(tree)) = SortedItems
    /\ restored.done /\ Verify(restored.tree) /\ ItemsOf(restored.tree) = SortedItems

=============================================================================
