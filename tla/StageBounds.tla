---------------------------- MODULE StageBounds ----------------------------
(***************************************************************************)
(* The calls that place a scan on a key that need not be there and move it  *)
(* through both stages (mtIndexAPI.hh): get_upper_bound, get_first, advance *)
(* and their copies for the secondary index of type 1, with the search of   *)
(* stcursor_scan for the first key from a given one on (masstree_get.hh).   *)
(* Each is an operator on the stages: unlike get_next, they set the cursor  *)
(* object up again in every call and leave nothing but two keys.            *)
(***************************************************************************)
EXTENDS OrderedScan

NoRow == <<>>

\* What is read through next_lv_ before it was set, or behind an array.
Wild == <<0>>

\* The path to the node in hand, and the slices along it.
Start == [path |-> <<>>, prefix |-> <<>>]

Descended(c, node, k) ==
  [path |-> Append(c.path, [node |-> node, at |-> k]),
   prefix |-> Append(c.prefix, trie[node][k].slice)]

Ascended(c) == [path |-> Front(c.path), prefix |-> Front(c.prefix)]

IsBeyond(e, key) ==
  e.slice > Head(key) \/ (e.slice = Head(key) /\ IsLong(e) /\ Len(key) = 1)

\* upper_bound_or_equal_binary
UpperPosition(n, key) ==
  LET at == {i \in DOMAIN n : IF IsExact(n, key) THEN Meets(n[i], key) ELSE IsBeyond(n[i], key)}
  IN IF at = {} THEN Len(n) + 1 ELSE CHOOSE i \in at : \A j \in at : i <= j

RECURSIVE Leftmost(_, _)
\* The first entry of a layer, whether it is valid or not.
Leftmost(prefix, node) ==
  LET e == trie[node][1]
  IN IF trie[node] = <<>> THEN Wild
     ELSE IF e.kind = "layer" THEN Leftmost(Append(prefix, e.slice), e.lv)
     ELSE Append(prefix, e.slice) \o e.suffix

RECURSIVE FromNextNode(_)
\* next_item_from_next_node
FromNextNode(c) ==
  LET n == trie[Last(c.path).node]
      k == NextValid(n, Last(c.path).at + 1)
      up == Ascended(c).prefix
  IN IF c.path = <<>> THEN NoRow
     ELSE IF k > Len(n) THEN FromNextNode(Ascended(c))
     ELSE IF n[k].kind = "layer" THEN Leftmost(Append(up, n[k].slice), n[k].lv)
     ELSE Append(up, n[k].slice) \o n[k].suffix

\* next_item; behind an entry with a layer it follows next_lv_ (line 1424).
Following(c) ==
  LET n == trie[Last(c.path).node]
      k == NextValid(n, Last(c.path).at + 1)
  IN IF k > Len(n) THEN FromNextNode(c)
     ELSE IF n[k].kind = "layer" THEN Wild
     ELSE Append(Front(c.prefix), n[k].slice) \o n[k].suffix

RECURSIVE FindUpperBoundOrEqual(_, _, _)
FindUpperBoundOrEqual(c, node, key) ==
  LET n == trie[node]
      k == NextValid(n, UpperPosition(n, key))
      d == Descended(c, node, k)
  IN IF k > Len(n) THEN FromNextNode(c)
     ELSE IF n[k].kind = "layer"
       THEN IF IsExact(n, key) THEN FindUpperBoundOrEqual(d, n[k].lv, Tail(key))
            ELSE Leftmost(d.prefix, n[k].lv)
     ELSE IF IsExact(n, key) /\ Before(n[k].suffix, Tail(key)) THEN Following(d)
     ELSE d.prefix \o n[k].suffix

FaultyFindUpperBound(c, node, key) == FindUpperBoundOrEqual(c, node, key)

RECURSIVE FindUpperBound(_, _, _)
FindUpperBound(c, node, key) ==
  LET n == trie[node]
      k == NextValid(n, UpperPosition(n, key))
      d == Descended(c, node, k)
  IN IF k > Len(n) THEN FromNextNode(c)
     ELSE IF n[k].kind = "layer"
       THEN IF IsExact(n, key) THEN FindUpperBound(d, n[k].lv, Tail(key))
            ELSE Leftmost(d.prefix, n[k].lv)
     ELSE IF IsExact(n, key) THEN Following(d)
     ELSE d.prefix \o n[k].suffix

\* find_next, then next_key(): the row behind one that is there.
FindNext(key) ==
  LET c == FindNext1(NoCursor, <<>>, key)
  IN IF c.found THEN c.prefix \o c.suffix ELSE NoRow

-----------------------------------------------------------------------------
(* The calls of the index.                                                 *)

FirstOf(keys) == IF keys = <<>> THEN NoRow ELSE keys[1]

DynamicUpperBoundOrEqual(key) == FirstOf(From(dynamic, key))

\* dynamic_get_upper_bound: past the key itself by get_next.
DynamicUpperBound(key) ==
  LET rows == From(dynamic, key)
  IN IF key \in dynamic THEN FirstOf(Tail(rows)) ELSE FirstOf(rows)

StaticUpperBoundOrEqual(key) ==
  IF static = {} THEN NoRow ELSE FindUpperBoundOrEqual(Start, <<>>, key)

StaticUpperBound(key) ==
  IF static = {} THEN NoRow ELSE FindUpperBound(Start, <<>>, key)

\* The two cursors, each a key of its stage or closed.
Cursors(d, s) == [dynamic |-> d, static |-> s]

GetUpperBoundOrEqual(key) ==
  Cursors(DynamicUpperBoundOrEqual(key), StaticUpperBoundOrEqual(key))

GetUpperBound(key) == Cursors(DynamicUpperBound(key), StaticUpperBound(key))

\* The bound of the byte 0, which comes before every key.
GetFirst == GetUpperBoundOrEqual(<<0>>)

DynamicPeek(c) ==
  IF c.dynamic = NoRow THEN DynamicUpperBoundOrEqual(c.static)
  ELSE FirstOf(Tail(From(dynamic, c.dynamic)))

StaticPeek(c) ==
  IF static = {} THEN NoRow
  ELSE IF c.static = NoRow THEN StaticUpperBoundOrEqual(c.dynamic)
  ELSE FindNext(c.static)

\* The cursor with the lower next key moves to it.  advance() of the primary
\* index gives up once both cursors are open (line 1597).
Advance(c) ==
  LET d == DynamicPeek(c)
      s == StaticPeek(c)
  IN IF s # NoRow /\ (d = NoRow \/ Before(s, d)) THEN Cursors(c.dynamic, s)
     ELSE IF d # NoRow THEN Cursors(d, c.static)
     ELSE c

-----------------------------------------------------------------------------

\* find_leftmost takes the first entry of a layer, valid or not, and compares of
\* the secondary index meet removed entries.
Orderly ==
  \A p \in DOMAIN trie : (p # <<>> \/ secondary) =>
    trie[p] # <<>> /\ \A i \in DOMAIN trie[p] : IsValid(trie[p][i])

Rows == dynamic \cup static

\* The rows of each stage beyond its cursor.
Ahead(c) ==
  {x \in dynamic : IF c.dynamic = NoRow THEN Before(c.static, x) ELSE Before(c.dynamic, x)}
    \cup {x \in static : IF c.static = NoRow THEN Before(c.dynamic, x) ELSE Before(c.static, x)}

\* The cursors that advance() may be called with.
Open ==
  {Cursors(d, NoRow) : d \in dynamic} \cup {Cursors(NoRow, s) : s \in static}
    \cup (IF secondary THEN {Cursors(d, s) : d \in dynamic, s \in static} ELSE {})

Lowest(keys) == FirstOf(Ascending(keys \ {NoRow}))

(* get_upper_bound, get_first and advance see one ordered map, whichever    *)
(* stage a row is in: the lower of the two bounds is the first row from the *)
(* key on, and advance() moves one cursor, to the first row ahead.  Not if  *)
(* a layer of the trie has lost an entry, nor where the search reads        *)
(* next_lv_, which only get_next sets; and find_upper_bound passes an entry *)
(* by whose suffix it has not compared, so the key must be one of its own;  *)
(* and find_next loses the slices of a layer that it leaves.                *)
BothStagesAreOrdered ==
  Idle /\ Closed /\ Orderly =>
    /\ \A k \in Setups[secondary] :
         LET c == GetUpperBoundOrEqual(k)
         IN c.static # Wild => Lowest({c.dynamic, c.static}) = FirstOf(From(Rows, k))
    /\ Lowest({GetFirst.dynamic, GetFirst.static}) = FirstOf(Ascending(Rows))
    /\ \A k \in static :
         LET c == GetUpperBound(k)
         IN c.static # Wild => Lowest({c.dynamic, c.static}) = FirstOf(From(Rows \ {k}, k))
    /\ \A c \in Open :
         LET to == Advance(c)
             moved == {to.dynamic, to.static} \ {c.dynamic, c.static}
         IN (StaticPeek(c) # Wild /\ (c.static = NoRow \/ PlainTrie)) => moved = {Lowest(Ahead(c))} \ {NoRow}
=============================================================================
