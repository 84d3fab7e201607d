---------------------------- MODULE OrderedScan ----------------------------
(***************************************************************************)
(* Ordered scans of the hybrid index (mtIndexAPI.hh): get_ordered finds the *)
(* first row and leaves a cursor, each get_next returns one more row.  The  *)
(* cursor of the dynamic stage is a key from which Masstree is asked again; *)
(* that of the static trie is an object of class stcursor_scan              *)
(* (masstree_tcursor.hh, masstree_get.hh), which keeps a path of nodes and  *)
(* looks one entry ahead.                                                   *)
(*                                                                         *)
(* The rows, the tries and the merge are those of StaticTrie.  Its secondary *)
(* index is of type 1; the cursor classes of the indexes are equal copies.  *)
(*                                                                         *)
(* A definition named Faulty... is a plausible slip of the definition after *)
(* it; it is used only to confirm that a property notices the slip.         *)
(***************************************************************************)
EXTENDS StaticTrie

VARIABLES
  curKey,      \* cur_key_, <<>> when cur_keylen_ is 0
  staticLen,   \* static_cur_keylen_, in slices
  firstScan,   \* first_scan
  cursor,      \* lp_cmt_scan
  scanned,     \* the stage in which the last get_ordered found its row, until a
               \* merge moves the rows
  from,        \* the key the cursor was set up with
  count,       \* the number of rows get_next returned since
  last,        \* the last row it returned
  inOrder,     \* each came after the one before
  due          \* when the dynamic stage is scanned, the keys that have been in it
               \* since and that get_next has still to return

scan == <<curKey, staticLen, firstScan, cursor, scanned, from, count, last, inOrder, due>>
vars == <<stages, scan>>

\* The order of the keys: that of their bytes, a prefix comes first.
Before(a, b) ==
  \E i \in 1..Len(b) :
    /\ i <= Len(a) + 1
    /\ \A j \in 1..(i - 1) : a[j] = b[j]
    /\ i = Len(a) + 1 \/ a[i] < b[i]

Ascending(keys) == SetToSortSeq(keys, Before)

From(keys, k) == Ascending({x \in keys : ~Before(x, k)})

\* The first position from i on that isValid holds of, or one past the end.
NextValid(n, i) ==
  LET valid == {j \in i..Len(n) : IsValid(n[j])}
  IN IF valid = {} THEN Len(n) + 1 ELSE CHOOSE j \in valid : \A x \in valid : j <= x

-----------------------------------------------------------------------------
(* stcursor_scan.  debt counts the elements taken from next_key_prefix_     *)
(* while it was empty: the end of the vector is then before its beginning,  *)
(* and as many of the next elements are written in front of it.  The row    *)
(* <<>> is read through cur_lv_ as an earlier scan left it (setup_cursor    *)
(* does not reset it, find_next1 sets it only where it finds the slice); a   *)
(* longer path is the node of a layer whose key is gone, read as a row.      *)

NoCursor == [n |-> <<>>, kp |-> 0, nodes |-> <<>>, positions |-> <<>>, prefix |-> <<>>,
             debt |-> 0, suffix |-> <<>>, row |-> <<>>, found |-> FALSE]

PopPrefix(c) ==
  IF c.prefix = <<>> THEN [c EXCEPT !.debt = @ + 1] ELSE [c EXCEPT !.prefix = Front(@)]

PushPrefix(c, slice) ==
  IF c.debt > 0 THEN [c EXCEPT !.debt = @ - 1] ELSE [c EXCEPT !.prefix = Append(@, slice)]

NotFound(c) == [c EXCEPT !.found = FALSE]

Entries(c) == trie[c.n]

RECURSIVE LookAt(_, _)
\* The entry e is the next one.  In a layer this is find_next_leftmost, which
\* takes the first entry whether it is valid or not and keeps kp_ and the path;
\* in a layer without entries it would read behind the array.
LookAt(c, e) ==
  LET d == PushPrefix(c, e.slice)
  IN IF e.kind # "layer" THEN [d EXCEPT !.suffix = e.suffix, !.found = TRUE]
     ELSE IF trie[e.lv] = <<>> THEN NotFound([d EXCEPT !.n = e.lv])
     ELSE LookAt([d EXCEPT !.n = e.lv], trie[e.lv][1])

RECURSIVE NextItemFromNextNode(_)
NextItemFromNextNode(c) ==
  IF c.nodes = <<>> THEN NotFound(c)
  ELSE LET n == Last(c.nodes)
           k == NextValid(trie[n], Last(c.positions) + 1)
           up == PopPrefix([c EXCEPT !.n = n, !.kp = k,
                                     !.nodes = Front(@), !.positions = Front(@)])
       IN IF k > Len(trie[n]) THEN NextItemFromNextNode(up)
          ELSE LookAt([up EXCEPT !.nodes = Append(@, n), !.positions = Append(@, k)],
                      trie[n][k])

FaultyNextItem(c) ==
  LET k == NextValid(Entries(c), c.kp + 1)
      d == PopPrefix(c)
  IN IF k > Len(Entries(c)) THEN NextItemFromNextNode([d EXCEPT !.kp = k])
     ELSE LookAt([d EXCEPT !.positions[Len(d.positions)] = @ + 1], Entries(c)[k])

NextItem(c) ==
  LET k == NextValid(Entries(c), c.kp + 1)
      d == PopPrefix([c EXCEPT !.kp = k])
  IN IF k > Len(Entries(c)) THEN NextItemFromNextNode(d)
     ELSE LookAt([d EXCEPT !.positions[Len(d.positions)] = @ + 1], Entries(c)[k])

\* key_compare is 0; for the secondary index it forgets the length of the key,
\* so that a search meets tombstones.
Meets(e, key) == IF secondary THEN e.slice = Head(key) ELSE Matches(e, key)

IsExact(n, key) == \E i \in DOMAIN n : Meets(n[i], key)

RECURSIVE FindNext1(_, _, _)
FindNext1(c, node, key) ==
  LET n == trie[node]
      k == IF IsExact(n, key) THEN CHOOSE i \in DOMAIN n : Meets(n[i], key) ELSE 0
      d == PushPrefix([c EXCEPT !.n = node, !.kp = k, !.nodes = Append(@, node),
                         !.positions = Append(@, k), !.row = n[k].lv], n[k].slice)
  IN IF k = 0 THEN NotFound([c EXCEPT !.n = node])
     ELSE IF n[k].kind = "layer" THEN FindNext1(d, n[k].lv, Tail(key))
     ELSE IF ~IsValid(n[k]) THEN NotFound(d)
     ELSE NextItem(d)

FindNext2(c) == NextItem(c)

NextKey == cursor.prefix \o cursor.suffix

-----------------------------------------------------------------------------
(* The calls.  A scan that is open keeps its place when rows come and go.   *)

Init ==
  /\ InitStages
  /\ curKey = <<>> /\ staticLen = 0 /\ firstScan = FALSE /\ cursor = NoCursor
  /\ scanned = "none" /\ from = <<>> /\ count = 0 /\ last = <<>>
  /\ inOrder = TRUE /\ due = {}

StaticScanOpen == staticLen # 0

\* What a closed scan has left is not read again.
Forgotten ==
  /\ scanned' = "none" /\ from' = <<>> /\ count' = 0 /\ last' = <<>>
  /\ inOrder' = TRUE /\ due' = {} /\ cursor' = NoCursor
  /\ UNCHANGED <<curKey, staticLen, firstScan>>

Closed == curKey = <<>> /\ ~StaticScanOpen

\* A merge frees the nodes of the trie, so a caller must not let one happen
\* while a scan of the static stage is open; one of the dynamic stage ends.
\* A change of the stage that is not scanned commutes with the calls of the
\* scan and is left until it is closed.
MayMerge(calls) ==
  /\ calls /\ ~StaticScanOpen
  /\ IF Closed \/ dynamic' = {} \/ tasks' # <<>> THEN Forgotten ELSE UNCHANGED scan

RemoveKey(k) ==
  /\ \/ RemoveDynamic(k) /\ (curKey # <<>> \/ ~StaticScanOpen)
     \/ RemoveStatic(k) /\ (curKey = <<>> \/ StaticScanOpen)
  /\ IF Closed THEN Forgotten
     ELSE /\ due' = due \ {k}
          /\ UNCHANGED <<curKey, staticLen, firstScan, cursor, scanned, from,
                         count, last, inOrder>>

\* A row in the dynamic stage closes the cursor of the static one, and the
\* other way round; the cursor object is set up again before it is next used.
\* Only get_ordered_nuv leaves the static cursor open when it finds the row in
\* the dynamic stage.
GetOrdered(k) ==
  LET inDynamic == k \in dynamic
      inStatic == ~inDynamic /\ k \in static
      kept == inDynamic /\ secondary /\ StaticScanOpen
  IN /\ curKey' = IF inDynamic THEN k ELSE <<>>
     /\ staticLen' = IF inStatic THEN Len(k) ELSE IF kept THEN staticLen ELSE 0
     /\ firstScan' = (inStatic \/ firstScan)
     /\ cursor' = IF kept THEN cursor ELSE NoCursor
     /\ scanned' = IF inDynamic THEN "dynamic" ELSE IF inStatic THEN "static" ELSE "none"
     /\ from' = IF inStatic THEN k ELSE IF kept THEN from ELSE <<>>
     /\ count' = 0 /\ last' = <<>> /\ inOrder' = TRUE
     /\ due' = IF inDynamic THEN {x \in dynamic : ~Before(x, k)} ELSE {}
     /\ Idle
     /\ UNCHANGED stages

\* Masstree is asked for two rows from curKey on: one to return and the next key.
FaultyFetched == From(dynamic, IF last = <<>> THEN curKey ELSE last)
Fetched == From(dynamic, curKey)

Returned(row) ==
  /\ last' = row
  /\ inOrder' = (inOrder /\ (last = <<>> \/ Before(last, row)))
  /\ due' = due \ {row}

DynamicGetNext ==
  /\ Fetched # <<>>
  /\ Returned(Fetched[1])
  /\ curKey' = IF Len(Fetched) > 1 THEN Fetched[2] ELSE <<>>
  /\ UNCHANGED <<stages, staticLen, firstScan, cursor, scanned, from, count>>

\* The rows of a cursor that an earlier scan left open are not those of this one.
StaticGetNext ==
  /\ static # {}
  /\ cursor' = IF firstScan THEN FindNext1(NoCursor, <<>>, from) ELSE FindNext2(cursor)
  /\ firstScan' = FALSE
  /\ IF scanned = "static" THEN Returned(cursor'.row) /\ count' = count + 1
     ELSE UNCHANGED <<last, inOrder, due, count>>
  /\ staticLen' = IF cursor'.found THEN Len(cursor'.prefix) + Len(cursor'.suffix) ELSE 0
  /\ UNCHANGED <<stages, curKey, scanned, from>>

\* With both cursors open, the lower key goes first; next_key() writes nothing
\* before the first step of the static cursor.
StaticKey == IF firstScan THEN from ELSE NextKey

StaticFirst == StaticScanOpen /\ (curKey = <<>> \/ Before(StaticKey, curKey))

GetNext ==
  /\ Idle /\ ~Closed
  /\ IF StaticFirst THEN StaticGetNext ELSE DynamicGetNext

Next ==
  \/ \E k \in Keys : MayMerge(Put(k))
  \/ MayMerge(Merge)
  \/ DoTask /\ UNCHANGED scan
  \/ \E k \in Keys : RemoveKey(k)
  \/ \E k \in Keys : GetOrdered(k)
  \/ GetNext

Spec == Init /\ [][Next]_vars

-----------------------------------------------------------------------------
(* The stages have no key in common, and at most one of the two cursors of  *)
(* the primary index is open: get_next never has to choose between them,    *)
(* although it has code for that (mtIndexAPI.hh:1374-1399).                 *)
TypeOK ==
  /\ StagesTypeOK
  /\ curKey \in Keys \cup {<<>>} /\ from \in Keys \cup {<<>>}
  /\ scanned \in {"none", "dynamic", "static"}
  /\ staticLen \in Nat /\ count \in Nat /\ firstScan \in BOOLEAN /\ inOrder \in BOOLEAN
  /\ last \in Keys \cup DOMAIN trie \cup {<<>>} /\ due \subseteq dynamic
  /\ secondary \/ curKey = <<>> \/ staticLen = 0

\* The trie has neither a layer nor a tombstone.
PlainTrie ==
  \A i \in DOMAIN trie[<<>>] : trie[<<>>][i].kind \in {"end", "suffix"}

(* A scan of the dynamic stage returns its rows in ascending order and      *)
(* misses none that is there from get_ordered on, whatever is put and       *)
(* removed between the calls (dynamic_get_next): the key it remembers is    *)
(* never beyond one it has still to return.                                 *)
DynamicScanIsComplete ==
  /\ TypeOK
  /\ scanned = "dynamic" =>
       /\ inOrder
       /\ \A k \in due : curKey # <<>> /\ ~Before(k, curKey)

(* On a trie without layers and tombstones the static cursor looks at the   *)
(* right entry: after m calls at the m-th live key after the start, and it  *)
(* closes after exactly as many calls as there are keys from the start on   *)
(* (find_next1, find_next2, next_item_next).                                *)
StaticCursorAdvances ==
  LET keys == From(static, from)
  IN (scanned = "static" /\ count > 0 /\ PlainTrie) =>
       IF StaticScanOpen THEN count < Len(keys) /\ NextKey = keys[count + 1]
       ELSE count = Len(keys)

=============================================================================
