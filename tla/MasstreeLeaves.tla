--------------------------- MODULE MasstreeLeaves ---------------------------
(***************************************************************************)
(* One layer of a Masstree used by several threads: the leaves, their       *)
(* versions, permutations and links, and the internode above them           *)
(* (src/hybrid_index/masstree_get.hh, masstree_insert.hh, masstree_split.hh *)
(* and masstree_remove.hh).  Lookups take no lock; they trust what they     *)
(* read if the version of the leaf has not changed.  Threads interleave at  *)
(* every access to memory that another thread may write.                    *)
(*                                                                         *)
(* Keys have the 8 bytes of one layer, so a leaf never holds two entries    *)
(* with one ikey and there are no suffixes and no deeper layers.  The       *)
(* internode has room for all leaves of the model, so it never splits.      *)
(* A freed leaf keeps its contents and is not reused; stale tells whether   *)
(* a thread ever held a pointer to one.  node_ts_ is the set of the keys     *)
(* whose removals it is later than.                                         *)
(***************************************************************************)
EXTENDS Integers, FiniteSets, SequencesExt

CONSTANTS
  Threads,
  Keys,        \* a set of integers
  Values,
  Blank,       \* the empty leafvalue, and what is found under an absent key
  Width,       \* P::leaf_width
  Concurrent,  \* P::concurrent; nodeparams sets it to false
  Calls,       \* the calls that may be made: their kind, key and value
  Loads,       \* the trees at the start: the keys of each leaf, those of them
               \* that were removed again, and how many of the calls this counts for
  MaxLeaves,   \* a bound of the model on the leaves ever made
  MaxCalls     \* a bound of the model on the calls ever made

CallKinds == {"get", "put", "remove"}

\* Keys in ascending order, some in every leaf, and not all of a leaf removed.
IsLoad(load) ==
  /\ load.keys \in Seq(Seq(Keys)) \ {<<>>} /\ load.gone \subseteq Keys /\ load.calls \in Nat
  /\ \A i \in DOMAIN load.keys :
       Len(load.keys[i]) \in 1..Width /\ ~(ToSet(load.keys[i]) \subseteq load.gone)
  /\ \A h, i \in DOMAIN load.keys : \A j \in DOMAIN load.keys[h], k \in DOMAIN load.keys[i] :
       h < i \/ (h = i /\ j < k) => load.keys[h][j] < load.keys[i][k]

ASSUME KeysAssumption == Keys \subseteq Int /\ IsFiniteSet(Keys)
ASSUME ValuesAssumption == Values # {} /\ Blank \notin Values
\* A leaf of two slots, one of them kept for the bound, could not be split.
ASSUME WidthAssumption == Width \in Nat /\ Width >= 3
ASSUME CallsAssumption ==
  Calls \subseteq [kind : CallKinds, key : Keys, val : Values]
ASSUME LoadsAssumption == \A load \in Loads : IsLoad(load)

VARIABLES
  leaf,    \* the leaves made so far
  top,     \* the internode above them, once there is one
  pc, reg, \* where each thread is, and its locals
  freed,   \* leaves given back to the pool
  calls,   \* the number of calls made
  seen,    \* what the key of a call has had in the tree since the call began
  stale,   \* a thread has held a pointer to a freed leaf
  twins,   \* two children of the internode have had one separator
  removed, \* keys that have ever been removed
  overlap  \* a leaf has been locked while the leaf after it was being removed

nodes == <<leaf, top>>
vars == <<leaf, top, pc, reg, freed, calls, seen, stale, twins, removed, overlap>>

Null == 0
Slots == 0..(Width - 1)
LeafIds == 1..Len(leaf)

-----------------------------------------------------------------------------
(* Versions: class basic_nodeversion, and basic_singlethreaded_nodeversion  *)
(* when P::concurrent is false.                                             *)

NewVersion == [lock |-> FALSE, ins |-> FALSE, spl |-> FALSE, del |-> FALSE,
               root |-> FALSE, vinsert |-> 0, vsplit |-> 0]

Dirty(v) == Concurrent /\ (v.ins \/ v.spl)
Locked(v) == Concurrent /\ v.lock
Deleted(v) == Concurrent /\ v.del

Changed(v, w) == Concurrent /\ [v EXCEPT !.lock = FALSE] # [w EXCEPT !.lock = FALSE]
HasSplit(v, w) ==
  Concurrent /\ (v.vsplit # w.vsplit \/ v.del # w.del \/ v.root # w.root)

Lock(v) == IF Concurrent THEN [v EXCEPT !.lock = TRUE] ELSE v

Unlock(v) ==
  IF ~Concurrent THEN v
  ELSE IF v.spl
  THEN [NewVersion EXCEPT !.del = v.del, !.vsplit = v.vsplit + 1]
  ELSE [v EXCEPT !.lock = FALSE, !.ins = FALSE,
                 !.vinsert = IF v.ins THEN @ + 1 ELSE @]

MarkInsert(v) == IF Concurrent THEN [v EXCEPT !.ins = TRUE] ELSE v
MarkSplit(v) == IF Concurrent THEN [v EXCEPT !.spl = TRUE] ELSE [v EXCEPT !.root = FALSE]
MarkDeleted(v) == IF Concurrent THEN [v EXCEPT !.del = TRUE, !.spl = TRUE] ELSE v

-----------------------------------------------------------------------------
(* Permutations: class kpermuter.  order lists all slots, the first size of *)
(* them are in use.                                                         *)

MakeSorted(n) == [size |-> n, order |-> [i \in 1..Width |-> i - 1]]
Back(p) == p.order[Width]
Used(p) == {p.order[i] : i \in 1..p.size}

InsertFromBack(p, i) ==
  [size |-> p.size + 1, order |-> InsertAt(Front(p.order), i + 1, Back(p))]

RemoveSlot(p, i) ==
  [size |-> p.size - 1,
   order |-> InsertAt(RemoveAt(p.order, i + 1), p.size, p.order[i + 1])]

RemoveToBack(p, i) ==
  [size |-> p.size - 1, order |-> Append(RemoveAt(p.order, i + 1), p.order[i + 1])]

Exchange(p, i, j) ==
  [p EXCEPT !.order = [p.order EXCEPT ![i + 1] = p.order[j + 1], ![j + 1] = p.order[i + 1]]]

-----------------------------------------------------------------------------
(* Leaves.                                                                  *)

\* ikey_bound(): no key of a leaf with a predecessor is smaller.
Bound(l) == leaf[l].ikey[0]
IkeyAt(l, i) == leaf[l].ikey[leaf[l].perm.order[i]]

\* The slot of key k among those in use, or -1, and the position it has there.
Find(l, k) ==
  LET here == {s \in Used(leaf[l].perm) : leaf[l].ikey[s] = k}
  IN  IF here = {} THEN -1 ELSE CHOOSE s \in here : TRUE
Position(l, k) == Cardinality({i \in 1..leaf[l].perm.size : IkeyAt(l, i) < k})

\* perm[-1] of an empty leaf is the nibble of the size, which is 0.
LastIkey(l) == IF leaf[l].perm.size = 0 THEN Bound(l) ELSE IkeyAt(l, leaf[l].perm.size)

\* The position of the child for key k in the internode: key_upper_bound.
Upper(k) == Cardinality({i \in 1..Len(top.ikey) : top.ikey[i] <= k})

\* What the tree holds under k: the entry of a leaf that is in use.
View(lf, k) ==
  LET at == {l \in 1..Len(lf) : \E s \in Used(lf[l].perm) : lf[l].ikey[s] = k}
      l == CHOOSE l \in at : TRUE
  IN  IF at = {} THEN Blank
      ELSE lf[l].lv[CHOOSE s \in Used(lf[l].perm) : lf[l].ikey[s] = k]

\* The locals of a call: the leaf and its version, the version of the
\* internode, a permutation and a range of it, a slot, a position, a value, the
\* new leaf of a split and whether the new key goes there, a neighbour, node_ts_.
NoLocals == [kind |-> "none", key |-> 0, val |-> Blank, n |-> Null, v |-> NewVersion,
             iv |-> NewVersion, perm |-> MakeSorted(0), lo |-> 0, hi |-> 0, kp |-> -1,
             ki |-> 0, lv |-> Blank, nr |-> Null, toRight |-> FALSE, aux |-> Null,
             hasTop |-> FALSE, ts |-> {}]

Goto(t, where) == pc' = [pc EXCEPT ![t] = where]
Here(t) == leaf[reg[t].n]

\* The tree that ascending insertions of keys leave behind: they fill one leaf
\* after the other (the sequential case of split_into).  Those gone are then
\* removed in ascending order, and the slot freed last is the first one free.
Permuters ==
  {p \in [size : 0..Width, order : [1..Width -> Slots]] :
     \A i, j \in 1..Width : i # j => p.order[i] # p.order[j]}

IsLoaded(p, keys, gone) ==
  /\ Used(p) = {s \in 0..(Len(keys) - 1) : keys[s + 1] \notin gone}
  /\ \A i, j \in 1..p.size : i < j => p.order[i] < p.order[j]
  /\ \A i \in (p.size + 1)..Width :
       /\ i > Len(keys) => p.order[i] = i - 1
       /\ i > p.size + 1 /\ i <= Len(keys) => p.order[i] < p.order[i - 1]

LoadedLeaf(load, perm, i) ==
  LET keys == load.keys[i]
      last == i = Len(load.keys)
      gone == load.gone \cap ToSet(keys)
  IN  [ver |-> [NewVersion EXCEPT !.root = last, !.vsplit = IF last THEN 0 ELSE 1,
                                  !.vinsert = IF gone = {} THEN 0 ELSE 1],
       mod |-> IF gone = {} THEN "insert" ELSE "remove", ts |-> gone, perm |-> perm,
       ikey |-> [s \in Slots |-> IF s < Len(keys) THEN keys[s + 1] ELSE 0],
       lv |-> [s \in Slots |-> IF s < Len(keys) THEN CHOOSE v \in Values : TRUE ELSE Blank],
       next |-> IF last THEN Null ELSE i + 1, marked |-> FALSE,
       prev |-> i - 1, hasParent |-> Len(load.keys) > 1]

NoTop == [ver |-> NewVersion, ikey |-> <<>>, child |-> <<>>]

LoadedTop(keys) ==
  IF Len(keys) = 1 THEN NoTop
  ELSE [ver |-> [NewVersion EXCEPT !.root = TRUE],
        ikey |-> [i \in 1..(Len(keys) - 1) |-> keys[i + 1][1]], child |-> [i \in 1..Len(keys) |-> i]]

Load(load, made) ==
  /\ \E perms \in [DOMAIN load.keys -> Permuters] :
       /\ \A i \in DOMAIN load.keys : IsLoaded(perms[i], load.keys[i], load.gone)
       /\ leaf = [i \in DOMAIN load.keys |-> LoadedLeaf(load, perms[i], i)]
  /\ top = LoadedTop(load.keys) /\ removed = load.gone /\ calls = made + load.calls

InitWith(loads, made) ==
  /\ \E load \in loads : Load(load, made)
  /\ pc = [t \in Threads |-> "idle"]
  /\ reg = [t \in Threads |-> NoLocals]
  /\ freed = {} /\ stale = FALSE /\ twins = FALSE /\ overlap = FALSE
  /\ seen = [t \in Threads |-> {}]

Init == InitWith(Loads, 0)

-----------------------------------------------------------------------------
(* Finding the leaf: fix_root and node_base::reach_leaf.                    *)

\* A bound of the model: no insertion begins unless a leaf can still be made.
RoomToSplit ==
  Len(leaf) + Cardinality({t \in Threads : reg[t].kind = "put" /\ pc[t] \notin {"idle", "done"}})
    < MaxLeaves

BeginOneOf(t, choice) ==
  /\ pc[t] \in {"idle", "done"} /\ calls < MaxCalls
  /\ calls' = calls + 1
  /\ \E call \in choice :
       /\ call.kind = "put" => RoomToSplit
       /\ reg' = [reg EXCEPT ![t] = [NoLocals EXCEPT !.kind = call.kind, !.key = call.key,
                                                     !.val = call.val]]
  /\ Goto(t, "root")
  /\ UNCHANGED <<nodes, freed>>

Begin(t) == BeginOneOf(t, Calls)

Return(t, answer) ==
  /\ reg' = [reg EXCEPT ![t] = [NoLocals EXCEPT !.kind = reg[t].kind, !.key = reg[t].key,
                                                !.val = reg[t].val, !.lv = answer]]
  /\ Goto(t, "done")

\* Lookups go on to read the leaf, writers lock it; a scan (MasstreeScan) that
\* goes on looks for its place.
Found(t) ==
  Goto(t, IF reg[t].kind \in {"put", "remove"} THEN "lock"
          ELSE IF reg[t].kind = "rescan" THEN "resume"
          ELSE "perm")

\* The first leaf is the root until it has split.
Root(t) ==
  /\ pc[t] = "root"
  /\ IF leaf[1].ver.root
     THEN /\ ~Dirty(leaf[1].ver)
          /\ reg' = [reg EXCEPT ![t].n = 1, ![t].v = leaf[1].ver]
          /\ Found(t)
     ELSE /\ ~Dirty(top.ver)
          /\ reg' = [reg EXCEPT ![t].iv = top.ver]
          /\ Goto(t, "descend")
  /\ UNCHANGED <<nodes, freed, calls>>

\* While the internode is being changed any child may be read.
Descend(t) ==
  /\ pc[t] = "descend"
  /\ \E i \in 1..Len(top.child) :
       /\ ~Dirty(top.ver) => i = Upper(reg[t].key) + 1
       /\ reg' = [reg EXCEPT ![t].n = top.child[i]]
  /\ Goto(t, "child")
  /\ UNCHANGED <<nodes, freed, calls>>

Child(t) ==
  /\ pc[t] = "child" /\ ~Dirty(Here(t).ver)
  /\ IF Changed(reg[t].iv, top.ver)
     THEN /\ Goto(t, "again") /\ UNCHANGED reg
     ELSE /\ reg' = [reg EXCEPT ![t].v = Here(t).ver]
          /\ Found(t)
  /\ UNCHANGED <<nodes, freed, calls>>

Again(t) ==
  /\ pc[t] = "again" /\ ~Dirty(top.ver)
  /\ reg' = [reg EXCEPT ![t].iv = top.ver]
  /\ Goto(t, "descend")
  /\ UNCHANGED <<nodes, freed, calls>>

-----------------------------------------------------------------------------
(* Lookups: unlocked_tcursor::find_unlocked and leaf::advance_to_key.       *)

ReadPermutation(t) ==
  /\ pc[t] = "perm"
  /\ IF Deleted(reg[t].v)
     THEN Goto(t, "root") /\ UNCHANGED reg
     ELSE /\ reg' = [reg EXCEPT ![t].perm = Here(t).perm, ![t].lo = 0,
                                ![t].hi = Here(t).perm.size, ![t].kp = -1]
          /\ Goto(t, "probe")
  /\ UNCHANGED <<nodes, freed, calls>>

\* One comparison of lower_bound_binary.
Probe(t) ==
  LET m == (reg[t].lo + reg[t].hi) \div 2
      slot == reg[t].perm.order[m + 1]
      ikey == Here(t).ikey[slot]
  IN  /\ pc[t] = "probe" /\ reg[t].lo < reg[t].hi
      /\ reg' = [reg EXCEPT ![t] =
                   IF reg[t].key < ikey THEN [reg[t] EXCEPT !.hi = m]
                   ELSE IF reg[t].key = ikey THEN [reg[t] EXCEPT !.kp = slot, !.lo = m, !.hi = m]
                   ELSE [reg[t] EXCEPT !.lo = m + 1]]
      /\ Goto(t, IF reg[t].key = ikey THEN "value" ELSE "probe")
      /\ UNCHANGED <<nodes, freed, calls>>

ReadValue(t) ==
  /\ pc[t] = "value"
  /\ reg' = [reg EXCEPT ![t].lv = Here(t).lv[reg[t].kp]]
  /\ Goto(t, "check")
  /\ UNCHANGED <<nodes, freed, calls>>

\* The search is over, and the value has been read if the key was found.
Searched(t) == pc[t] = "check" \/ (pc[t] = "probe" /\ reg[t].lo = reg[t].hi)

Check(t) ==
  /\ Searched(t) /\ reg[t].kind = "get"
  /\ IF Changed(reg[t].v, Here(t).ver)
     THEN Goto(t, "advance") /\ UNCHANGED reg
     ELSE Return(t, IF reg[t].kp = -1 THEN Blank ELSE reg[t].lv)
  /\ UNCHANGED <<nodes, freed, calls>>

Advance(t) ==
  /\ pc[t] = "advance" /\ ~Dirty(Here(t).ver)
  /\ reg' = [reg EXCEPT ![t].v = Here(t).ver]
  /\ Goto(t, IF HasSplit(reg[t].v, Here(t).ver) /\ reg[t].key > LastIkey(reg[t].n)
             THEN "walk" ELSE "perm")
  /\ UNCHANGED <<nodes, freed, calls>>

\* The key belongs to the next leaf, or to one behind it.
Beyond(t) == Here(t).next # Null /\ reg[t].key >= Bound(Here(t).next)

Walk(t) ==
  /\ pc[t] = "walk"
  /\ IF ~Deleted(reg[t].v) /\ Beyond(t)
     THEN /\ reg' = [reg EXCEPT ![t].n = Here(t).next]
          /\ Goto(t, "walked")
     ELSE Goto(t, "perm") /\ UNCHANGED reg
  /\ UNCHANGED <<nodes, freed, calls>>

Walked(t) ==
  /\ pc[t] = "walked" /\ ~Dirty(Here(t).ver)
  /\ reg' = [reg EXCEPT ![t].v = Here(t).ver]
  /\ Goto(t, "walk")
  /\ UNCHANGED <<nodes, freed, calls>>

-----------------------------------------------------------------------------
(* Locking the leaf of a key: tcursor::get_leaf_locked.                     *)

LockLeaf(t) ==
  /\ pc[t] = "lock" /\ ~Locked(Here(t).ver)
  /\ leaf' = [leaf EXCEPT ![reg[t].n].ver = Lock(@)]
  /\ Goto(t, "decide")
  /\ UNCHANGED <<top, reg, freed, calls>>

DeletedMeanwhile(t) ==
  /\ pc[t] = "decide" /\ Deleted(Here(t).ver)
  /\ leaf' = [leaf EXCEPT ![reg[t].n].ver = Unlock(@)]
  /\ Goto(t, "root")
  /\ UNCHANGED <<top, reg, freed, calls>>

\* The leaf has split since its version was read, and the key is not in it.
MovedRight(t) ==
  /\ Find(reg[t].n, reg[t].key) = -1
  /\ Position(reg[t].n, reg[t].key) = Here(t).perm.size
  /\ HasSplit(reg[t].v, Here(t).ver)
  /\ Beyond(t)

WalkRight(t) ==
  /\ pc[t] = "decide" /\ ~Deleted(Here(t).ver) /\ MovedRight(t)
  /\ leaf' = [leaf EXCEPT ![reg[t].n].ver = Unlock(@)]
  /\ reg' = [reg EXCEPT ![t].n = Here(t).next]
  /\ Goto(t, "rightward")
  /\ UNCHANGED <<top, freed, calls>>

Rightward(t) ==
  /\ pc[t] = "rightward" /\ ~Dirty(Here(t).ver)
  /\ IF ~Deleted(Here(t).ver) /\ Beyond(t)
     THEN /\ reg' = [reg EXCEPT ![t].v = Here(t).ver, ![t].n = Here(t).next]
          /\ UNCHANGED pc
     ELSE /\ reg' = [reg EXCEPT ![t].v = Here(t).ver]
          /\ Goto(t, "lock")
  /\ UNCHANGED <<nodes, freed, calls>>

\* This thread has locked the leaf responsible for its key.
Responsible(t) == pc[t] = "decide" /\ ~Deleted(Here(t).ver) /\ ~MovedRight(t)

UpdateValue(t) ==
  /\ Responsible(t) /\ reg[t].kind = "put" /\ Find(reg[t].n, reg[t].key) # -1
  /\ leaf' = [leaf EXCEPT ![reg[t].n].lv[Find(reg[t].n, reg[t].key)] = reg[t].val,
                          ![reg[t].n].ver = Unlock(@)]
  /\ Return(t, reg[t].val)
  /\ UNCHANGED <<top, freed, calls>>

RemoveAbsent(t) ==
  /\ Responsible(t) /\ reg[t].kind = "remove" /\ Find(reg[t].n, reg[t].key) = -1
  /\ leaf' = [leaf EXCEPT ![reg[t].n].ver = Unlock(@)]
  /\ Return(t, Blank)
  /\ UNCHANGED <<top, freed, calls>>

-----------------------------------------------------------------------------
(* Insertion: tcursor::check_leaf_insert, finish_insert and finish.         *)

\* A defect: slots that removals freed are reused without a warning.
FaultyBeginInsert(t) ==
  /\ Responsible(t) /\ reg[t].kind = "put" /\ Find(reg[t].n, reg[t].key) = -1
  /\ leaf' = [leaf EXCEPT ![reg[t].n].mod = "insert"]
  /\ reg' = [reg EXCEPT ![t].ki = Position(reg[t].n, reg[t].key)]
  /\ Goto(t, "slot")
  /\ UNCHANGED <<top, freed, calls>>

\* Slots freed by removals may be written only after readers were warned.
BeginInsert(t) ==
  /\ Responsible(t) /\ reg[t].kind = "put" /\ Find(reg[t].n, reg[t].key) = -1
  /\ leaf' = [leaf EXCEPT ![reg[t].n].ver = IF Here(t).mod = "remove" THEN MarkInsert(@) ELSE @,
                          ![reg[t].n].mod = "insert"]
  /\ reg' = [reg EXCEPT ![t].ki = Position(reg[t].n, reg[t].key)]
  /\ Goto(t, "slot")
  /\ UNCHANGED <<top, freed, calls>>

\* Slot 0 holds the bound of the leaf, unless there is no leaf before it.
Usable(t, slot) ==
  slot # 0 \/ Here(t).prev = Null \/ Bound(reg[t].n) = reg[t].key

\* A defect: the exchanged position is off by one.
FaultyOtherBack(p) == Exchange(p, p.size - 1, Width - 1)

\* The permutation with another free slot, if there is one, at its back.
OtherBack(p) == Exchange(p, p.size, Width - 1)

InsertHere(t) ==
  /\ pc[t] = "slot" /\ Here(t).perm.size < Width /\ Usable(t, Back(Here(t).perm))
  /\ reg' = [reg EXCEPT ![t].kp = Back(Here(t).perm)]
  /\ Goto(t, "assign")
  /\ UNCHANGED <<nodes, freed, calls>>

\* finish_split: rather than split, exchange slot 0 for another free one.
InsertExchanged(t) ==
  /\ pc[t] = "slot" /\ Here(t).perm.size < Width /\ ~Usable(t, Back(Here(t).perm))
  /\ Back(OtherBack(Here(t).perm)) # 0
  /\ leaf' = [leaf EXCEPT ![reg[t].n].perm = OtherBack(@)]
  /\ reg' = [reg EXCEPT ![t].kp = Back(OtherBack(Here(t).perm))]
  /\ Goto(t, "assign")
  /\ UNCHANGED <<top, freed, calls>>

\* leaf::assign: the value is emptied before the key is written.
Assign(t) ==
  /\ pc[t] = "assign"
  /\ leaf' = [leaf EXCEPT ![reg[t].n].lv[reg[t].kp] = Blank]
  /\ Goto(t, "assignKey")
  /\ UNCHANGED <<top, reg, freed, calls>>

AssignKey(t) ==
  /\ pc[t] = "assignKey"
  /\ leaf' = [leaf EXCEPT ![reg[t].n].ikey[reg[t].kp] = reg[t].key]
  /\ Goto(t, IF reg[t].nr = Null THEN "store" ELSE "unlockOther")
  /\ UNCHANGED <<top, reg, freed, calls>>

\* The caller of modify_insert stores the value.
Store(t) ==
  /\ pc[t] = "store"
  /\ leaf' = [leaf EXCEPT ![reg[t].n].lv[reg[t].kp] = reg[t].val]
  /\ Goto(t, "publish")
  /\ UNCHANGED <<top, reg, freed, calls>>

FinishInsert(t) ==
  /\ pc[t] = "publish"
  /\ leaf' = [leaf EXCEPT ![reg[t].n].perm = InsertFromBack(@, reg[t].ki),
                          ![reg[t].n].ver = Unlock(@)]
  /\ Return(t, reg[t].val)
  /\ UNCHANGED <<top, freed, calls>>

-----------------------------------------------------------------------------
(* Splits: leaf::split_into, btree_leaflink::link_split and                 *)
(* tcursor::finish_split.                                                   *)

\* How many entries, the new one included, stay in the leaf.
Middle(t) ==
  LET size == Here(t).perm.size
  IN  IF reg[t].ki = 0 /\ Here(t).prev = Null THEN 1
      ELSE IF reg[t].ki = size /\ Here(t).next = Null THEN size
      ELSE Width \div 2 + 1

\* The new leaf: the entries from the middle on, the new one among them but not
\* yet in use.
RightLeaf(t) ==
  LET p == Here(t).perm
      mid == Middle(t)
      count == p.size + 1 - mid
      \* the slot of entry x after the insertion, for x # ki
      from == [x \in (mid..p.size) \ {reg[t].ki} |-> p.order[IF x > reg[t].ki THEN x ELSE x + 1]]
      sorted == MakeSorted(count)
  IN  [Here(t) EXCEPT
        !.mod = "insert", !.prev = reg[t].n, !.next = Null, !.marked = FALSE,
        !.hasParent = FALSE,
        !.ikey = [s \in Slots |->
                    IF s >= count THEN 0
                    ELSE IF s + mid = reg[t].ki THEN reg[t].key ELSE Here(t).ikey[from[s + mid]]],
        !.lv = [s \in Slots |->
                  IF s >= count \/ s + mid = reg[t].ki THEN Blank ELSE Here(t).lv[from[s + mid]]],
        !.perm = IF reg[t].ki >= mid THEN RemoveToBack(sorted, reg[t].ki - mid) ELSE sorted]

SplitInto(t) ==
  /\ pc[t] = "slot"
  /\ \/ Here(t).perm.size = Width
     \/ ~Usable(t, Back(Here(t).perm)) /\ Back(OtherBack(Here(t).perm)) = 0
  /\ leaf' = Append(leaf, RightLeaf(t))
  /\ reg' = [reg EXCEPT ![t].nr = Len(leaf) + 1, ![t].toRight = reg[t].ki >= Middle(t)]
  /\ Goto(t, "lockNext")
  /\ UNCHANGED <<top, freed, calls>>

\* The mark that lock_next sets on a next pointer against a concurrent unlink;
\* the single-threaded btree_leaflink sets none.
Mark(next) == Concurrent /\ next # Null

LockNext(t) ==
  /\ pc[t] = "lockNext" /\ ~Here(t).marked
  /\ leaf' = [leaf EXCEPT ![reg[t].n].marked = Mark(Here(t).next)]
  /\ Goto(t, "linkBack")
  /\ UNCHANGED <<top, reg, freed, calls>>

LinkBack(t) ==
  /\ pc[t] = "linkBack"
  /\ leaf' = [l \in LeafIds |->
                IF l = reg[t].nr THEN [leaf[l] EXCEPT !.next = Here(t).next]
                ELSE IF l = Here(t).next THEN [leaf[l] EXCEPT !.prev = reg[t].nr]
                ELSE leaf[l]]
  /\ Goto(t, "link")
  /\ UNCHANGED <<top, reg, freed, calls>>

Link(t) ==
  /\ pc[t] = "link"
  /\ leaf' = [leaf EXCEPT ![reg[t].n].next = reg[t].nr, ![reg[t].n].marked = FALSE]
  /\ Goto(t, "parent")
  /\ UNCHANGED <<top, reg, freed, calls>>

\* locked_parent finds none: the leaf gets its first internode.
NewTop(t) ==
  /\ pc[t] = "parent" /\ ~Here(t).hasParent
  /\ top' = [ver |-> [NewVersion EXCEPT !.root = TRUE],
             ikey |-> <<Bound(reg[t].nr)>>, child |-> <<reg[t].n, reg[t].nr>>]
  /\ leaf' = [leaf EXCEPT ![reg[t].n].hasParent = TRUE, ![reg[t].nr].hasParent = TRUE]
  /\ Goto(t, "split")
  /\ UNCHANGED <<reg, freed, calls>>

LockParent(t) ==
  /\ pc[t] = "parent" /\ Here(t).hasParent /\ ~Locked(top.ver)
  /\ top' = [top EXCEPT !.ver = Lock(@)]
  /\ reg' = [reg EXCEPT ![t].hasTop = TRUE]
  /\ Goto(t, IF reg[t].kind = "put" THEN "markParent" ELSE "unlockDeleted")
  /\ UNCHANGED <<leaf, freed, calls>>

MarkParent(t) ==
  /\ pc[t] = "markParent"
  /\ top' = [top EXCEPT !.ver = MarkInsert(@)]
  /\ Goto(t, IF reg[t].kind = "put" THEN "addChild" ELSE "dropChild")
  /\ UNCHANGED <<leaf, reg, freed, calls>>

AddChild(t) ==
  /\ pc[t] = "addChild"
  /\ LET sep == Bound(reg[t].nr)
         kp == Upper(sep)
     IN  top' = [top EXCEPT !.ikey = InsertAt(@, kp + 1, sep),
                            !.child = InsertAt(@, kp + 2, reg[t].nr)]
  /\ leaf' = [leaf EXCEPT ![reg[t].nr].hasParent = TRUE]
  /\ Goto(t, "split")
  /\ UNCHANGED <<reg, freed, calls>>

MarkLeafSplit(t) ==
  /\ pc[t] = "split"
  /\ leaf' = [leaf EXCEPT ![reg[t].n].ver = MarkSplit(@)]
  /\ Goto(t, "shrink")
  /\ UNCHANGED <<top, reg, freed, calls>>

\* The permutation of the old leaf without the entries of the new one.
Shrunk(t) ==
  LET p == Here(t).perm
      less == [p EXCEPT !.size = p.size - leaf[reg[t].nr].perm.size]
  IN  IF p.size = Width THEN less ELSE Exchange(less, less.size, Width - 1)

\* From here on n is the leaf of the new key and nr the other one.
Shrink(t) ==
  /\ pc[t] = "shrink"
  /\ leaf' = [leaf EXCEPT ![reg[t].n].perm = Shrunk(t)]
  /\ reg' = [reg EXCEPT ![t] =
               IF reg[t].toRight
               THEN [reg[t] EXCEPT !.n = reg[t].nr, !.nr = reg[t].n,
                                   !.ki = reg[t].ki - Shrunk(t).size,
                                   !.kp = reg[t].ki - Shrunk(t).size]
               ELSE [reg[t] EXCEPT !.kp = Back(Shrunk(t))]]
  /\ Goto(t, IF reg[t].toRight THEN "unlockOther" ELSE "assign")
  /\ UNCHANGED <<top, freed, calls>>

UnlockOther(t) ==
  /\ pc[t] = "unlockOther"
  /\ leaf' = [leaf EXCEPT ![reg[t].nr].ver = Unlock(@)]
  /\ Goto(t, IF reg[t].hasTop THEN "unlockParent" ELSE "store")
  /\ UNCHANGED <<top, reg, freed, calls>>

UnlockParent(t) ==
  /\ pc[t] = "unlockParent"
  /\ top' = [top EXCEPT !.ver = Unlock(@)]
  /\ Goto(t, IF reg[t].kind = "put" THEN "store" ELSE "free")
  /\ UNCHANGED <<leaf, reg, freed, calls>>

-----------------------------------------------------------------------------
(* Removal: tcursor::finish_remove, remove_leaf and btree_leaflink::unlink.  *)

BeginRemove(t) ==
  /\ Responsible(t) /\ reg[t].kind = "remove" /\ Find(reg[t].n, reg[t].key) # -1
  /\ reg' = [reg EXCEPT ![t].ki = Position(reg[t].n, reg[t].key),
                        ![t].lv = Here(t).lv[Find(reg[t].n, reg[t].key)],
                        ![t].ts = Here(t).ts \cup {reg[t].key}]
  /\ Goto(t, "stamp")
  /\ UNCHANGED <<nodes, freed, calls>>

\* node_ts_ is read above and stored here, with no lock against remove_leaf.
Stamp(t) ==
  /\ pc[t] = "stamp"
  /\ leaf' = [leaf EXCEPT ![reg[t].n].ts = reg[t].ts,
                          ![reg[t].n].ver = IF Here(t).mod = "insert" THEN MarkInsert(@) ELSE @,
                          ![reg[t].n].mod = "remove"]
  /\ Goto(t, "unuse")
  /\ UNCHANGED <<top, reg, freed, calls>>

RemoveEntry(t) ==
  LET left == RemoveSlot(Here(t).perm, reg[t].ki)
  IN  /\ pc[t] = "unuse"
      /\ leaf' = [leaf EXCEPT ![reg[t].n].perm = left,
                              ![reg[t].n].ver = IF left.size > 0 THEN Unlock(@) ELSE @]
      /\ IF left.size > 0 THEN Return(t, reg[t].lv) ELSE Goto(t, "empty") /\ UNCHANGED reg
      /\ UNCHANGED <<top, freed, calls>>

\* A defect: a leaf that is kept stays locked.
FaultyKeepFirstLeaf(t) ==
  /\ pc[t] = "empty" /\ Here(t).prev = Null
  /\ Return(t, reg[t].lv)
  /\ UNCHANGED <<nodes, freed, calls>>

\* The first leaf of the layer stays although it is empty.
KeepFirstLeaf(t) ==
  /\ pc[t] = "empty" /\ Here(t).prev = Null
  /\ leaf' = [leaf EXCEPT ![reg[t].n].ver = Unlock(@)]
  /\ Return(t, reg[t].lv)
  /\ UNCHANGED <<top, freed, calls>>

MarkLeafDeleted(t) ==
  /\ pc[t] = "empty" /\ Here(t).prev # Null
  /\ leaf' = [leaf EXCEPT ![reg[t].n].ver = MarkDeleted(@)]
  /\ Goto(t, "readKeeper")
  /\ UNCHANGED <<top, reg, freed, calls>>

\* The leaf before it becomes responsible for its keys and gets its node_ts_.
ReadKeeper(t) ==
  /\ pc[t] = "readKeeper"
  /\ reg' = [reg EXCEPT ![t].aux = Here(t).prev]
  /\ Goto(t, "raise")
  /\ UNCHANGED <<nodes, freed, calls>>

\* A defect: the node_ts_ of the removed leaf is forgotten.
FaultyRaise(t) ==
  /\ pc[t] = "raise"
  /\ Goto(t, "checkKeeper")
  /\ UNCHANGED <<nodes, reg, freed, calls>>

Raise(t) ==
  /\ pc[t] = "raise"
  /\ leaf' = [leaf EXCEPT ![reg[t].aux].ts = @ \cup Here(t).ts]
  /\ Goto(t, "checkKeeper")
  /\ UNCHANGED <<top, reg, freed, calls>>

CheckKeeper(t) ==
  /\ pc[t] = "checkKeeper"
  /\ Goto(t, IF reg[t].aux = Here(t).prev THEN "unlinkNext" ELSE "readKeeper")
  /\ UNCHANGED <<nodes, reg, freed, calls>>

UnlinkNext(t) ==
  /\ pc[t] = "unlinkNext" /\ ~Here(t).marked
  /\ leaf' = [leaf EXCEPT ![reg[t].n].marked = Mark(Here(t).next)]
  /\ Goto(t, "readPrev")
  /\ UNCHANGED <<top, reg, freed, calls>>

ReadPrev(t) ==
  /\ pc[t] = "readPrev"
  /\ reg' = [reg EXCEPT ![t].aux = Here(t).prev]
  /\ Goto(t, "markPrev")
  /\ UNCHANGED <<nodes, freed, calls>>

MarkPrev(t) ==
  LET prev == reg[t].aux
      swapped == Concurrent => leaf[prev].next = reg[t].n /\ ~leaf[prev].marked
  IN  /\ pc[t] = "markPrev"
      /\ leaf' = IF swapped THEN [leaf EXCEPT ![prev].marked = Mark(reg[t].n)] ELSE leaf
      /\ Goto(t, IF swapped THEN "unlinkBack" ELSE "readPrev")
      /\ UNCHANGED <<top, reg, freed, calls>>

UnlinkBack(t) ==
  /\ pc[t] = "unlinkBack"
  /\ leaf' = IF Here(t).next = Null THEN leaf
             ELSE [leaf EXCEPT ![Here(t).next].prev = reg[t].aux]
  /\ Goto(t, "unlink")
  /\ UNCHANGED <<top, reg, freed, calls>>

Unlink(t) ==
  /\ pc[t] = "unlink"
  /\ leaf' = [leaf EXCEPT ![reg[t].aux].next = Here(t).next, ![reg[t].aux].marked = FALSE]
  /\ Goto(t, "parent")
  /\ UNCHANGED <<top, reg, freed, calls>>

UnlockDeleted(t) ==
  /\ pc[t] = "unlockDeleted"
  /\ leaf' = [leaf EXCEPT ![reg[t].n].ver = Unlock(@)]
  /\ Goto(t, "markParent")
  /\ UNCHANGED <<top, reg, freed, calls>>

\* A defect: the child before the separator is dropped.
FaultyDropChild(t) ==
  /\ pc[t] = "dropChild"
  /\ LET kp == Upper(Bound(reg[t].n))
     IN  top' = [top EXCEPT !.ikey = RemoveAt(@, kp), !.child = RemoveAt(@, kp)]
  /\ Goto(t, "unlockParent")
  /\ UNCHANGED <<leaf, reg, freed, calls>>

\* The leaf is never the first child, which has no leaf before it.
DropChild(t) ==
  /\ pc[t] = "dropChild"
  /\ LET kp == Upper(Bound(reg[t].n))
     IN  top' = [top EXCEPT !.ikey = RemoveAt(@, kp), !.child = RemoveAt(@, kp + 1)]
  /\ Goto(t, "unlockParent")
  /\ UNCHANGED <<leaf, reg, freed, calls>>

\* leaf->deallocate(): at once, although other threads may be on the leaf.
FreeLeaf(t) ==
  /\ pc[t] = "free"
  /\ freed' = freed \cup {reg[t].n}
  /\ Return(t, reg[t].lv)
  /\ UNCHANGED <<nodes, calls>>

-----------------------------------------------------------------------------

Lookup(t) ==
  \/ ReadPermutation(t) \/ Probe(t) \/ ReadValue(t) \/ Check(t)
  \/ Advance(t) \/ Walk(t) \/ Walked(t)

LockedLeaf(t) ==
  \/ LockLeaf(t) \/ DeletedMeanwhile(t) \/ WalkRight(t) \/ Rightward(t)
  \/ UpdateValue(t) \/ RemoveAbsent(t)

Insertion(t) ==
  \/ BeginInsert(t) \/ InsertHere(t) \/ InsertExchanged(t)
  \/ Assign(t) \/ AssignKey(t) \/ Store(t) \/ FinishInsert(t)

Split(t) ==
  \/ SplitInto(t) \/ LockNext(t) \/ LinkBack(t) \/ Link(t)
  \/ NewTop(t) \/ LockParent(t) \/ MarkParent(t) \/ AddChild(t)
  \/ MarkLeafSplit(t) \/ Shrink(t) \/ UnlockOther(t) \/ UnlockParent(t)

Removal(t) ==
  \/ BeginRemove(t) \/ Stamp(t) \/ RemoveEntry(t) \/ KeepFirstLeaf(t)
  \/ MarkLeafDeleted(t) \/ ReadKeeper(t) \/ Raise(t) \/ CheckKeeper(t)
  \/ UnlinkNext(t) \/ ReadPrev(t) \/ MarkPrev(t) \/ UnlinkBack(t) \/ Unlink(t)
  \/ UnlockDeleted(t) \/ DropChild(t) \/ FreeLeaf(t)

Step(t) ==
  \/ Root(t) \/ Descend(t) \/ Child(t) \/ Again(t)
  \/ Lookup(t) \/ LockedLeaf(t) \/ Insertion(t) \/ Split(t) \/ Removal(t)

Keeping == {"raise", "checkKeeper", "unlinkNext", "readPrev", "markPrev", "unlinkBack", "unlink"}

\* History only: what the key of each call has had, freed leaves in use, and
\* whether the leaf that is to be responsible for the keys of a removed leaf is
\* being changed.
Observe ==
  /\ seen' = [t \in Threads |->
                IF reg'[t].kind \notin CallKinds THEN {}
                ELSE IF pc[t] \in {"idle", "done"} /\ pc'[t] = "root"
                THEN {View(leaf', reg'[t].key)}
                ELSE IF pc[t] = "done" \/ leaf' = leaf THEN seen[t]
                ELSE seen[t] \cup {View(leaf', reg'[t].key)}]
  /\ stale' = (stale \/ \E t \in Threads : {reg'[t].n, reg'[t].nr, reg'[t].aux} \cap freed' # {})
  /\ twins' = (twins \/ ~IsInjective(top'.ikey))
  /\ removed' = removed \cup {reg[t].key : t \in {u \in Threads : pc[u] = "unuse" /\ pc'[u] # "unuse"}}
  /\ overlap' = (overlap \/ \E t \in Threads :
                   pc'[t] \in Keeping /\ leaf'[leaf'[reg'[t].n].prev].ver.lock)

-----------------------------------------------------------------------------

Places == {"idle", "done", "root", "descend", "child", "again", "perm", "probe", "value",
           "check", "advance", "walk", "walked", "lock", "decide", "rightward", "slot",
           "assign", "assignKey", "store", "publish", "lockNext", "linkBack", "link",
           "parent", "markParent", "addChild", "split", "shrink", "unlockOther",
           "unlockParent", "stamp", "unuse", "readKeeper", "raise", "checkKeeper",
           "empty", "unlinkNext", "readPrev", "markPrev",
           "unlinkBack", "unlink", "unlockDeleted", "dropChild", "free",
           "resume", "lower", "next", "nextValue", "nextCheck", "beyond", "changed", "hop"}

\* The types, and permutations stay permutations of the slots.
TypeOK ==
  /\ \A l \in LeafIds :
       /\ leaf[l].perm.size \in 0..Width
       /\ Len(leaf[l].perm.order) = Width /\ ToSet(leaf[l].perm.order) = Slots
       /\ leaf[l].next \in LeafIds \cup {Null} /\ leaf[l].prev \in LeafIds \cup {Null}
       /\ leaf[l].lv \in [Slots -> Values \cup {Blank}]
  /\ ToSet(top.child) \subseteq LeafIds
  /\ pc \in [Threads -> Places]
  /\ freed \subseteq LeafIds /\ calls \in Nat /\ {stale, twins, overlap} \subseteq BOOLEAN
  /\ \A t \in Threads : seen[t] \subseteq Values \cup {Blank}

\* The comparison of versions around an unlocked read, masstree_get.hh:86-101,
\* and get_leaf_locked: a call answers with something its key had in the tree
\* between its beginning and its end, and a put or a remove had its effect in
\* that time, unless a freed leaf was in use.
CallsTakeEffect ==
  \A t \in Threads : pc[t] = "done" /\ reg[t].kind \in CallKinds /\ ~stale =>
    /\ reg[t].lv \in seen[t]
    /\ reg[t].kind = "remove" => Blank \in seen[t]

\* finish_insert, finish_remove and the assignment of a value change what the
\* tree holds, each under the key of its call; splits, unlinked leaves and the
\* reuse of slots change nothing.
OnlyCallsChangeTheTree ==
  [][leaf # leaf' /\ ~stale' => \A k \in Keys : View(leaf, k) # View(leaf', k) =>
       \E t \in Threads :
         /\ reg[t].key = k
         /\ \/ reg[t].kind = "put" /\ pc[t] \in {"decide", "publish"} /\ pc'[t] = "done"
               /\ View(leaf', k) = reg[t].val
            \/ reg[t].kind = "remove" /\ pc[t] = "unuse" /\ View(leaf', k) = Blank]_vars

\* Slot 0 holds ikey_bound() (masstree_insert.hh:53): whatever is inserted,
\* removed and moved, no key in use is below the bound of its leaf, nor at or
\* above the bound of the next leaf once the leaf is unlocked.
KeysStayInBounds ==
  /\ TypeOK
  /\ ~stale => \A l \in LeafIds \ freed : \A s \in Used(leaf[l].perm) :
       /\ leaf[l].prev # Null => leaf[l].ikey[s] >= Bound(l)
       /\ leaf[l].next # Null /\ ~leaf[l].ver.lock => leaf[l].ikey[s] < Bound(leaf[l].next)

Quiet == \A t \in Threads : pc[t] \in {"idle", "done"}

\* When no call runs, nothing is locked or marked and the list of leaves runs both
\* ways through all of them, each with its keys in order and its bound above that
\* of the leaf before.
QuietListIsConsistent ==
  Quiet /\ ~stale =>
    /\ ~top.ver.lock /\ ~top.ver.ins /\ ~top.ver.spl
    /\ \A i \in LeafIds \ freed :
         LET l == leaf[i]
         IN  /\ l.next # Null => l.next \notin freed /\ leaf[l.next].prev = i
             /\ l.prev # Null => /\ l.prev \notin freed /\ leaf[l.prev].next = i
                                 /\ leaf[l.prev].prev # Null => Bound(l.prev) < Bound(i)
             /\ l.prev = Null <=> i = 1
             /\ ~l.marked /\ ~l.ver.lock /\ ~l.ver.ins /\ ~l.ver.spl
             /\ \A p, q \in 1..l.perm.size : p < q => IkeyAt(i, p) < IkeyAt(i, q)

\* And the internode has exactly the leaves of the list, in its order, each behind
\* its bound.  This is not so after two of its children have had one separator:
\* between the unlinking of a leaf from the list and the locking of its parent
\* (masstree_remove.hh:190, :204) a split of the leaf before it may add a leaf with
\* the same bound, and upper() (:208) then finds the entry of that leaf, which is
\* dropped while the entry of the removed leaf stays.
QuietTopIsConsistent ==
  Quiet /\ ~stale /\ ~twins =>
    LET order == IF top = NoTop THEN <<1>> ELSE top.child
    IN  /\ ToSet(order) = LeafIds \ freed /\ IsInjective(order)
        /\ \A i \in 2..Len(order) : /\ leaf[order[i]].prev = order[i - 1]
                                    /\ top.ikey[i - 1] = Bound(order[i])

\* link_split, unlink and the changes of the internode together: keys stay within
\* the bounds of their leaves at every step, and after the calls the list and the
\* leaves agree, also after that race, and so does the internode without it.
TreeIsConsistent == KeysStayInBounds /\ QuietListIsConsistent /\ QuietTopIsConsistent

\* "Ensure node that becomes responsible for our keys has its node_ts_ kept up to
\* date" (masstree_remove.hh:176): whoever inserts a key gets a time stamp after
\* that of every earlier removal of the key, wherever the key has moved since.
\* Not if the leaf before a removed leaf was locked meanwhile: a split copies
\* node_ts_ (masstree_split.hh:185) and a removal stores it (kvrow.hh:390)
\* without regard to the exchange.
RemovalsAreRemembered ==
  \A t \in Threads :
    pc[t] = "store" /\ reg[t].key \in removed /\ ~stale /\ ~overlap =>
      reg[t].key \in Here(t).ts
=============================================================================
