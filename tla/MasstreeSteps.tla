--------------------------- MODULE MasstreeSteps ----------------------------
(* The inductive invariant of MasstreeLeaves and MasstreeScan with concurrent *)
(* nodes, and what each step does: for any threads, keys and values, any width *)
(* of the leaves of at least 3 and any bounds of the model, every step keeps *)
(* Base, the part about types, pointers, locks and places.                  *)
EXTENDS MasstreeScan, SequenceTheorems, FiniteSetTheorems, CountingTheorems, TLAPS

Version == [lock : BOOLEAN, ins : BOOLEAN, spl : BOOLEAN, del : BOOLEAN, root : BOOLEAN,
            vinsert : Nat, vsplit : Nat]

Kinds == {"none", "get", "put", "remove", "search", "rescan"}

LeafRecord ==
  [ver : Version, mod : {"insert", "remove"}, ts : SUBSET Keys, perm : Permuters,
   ikey : [Slots -> Int], lv : [Slots -> Values \cup {Blank}], next : Nat,
   marked : BOOLEAN, prev : Nat, hasParent : BOOLEAN]

Local ==
  [kind : Kinds, key : Int, val : Values \cup {Blank}, n : Nat, v : Version,
   iv : Version, perm : Permuters, lo : 0..Width, hi : 0..Width, kp : Int, ki : Int,
   lv : Values \cup {Blank}, nr : Nat, toRight : BOOLEAN, aux : Nat,
   hasTop : BOOLEAN, ts : SUBSET Keys]

ReadPlaces == {"child", "perm", "probe", "value", "check", "advance", "walk", "walked",
               "resume", "lower", "next", "nextValue", "nextCheck", "beyond", "changed", "hop"}
ScanPlaces == {"resume", "lower", "next", "nextValue", "nextCheck", "beyond", "changed", "hop"}
PutPlaces == {"slot", "assign", "assignKey", "store", "publish", "lockNext", "linkBack", "link",
              "addChild", "split", "shrink", "unlockOther"}
DyingPlaces == {"readKeeper", "raise", "checkKeeper", "unlinkNext", "readPrev", "markPrev",
                "unlinkBack", "unlink"}
RemovePlaces == {"stamp", "unuse", "empty", "unlockDeleted", "dropChild", "free"} \cup DyingPlaces
BothPlaces == {"lock", "decide", "rightward", "parent", "markParent", "unlockParent"}
LeafPlaces == ReadPlaces \cup PutPlaces \cup RemovePlaces \cup BothPlaces
FreePlaces == ReadPlaces \cup {"idle", "done", "root", "descend", "again", "lock", "rightward"}

Puts(t) == reg[t].kind = "put"
Removes(t) == reg[t].kind = "remove"

\* t removes its leaf n, which it has marked deleted and not yet freed.
Dying(t) == \/ pc[t] \in DyingPlaces \cup {"unlockDeleted", "dropChild", "free"}
            \/ Removes(t) /\ pc[t] \in {"parent", "markParent", "unlockParent"}

\* t splits its leaf n, and nr is the new leaf; the entries are in both.
Halving(t) == \/ pc[t] \in {"lockNext", "linkBack", "link", "addChild", "split", "shrink"}
              \/ Puts(t) /\ pc[t] \in {"parent", "markParent"}

\* The same, when each entry is in one of them.
Halved(t) == pc[t] = "unlockOther" \/ (pc[t] \in {"assign", "assignKey"} /\ reg[t].nr # Null)

HoldsLeaf(t) ==
  \/ pc[t] \in {"decide", "stamp", "unuse", "empty", "unlockDeleted", "parent"} \cup PutPlaces \cup DyingPlaces
  \/ Puts(t) /\ pc[t] \in {"markParent", "unlockParent"}

HoldsOther(t) == Halving(t) \/ Halved(t)

Holds(t, l) == (HoldsLeaf(t) /\ reg[t].n = l) \/ (HoldsOther(t) /\ reg[t].nr = l)

HoldsTop(t) ==
  \/ pc[t] \in {"markParent", "addChild", "dropChild", "unlockDeleted", "unlockParent"}
  \/ reg[t].hasTop /\ (pc[t] \in {"split", "shrink"} \/ Halved(t))

OptLeaf == LeafIds \cup {Null}
Topped == top.child # <<>>
-----------------------------------------------------------------------------
Types ==
  /\ leaf \in Seq(LeafRecord) /\ leaf # <<>>
  /\ top \in [ver : Version, ikey : Seq(Int), child : Seq(Nat)]
  /\ top = NoTop \/ (Topped /\ Len(top.child) = Len(top.ikey) + 1)
  /\ pc \in [Threads -> Places] /\ reg \in [Threads -> Local]
  /\ freed \subseteq LeafIds

\* What only the history and the scan keep.
History ==
  /\ calls \in Nat /\ ikey \in Int
  /\ stale \in BOOLEAN /\ twins \in BOOLEAN /\ overlap \in BOOLEAN /\ removed \subseteq Keys
  /\ \A t \in Threads : seen[t] \subseteq Values \cup {Blank}

Pointing(t) ==
  /\ reg[t].n \in OptLeaf /\ reg[t].nr \in OptLeaf /\ reg[t].aux \in OptLeaf
  /\ pc[t] \in LeafPlaces => reg[t].n # Null
  /\ HoldsOther(t) => reg[t].nr # Null /\ reg[t].n # reg[t].nr
  /\ Halving(t) => reg[t].nr # 1
  /\ Dying(t) => reg[t].n # 1
  /\ pc[t] \in {"raise", "checkKeeper", "markPrev", "unlinkBack", "unlink"} => reg[t].aux # Null

Pointers ==
  /\ \A l \in LeafIds : /\ leaf[l].next \in OptLeaf \ {1} /\ leaf[l].prev \in OptLeaf
                        /\ leaf[l].prev = Null <=> l = 1
  /\ \A i \in 1..Len(top.child) : top.child[i] \in LeafIds
  /\ \A t \in Threads : Pointing(t)

Controlled(t) ==
  /\ pc[t] \in PutPlaces => Puts(t)
  /\ pc[t] \in RemovePlaces => Removes(t)
  /\ pc[t] \in BothPlaces => Puts(t) \/ Removes(t)
  /\ Puts(t) \/ Removes(t) => reg[t].key \in Keys
  /\ Puts(t) => reg[t].val \in Values
  /\ pc[t] \in ScanPlaces => reg[t].kind = "rescan"
  /\ pc[t] = "value" => reg[t].kp \in Slots
  /\ pc[t] = "nextValue" => reg[t].ki \in 0..(reg[t].perm.size - 1)
  /\ ~HoldsOther(t) /\ ~(Puts(t) /\ pc[t] \in {"store", "publish", "unlockParent"})
     => reg[t].nr = Null
  /\ reg[t].hasTop => HoldsOther(t) \/ HoldsTop(t) \/ pc[t] \in {"store", "publish", "free"}
  /\ pc[t] \in {"lockNext", "linkBack", "link", "parent"} => ~reg[t].hasTop
  /\ pc[t] \in {"unlockDeleted", "markParent", "addChild"} => reg[t].hasTop

Control == \A t \in Threads : Controlled(t)

Steady(v) == ~v.ins /\ ~v.spl

Locking ==
  /\ \A l \in LeafIds : leaf[l].ver.lock <=> \E t \in Threads : Holds(t, l)
  /\ \A t, u \in Threads : \A l \in LeafIds : Holds(t, l) /\ Holds(u, l) => t = u
  /\ \A l \in LeafIds : ~leaf[l].ver.lock => Steady(leaf[l].ver)
  /\ \A t \in Threads : pc[t] = "decide" => Steady(leaf[reg[t].n].ver)

TopLocking ==
  /\ top.ver.lock <=> \E t \in Threads : HoldsTop(t)
  /\ \A t, u \in Threads : HoldsTop(t) /\ HoldsTop(u) => t = u
  /\ ~top.ver.lock => ~top.ver.ins
  /\ ~top.ver.spl /\ ~top.ver.del /\ top.ver.vsplit = 0
  /\ Topped => top.ver.root
  /\ \A t \in Threads :
       /\ HoldsTop(t) => Topped
       /\ pc[t] \in {"addChild", "dropChild"} => top.ver.ins

\* t has split its leaf, but the new one is not in the internode.
Pending(t) == Halving(t) /\ pc[t] \notin {"split", "shrink"}

Parents ==
  /\ ~Topped => \A l \in LeafIds \ {1} : \E u \in Threads : Pending(u) /\ reg[u].n = 1
     /\ reg[u].nr = l
  /\ \A l \in LeafIds : leaf[l].hasParent => Topped
  /\ Topped => \A l \in LeafIds : leaf[l].hasParent \/ \E u \in Threads : Pending(u)
     /\ reg[u].nr = l

\* How many entries stay in n when it is split.
Keep(t) == leaf[reg[t].n].perm.size - leaf[reg[t].nr].perm.size

Inserting(t) ==
  \/ pc[t] \in {"slot", "assign", "assignKey", "store", "publish", "unlockOther"}
  \/ Puts(t) /\ pc[t] = "unlockParent"

Placed(t) ==
  /\ Inserting(t) => reg[t].ki \in 0..leaf[reg[t].n].perm.size
  /\ Inserting(t) /\ pc[t] # "slot" => leaf[reg[t].n].perm.size < Width
     /\ reg[t].kp = Back(leaf[reg[t].n].perm)
  /\ pc[t] \in {"stamp", "unuse"} => reg[t].ki \in 0..(leaf[reg[t].n].perm.size - 1)
  /\ Halving(t) =>
       /\ Keep(t) \in 0..leaf[reg[t].n].perm.size
       /\ leaf[reg[t].n].perm.size >= Width - 1
       /\ IF reg[t].toRight
          THEN reg[t].ki - Keep(t) \in 0..leaf[reg[t].nr].perm.size
          /\ leaf[reg[t].nr].perm.size < Width
               /\ Back(leaf[reg[t].nr].perm) = reg[t].ki - Keep(t)
          ELSE reg[t].ki \in 0..Keep(t) /\ Keep(t) < leaf[reg[t].n].perm.size

Placing == \A t \in Threads : Placed(t)

Base == Types /\ Pointers /\ Control /\ Locking /\ TopLocking /\ Parents /\ Placing
-----------------------------------------------------------------------------
(* Deleted leaves.                                                          *)

Condemned(t) ==
  /\ Dying(t) => leaf[reg[t].n].ver.del /\ reg[t].n \notin freed
  /\ HoldsLeaf(t) /\ ~Dying(t) /\ pc[t] # "decide" => ~leaf[reg[t].n].ver.del
  /\ HoldsOther(t) => ~leaf[reg[t].nr].ver.del
  /\ pc[t] = "empty" => leaf[reg[t].n].perm.size = 0

Deletion ==
  /\ \A t \in Threads : Condemned(t)
  /\ \A t, u \in Threads : Dying(t) /\ Dying(u) /\ reg[t].n = reg[u].n => t = u
  /\ \A l \in freed : leaf[l].ver.del
  /\ \A l \in LeafIds : leaf[l].ver.del => leaf[l].perm.size = 0
-----------------------------------------------------------------------------
(* The order of the entries.                                                *)

Sorted(l) == \A i, j \in 1..leaf[l].perm.size : i < j => IkeyAt(l, i) < IkeyAt(l, j)
AboveBound(l) == l # 1 => \A i \in 1..leaf[l].perm.size : Bound(l) <= IkeyAt(l, i)
Ordered == \A l \in LeafIds : Sorted(l) /\ AboveBound(l)

\* The leaf l is not behind the key of t.
Reaches(t, l) == l = 1 \/ Bound(l) <= reg[t].key

\* The place of the key of t among the entries of l.
Parts(t, l, k) ==
  \A i \in 1..leaf[l].perm.size :
    IF i <= k THEN IkeyAt(l, i) < reg[t].key ELSE reg[t].key < IkeyAt(l, i)

\* Writing the key of t to the slot e leaves the bound of l.
Harmless(t, l, e) == e # 0 \/ l = 1 \/ Bound(l) = reg[t].key

Fitting(t) ==
  /\ Inserting(t) =>
       /\ Parts(t, reg[t].n, reg[t].ki) /\ Reaches(t, reg[t].n)
       /\ pc[t] \in {"assign", "assignKey"} => Harmless(t, reg[t].n, reg[t].kp)
       /\ pc[t] \notin {"slot", "assign", "assignKey"}
          => leaf[reg[t].n].ikey[reg[t].kp] = reg[t].key
  /\ Halving(t) =>
       /\ Reaches(t, reg[t].n)
       /\ leaf[reg[t].n].perm.size = Width \/ Back(leaf[reg[t].n].perm) = 0
       /\ IF reg[t].toRight
          THEN /\ Parts(t, reg[t].nr, reg[t].ki - Keep(t)) /\ Reaches(t, reg[t].nr)
               /\ leaf[reg[t].nr].ikey[reg[t].ki - Keep(t)] = reg[t].key
          ELSE Parts(t, reg[t].n, reg[t].ki)
  /\ pc[t] \in {"lock", "rightward", "decide"} => Reaches(t, reg[t].n)

Fits == \A t \in Threads : Fitting(t)
-----------------------------------------------------------------------------
(* The internode.                                                           *)

\* t has taken the leaf n that it removes out of the internode.
Parting(t) == pc[t] = "free" \/ (Removes(t) /\ pc[t] = "unlockParent")

\* The leaves that need not have a separator.
Unregistered ==
  {1} \cup freed \cup {reg[u].nr : u \in {w \in Threads : Pending(w)}}
    \cup {reg[u].n : u \in {w \in Threads : Parting(w)}}
Registered == LeafIds \ Unregistered

Separators == 1..Len(top.ikey)

Named(h) ==
  /\ h \in [Registered -> Separators]
  /\ \A l, m \in Registered : h[l] = h[m] => l = m
  /\ \A l \in Registered : top.ikey[h[l]] = Bound(l)

Internode ==
  /\ Topped => top.child[1] = 1
  /\ \A i \in Separators : top.child[i + 1] # 1 /\ Bound(top.child[i + 1]) = top.ikey[i]
  /\ \A i, j \in Separators : i < j => top.ikey[i] <= top.ikey[j]
  /\ Topped => \E h \in [Registered -> Separators] : Named(h)

Led(t) ==
  /\ pc[t] \in {"descend", "child"} => ~reg[t].iv.ins /\ reg[t].iv.vinsert <= top.ver.vinsert
  /\ pc[t] = "child" => reg[t].iv.vinsert < top.ver.vinsert \/ top.ver.ins \/ Reaches(t, reg[t].n)

Routing == \A t \in Threads : Led(t)

Inv == Base /\ Deletion /\ Ordered /\ Fits /\ Internode /\ Routing
-----------------------------------------------------------------------------
(* What a step of t does. *)

\* p is none of the places that hold a lock, and r can be the locals there.
Free(p, r) ==
  /\ p \in FreePlaces /\ r \in Local
  /\ r.n \in OptLeaf /\ r.nr = Null /\ r.aux \in OptLeaf /\ ~r.hasTop
  /\ p \in LeafPlaces => r.n # Null
  /\ p \in {"lock", "rightward"} => r.kind \in {"put", "remove"}
  /\ r.kind \in {"put", "remove"} => r.key \in Keys
  /\ r.kind = "put" => r.val \in Values
  /\ p \in ScanPlaces => r.kind = "rescan"
  /\ p = "value" => r.kp \in Slots
  /\ p = "nextValue" => r.ki \in 0..(r.perm.size - 1)

Only(t) ==
  /\ pc' \in [Threads -> Places] /\ reg' \in [Threads -> Local]
  /\ \A u \in Threads \ {t} : pc'[u] = pc[u] /\ reg'[u] = reg[u]

Goes(t, p, r) == pc' = [pc EXCEPT ![t] = p] /\ reg' = [reg EXCEPT ![t] = r]

Reading(t) ==
  /\ leaf' = leaf /\ top' = top /\ freed' = freed /\ pc[t] \in FreePlaces
  /\ \E p \in FreePlaces : \E r \in Local : Free(p, r) /\ Goes(t, p, r)
-----------------------------------------------------------------------------
(* Versions and permutations.                                               *)

LEMMA NewVersionType ==
  /\ NewVersion \in Version /\ ~NewVersion.lock /\ ~NewVersion.ins /\ ~NewVersion.spl
  /\ ~NewVersion.del /\ ~NewVersion.root /\ NewVersion.vinsert = 0 /\ NewVersion.vsplit = 0
  BY DEF Version, NewVersion

RootVersion == [NewVersion EXCEPT !.root = TRUE]

LEMMA RootVersionType ==
  /\ RootVersion \in Version /\ ~RootVersion.lock /\ ~RootVersion.ins /\ ~RootVersion.spl
  /\ ~RootVersion.del /\ RootVersion.root /\ RootVersion.vinsert = 0 /\ RootVersion.vsplit = 0
  BY NewVersionType DEF Version, RootVersion

LEMMA LockVersion ==
  ASSUME Concurrent, NEW v \in Version
  PROVE  /\ Lock(v) \in Version
         /\ Lock(v).lock /\ Lock(v).ins = v.ins /\ Lock(v).spl = v.spl /\ Lock(v).del = v.del
         /\ Lock(v).root = v.root /\ Lock(v).vinsert = v.vinsert /\ Lock(v).vsplit = v.vsplit
  BY DEF Version, Lock

LEMMA MarkInsertVersion ==
  ASSUME Concurrent, NEW v \in Version
  PROVE  /\ MarkInsert(v) \in Version
         /\ MarkInsert(v).lock = v.lock /\ MarkInsert(v).ins /\ MarkInsert(v).spl = v.spl
         /\ MarkInsert(v).del = v.del /\ MarkInsert(v).root = v.root
         /\ MarkInsert(v).vinsert = v.vinsert /\ MarkInsert(v).vsplit = v.vsplit
  BY DEF Version, MarkInsert

LEMMA MarkSplitVersion ==
  ASSUME Concurrent, NEW v \in Version
  PROVE  /\ MarkSplit(v) \in Version
         /\ MarkSplit(v).lock = v.lock /\ MarkSplit(v).ins = v.ins /\ MarkSplit(v).spl
         /\ MarkSplit(v).del = v.del /\ MarkSplit(v).root = v.root
         /\ MarkSplit(v).vinsert = v.vinsert /\ MarkSplit(v).vsplit = v.vsplit
  BY DEF Version, MarkSplit

LEMMA MarkDeletedVersion ==
  ASSUME Concurrent, NEW v \in Version
  PROVE  /\ MarkDeleted(v) \in Version
         /\ MarkDeleted(v).lock = v.lock /\ MarkDeleted(v).ins = v.ins /\ MarkDeleted(v).spl
         /\ MarkDeleted(v).del /\ MarkDeleted(v).root = v.root
         /\ MarkDeleted(v).vinsert = v.vinsert /\ MarkDeleted(v).vsplit = v.vsplit
  BY DEF Version, MarkDeleted

LEMMA UnlockVersion ==
  ASSUME Concurrent, NEW v \in Version
  PROVE  /\ Unlock(v) \in Version
         /\ ~Unlock(v).lock /\ ~Unlock(v).ins /\ ~Unlock(v).spl /\ Unlock(v).del = v.del
         /\ Unlock(v).root = (v.root /\ ~v.spl)
         /\ Unlock(v).vsplit = (IF v.spl THEN v.vsplit + 1 ELSE v.vsplit)
         /\ Unlock(v).vinsert = (IF v.spl THEN 0 ELSE IF v.ins THEN v.vinsert + 1 ELSE v.vinsert)
<1>1. v.del \in BOOLEAN /\ v.vsplit + 1 \in Nat /\ v.vinsert + 1 \in Nat /\ v.vinsert \in Nat
  BY DEF Version
<1>2. ASSUME NEW d \in BOOLEAN, NEW k \in Nat
      PROVE  [NewVersion EXCEPT !.del = d, !.vsplit = k] \in Version
  BY NewVersionType DEF Version
<1>3. ASSUME NEW k \in Nat
      PROVE  [v EXCEPT !.lock = FALSE, !.ins = FALSE, !.vinsert = k] \in Version
  BY DEF Version
<1>4. [NewVersion EXCEPT !.del = v.del, !.vsplit = v.vsplit + 1] \in Version
  BY <1>1, <1>2
<1>5. [v EXCEPT !.lock = FALSE, !.ins = FALSE, !.vinsert = v.vinsert + 1] \in Version
  BY <1>1, <1>3
<1>6. [v EXCEPT !.lock = FALSE, !.ins = FALSE, !.vinsert = v.vinsert] \in Version
  BY <1>1, <1>3
<1>7. Unlock(v) \in Version
  BY <1>4, <1>5, <1>6 DEF Unlock
<1>8. ~Unlock(v).lock /\ ~Unlock(v).ins /\ ~Unlock(v).spl /\ Unlock(v).del = v.del
  BY DEF Version, Unlock, NewVersion
<1>9. Unlock(v).root = (v.root /\ ~v.spl)
  BY DEF Version, Unlock, NewVersion
<1>10. Unlock(v).vsplit = (IF v.spl THEN v.vsplit + 1 ELSE v.vsplit)
  BY DEF Version, Unlock, NewVersion
<1>11. Unlock(v).vinsert = (IF v.spl THEN 0 ELSE IF v.ins THEN v.vinsert + 1 ELSE v.vinsert)
  BY DEF Version, Unlock, NewVersion
<1> QED
  BY <1>7, <1>8, <1>9, <1>10, <1>11

LEMMA WidthType == Width \in Nat /\ Width >= 3 /\ Slots = 0..(Width - 1)
  BY WidthAssumption DEF Slots

LEMMA PermType ==
  ASSUME NEW p \in Permuters
  PROVE  /\ p.size \in 0..Width /\ p.order \in [1..Width -> Slots] /\ p.order \in Seq(Slots)
         /\ Len(p.order) = Width /\ Back(p) \in Slots
         /\ \A i, j \in 1..Width : i # j => p.order[i] # p.order[j]
  BY WidthType, SMT DEF Permuters, Back

LEMMA PermIs ==
  ASSUME NEW k \in 0..Width, NEW f \in [1..Width -> Slots], \A i,
         j \in 1..Width : i # j => f[i] # f[j]
  PROVE  [size |-> k, order |-> f] \in Permuters
<1>1. [size |-> k, order |-> f] \in [size : 0..Width, order : [1..Width -> Slots]]
  OBVIOUS
<1> QED
  BY <1>1 DEF Permuters

LEMMA ConcatFacts ==
  ASSUME NEW S, NEW a \in Seq(S), NEW b \in Seq(S)
  PROVE  /\ a \o b \in Seq(S) /\ Len(a \o b) = Len(a) + Len(b)
         /\ \A i \in 1..Len(a) : (a \o b)[i] = a[i]
         /\ \A i \in (Len(a) + 1)..(Len(a) + Len(b)) : (a \o b)[i] = b[i - Len(a)]
<1>1. /\ a \o b \in Seq(S) /\ Len(a \o b) = Len(a) + Len(b)
      /\ \A i \in 1..Len(a) + Len(b) : (a \o b)[i] = IF i <= Len(a) THEN a[i] ELSE b[i - Len(a)]
  BY ConcatProperties, ZenonT(30)
<1>2. Len(a) \in Nat /\ Len(b) \in Nat
  BY LenProperties
<1> QED
  BY <1>1, <1>2

LEMMA InsertAtFacts ==
  ASSUME NEW S, NEW q \in Seq(S), NEW e \in S, NEW i \in 1..(Len(q) + 1)
  PROVE  /\ InsertAt(q, i, e) \in Seq(S) /\ Len(InsertAt(q, i, e)) = Len(q) + 1
         /\ \A j \in 1..(i - 1) : InsertAt(q, i, e)[j] = q[j]
         /\ InsertAt(q, i, e)[i] = e
         /\ \A j \in (i + 1)..(Len(q) + 1) : InsertAt(q, i, e)[j] = q[j - 1]
<1> DEFINE a == SubSeq(q, 1, i - 1)
           b == <<e>>
           c == SubSeq(q, i, Len(q))
<1>0. Len(q) \in Nat /\ \A j \in 1..Len(q) : q[j] \in S
  BY LenProperties, ElementOfSeq
<1>1. a \in Seq(S) /\ Len(a) = i - 1 /\ \A j \in 1..(i - 1) : a[j] = q[j]
  <2>1. /\ a \in Seq(S) /\ Len(a) = IF 1 <= i - 1 THEN i - 1 - 1 + 1 ELSE 0
        /\ \A j \in 1..(i - 1 - 1 + 1) : a[j] = q[1 + j - 1]
    <3>1. i - 1 \in Int /\ \A j \in 1..(i - 1) : q[j] \in S
      BY <1>0
    <3> QED
      BY <3>1, SubSeqProperties
  <2> QED
    BY <2>1, <1>0
<1>2. c \in Seq(S) /\ Len(c) = Len(q) - i + 1 /\ \A j \in 1..(Len(q) - i + 1) : c[j] = q[i + j - 1]
  <2>1. /\ c \in Seq(S) /\ Len(c) = IF i <= Len(q) THEN Len(q) - i + 1 ELSE 0
        /\ \A j \in 1..(Len(q) - i + 1) : c[j] = q[i + j - 1]
    <3>1. i \in Int /\ Len(q) \in Int /\ \A j \in i..Len(q) : q[j] \in S
      BY <1>0
    <3> QED
      BY <3>1, SubSeqProperties
  <2> QED
    BY <2>1, <1>0
<1>3. b \in Seq(S) /\ Len(b) = 1 /\ b[1] = e
  OBVIOUS
<1> HIDE DEF a, b, c
<1>4. a \o b \in Seq(S) /\ Len(a \o b) = i /\ (\A j \in 1..(i - 1) : (a \o b)[j] = q[j])
      /\ (a \o b)[i] = e
  <2>1. /\ a \o b \in Seq(S) /\ Len(a \o b) = Len(a) + Len(b)
        /\ \A j \in 1..Len(a) : (a \o b)[j] = a[j]
        /\ \A j \in (Len(a) + 1)..(Len(a) + Len(b)) : (a \o b)[j] = b[j - Len(a)]
    BY <1>1, <1>3, ConcatFacts
  <2>2. i \in (Len(a) + 1)..(Len(a) + Len(b)) /\ i - Len(a) = 1
    BY <1>0, <1>1, <1>3
  <2> QED
    BY <2>1, <2>2, <1>1, <1>3
<1>5. /\ (a \o b) \o c \in Seq(S) /\ Len((a \o b) \o c) = Len(q) + 1
      /\ \A j \in 1..i : ((a \o b) \o c)[j] = (a \o b)[j]
      /\ \A j \in (i + 1)..(Len(q) + 1) : ((a \o b) \o c)[j] = q[j - 1]
  <2>1. /\ (a \o b) \o c \in Seq(S) /\ Len((a \o b) \o c) = Len(a \o b) + Len(c)
        /\ \A j \in 1..Len(a \o b) : ((a \o b) \o c)[j] = (a \o b)[j]
        /\ \A j \in (Len(a \o b) + 1)..(Len(a \o b) + Len(c)) : ((a \o b) \o c)[j] = c[j - Len(a \o b)]
    BY <1>4, <1>2, ConcatFacts
  <2>2. Len(a \o b) = i /\ Len(c) = Len(q) - i + 1 /\ i \in Nat
    BY <1>4, <1>2
  <2>3. \A j \in (i + 1)..(Len(q) + 1) : ((a \o b) \o c)[j] = q[j - 1]
    <3> SUFFICES ASSUME NEW j \in (i + 1)..(Len(q) + 1)
                 PROVE  ((a \o b) \o c)[j] = q[j - 1]
      OBVIOUS
    <3>1. j \in (Len(a \o b) + 1)..(Len(a \o b) + Len(c))
      BY <2>2, <1>0
    <3>2. ((a \o b) \o c)[j] = c[j - i]
      BY <2>1, <2>2, <3>1
    <3>3. j - i \in 1..(Len(q) - i + 1) /\ i + (j - i) - 1 = j - 1
      BY <1>0
    <3> QED
      BY <3>2, <3>3, <1>2
  <2>4. Len((a \o b) \o c) = Len(q) + 1
    BY <2>1, <2>2, <1>0
  <2> QED
    BY <2>1, <2>2, <2>3, <2>4
<1>6. InsertAt(q, i, e) = (a \o b) \o c
  BY DEF InsertAt, a, b, c
<1>7. PICK w : w = (a \o b) \o c
  OBVIOUS
<1>8. /\ w \in Seq(S) /\ Len(w) = Len(q) + 1 /\ w[i] = e
      /\ \A j \in 1..(i - 1) : w[j] = q[j]
      /\ \A j \in (i + 1)..(Len(q) + 1) : w[j] = q[j - 1]
  <2>1. \A j \in 1..(i - 1) : j \in 1..i
    BY <1>0
  <2>2. i \in 1..i
    BY <1>0
  <2> QED
    BY <1>4, <1>5, <1>7, <2>1, <2>2
<1> QED
  BY <1>6, <1>7, <1>8

LEMMA RemoveAtFacts ==
  ASSUME NEW S, NEW q \in Seq(S), NEW i \in 1..Len(q)
  PROVE  /\ RemoveAt(q, i) \in Seq(S) /\ Len(RemoveAt(q, i)) = Len(q) - 1
         /\ \A j \in 1..(i - 1) : RemoveAt(q, i)[j] = q[j]
         /\ \A j \in i..(Len(q) - 1) : RemoveAt(q, i)[j] = q[j + 1]
<1> DEFINE a == SubSeq(q, 1, i - 1)
           c == SubSeq(q, i + 1, Len(q))
<1>0. Len(q) \in Nat /\ \A j \in 1..Len(q) : q[j] \in S
  BY LenProperties, ElementOfSeq
<1>1. a \in Seq(S) /\ Len(a) = i - 1 /\ \A j \in 1..(i - 1) : a[j] = q[j]
  <2>1. /\ a \in Seq(S) /\ Len(a) = IF 1 <= i - 1 THEN i - 1 - 1 + 1 ELSE 0
        /\ \A j \in 1..(i - 1 - 1 + 1) : a[j] = q[1 + j - 1]
    <3>1. i - 1 \in Int /\ \A j \in 1..(i - 1) : q[j] \in S
      BY <1>0
    <3> QED
      BY <3>1, SubSeqProperties
  <2> QED
    BY <2>1, <1>0
<1>2. c \in Seq(S) /\ Len(c) = Len(q) - i /\ \A j \in 1..(Len(q) - i) : c[j] = q[i + j]
  <2>1. /\ c \in Seq(S) /\ Len(c) = IF i + 1 <= Len(q) THEN Len(q) - (i + 1) + 1 ELSE 0
        /\ \A j \in 1..(Len(q) - (i + 1) + 1) : c[j] = q[i + 1 + j - 1]
    <3>1. i + 1 \in Int /\ Len(q) \in Int /\ \A j \in (i + 1)..Len(q) : q[j] \in S
      BY <1>0
    <3> QED
      BY <3>1, SubSeqProperties
  <2> QED
    BY <2>1, <1>0
<1> HIDE DEF a, c
<1>3. /\ a \o c \in Seq(S) /\ Len(a \o c) = Len(a) + Len(c)
      /\ \A j \in 1..Len(a) : (a \o c)[j] = a[j]
      /\ \A j \in (Len(a) + 1)..(Len(a) + Len(c)) : (a \o c)[j] = c[j - Len(a)]
  BY <1>1, <1>2, ConcatFacts
<1>4. RemoveAt(q, i) = a \o c
  BY DEF RemoveAt, a, c
<1>5. Len(a) = i - 1 /\ Len(c) = Len(q) - i /\ i \in Nat
  BY <1>1, <1>2
<1>6. \A j \in i..(Len(q) - 1) : (a \o c)[j] = q[j + 1]
  <2> SUFFICES ASSUME NEW j \in i..(Len(q) - 1) PROVE (a \o c)[j] = q[j + 1]
    OBVIOUS
  <2>1. j \in (Len(a) + 1)..(Len(a) + Len(c)) /\ j - Len(a) = j - i + 1
    BY <1>0, <1>5
  <2>2. (a \o c)[j] = c[j - i + 1]
    BY <1>3, <2>1
  <2>3. j - i + 1 \in 1..(Len(q) - i) /\ i + (j - i + 1) = j + 1
    BY <1>0
  <2> QED
    BY <2>2, <2>3, <1>2
<1>7. Len(a \o c) = Len(q) - 1
  BY <1>3, <1>5, <1>0
<1> QED
  BY <1>1, <1>3, <1>4, <1>5, <1>6, <1>7

LEMMA InjectiveIs ==
  ASSUME NEW k \in 0..Width, NEW f \in Seq(Slots), Len(f) = Width,
         \A i, j \in 1..Width : i # j => f[i] # f[j]
  PROVE  [size |-> k, order |-> f] \in Permuters
<1>1. f \in [1..Width -> Slots]
  BY WidthType
<1> QED
  BY <1>1, PermIs

LEMMA InsertFromBackFacts ==
  ASSUME NEW p \in Permuters, p.size < Width, NEW i \in 0..p.size
  PROVE  /\ InsertFromBack(p, i) \in Permuters
         /\ InsertFromBack(p, i).size = p.size + 1
         /\ \A j \in 1..i : InsertFromBack(p, i).order[j] = p.order[j]
         /\ InsertFromBack(p, i).order[i + 1] = Back(p)
         /\ \A j \in (i + 2)..Width : InsertFromBack(p, i).order[j] = p.order[j - 1]
<1> DEFINE q == Front(p.order)
           f == InsertAt(q, i + 1, Back(p))
<1>0. /\ p.size \in 0..Width /\ p.order \in [1..Width -> Slots] /\ p.order \in Seq(Slots)
      /\ Len(p.order) = Width /\ Back(p) \in Slots
      /\ \A x, y \in 1..Width : x # y => p.order[x] # p.order[y]
  BY PermType
<1>1. /\ p.size \in Nat /\ Width \in Nat /\ i \in Nat /\ i < Width /\ p.size + 1 \in 0..Width
      /\ \A x \in 1..Width : p.order[x] \in Slots
  BY <1>0, WidthType
<1>2. q \in Seq(Slots) /\ Len(q) = Width - 1 /\ \A j \in 1..(Width - 1) : q[j] = p.order[j]
  <2>1. /\ SubSeq(p.order, 1, Width - 1) \in Seq(Slots)
        /\ Len(SubSeq(p.order, 1, Width - 1)) = IF 1 <= Width - 1 THEN Width - 1 - 1 + 1 ELSE 0
        /\ \A j \in 1..(Width - 1 - 1 + 1) : SubSeq(p.order, 1, Width - 1)[j] = p.order[1 + j - 1]
    <3>1. 1 \in Int /\ Width - 1 \in Int /\ \A j \in 1..(Width - 1) : p.order[j] \in Slots
      BY <1>1
    <3> QED
      BY <3>1, SubSeqProperties
  <2> QED
    BY <2>1, <1>0, <1>1, WidthType DEF Front
<1> HIDE DEF q
<1>3. i + 1 \in 1..(Len(q) + 1) /\ q \in Seq(Slots) /\ Back(p) \in Slots
  BY <1>0, <1>1, <1>2
<1>4. /\ f \in Seq(Slots) /\ Len(f) = Len(q) + 1
      /\ \A j \in 1..(i + 1 - 1) : f[j] = q[j]
      /\ f[i + 1] = Back(p)
      /\ \A j \in (i + 1 + 1)..(Len(q) + 1) : f[j] = q[j - 1]
  <2> HIDE DEF f
  <2>1. /\ InsertAt(q, i + 1, Back(p)) \in Seq(Slots)
        /\ Len(InsertAt(q, i + 1, Back(p))) = Len(q) + 1
        /\ \A j \in 1..(i + 1 - 1) : InsertAt(q, i + 1, Back(p))[j] = q[j]
        /\ InsertAt(q, i + 1, Back(p))[i + 1] = Back(p)
        /\ \A j \in (i + 1 + 1)..(Len(q) + 1) : InsertAt(q, i + 1, Back(p))[j] = q[j - 1]
    BY <1>3, InsertAtFacts
  <2> QED
    BY <2>1 DEF f
<1> HIDE DEF f
<1>5. Len(f) = Width /\ \A j \in 1..i : f[j] = p.order[j]
  BY <1>1, <1>2, <1>4
<1>6. \A j \in (i + 2)..Width : f[j] = p.order[j - 1]
  <2> SUFFICES ASSUME NEW j \in (i + 2)..Width PROVE f[j] = p.order[j - 1]
    OBVIOUS
  <2>1. j \in (i + 1 + 1)..(Len(q) + 1) /\ j - 1 \in 1..(Width - 1)
    BY <1>1, <1>2
  <2> QED
    BY <2>1, <1>2, <1>4
<1>7. \A x, y \in 1..Width : x # y => f[x] # f[y]
  <2> DEFINE g(x) == IF x <= i THEN x ELSE IF x = i + 1 THEN Width ELSE x - 1
  <2>1. \A x \in 1..Width : g(x) \in 1..Width /\ f[x] = p.order[g(x)]
    BY <1>1, <1>4, <1>5, <1>6, WidthType DEF Back
  <2>2. \A x, y \in 1..Width : x # y => g(x) # g(y)
    BY <1>1, WidthType
  <2> HIDE DEF g
  <2> QED
    <3> SUFFICES ASSUME NEW x \in 1..Width, NEW y \in 1..Width, x # y PROVE f[x] # f[y]
      OBVIOUS
    <3>1. g(x) \in 1..Width /\ g(y) \in 1..Width /\ g(x) # g(y)
      BY <2>1, <2>2
    <3>2. f[x] = p.order[g(x)] /\ f[y] = p.order[g(y)]
      BY <2>1
    <3> QED
      BY <3>1, <3>2, <1>0
<1>8. InsertFromBack(p, i) = [size |-> p.size + 1, order |-> f]
  BY DEF InsertFromBack, f, q
<1>9. InsertFromBack(p, i) \in Permuters
  BY <1>1, <1>4, <1>5, <1>7, <1>8, InjectiveIs
<1> QED
  BY <1>4, <1>5, <1>6, <1>8, <1>9

LEMMA RemoveSlotFacts ==
  ASSUME NEW p \in Permuters, NEW i \in 0..(p.size - 1)
  PROVE  /\ RemoveSlot(p, i) \in Permuters
         /\ RemoveSlot(p, i).size = p.size - 1
         /\ \A j \in 1..i : RemoveSlot(p, i).order[j] = p.order[j]
         /\ \A j \in (i + 1)..(p.size - 1) : RemoveSlot(p, i).order[j] = p.order[j + 1]
         /\ RemoveSlot(p, i).order[p.size] = p.order[i + 1]
         /\ \A j \in (p.size + 1)..Width : RemoveSlot(p, i).order[j] = p.order[j]
<1> DEFINE q == RemoveAt(p.order, i + 1)
           f == InsertAt(q, p.size, p.order[i + 1])
<1>0. /\ p.size \in 0..Width /\ p.order \in [1..Width -> Slots] /\ p.order \in Seq(Slots)
      /\ Len(p.order) = Width
      /\ \A x, y \in 1..Width : x # y => p.order[x] # p.order[y]
  BY PermType
<1>1. /\ p.size \in Nat /\ p.size <= Width /\ Len(p.order) = Width
      /\ Width \in Nat /\ i \in Nat /\ i < p.size /\ p.size - 1 \in 0..Width /\ i + 1 \in 1..Width
  BY <1>0, WidthType
<1>a. /\ i + 1 \in 1..Len(p.order) /\ p.order[i + 1] \in Slots
      /\ \A x \in 1..Width : p.order[x] \in Slots
  BY <1>0, <1>1
<1>2. /\ q \in Seq(Slots) /\ Len(q) = Len(p.order) - 1
      /\ \A j \in 1..(i + 1 - 1) : q[j] = p.order[j]
      /\ \A j \in (i + 1)..(Len(p.order) - 1) : q[j] = p.order[j + 1]
  <2>1. p.order \in Seq(Slots)
    BY <1>0
  <2>2. PICK k \in 1..Len(p.order) : k = i + 1
    BY <1>a
  <2> HIDE DEF q
  <2>3. /\ RemoveAt(p.order, k) \in Seq(Slots)
        /\ Len(RemoveAt(p.order, k)) = Len(p.order) - 1
        /\ \A j \in 1..(k - 1) : RemoveAt(p.order, k)[j] = p.order[j]
        /\ \A j \in k..(Len(p.order) - 1) : RemoveAt(p.order, k)[j] = p.order[j + 1]
    BY <2>1, <2>2, RemoveAtFacts
  <2> QED
    BY <2>2, <2>3 DEF q
<1> HIDE DEF q
<1>3. p.size \in 1..(Len(q) + 1) /\ Len(q) = Width - 1
  BY <1>1, <1>2
<1>4. /\ f \in Seq(Slots) /\ Len(f) = Len(q) + 1
      /\ \A j \in 1..(p.size - 1) : f[j] = q[j]
      /\ f[p.size] = p.order[i + 1]
      /\ \A j \in (p.size + 1)..(Len(q) + 1) : f[j] = q[j - 1]
  <2>1. q \in Seq(Slots) /\ p.order[i + 1] \in Slots /\ p.size \in 1..(Len(q) + 1)
    BY <1>a, <1>2, <1>3
  <2>2. PICK e \in Slots : e = p.order[i + 1]
    BY <2>1
  <2>3. PICK z \in 1..(Len(q) + 1) : z = p.size
    BY <2>1
  <2> HIDE DEF f
  <2>4. /\ InsertAt(q, z, e) \in Seq(Slots)
        /\ Len(InsertAt(q, z, e)) = Len(q) + 1
        /\ \A j \in 1..(z - 1) : InsertAt(q, z, e)[j] = q[j]
        /\ InsertAt(q, z, e)[z] = e
        /\ \A j \in (z + 1)..(Len(q) + 1) : InsertAt(q, z, e)[j] = q[j - 1]
    <3>1. q \in Seq(Slots)
      BY <2>1
    <3> QED
      BY <3>1, InsertAtFacts
  <2> QED
    BY <2>2, <2>3, <2>4 DEF f
<1> HIDE DEF f
<1>5. Len(f) = Width /\ \A j \in 1..i : f[j] = p.order[j]
  <2>1. Len(f) = Width
    BY <1>1, <1>3, <1>4
  <2>2. \A j \in 1..i : j \in 1..(p.size - 1) /\ j \in 1..(i + 1 - 1)
    BY <1>1
  <2> QED
    BY <2>1, <2>2, <1>2, <1>4
<1>6. \A j \in (i + 1)..(p.size - 1) : f[j] = p.order[j + 1]
  BY <1>1, <1>a, <1>2, <1>3, <1>4
<1>7. \A j \in (p.size + 1)..Width : f[j] = p.order[j]
  <2> SUFFICES ASSUME NEW j \in (p.size + 1)..Width PROVE f[j] = p.order[j]
    OBVIOUS
  <2>1. f[j] = q[j - 1] /\ j - 1 \in (i + 1)..(Len(p.order) - 1)
    BY <1>1, <1>3, <1>4
  <2> QED
    BY <2>1, <1>1, <1>2
<1>8. \A x, y \in 1..Width : x # y => f[x] # f[y]
  <2> DEFINE g(x) == IF x <= i THEN x ELSE IF x < p.size THEN x + 1 ELSE IF x = p.size THEN i + 1 ELSE x
  <2>1. \A x \in 1..Width : g(x) \in 1..Width /\ f[x] = p.order[g(x)]
    <3> SUFFICES ASSUME NEW x \in 1..Width PROVE g(x) \in 1..Width /\ f[x] = p.order[g(x)]
      OBVIOUS
    <3>1. CASE x \in 1..i
      BY <3>1, <1>1, <1>5
    <3>2. CASE x \in (i + 1)..(p.size - 1)
      BY <3>2, <1>1, <1>6
    <3>3. CASE x = p.size
      BY <3>3, <1>1, <1>4
    <3>4. CASE x \in (p.size + 1)..Width
      BY <3>4, <1>1, <1>7
    <3> QED
      BY <3>1, <3>2, <3>3, <3>4, <1>1
  <2>2. \A x, y \in 1..Width : x # y => g(x) # g(y)
    BY <1>1
  <2> HIDE DEF g
  <2> QED
    <3> SUFFICES ASSUME NEW x \in 1..Width, NEW y \in 1..Width, x # y PROVE f[x] # f[y]
      OBVIOUS
    <3>1. g(x) \in 1..Width /\ g(y) \in 1..Width /\ g(x) # g(y)
      BY <2>1, <2>2
    <3>2. f[x] = p.order[g(x)] /\ f[y] = p.order[g(y)]
      BY <2>1
    <3> QED
      BY <3>1, <3>2, <1>0
<1>9. RemoveSlot(p, i) = [size |-> p.size - 1, order |-> f]
  BY DEF RemoveSlot, f, q
<1>10. RemoveSlot(p, i) \in Permuters
  BY <1>1, <1>a, <1>4, <1>5, <1>8, <1>9, InjectiveIs
<1> QED
  BY <1>4, <1>5, <1>6, <1>7, <1>9, <1>10

LEMMA RemoveToBackFacts ==
  ASSUME NEW p \in Permuters, NEW i \in 0..(p.size - 1)
  PROVE  /\ RemoveToBack(p, i) \in Permuters
         /\ RemoveToBack(p, i).size = p.size - 1
         /\ \A j \in 1..i : RemoveToBack(p, i).order[j] = p.order[j]
         /\ \A j \in (i + 1)..(Width - 1) : RemoveToBack(p, i).order[j] = p.order[j + 1]
         /\ Back(RemoveToBack(p, i)) = p.order[i + 1]
<1> DEFINE q == RemoveAt(p.order, i + 1)
           f == Append(q, p.order[i + 1])
<1>0. /\ p.size \in 0..Width /\ p.order \in [1..Width -> Slots] /\ p.order \in Seq(Slots)
      /\ Len(p.order) = Width
      /\ \A x, y \in 1..Width : x # y => p.order[x] # p.order[y]
  BY PermType
<1>1. /\ p.size \in Nat /\ p.size <= Width /\ Len(p.order) = Width
      /\ Width \in Nat /\ i \in Nat /\ i < p.size /\ p.size - 1 \in 0..Width /\ i + 1 \in 1..Width
  BY <1>0, WidthType
<1>a. /\ i + 1 \in 1..Len(p.order) /\ p.order[i + 1] \in Slots
      /\ \A x \in 1..Width : p.order[x] \in Slots
  BY <1>0, <1>1
<1>2. /\ q \in Seq(Slots) /\ Len(q) = Len(p.order) - 1
      /\ \A j \in 1..(i + 1 - 1) : q[j] = p.order[j]
      /\ \A j \in (i + 1)..(Len(p.order) - 1) : q[j] = p.order[j + 1]
  <2>1. p.order \in Seq(Slots)
    BY <1>0
  <2>2. PICK k \in 1..Len(p.order) : k = i + 1
    BY <1>a
  <2> HIDE DEF q
  <2>3. /\ RemoveAt(p.order, k) \in Seq(Slots)
        /\ Len(RemoveAt(p.order, k)) = Len(p.order) - 1
        /\ \A j \in 1..(k - 1) : RemoveAt(p.order, k)[j] = p.order[j]
        /\ \A j \in k..(Len(p.order) - 1) : RemoveAt(p.order, k)[j] = p.order[j + 1]
    BY <2>1, <2>2, RemoveAtFacts
  <2> QED
    BY <2>2, <2>3 DEF q
<1> HIDE DEF q
<1>3. Len(q) = Width - 1
  BY <1>1, <1>2
<1>4. /\ f \in Seq(Slots) /\ Len(f) = Len(q) + 1
      /\ \A j \in 1..Len(q) : f[j] = q[j]
      /\ f[Len(q) + 1] = p.order[i + 1]
  <2>1. q \in Seq(Slots) /\ p.order[i + 1] \in Slots
    BY <1>a, <1>2
  <2> HIDE DEF f
  <2>2. /\ Append(q, p.order[i + 1]) \in Seq(Slots)
        /\ Len(Append(q, p.order[i + 1])) = Len(q) + 1
        /\ \A j \in 1..Len(q) : Append(q, p.order[i + 1])[j] = q[j]
        /\ Append(q, p.order[i + 1])[Len(q) + 1] = p.order[i + 1]
    BY <2>1, AppendProperties
  <2> QED
    BY <2>2 DEF f
<1> HIDE DEF f
<1>5. Len(f) = Width /\ f[Width] = p.order[i + 1] /\ \A j \in 1..i : f[j] = p.order[j]
  BY <1>1, <1>a, <1>2, <1>3, <1>4
<1>6. \A j \in (i + 1)..(Width - 1) : f[j] = p.order[j + 1]
  BY <1>1, <1>a, <1>2, <1>3, <1>4
<1>8. \A x, y \in 1..Width : x # y => f[x] # f[y]
  <2> DEFINE g(x) == IF x <= i THEN x ELSE IF x < Width THEN x + 1 ELSE i + 1
  <2>1. \A x \in 1..Width : g(x) \in 1..Width /\ f[x] = p.order[g(x)]
    BY <1>1, <1>a, <1>5, <1>6
  <2>2. \A x, y \in 1..Width : x # y => g(x) # g(y)
    BY <1>1
  <2> HIDE DEF g
  <2> QED
    <3> SUFFICES ASSUME NEW x \in 1..Width, NEW y \in 1..Width, x # y PROVE f[x] # f[y]
      OBVIOUS
    <3>1. g(x) \in 1..Width /\ g(y) \in 1..Width /\ g(x) # g(y)
      BY <2>1, <2>2
    <3>2. f[x] = p.order[g(x)] /\ f[y] = p.order[g(y)]
      BY <2>1
    <3> QED
      BY <3>1, <3>2, <1>0
<1>9. RemoveToBack(p, i) = [size |-> p.size - 1, order |-> f]
  BY DEF RemoveToBack, f, q
<1>10. RemoveToBack(p, i) \in Permuters
  BY <1>1, <1>a, <1>4, <1>5, <1>8, <1>9, InjectiveIs
<1> QED
  BY <1>5, <1>6, <1>9, <1>10 DEF Back

LEMMA ExchangeFacts ==
  ASSUME NEW p \in Permuters, NEW i \in 0..(Width - 1), NEW j \in 0..(Width - 1)
  PROVE  /\ Exchange(p, i, j) \in Permuters
         /\ Exchange(p, i, j).size = p.size
         /\ Exchange(p, i, j).order[i + 1] = p.order[j + 1]
         /\ Exchange(p, i, j).order[j + 1] = p.order[i + 1]
         /\ \A x \in 1..Width : x # i + 1 /\ x # j + 1 => Exchange(p, i, j).order[x] = p.order[x]
<1> DEFINE f == [p.order EXCEPT ![i + 1] = p.order[j + 1], ![j + 1] = p.order[i + 1]]
<1>0. /\ p.size \in 0..Width /\ p.order \in [1..Width -> Slots]
      /\ \A x, y \in 1..Width : x # y => p.order[x] # p.order[y]
  BY PermType
<1>1. Width \in Nat /\ i + 1 \in 1..Width /\ j + 1 \in 1..Width /\ i \in Nat /\ j \in Nat
  BY WidthType
<1>2. /\ f \in [1..Width -> Slots]
      /\ f[i + 1] = p.order[j + 1] /\ f[j + 1] = p.order[i + 1]
      /\ \A x \in 1..Width : x # i + 1 /\ x # j + 1 => f[x] = p.order[x]
  BY <1>0, <1>1
<1>3. Exchange(p, i, j) = [size |-> p.size, order |-> f]
  BY DEF Exchange, Permuters
<1> HIDE DEF f
<1>4. \A x, y \in 1..Width : x # y => f[x] # f[y]
  BY <1>0, <1>1, <1>2
<1>5. Exchange(p, i, j) \in Permuters
  BY <1>0, <1>1, <1>2, <1>3, <1>4, PermIs
<1> QED
  BY <1>2, <1>3, <1>5

LEMMA MakeSortedFacts ==
  ASSUME NEW k \in 0..Width
  PROVE  /\ MakeSorted(k) \in Permuters /\ MakeSorted(k).size = k
         /\ \A j \in 1..Width : MakeSorted(k).order[j] = j - 1
<1> DEFINE f == [i \in 1..Width |-> i - 1]
<1>1. f \in [1..Width -> Slots] /\ \A i, j \in 1..Width : i # j => f[i] # f[j]
  BY WidthType
<1>2. MakeSorted(k) = [size |-> k, order |-> f]
  BY DEF MakeSorted
<1>3. MakeSorted(k) \in Permuters
  BY <1>1, <1>2, PermIs
<1> QED
  BY <1>2, <1>3

LEMMA ResizeFacts ==
  ASSUME NEW p \in Permuters, NEW k \in 0..Width
  PROVE  /\ [p EXCEPT !.size = k] \in Permuters
         /\ [p EXCEPT !.size = k].size = k /\ [p EXCEPT !.size = k].order = p.order
  BY DEF Permuters

LEMMA CountUpTo ==
  ASSUME NEW z \in Nat
  PROVE  IsFiniteSet(1..z) /\ Cardinality(1..z) = z
<1>1. IsFiniteSet(1..z) /\ Cardinality(1..z) = IF 1 > z THEN 0 ELSE z - 1 + 1
  BY FS_Interval
<1> QED
  BY <1>1

LEMMA CountAmong ==
  ASSUME NEW z \in Nat, NEW T \in SUBSET (1..z)
  PROVE  /\ IsFiniteSet(T) /\ Cardinality(T) \in 0..z
         /\ \A i \in 1..z : i \notin T => Cardinality(T) < z
<1>1. IsFiniteSet(1..z) /\ Cardinality(1..z) = z
  BY CountUpTo
<1>2. IsFiniteSet(T) /\ Cardinality(T) <= z /\ (z = Cardinality(T) => 1..z = T)
  BY <1>1, FS_Subset
<1>3. Cardinality(T) \in Nat
  BY <1>2, FS_CardinalityType
<1> QED
  BY <1>2, <1>3

\* A set that has all that is below its elements is an initial segment.
LEMMA CountBelow ==
  ASSUME NEW z \in Nat, NEW T \in SUBSET (1..z),
         \A i \in T : \A j \in 1..z : j < i => j \in T
  PROVE  Cardinality(T) \in 0..z /\ T = 1..Cardinality(T)
<1>1. CASE T = {}
  BY <1>1, FS_EmptySet
<1>2. CASE T # {}
  <2>1. T \in SUBSET Nat /\ \A y \in T : y <= z
    OBVIOUS
  <2>2. PICK m \in T : \A y \in T : y <= m
    BY <1>2, <2>1, GreatestNatural
  <2>3. m \in 1..z /\ m \in Nat
    BY <2>2
  <2>4. T = 1..m
    <3>1. ASSUME NEW y \in T PROVE y \in 1..m
      BY <2>2, <3>1
    <3>2. ASSUME NEW j \in 1..m PROVE j \in T
      <4>1. j \in 1..z /\ (j = m \/ j < m)
        BY <2>3
      <4> QED
        BY <4>1, <2>2
    <3> QED
      BY <3>1, <3>2
  <2>5. Cardinality(T) = m
    BY <2>3, <2>4, CountUpTo
  <2> QED
    BY <2>3, <2>4, <2>5
<1> QED
  BY <1>1, <1>2
-----------------------------------------------------------------------------
(* Steps of the lookups, which write nothing.                               *)

LEMMA LocalType ==
  ASSUME NEW r \in Local
  PROVE  /\ r.kind \in Kinds /\ r.key \in Int /\ r.val \in Values \cup {Blank} /\ r.n \in Nat
         /\ r.v \in Version /\ r.iv \in Version /\ r.perm \in Permuters /\ r.lo \in 0..Width
         /\ r.hi \in 0..Width /\ r.kp \in Int /\ r.ki \in Int /\ r.lv \in Values \cup {Blank}
         /\ r.nr \in Nat /\ r.toRight \in BOOLEAN /\ r.aux \in Nat /\ r.hasTop \in BOOLEAN
         /\ r.ts \in SUBSET Keys
  BY DEF Local

LEMMA LeafType ==
  ASSUME NEW x \in LeafRecord
  PROVE  /\ x.ver \in Version /\ x.mod \in {"insert", "remove"} /\ x.ts \in SUBSET Keys
         /\ x.perm \in Permuters /\ x.ikey \in [Slots -> Int]
         /\ x.lv \in [Slots -> Values \cup {Blank}] /\ x.next \in Nat /\ x.marked \in BOOLEAN
         /\ x.prev \in Nat /\ x.hasParent \in BOOLEAN
  BY DEF LeafRecord

LEMMA NoLocalsType == 
  /\ NoLocals \in Local /\ NoLocals.kind = "none" /\ NoLocals.key = 0 /\ NoLocals.val = Blank
  /\ NoLocals.n = Null /\ NoLocals.nr = Null /\ NoLocals.aux = Null /\ NoLocals.hasTop = FALSE
  /\ NoLocals.kp = -1 /\ NoLocals.ki = 0 /\ NoLocals.lv = Blank
<1>1. MakeSorted(0) \in Permuters /\ NewVersion \in Version /\ Width \in Nat
  BY MakeSortedFacts, NewVersionType, WidthType
<1> HIDE DEF NewVersion
<1> QED
  BY <1>1 DEF NoLocals, Local, Kinds, Null

LEMMA ReturnFacts ==
  ASSUME Types, NEW t \in Threads, NEW x \in Values \cup {Blank}, Return(t, x)
  PROVE  /\ pc' = [pc EXCEPT ![t] = "done"] /\ Only(t) /\ pc'[t] = "done"
         /\ reg'[t].kind = reg[t].kind /\ reg'[t].key = reg[t].key /\ reg'[t].val = reg[t].val
         /\ reg'[t].n = Null /\ reg'[t].nr = Null /\ reg'[t].aux = Null /\ ~reg'[t].hasTop
         /\ reg'[t].kp = -1 /\ reg'[t].ki = 0
<1>1. reg[t] \in Local
  BY DEF Types
<1>2. reg[t].kind \in Kinds /\ reg[t].key \in Int /\ reg[t].val \in Values \cup {Blank}
  BY <1>1, LocalType
<1> DEFINE r == [NoLocals EXCEPT !.kind = reg[t].kind, !.key = reg[t].key,
                                 !.val = reg[t].val, !.lv = x]
<1>3. /\ r \in Local /\ r.kind = reg[t].kind /\ r.key = reg[t].key /\ r.val = reg[t].val
      /\ r.n = Null /\ r.nr = Null /\ r.aux = Null /\ r.hasTop = FALSE
      /\ r.kp = -1 /\ r.ki = 0
  BY <1>2, NoLocalsType DEF Local
<1>4. reg' = [reg EXCEPT ![t] = r] /\ pc' = [pc EXCEPT ![t] = "done"]
  BY DEF Return, Goto
<1> HIDE DEF r
<1> QED
  BY <1>3, <1>4 DEF Types, Places, Only

LEMMA GoesFacts ==
  ASSUME Types, NEW t \in Threads, NEW p \in Places, NEW r \in Local, Goes(t, p, r)
  PROVE  Only(t) /\ pc'[t] = p /\ reg'[t] = r
  BY DEF Types, Goes, Only

LEMMA FreePlaceFacts ==
  FreePlaces \subseteq Places
  BY DEF FreePlaces, ReadPlaces, Places

LEMMA FreeNow ==
  ASSUME Base, NEW t \in Threads, pc[t] \in FreePlaces
  PROVE  Free(pc[t], reg[t])
<1>1. reg[t] \in Local
  BY DEF Base, Types
<1>2. ~HoldsOther(t) /\ ~HoldsTop(t) /\ pc[t] \notin {"store", "publish", "unlockParent", "free"}
  <2>1. Halving(t) => FALSE
    BY DEF FreePlaces, ReadPlaces, Halving
  <2>2. Halved(t) => FALSE
    BY DEF FreePlaces, ReadPlaces, Halved
  <2> QED
    BY <2>1, <2>2 DEF HoldsOther, HoldsTop, FreePlaces, ReadPlaces
<1>3. reg[t].nr = Null /\ ~reg[t].hasTop
  BY <1>2 DEF Base, Control, Controlled
<1>4. reg[t].n \in OptLeaf /\ reg[t].aux \in OptLeaf /\ (pc[t] \in LeafPlaces => reg[t].n # Null)
  BY DEF Base, Pointers, Pointing
<1>5. pc[t] \in {"lock", "rightward"} => reg[t].kind \in {"put", "remove"}
  BY DEF Base, Control, Controlled, BothPlaces, Puts, Removes
<1>6. /\ reg[t].kind \in {"put", "remove"} => reg[t].key \in Keys
      /\ reg[t].kind = "put" => reg[t].val \in Values
      /\ pc[t] \in ScanPlaces => reg[t].kind = "rescan"
      /\ pc[t] = "value" => reg[t].kp \in Slots
      /\ pc[t] = "nextValue" => reg[t].ki \in 0..(reg[t].perm.size - 1)
  BY DEF Base, Control, Controlled, Puts, Removes
<1> QED
  BY <1>1, <1>3, <1>4, <1>5, <1>6 DEF Free

LEMMA LeafFacts ==
  ASSUME Base, NEW l \in LeafIds
  PROVE  /\ leaf[l] \in LeafRecord /\ leaf[l].ver \in Version /\ leaf[l].perm \in Permuters
         /\ leaf[l].ikey \in [Slots -> Int] /\ leaf[l].lv \in [Slots -> Values \cup {Blank}]
         /\ leaf[l].next \in OptLeaf /\ leaf[l].prev \in OptLeaf
<1>1. leaf[l] \in LeafRecord
  BY DEF Base, Types, LeafIds
<1>2. leaf[l].next \in OptLeaf /\ leaf[l].prev \in OptLeaf
  BY DEF Base, Pointers, Pointing
<1> QED
  BY <1>1, <1>2, LeafType

LEMMA LeafIdFacts ==
  ASSUME Base
  PROVE  1 \in LeafIds /\ Len(leaf) \in Nat /\ LeafIds \subseteq Nat /\ Null \notin LeafIds
         /\ Null = 0
         /\ LeafIds \subseteq OptLeaf /\ Null \in OptLeaf
  BY DEF Base, Types, LeafIds, Null, OptLeaf

LEMMA MiddleFacts ==
  ASSUME NEW x \in 0..Width, NEW y \in 0..Width, x < y
  PROVE  /\ (x + y) \div 2 \in 0..Width /\ (x + y) \div 2 + 1 \in 0..Width
         /\ (x + y) \div 2 + 1 \in 1..Width
  BY WidthType

(* Steps that read. *)
LEMMA RootReads ==
  ASSUME Base, NEW t \in Threads, Root(t)
  PROVE  Reading(t)
<1>0. pc[t] = "root" /\ leaf' = leaf /\ top' = top /\ freed' = freed /\ pc[t] \in FreePlaces
  BY DEF Root, nodes, FreePlaces
<1>1. Free(pc[t], reg[t]) /\ 1 \in LeafIds
  BY <1>0, FreeNow, LeafIdFacts
<1>2. leaf[1].ver \in Version /\ top.ver \in Version /\ reg[t] \in Local
  BY <1>1, LeafFacts DEF Base, Types
<1>3. CASE leaf[1].ver.root
  <2> DEFINE r == [reg[t] EXCEPT !.n = 1, !.v = leaf[1].ver]
             p == IF reg[t].kind \in {"put", "remove"} THEN "lock"
                  ELSE IF reg[t].kind = "rescan" THEN "resume" ELSE "perm"
  <2>1. Goes(t, p, r)
    BY <1>3 DEF Base, Types, Root, Found, Goto, Goes
  <2>2. r \in Local /\ r.n = 1 /\ r.nr = reg[t].nr /\ r.aux = reg[t].aux /\ r.hasTop = reg[t].hasTop
        /\ r.kind = reg[t].kind /\ r.key = reg[t].key /\ r.val = reg[t].val
    BY <1>2 DEF Local
  <2> HIDE DEF r
  <2>3. /\ p \in FreePlaces /\ p \notin {"value", "nextValue"}
        /\ p \in {"lock", "rightward"} => reg[t].kind \in {"put", "remove"}
        /\ p \in ScanPlaces => reg[t].kind = "rescan"
    BY DEF FreePlaces, ReadPlaces, ScanPlaces
  <2> HIDE DEF p
  <2>4. Free(p, r)
    BY <1>1, <2>2, <2>3, LeafIdFacts DEF Free
  <2> QED
    BY <1>0, <2>1, <2>2, <2>3, <2>4 DEF Reading
<1>4. CASE ~leaf[1].ver.root
  <2> DEFINE r == [reg[t] EXCEPT !.iv = top.ver]
  <2>1. Goes(t, "descend", r)
    BY <1>4 DEF Base, Types, Root, Goto, Goes
  <2>2. r \in Local /\ r.n = reg[t].n /\ r.nr = reg[t].nr /\ r.aux = reg[t].aux
        /\ r.hasTop = reg[t].hasTop
        /\ r.kind = reg[t].kind /\ r.key = reg[t].key /\ r.val = reg[t].val
    BY <1>2 DEF Local
  <2> HIDE DEF r
  <2>3. Free("descend", r)
    BY <1>1, <2>2 DEF Free, FreePlaces, ScanPlaces, LeafPlaces, ReadPlaces, PutPlaces, RemovePlaces,
         BothPlaces, DyingPlaces
  <2> QED
    BY <1>0, <2>1, <2>2, <2>3 DEF Reading, Free
<1> QED
  BY <1>3, <1>4

LEMMA DescendReads ==
  ASSUME Base, NEW t \in Threads, Descend(t)
  PROVE  Reading(t)
<1>0. pc[t] = "descend" /\ leaf' = leaf /\ top' = top /\ freed' = freed /\ pc[t] \in FreePlaces
  BY DEF Descend, nodes, FreePlaces
<1>1. Free(pc[t], reg[t]) /\ reg[t] \in Local
  BY <1>0, FreeNow DEF Free
<1>2. PICK i \in 1..Len(top.child) : reg' = [reg EXCEPT ![t].n = top.child[i]]
  BY DEF Descend
<1>3. top.child[i] \in LeafIds /\ top.child[i] \in OptLeaf /\ top.child[i] \in Nat
      /\ top.child[i] # Null
  BY <1>2, LeafIdFacts DEF Base, Pointers, Pointing
<1> DEFINE r == [reg[t] EXCEPT !.n = top.child[i]]
<1>4. Goes(t, "child", r)
  BY <1>2 DEF Base, Types, Descend, Goto, Goes
<1>5. r \in Local /\ r.n = top.child[i] /\ r.nr = reg[t].nr /\ r.aux = reg[t].aux
      /\ r.hasTop = reg[t].hasTop
      /\ r.kind = reg[t].kind /\ r.key = reg[t].key /\ r.val = reg[t].val
  BY <1>1, <1>3 DEF Local
<1> HIDE DEF r
<1>6. Free("child", r)
  BY <1>1, <1>3, <1>5 DEF Free, FreePlaces, ScanPlaces, ReadPlaces
<1> QED
  BY <1>0, <1>4, <1>5, <1>6 DEF Reading, Free

LEMMA ChildReads ==
  ASSUME Base, NEW t \in Threads, Child(t)
  PROVE  Reading(t)
<1>0. pc[t] = "child" /\ leaf' = leaf /\ top' = top /\ freed' = freed /\ pc[t] \in FreePlaces
  BY DEF Child, nodes, FreePlaces, ReadPlaces
<1>1. Free(pc[t], reg[t]) /\ reg[t] \in Local
  BY <1>0, FreeNow DEF Free
<1>2. reg[t].n \in LeafIds /\ reg[t].n \in OptLeaf /\ leaf[reg[t].n].ver \in Version
      /\ leaf[reg[t].n].perm \in Permuters
  BY <1>0, <1>1, LeafIdFacts, LeafFacts DEF Free, LeafPlaces, ReadPlaces, BothPlaces, OptLeaf
<1>3. CASE Changed(reg[t].iv, top.ver)
  <2>1. Goes(t, "again", reg[t])
    BY <1>3, <1>0 DEF Base, Types, Child, Goto, Goes
  <2>2. Free("again", reg[t])
    BY <1>3, <1>1, <1>2, <1>0 DEF Free, FreePlaces, ScanPlaces, LeafPlaces, ReadPlaces, PutPlaces,
         RemovePlaces, BothPlaces, DyingPlaces
  <2> QED
    BY <1>0, <1>1, <2>1, <2>2 DEF Reading, Free
<1>4. CASE ~Changed(reg[t].iv, top.ver)
  <2> DEFINE r == [reg[t] EXCEPT !.v = leaf[reg[t].n].ver]
  <2>1. Goes(t, (IF reg[t].kind \in {"put", "remove"} THEN "lock" ELSE IF reg[t].kind = "rescan" THEN "resume" ELSE "perm"), r)
    BY <1>4, <1>0 DEF Base, Types, Child, Goto, Goes, Found, Here
  <2>2. r \in Local /\ r.kind = reg[t].kind /\ r.key = reg[t].key /\ r.val = reg[t].val
        /\ r.n = reg[t].n /\ r.nr = reg[t].nr /\ r.aux = reg[t].aux /\ r.hasTop = reg[t].hasTop
        /\ r.kp = reg[t].kp /\ r.ki = reg[t].ki /\ r.perm = reg[t].perm
    BY <1>4, <1>1, <1>2 DEF Local
  <2> HIDE DEF r
  <2>3. Free((IF reg[t].kind \in {"put", "remove"} THEN "lock" ELSE IF reg[t].kind = "rescan" THEN "resume" ELSE "perm"), r)
    BY <1>4, <1>1, <1>2, <1>0, <2>2 DEF Free, FreePlaces, ScanPlaces, LeafPlaces, ReadPlaces,
         PutPlaces, RemovePlaces, BothPlaces, DyingPlaces
  <2> QED
    BY <1>0, <2>1, <2>2, <2>3 DEF Reading, Free
<1> QED
  BY <1>3, <1>4

LEMMA AgainReads ==
  ASSUME Base, NEW t \in Threads, Again(t)
  PROVE  Reading(t)
<1>0. pc[t] = "again" /\ leaf' = leaf /\ top' = top /\ freed' = freed /\ pc[t] \in FreePlaces
  BY DEF Again, nodes, FreePlaces, ReadPlaces
<1>1. Free(pc[t], reg[t]) /\ reg[t] \in Local
  BY <1>0, FreeNow DEF Free
<1>2. top.ver \in Version
  BY DEF Base, Types
<1> DEFINE r == [reg[t] EXCEPT !.iv = top.ver]
<1>3. Goes(t, "descend", r)
  BY <1>0 DEF Base, Types, Again, Goto, Goes
<1>4. r \in Local /\ r.kind = reg[t].kind /\ r.key = reg[t].key /\ r.val = reg[t].val
      /\ r.n = reg[t].n /\ r.nr = reg[t].nr /\ r.aux = reg[t].aux /\ r.hasTop = reg[t].hasTop
      /\ r.kp = reg[t].kp /\ r.ki = reg[t].ki /\ r.perm = reg[t].perm
  BY <1>1, <1>2 DEF Local
<1> HIDE DEF r
<1>5. Free("descend", r)
  BY <1>1, <1>2, <1>0, <1>4 DEF Free, FreePlaces, ScanPlaces, LeafPlaces, ReadPlaces, PutPlaces,
       RemovePlaces, BothPlaces, DyingPlaces
<1> QED
  BY <1>0, <1>3, <1>4, <1>5 DEF Reading, Free

LEMMA PermReads ==
  ASSUME Base, NEW t \in Threads, ReadPermutation(t)
  PROVE  Reading(t)
<1>0. pc[t] = "perm" /\ leaf' = leaf /\ top' = top /\ freed' = freed /\ pc[t] \in FreePlaces
  BY DEF ReadPermutation, nodes, FreePlaces, ReadPlaces
<1>1. Free(pc[t], reg[t]) /\ reg[t] \in Local
  BY <1>0, FreeNow DEF Free
<1>2. reg[t].n \in LeafIds /\ reg[t].n \in OptLeaf /\ leaf[reg[t].n].ver \in Version
      /\ leaf[reg[t].n].perm \in Permuters
  BY <1>0, <1>1, LeafIdFacts, LeafFacts DEF Free, LeafPlaces, ReadPlaces, BothPlaces, OptLeaf
<1>3. leaf[reg[t].n].perm.size \in 0..Width /\ 0 \in 0..Width /\ -1 \in Int
  BY <1>2, PermType, WidthType
<1>4. CASE Deleted(reg[t].v)
  <2>1. Goes(t, "root", reg[t])
    BY <1>4, <1>0 DEF Base, Types, ReadPermutation, Goto, Goes
  <2>2. Free("root", reg[t])
    BY <1>4, <1>1, <1>2, <1>3, <1>0 DEF Free, FreePlaces, ScanPlaces, LeafPlaces, ReadPlaces,
         PutPlaces, RemovePlaces, BothPlaces, DyingPlaces
  <2> QED
    BY <1>0, <1>1, <2>1, <2>2 DEF Reading, Free
<1>5. CASE ~Deleted(reg[t].v)
  <2> DEFINE r == [reg[t] EXCEPT !.perm = leaf[reg[t].n].perm, !.lo = 0,
             !.hi = leaf[reg[t].n].perm.size, !.kp = -1]
  <2>1. Goes(t, "probe", r)
    BY <1>5, <1>0 DEF Base, Types, ReadPermutation, Goto, Goes, Here
  <2>2. r \in Local /\ r.kind = reg[t].kind /\ r.key = reg[t].key /\ r.val = reg[t].val
        /\ r.n = reg[t].n /\ r.nr = reg[t].nr /\ r.aux = reg[t].aux /\ r.hasTop = reg[t].hasTop
        /\ r.kp = -1 /\ r.ki = reg[t].ki /\ r.perm = leaf[reg[t].n].perm
    BY <1>5, <1>1, <1>2, <1>3 DEF Local
  <2> HIDE DEF r
  <2>3. Free("probe", r)
    BY <1>5, <1>1, <1>2, <1>3, <1>0, <2>2 DEF Free, FreePlaces, ScanPlaces, LeafPlaces, ReadPlaces,
         PutPlaces, RemovePlaces, BothPlaces, DyingPlaces
  <2> QED
    BY <1>0, <2>1, <2>2, <2>3 DEF Reading, Free
<1> QED
  BY <1>4, <1>5

LEMMA ProbeReads ==
  ASSUME Base, NEW t \in Threads, Probe(t)
  PROVE  Reading(t)
<1>0. pc[t] = "probe" /\ leaf' = leaf /\ top' = top /\ freed' = freed /\ pc[t] \in FreePlaces
      /\ reg[t].lo < reg[t].hi
  BY DEF Probe, nodes, FreePlaces, ReadPlaces
<1>1. Free(pc[t], reg[t]) /\ reg[t] \in Local
  BY <1>0, FreeNow DEF Free
<1>2. reg[t].perm \in Permuters /\ reg[t].lo \in 0..Width /\ reg[t].hi \in 0..Width
  BY <1>1, LocalType
<1> DEFINE m == (reg[t].lo + reg[t].hi) \div 2
           slot == reg[t].perm.order[m + 1]
           k == Here(t).ikey[slot]
           r == IF reg[t].key < k THEN [reg[t] EXCEPT !.hi = m]
                ELSE IF reg[t].key = k THEN [reg[t] EXCEPT !.kp = slot, !.lo = m, !.hi = m]
                ELSE [reg[t] EXCEPT !.lo = m + 1]
           p == IF reg[t].key = k THEN "value" ELSE "probe"
<1>3. Goes(t, p, r)
  BY DEF Base, Types, Probe, Goto, Goes
<1>4. m \in 0..Width /\ m + 1 \in 0..Width /\ m + 1 \in 1..Width
  BY <1>0, <1>2, MiddleFacts
<1> HIDE DEF m
<1>5. slot \in Slots /\ slot \in Int
  <2>1. PICK pm \in Permuters : pm = reg[t].perm
    BY <1>2
  <2>2. pm.order \in [1..Width -> Slots]
    BY PermType
  <2>3. pm.order[m + 1] \in Slots
    BY <1>4, <2>2
  <2>4. Slots \subseteq Int
    BY WidthType
  <2> QED
    BY <2>1, <2>3, <2>4
<1> HIDE DEF slot, k
<1>6. /\ r \in Local /\ r.n = reg[t].n /\ r.nr = reg[t].nr /\ r.aux = reg[t].aux
         /\ r.hasTop = reg[t].hasTop
      /\ r.kind = reg[t].kind /\ r.key = reg[t].key /\ r.val = reg[t].val
  <2>1. CASE reg[t].key < k
    BY <2>1, <1>1, <1>4 DEF Local
  <2>2. CASE ~(reg[t].key < k) /\ reg[t].key = k
    BY <2>2, <1>1, <1>4, <1>5 DEF Local
  <2>3. CASE ~(reg[t].key < k) /\ reg[t].key # k
    BY <2>3, <1>1, <1>4 DEF Local
  <2> QED
    BY <2>1, <2>2, <2>3
<1>7. p = "value" => r.kp = slot
  <2> SUFFICES ASSUME reg[t].key = k PROVE r.kp = slot
    OBVIOUS
  <2>1. ~(reg[t].key < k)
    <3>1. reg[t].key \in Int
      BY <1>1, LocalType
    <3> QED
      BY <3>1
  <2> QED
    BY <2>1, <1>1, <1>4, <1>5 DEF Local
<1> HIDE DEF r
<1>8. p \in FreePlaces /\ p \in LeafPlaces /\ p \notin {"lock", "rightward", "nextValue"}
      /\ p \notin ScanPlaces
  BY DEF ScanPlaces, FreePlaces, LeafPlaces, ReadPlaces
<1> HIDE DEF p
<1>9. Free(p, r)
  BY <1>0, <1>1, <1>5, <1>6, <1>7, <1>8 DEF Free, LeafPlaces, ReadPlaces
<1> QED
  BY <1>0, <1>3, <1>6, <1>8, <1>9 DEF Reading

LEMMA ValueReads ==
  ASSUME Base, NEW t \in Threads, ReadValue(t)
  PROVE  Reading(t)
<1>0. pc[t] = "value" /\ leaf' = leaf /\ top' = top /\ freed' = freed /\ pc[t] \in FreePlaces
  BY DEF ReadValue, nodes, FreePlaces, ReadPlaces
<1>1. Free(pc[t], reg[t]) /\ reg[t] \in Local
  BY <1>0, FreeNow DEF Free
<1>2. reg[t].n \in LeafIds /\ reg[t].n \in OptLeaf /\ leaf[reg[t].n].ver \in Version
      /\ leaf[reg[t].n].perm \in Permuters
  BY <1>0, <1>1, LeafIdFacts, LeafFacts DEF Free, LeafPlaces, ReadPlaces, BothPlaces, OptLeaf
<1>3. leaf[reg[t].n].lv[reg[t].kp] \in Values \cup {Blank}
  BY <1>0, <1>1, <1>2, LeafFacts DEF Free
<1> DEFINE r == [reg[t] EXCEPT !.lv = leaf[reg[t].n].lv[reg[t].kp]]
<1>4. Goes(t, "check", r)
  BY <1>0 DEF Base, Types, ReadValue, Goto, Goes, Here
<1>5. r \in Local /\ r.kind = reg[t].kind /\ r.key = reg[t].key /\ r.val = reg[t].val
      /\ r.n = reg[t].n /\ r.nr = reg[t].nr /\ r.aux = reg[t].aux /\ r.hasTop = reg[t].hasTop
      /\ r.kp = reg[t].kp /\ r.ki = reg[t].ki /\ r.perm = reg[t].perm
  BY <1>1, <1>2, <1>3 DEF Local
<1> HIDE DEF r
<1>6. Free("check", r)
  BY <1>1, <1>2, <1>3, <1>0, <1>5 DEF Free, FreePlaces, ScanPlaces, LeafPlaces, ReadPlaces,
       PutPlaces, RemovePlaces, BothPlaces, DyingPlaces
<1> QED
  BY <1>0, <1>4, <1>5, <1>6 DEF Reading, Free

LEMMA ReturnReads ==
  ASSUME Base, NEW t \in Threads, NEW x \in Values \cup {Blank}, Return(t, x), pc[t] \in FreePlaces,
         leaf' = leaf, top' = top, freed' = freed
  PROVE  Reading(t)
<1>1. Free(pc[t], reg[t]) /\ reg[t] \in Local
  BY FreeNow DEF Free
<1>2. reg[t].kind \in Kinds /\ reg[t].key \in Int /\ reg[t].val \in Values \cup {Blank}
  BY <1>1, LocalType
<1> DEFINE r == [NoLocals EXCEPT !.kind = reg[t].kind, !.key = reg[t].key,
                                 !.val = reg[t].val, !.lv = x]
<1>3. /\ r \in Local /\ r.kind = reg[t].kind /\ r.key = reg[t].key /\ r.val = reg[t].val
      /\ r.n = Null /\ r.nr = Null /\ r.aux = Null /\ r.hasTop = FALSE
  BY <1>2, NoLocalsType DEF Local
<1>4. Goes(t, "done", r)
  BY DEF Return, Goto, Goes
<1> HIDE DEF r
<1>5. Free("done", r)
  BY <1>1, <1>3, LeafIdFacts DEF Free, FreePlaces, ScanPlaces, LeafPlaces, ReadPlaces, PutPlaces,
       RemovePlaces, BothPlaces, DyingPlaces
<1> QED
  BY <1>3, <1>4, <1>5 DEF Reading, Free

LEMMA CheckReads ==
  ASSUME Base, NEW t \in Threads, Check(t)
  PROVE  Reading(t)
<1>0. pc[t] \in {"check", "probe"} /\ leaf' = leaf /\ top' = top /\ freed' = freed
      /\ pc[t] \in FreePlaces
  BY DEF Check, Searched, nodes, FreePlaces, ReadPlaces
<1>1. Free(pc[t], reg[t]) /\ reg[t] \in Local
  BY <1>0, FreeNow DEF Free
<1>2. CASE Changed(reg[t].v, Here(t).ver)
  <2>1. Goes(t, "advance", reg[t])
    BY <1>2 DEF Base, Types, Check, Goto, Goes
  <2>2. Free("advance", reg[t])
    BY <1>0, <1>1 DEF Free, FreePlaces, ScanPlaces, LeafPlaces, ReadPlaces
  <2> QED
    BY <1>0, <1>1, <2>1, <2>2 DEF Reading, Free
<1>3. CASE ~Changed(reg[t].v, Here(t).ver)
  <2>1. (IF reg[t].kp = -1 THEN Blank ELSE reg[t].lv) \in Values \cup {Blank}
    BY <1>1, LocalType
  <2>2. Return(t, IF reg[t].kp = -1 THEN Blank ELSE reg[t].lv)
    BY <1>3 DEF Check
  <2> QED
    BY <1>0, <2>1, <2>2, ReturnReads
<1> QED
  BY <1>2, <1>3

LEMMA AdvanceReads ==
  ASSUME Base, NEW t \in Threads, Advance(t)
  PROVE  Reading(t)
<1>0. pc[t] = "advance" /\ leaf' = leaf /\ top' = top /\ freed' = freed /\ pc[t] \in FreePlaces
  BY DEF Advance, nodes, FreePlaces, ReadPlaces
<1>1. Free(pc[t], reg[t]) /\ reg[t] \in Local
  BY <1>0, FreeNow DEF Free
<1>2. reg[t].n \in LeafIds /\ reg[t].n \in OptLeaf /\ leaf[reg[t].n].ver \in Version
      /\ leaf[reg[t].n].perm \in Permuters
  BY <1>0, <1>1, LeafIdFacts, LeafFacts DEF Free, LeafPlaces, ReadPlaces, BothPlaces, OptLeaf
<1> DEFINE r == [reg[t] EXCEPT !.v = leaf[reg[t].n].ver]
<1>3. Goes(t, (IF HasSplit(reg[t].v, Here(t).ver) /\ reg[t].key > LastIkey(reg[t].n) THEN "walk" ELSE "perm"), r)
  BY <1>0 DEF Base, Types, Advance, Goto, Goes, Here
<1>4. r \in Local /\ r.kind = reg[t].kind /\ r.key = reg[t].key /\ r.val = reg[t].val
      /\ r.n = reg[t].n /\ r.nr = reg[t].nr /\ r.aux = reg[t].aux /\ r.hasTop = reg[t].hasTop
      /\ r.kp = reg[t].kp /\ r.ki = reg[t].ki /\ r.perm = reg[t].perm
  BY <1>1, <1>2 DEF Local
<1> HIDE DEF r
<1>5. Free((IF HasSplit(reg[t].v, Here(t).ver) /\ reg[t].key > LastIkey(reg[t].n) THEN "walk" ELSE "perm"), r)
  BY <1>1, <1>2, <1>0, <1>4 DEF Free, FreePlaces, ScanPlaces, LeafPlaces, ReadPlaces, PutPlaces,
       RemovePlaces, BothPlaces, DyingPlaces
<1> QED
  BY <1>0, <1>3, <1>4, <1>5 DEF Reading, Free

LEMMA WalkReads ==
  ASSUME Base, NEW t \in Threads, Walk(t)
  PROVE  Reading(t)
<1>0. pc[t] = "walk" /\ leaf' = leaf /\ top' = top /\ freed' = freed /\ pc[t] \in FreePlaces
  BY DEF Walk, nodes, FreePlaces, ReadPlaces
<1>1. Free(pc[t], reg[t]) /\ reg[t] \in Local
  BY <1>0, FreeNow DEF Free
<1>2. reg[t].n \in LeafIds /\ reg[t].n \in OptLeaf /\ leaf[reg[t].n].ver \in Version
      /\ leaf[reg[t].n].perm \in Permuters
  BY <1>0, <1>1, LeafIdFacts, LeafFacts DEF Free, LeafPlaces, ReadPlaces, BothPlaces, OptLeaf
<1>3. Beyond(t) => leaf[reg[t].n].next \in LeafIds /\ leaf[reg[t].n].next \in OptLeaf
      /\ leaf[reg[t].n].next # Null /\ leaf[reg[t].n].next \in Nat
  BY <1>2, LeafFacts, LeafIdFacts DEF Beyond, Here, OptLeaf
<1>4. CASE ~Deleted(reg[t].v) /\ Beyond(t)
  <2> DEFINE r == [reg[t] EXCEPT !.n = leaf[reg[t].n].next]
  <2>1. Goes(t, "walked", r)
    BY <1>4, <1>0 DEF Base, Types, Walk, Goto, Goes, Here
  <2>2. r \in Local /\ r.kind = reg[t].kind /\ r.key = reg[t].key /\ r.val = reg[t].val
        /\ r.n = leaf[reg[t].n].next /\ r.nr = reg[t].nr /\ r.aux = reg[t].aux
        /\ r.hasTop = reg[t].hasTop /\ r.kp = reg[t].kp /\ r.ki = reg[t].ki /\ r.perm = reg[t].perm
    BY <1>4, <1>1, <1>2, <1>3 DEF Local
  <2> HIDE DEF r
  <2>3. Free("walked", r)
    BY <1>4, <1>1, <1>2, <1>3, <1>0, <2>2 DEF Free, FreePlaces, ScanPlaces, LeafPlaces, ReadPlaces,
         PutPlaces, RemovePlaces, BothPlaces, DyingPlaces
  <2> QED
    BY <1>0, <2>1, <2>2, <2>3 DEF Reading, Free
<1>5. CASE ~(~Deleted(reg[t].v) /\ Beyond(t))
  <2>1. Goes(t, "perm", reg[t])
    BY <1>5, <1>0 DEF Base, Types, Walk, Goto, Goes
  <2>2. Free("perm", reg[t])
    BY <1>5, <1>1, <1>2, <1>3, <1>0 DEF Free, FreePlaces, ScanPlaces, LeafPlaces, ReadPlaces,
         PutPlaces, RemovePlaces, BothPlaces, DyingPlaces
  <2> QED
    BY <1>0, <1>1, <2>1, <2>2 DEF Reading, Free
<1> QED
  BY <1>4, <1>5

LEMMA WalkedReads ==
  ASSUME Base, NEW t \in Threads, Walked(t)
  PROVE  Reading(t)
<1>0. pc[t] = "walked" /\ leaf' = leaf /\ top' = top /\ freed' = freed /\ pc[t] \in FreePlaces
  BY DEF Walked, nodes, FreePlaces, ReadPlaces
<1>1. Free(pc[t], reg[t]) /\ reg[t] \in Local
  BY <1>0, FreeNow DEF Free
<1>2. reg[t].n \in LeafIds /\ reg[t].n \in OptLeaf /\ leaf[reg[t].n].ver \in Version
      /\ leaf[reg[t].n].perm \in Permuters
  BY <1>0, <1>1, LeafIdFacts, LeafFacts DEF Free, LeafPlaces, ReadPlaces, BothPlaces, OptLeaf
<1> DEFINE r == [reg[t] EXCEPT !.v = leaf[reg[t].n].ver]
<1>3. Goes(t, "walk", r)
  BY <1>0 DEF Base, Types, Walked, Goto, Goes, Here
<1>4. r \in Local /\ r.kind = reg[t].kind /\ r.key = reg[t].key /\ r.val = reg[t].val
      /\ r.n = reg[t].n /\ r.nr = reg[t].nr /\ r.aux = reg[t].aux /\ r.hasTop = reg[t].hasTop
      /\ r.kp = reg[t].kp /\ r.ki = reg[t].ki /\ r.perm = reg[t].perm
  BY <1>1, <1>2 DEF Local
<1> HIDE DEF r
<1>5. Free("walk", r)
  BY <1>1, <1>2, <1>0, <1>4 DEF Free, FreePlaces, ScanPlaces, LeafPlaces, ReadPlaces, PutPlaces,
       RemovePlaces, BothPlaces, DyingPlaces
<1> QED
  BY <1>0, <1>3, <1>4, <1>5 DEF Reading, Free

LEMMA RightwardReads ==
  ASSUME Base, NEW t \in Threads, Rightward(t)
  PROVE  Reading(t)
<1>0. pc[t] = "rightward" /\ leaf' = leaf /\ top' = top /\ freed' = freed /\ pc[t] \in FreePlaces
  BY DEF Rightward, nodes, FreePlaces, ReadPlaces
<1>1. Free(pc[t], reg[t]) /\ reg[t] \in Local
  BY <1>0, FreeNow DEF Free
<1>2. reg[t].n \in LeafIds /\ reg[t].n \in OptLeaf /\ leaf[reg[t].n].ver \in Version
      /\ leaf[reg[t].n].perm \in Permuters
  BY <1>0, <1>1, LeafIdFacts, LeafFacts DEF Free, LeafPlaces, ReadPlaces, BothPlaces, OptLeaf
<1>3. Beyond(t) => leaf[reg[t].n].next \in LeafIds /\ leaf[reg[t].n].next \in OptLeaf
      /\ leaf[reg[t].n].next # Null /\ leaf[reg[t].n].next \in Nat
  BY <1>2, LeafFacts, LeafIdFacts DEF Beyond, Here, OptLeaf
<1>4. CASE ~Deleted(Here(t).ver) /\ Beyond(t)
  <2> DEFINE r == [reg[t] EXCEPT !.v = leaf[reg[t].n].ver, !.n = leaf[reg[t].n].next]
  <2>1. Goes(t, "rightward", r)
    BY <1>4, <1>0 DEF Base, Types, Rightward, Goto, Goes, Here
  <2>2. r \in Local /\ r.kind = reg[t].kind /\ r.key = reg[t].key /\ r.val = reg[t].val
        /\ r.n = leaf[reg[t].n].next /\ r.nr = reg[t].nr /\ r.aux = reg[t].aux
        /\ r.hasTop = reg[t].hasTop /\ r.kp = reg[t].kp /\ r.ki = reg[t].ki /\ r.perm = reg[t].perm
    BY <1>4, <1>1, <1>2, <1>3 DEF Local
  <2> HIDE DEF r
  <2>3. Free("rightward", r)
    BY <1>4, <1>1, <1>2, <1>3, <1>0, <2>2 DEF Free, FreePlaces, ScanPlaces, LeafPlaces, ReadPlaces,
         PutPlaces, RemovePlaces, BothPlaces, DyingPlaces
  <2> QED
    BY <1>0, <2>1, <2>2, <2>3 DEF Reading, Free
<1>5. CASE ~(~Deleted(Here(t).ver) /\ Beyond(t))
  <2> DEFINE r == [reg[t] EXCEPT !.v = leaf[reg[t].n].ver]
  <2>1. Goes(t, "lock", r)
    BY <1>5, <1>0 DEF Base, Types, Rightward, Goto, Goes, Here
  <2>2. r \in Local /\ r.kind = reg[t].kind /\ r.key = reg[t].key /\ r.val = reg[t].val
        /\ r.n = reg[t].n /\ r.nr = reg[t].nr /\ r.aux = reg[t].aux /\ r.hasTop = reg[t].hasTop
        /\ r.kp = reg[t].kp /\ r.ki = reg[t].ki /\ r.perm = reg[t].perm
    BY <1>5, <1>1, <1>2, <1>3 DEF Local
  <2> HIDE DEF r
  <2>3. Free("lock", r)
    BY <1>5, <1>1, <1>2, <1>3, <1>0, <2>2 DEF Free, FreePlaces, ScanPlaces, LeafPlaces, ReadPlaces,
         PutPlaces, RemovePlaces, BothPlaces, DyingPlaces
  <2> QED
    BY <1>0, <2>1, <2>2, <2>3 DEF Reading, Free
<1> QED
  BY <1>4, <1>5
-----------------------------------------------------------------------------
(* Steps of the scan, which write nothing.                                  *)

LEMMA BeginReads ==
  ASSUME Base, NEW t \in Threads, NEW choice,
         choice \subseteq [kind : CallKinds, key : Keys, val : Values],
         BeginOneOf(t, choice)
  PROVE  Reading(t)
<1>0. /\ pc[t] \in {"idle", "done"} /\ leaf' = leaf /\ top' = top /\ freed' = freed
      /\ pc[t] \in FreePlaces
  BY DEF BeginOneOf, nodes, FreePlaces
<1>1. PICK call \in choice : reg' = [reg EXCEPT ![t] = [NoLocals EXCEPT !.kind = call.kind, !.key = call.key,
                                                     !.val = call.val]]
  BY DEF BeginOneOf
<1>2. /\ call.kind \in CallKinds /\ call.key \in Keys /\ call.val \in Values
      /\ call.kind \in Kinds /\ call.key \in Int /\ call.val \in Values \cup {Blank}
  BY <1>1, KeysAssumption DEF CallKinds, Kinds
<1> DEFINE r == [NoLocals EXCEPT !.kind = call.kind, !.key = call.key, !.val = call.val]
<1>3. /\ r \in Local /\ r.kind = call.kind /\ r.key = call.key /\ r.val = call.val
      /\ r.n = Null /\ r.nr = Null /\ r.aux = Null /\ r.hasTop = FALSE
  BY <1>2, NoLocalsType DEF Local
<1>4. Goes(t, "root", r)
  BY <1>1 DEF BeginOneOf, Goto, Goes
<1> HIDE DEF r
<1>5. Free("root", r)
  BY <1>2, <1>3, LeafIdFacts DEF Free, FreePlaces, ScanPlaces, LeafPlaces, ReadPlaces, PutPlaces,
       RemovePlaces, BothPlaces, DyingPlaces
<1> QED
  BY <1>0, <1>3, <1>4, <1>5 DEF Reading, Free

LEMMA BeginScanReads ==
  ASSUME Base, BeginScan
  PROVE  Reading(Scanner)
<1>0. /\ pc[Scanner] = "idle" /\ leaf' = leaf /\ top' = top /\ freed' = freed
      /\ pc[Scanner] \in FreePlaces /\ Scanner \in Threads
  BY ScannerAssumption DEF BeginScan, nodes, FreePlaces, At
<1>1. PICK call \in Scans : reg' = [reg EXCEPT ![Scanner] = [NoLocals EXCEPT !.kind = "search",
                            !.key = call.key]]
  BY DEF BeginScan
<1>2. call.key \in Int
  BY <1>1, KeysAssumption, ScansAssumption
<1> DEFINE r == [NoLocals EXCEPT !.kind = "search", !.key = call.key]
<1>3. /\ r \in Local /\ r.kind = "search" /\ r.key = call.key
      /\ r.n = Null /\ r.nr = Null /\ r.aux = Null /\ r.hasTop = FALSE
  BY <1>2, NoLocalsType DEF Local, Kinds
<1>4. Goes(Scanner, "root", r)
  BY <1>1 DEF BeginScan, ThenAt, Goes
<1> HIDE DEF r
<1>5. Free("root", r)
  BY <1>2, <1>3, LeafIdFacts DEF Free, FreePlaces, ScanPlaces, LeafPlaces, ReadPlaces, PutPlaces,
       RemovePlaces, BothPlaces, DyingPlaces
<1> QED
  BY <1>0, <1>3, <1>4, <1>5 DEF Reading, Free

LEMMA ResumeReads ==
  ASSUME Base, Resume
  PROVE  Reading(Scanner)
<1>0. pc[Scanner] = "resume" /\ Scanner \in Threads /\ leaf' = leaf /\ top' = top /\ freed' = freed
      /\ pc[Scanner] \in FreePlaces
  BY ScannerAssumption DEF Resume, nodes, FreePlaces, ReadPlaces, s, n, At, ThenAt
<1>1. Free(pc[Scanner], reg[Scanner]) /\ reg[Scanner] \in Local
  BY <1>0, ScannerAssumption, FreeNow DEF Free
<1>2. reg[Scanner].n \in LeafIds /\ reg[Scanner].n \in OptLeaf
      /\ leaf[reg[Scanner].n].ver \in Version /\ leaf[reg[Scanner].n].perm \in Permuters
      /\ leaf[reg[Scanner].n].ikey \in [Slots -> Int]
      /\ leaf[reg[Scanner].n].lv \in [Slots -> Values \cup {Blank}]
  BY <1>0, <1>1, LeafIdFacts, LeafFacts DEF Free, LeafPlaces, ReadPlaces, BothPlaces, OptLeaf
<1>3. leaf[reg[Scanner].n].perm.size \in 0..Width /\ 0 \in 0..Width
  <2>1. PICK pm \in Permuters : pm = leaf[reg[Scanner].n].perm
    BY <1>2
  <2>2. pm.size \in 0..Width
    BY PermType
  <2>3. 0 \in 0..Width
    BY WidthType
  <2> QED
    BY <2>1, <2>2, <2>3
<1>4. CASE Deleted(reg[Scanner].v)
  <2>1. Goes(Scanner, "root", reg[Scanner])
    BY <1>4, <1>0 DEF Base, Types, Resume, Goto, Goes, s, n, At, ThenAt
  <2>2. Free("root", reg[Scanner])
    BY <1>4, <1>1, <1>2, <1>3, <1>0 DEF Free, FreePlaces, ScanPlaces, LeafPlaces, ReadPlaces,
         PutPlaces, RemovePlaces, BothPlaces, DyingPlaces
  <2> QED
    BY <1>0, <1>1, <2>1, <2>2 DEF Reading, Free
<1>5. CASE ~Deleted(reg[Scanner].v)
  <2> DEFINE r == [reg[Scanner] EXCEPT !.perm = leaf[reg[Scanner].n].perm, !.lo = 0,
             !.hi = leaf[reg[Scanner].n].perm.size]
  <2>1. Goes(Scanner, "lower", r)
    BY <1>5, <1>0 DEF Base, Types, Resume, Goto, Goes, s, n, At, ThenAt
  <2>2. r \in Local /\ r.kind = reg[Scanner].kind /\ r.key = reg[Scanner].key
        /\ r.val = reg[Scanner].val /\ r.n = reg[Scanner].n /\ r.nr = reg[Scanner].nr
        /\ r.aux = reg[Scanner].aux /\ r.hasTop = reg[Scanner].hasTop /\ r.kp = reg[Scanner].kp
        /\ r.ki = reg[Scanner].ki /\ r.perm = leaf[reg[Scanner].n].perm
    BY <1>5, <1>1, <1>2, <1>3 DEF Local
  <2> HIDE DEF r
  <2>3. Free("lower", r)
    BY <1>5, <1>1, <1>2, <1>3, <1>0, <2>2 DEF Free, FreePlaces, ScanPlaces, LeafPlaces, ReadPlaces,
         PutPlaces, RemovePlaces, BothPlaces, DyingPlaces
  <2> QED
    BY <1>0, <2>1, <2>2, <2>3 DEF Reading, Free
<1> QED
  BY <1>4, <1>5

LEMMA LowerEndsReads ==
  ASSUME Base, LowerEnds
  PROVE  Reading(Scanner)
<1>0. pc[Scanner] = "lower" /\ Scanner \in Threads /\ leaf' = leaf /\ top' = top /\ freed' = freed
      /\ pc[Scanner] \in FreePlaces
  BY ScannerAssumption DEF LowerEnds, nodes, FreePlaces, ReadPlaces, s, n, At, ThenAt
<1>1. Free(pc[Scanner], reg[Scanner]) /\ reg[Scanner] \in Local
  BY <1>0, ScannerAssumption, FreeNow DEF Free
<1>2. reg[Scanner].ki + 1 \in Int /\ reg[Scanner].ki - 1 \in Int /\ reg[Scanner].lo \in Int
      /\ reg[Scanner].lo - 1 \in Int /\ reg[Scanner].lo + 1 \in Int
  BY <1>1, LocalType, WidthType
<1> DEFINE r == [reg[Scanner] EXCEPT !.ki = (IF Forward THEN reg[Scanner].lo ELSE reg[Scanner].lo - 1)]
<1>3. Goes(Scanner, "next", r)
  BY <1>0 DEF Base, Types, LowerEnds, Goto, Goes, s, n, At, ThenAt
<1>4. r \in Local /\ r.kind = reg[Scanner].kind /\ r.key = reg[Scanner].key
      /\ r.val = reg[Scanner].val /\ r.n = reg[Scanner].n /\ r.nr = reg[Scanner].nr
      /\ r.aux = reg[Scanner].aux /\ r.hasTop = reg[Scanner].hasTop /\ r.kp = reg[Scanner].kp
      /\ r.ki = (IF Forward THEN reg[Scanner].lo ELSE reg[Scanner].lo - 1)
      /\ r.perm = reg[Scanner].perm
  BY <1>1, <1>2 DEF Local
<1> HIDE DEF r
<1>5. Free("next", r)
  BY <1>1, <1>2, <1>0, <1>4 DEF Free, FreePlaces, ScanPlaces, LeafPlaces, ReadPlaces, PutPlaces,
       RemovePlaces, BothPlaces, DyingPlaces
<1> QED
  BY <1>0, <1>3, <1>4, <1>5 DEF Reading, Free

LEMMA ReadIkeyReads ==
  ASSUME Base, ReadIkey
  PROVE  Reading(Scanner)
<1>0. pc[Scanner] = "next" /\ Scanner \in Threads /\ leaf' = leaf /\ top' = top /\ freed' = freed
      /\ pc[Scanner] \in FreePlaces
  BY ScannerAssumption DEF ReadIkey, nodes, FreePlaces, ReadPlaces, s, n, At, ThenAt
<1>1. Free(pc[Scanner], reg[Scanner]) /\ reg[Scanner] \in Local
  BY <1>0, ScannerAssumption, FreeNow DEF Free
<1>2. reg[Scanner].ki \in 0..(reg[Scanner].perm.size - 1)
  BY <1>1, LocalType, PermType DEF ReadIkey, InRange, s
<1>3. Goes(Scanner, "nextValue", reg[Scanner])
  BY <1>0 DEF Base, Types, ReadIkey, Goto, Goes, s, n, At, ThenAt
<1>4. Free("nextValue", reg[Scanner])
  BY <1>1, <1>2, <1>0 DEF Free, FreePlaces, ScanPlaces, LeafPlaces, ReadPlaces, PutPlaces,
       RemovePlaces, BothPlaces, DyingPlaces
<1> QED
  BY <1>0, <1>1, <1>3, <1>4 DEF Reading, Free

LEMMA LeafEndsReads ==
  ASSUME Base, LeafEnds
  PROVE  Reading(Scanner)
<1>0. pc[Scanner] = "next" /\ Scanner \in Threads /\ leaf' = leaf /\ top' = top /\ freed' = freed
      /\ pc[Scanner] \in FreePlaces
  BY ScannerAssumption DEF LeafEnds, nodes, FreePlaces, ReadPlaces, s, n, At, ThenAt
<1>1. Free(pc[Scanner], reg[Scanner]) /\ reg[Scanner] \in Local
  BY <1>0, ScannerAssumption, FreeNow DEF Free
<1>2. CASE Changed(reg[Scanner].v, leaf[reg[Scanner].n].ver)
  <2>1. Goes(Scanner, "changed", reg[Scanner])
    BY <1>2, <1>0 DEF Base, Types, LeafEnds, Goto, Goes, s, n, At, ThenAt
  <2>2. Free("changed", reg[Scanner])
    BY <1>2, <1>1, <1>0 DEF Free, FreePlaces, ScanPlaces, LeafPlaces, ReadPlaces, PutPlaces,
         RemovePlaces, BothPlaces, DyingPlaces
  <2> QED
    BY <1>0, <1>1, <2>1, <2>2 DEF Reading, Free
<1>3. CASE ~Changed(reg[Scanner].v, leaf[reg[Scanner].n].ver)
  <2>1. Goes(Scanner, "beyond", reg[Scanner])
    BY <1>3, <1>0 DEF Base, Types, LeafEnds, Goto, Goes, s, n, At, ThenAt
  <2>2. Free("beyond", reg[Scanner])
    BY <1>3, <1>1, <1>0 DEF Free, FreePlaces, ScanPlaces, LeafPlaces, ReadPlaces, PutPlaces,
         RemovePlaces, BothPlaces, DyingPlaces
  <2> QED
    BY <1>0, <1>1, <2>1, <2>2 DEF Reading, Free
<1> QED
  BY <1>2, <1>3

LEMMA StableReads ==
  ASSUME Base, Stable
  PROVE  Reading(Scanner)
<1>0. pc[Scanner] = "changed" /\ Scanner \in Threads /\ leaf' = leaf /\ top' = top /\ freed' = freed
      /\ pc[Scanner] \in FreePlaces
  BY ScannerAssumption DEF Stable, nodes, FreePlaces, ReadPlaces, s, n, At, ThenAt
<1>1. Free(pc[Scanner], reg[Scanner]) /\ reg[Scanner] \in Local
  BY <1>0, ScannerAssumption, FreeNow DEF Free
<1>2. reg[Scanner].n \in LeafIds /\ reg[Scanner].n \in OptLeaf
      /\ leaf[reg[Scanner].n].ver \in Version /\ leaf[reg[Scanner].n].perm \in Permuters
      /\ leaf[reg[Scanner].n].ikey \in [Slots -> Int]
      /\ leaf[reg[Scanner].n].lv \in [Slots -> Values \cup {Blank}]
  BY <1>0, <1>1, LeafIdFacts, LeafFacts DEF Free, LeafPlaces, ReadPlaces, BothPlaces, OptLeaf
<1>3. CASE Forward
  <2> DEFINE r == [reg[Scanner] EXCEPT !.v = leaf[reg[Scanner].n].ver]
  <2>1. Goes(Scanner, "resume", r)
    BY <1>3, <1>0 DEF Base, Types, Stable, Goto, Goes, s, n, At, ThenAt
  <2>2. r \in Local /\ r.kind = reg[Scanner].kind /\ r.key = reg[Scanner].key
        /\ r.val = reg[Scanner].val /\ r.n = reg[Scanner].n /\ r.nr = reg[Scanner].nr
        /\ r.aux = reg[Scanner].aux /\ r.hasTop = reg[Scanner].hasTop /\ r.kp = reg[Scanner].kp
        /\ r.ki = reg[Scanner].ki /\ r.perm = reg[Scanner].perm
    BY <1>3, <1>1, <1>2 DEF Local
  <2> HIDE DEF r
  <2>3. Free("resume", r)
    BY <1>3, <1>1, <1>2, <1>0, <2>2 DEF Free, FreePlaces, ScanPlaces, LeafPlaces, ReadPlaces,
         PutPlaces, RemovePlaces, BothPlaces, DyingPlaces
  <2> QED
    BY <1>0, <2>1, <2>2, <2>3 DEF Reading, Free
<1>4. CASE ~Forward
  <2> DEFINE r == [reg[Scanner] EXCEPT !.v = leaf[reg[Scanner].n].ver]
  <2>1. Goes(Scanner, "hop", r)
    BY <1>4, <1>0 DEF Base, Types, Stable, Goto, Goes, s, n, At, ThenAt
  <2>2. r \in Local /\ r.kind = reg[Scanner].kind /\ r.key = reg[Scanner].key
        /\ r.val = reg[Scanner].val /\ r.n = reg[Scanner].n /\ r.nr = reg[Scanner].nr
        /\ r.aux = reg[Scanner].aux /\ r.hasTop = reg[Scanner].hasTop /\ r.kp = reg[Scanner].kp
        /\ r.ki = reg[Scanner].ki /\ r.perm = reg[Scanner].perm
    BY <1>4, <1>1, <1>2 DEF Local
  <2> HIDE DEF r
  <2>3. Free("hop", r)
    BY <1>4, <1>1, <1>2, <1>0, <2>2 DEF Free, FreePlaces, ScanPlaces, LeafPlaces, ReadPlaces,
         PutPlaces, RemovePlaces, BothPlaces, DyingPlaces
  <2> QED
    BY <1>0, <2>1, <2>2, <2>3 DEF Reading, Free
<1> QED
  BY <1>3, <1>4

LEMMA HopReads ==
  ASSUME Base, Hop
  PROVE  Reading(Scanner)
<1>0. pc[Scanner] = "hop" /\ Scanner \in Threads /\ leaf' = leaf /\ top' = top /\ freed' = freed
      /\ pc[Scanner] \in FreePlaces
  BY ScannerAssumption DEF Hop, nodes, FreePlaces, ReadPlaces, s, n, At, ThenAt
<1>1. Free(pc[Scanner], reg[Scanner]) /\ reg[Scanner] \in Local
  BY <1>0, ScannerAssumption, FreeNow DEF Free
<1>2. reg[Scanner].n \in LeafIds /\ reg[Scanner].n \in OptLeaf
      /\ leaf[reg[Scanner].n].ver \in Version /\ leaf[reg[Scanner].n].perm \in Permuters
      /\ leaf[reg[Scanner].n].ikey \in [Slots -> Int]
      /\ leaf[reg[Scanner].n].lv \in [Slots -> Values \cup {Blank}]
  BY <1>0, <1>1, LeafIdFacts, LeafFacts DEF Free, LeafPlaces, ReadPlaces, BothPlaces, OptLeaf
<1>3. leaf[reg[Scanner].n].next # Null => leaf[reg[Scanner].n].next \in LeafIds
      /\ leaf[reg[Scanner].n].next \in OptLeaf /\ leaf[reg[Scanner].n].next # Null
      /\ leaf[reg[Scanner].n].next \in Nat
  BY <1>2, LeafFacts, LeafIdFacts DEF OptLeaf
<1>4. CASE (leaf[reg[Scanner].n].next = Null \/ reg[Scanner].key < Bound(leaf[reg[Scanner].n].next) \/ (reg[Scanner].key = Bound(leaf[reg[Scanner].n].next) /\ bar))
  <2>1. Goes(Scanner, "resume", reg[Scanner])
    BY <1>4, <1>0 DEF Base, Types, Hop, Goto, Goes, s, n, At, ThenAt
  <2>2. Free("resume", reg[Scanner])
    BY <1>4, <1>1, <1>2, <1>3, <1>0 DEF Free, FreePlaces, ScanPlaces, LeafPlaces, ReadPlaces,
         PutPlaces, RemovePlaces, BothPlaces, DyingPlaces
  <2> QED
    BY <1>0, <1>1, <2>1, <2>2 DEF Reading, Free
<1>5. CASE ~(leaf[reg[Scanner].n].next = Null \/ reg[Scanner].key < Bound(leaf[reg[Scanner].n].next) \/ (reg[Scanner].key = Bound(leaf[reg[Scanner].n].next) /\ bar))
  <2> DEFINE r == [reg[Scanner] EXCEPT !.n = leaf[reg[Scanner].n].next]
  <2>1. Goes(Scanner, "changed", r)
    BY <1>5, <1>0 DEF Base, Types, Hop, Goto, Goes, s, n, At, ThenAt
  <2>2. r \in Local /\ r.kind = reg[Scanner].kind /\ r.key = reg[Scanner].key
        /\ r.val = reg[Scanner].val /\ r.n = leaf[reg[Scanner].n].next /\ r.nr = reg[Scanner].nr
        /\ r.aux = reg[Scanner].aux /\ r.hasTop = reg[Scanner].hasTop /\ r.kp = reg[Scanner].kp
        /\ r.ki = reg[Scanner].ki /\ r.perm = reg[Scanner].perm
    BY <1>5, <1>1, <1>2, <1>3 DEF Local
  <2> HIDE DEF r
  <2>3. Free("changed", r)
    BY <1>5, <1>1, <1>2, <1>3, <1>0, <2>2 DEF Free, FreePlaces, ScanPlaces, LeafPlaces, ReadPlaces,
         PutPlaces, RemovePlaces, BothPlaces, DyingPlaces
  <2> QED
    BY <1>0, <2>1, <2>2, <2>3 DEF Reading, Free
<1> QED
  BY <1>4, <1>5

LEMMA ReadEntryReads ==
  ASSUME Base, ReadEntry
  PROVE  Reading(Scanner)
<1>0. pc[Scanner] = "nextValue" /\ Scanner \in Threads /\ leaf' = leaf /\ top' = top
      /\ freed' = freed /\ pc[Scanner] \in FreePlaces
  BY ScannerAssumption DEF ReadEntry, nodes, FreePlaces, ReadPlaces, s, n, At, ThenAt
<1>1. Free(pc[Scanner], reg[Scanner]) /\ reg[Scanner] \in Local
  BY <1>0, ScannerAssumption, FreeNow DEF Free
<1>2. reg[Scanner].n \in LeafIds /\ reg[Scanner].n \in OptLeaf
      /\ leaf[reg[Scanner].n].ver \in Version /\ leaf[reg[Scanner].n].perm \in Permuters
      /\ leaf[reg[Scanner].n].ikey \in [Slots -> Int]
      /\ leaf[reg[Scanner].n].lv \in [Slots -> Values \cup {Blank}]
  BY <1>0, <1>1, LeafIdFacts, LeafFacts DEF Free, LeafPlaces, ReadPlaces, BothPlaces, OptLeaf
<1>3. reg[Scanner].perm \in Permuters /\ reg[Scanner].ki \in 0..(reg[Scanner].perm.size - 1)
  BY <1>0, <1>1, LocalType DEF Free
<1>4. reg[Scanner].ki + 1 \in 1..Width
  BY <1>3, PermType, WidthType
<1>5. reg[Scanner].perm.order[reg[Scanner].ki + 1] \in Slots
  BY <1>3, <1>4, PermType
<1>6. leaf[reg[Scanner].n].lv[reg[Scanner].perm.order[reg[Scanner].ki + 1]] \in Values \cup {Blank}
  BY <1>2, <1>5
<1> DEFINE r == [reg[Scanner] EXCEPT !.lv = leaf[reg[Scanner].n].lv[reg[Scanner].perm.order[reg[Scanner].ki + 1]]]
<1>7. Goes(Scanner, "nextCheck", r)
  BY <1>0 DEF Base, Types, ReadEntry, Goto, Goes, s, n, At, ThenAt, Slot
<1>8. r \in Local /\ r.kind = reg[Scanner].kind /\ r.key = reg[Scanner].key
      /\ r.val = reg[Scanner].val /\ r.n = reg[Scanner].n /\ r.nr = reg[Scanner].nr
      /\ r.aux = reg[Scanner].aux /\ r.hasTop = reg[Scanner].hasTop /\ r.kp = reg[Scanner].kp
      /\ r.ki = reg[Scanner].ki /\ r.perm = reg[Scanner].perm
  BY <1>1, <1>2, <1>3, <1>4, <1>5, <1>6 DEF Local
<1> HIDE DEF r
<1>9. Free("nextCheck", r)
  BY <1>1, <1>2, <1>3, <1>4, <1>5, <1>6, <1>0, <1>8 DEF Free, FreePlaces, ScanPlaces, LeafPlaces,
       ReadPlaces, PutPlaces, RemovePlaces, BothPlaces, DyingPlaces
<1> QED
  BY <1>0, <1>7, <1>8, <1>9 DEF Reading, Free

LEMMA EmitReads ==
  ASSUME Base, ikey \in Int, Emit
  PROVE  Reading(Scanner)
<1>0. pc[Scanner] = "nextCheck" /\ Scanner \in Threads /\ leaf' = leaf /\ top' = top
      /\ freed' = freed /\ pc[Scanner] \in FreePlaces
  BY ScannerAssumption DEF Emit, nodes, FreePlaces, ReadPlaces, s, n, At, ThenAt
<1>1. Free(pc[Scanner], reg[Scanner]) /\ reg[Scanner] \in Local
  BY <1>0, ScannerAssumption, FreeNow DEF Free
<1>2. NextPosition(reg[Scanner].ki) \in Int
  BY <1>1, LocalType DEF NextPosition
<1>3. CASE Changed(reg[Scanner].v, leaf[reg[Scanner].n].ver)
  <2>1. Goes(Scanner, "changed", reg[Scanner])
    BY <1>3, <1>0 DEF Base, Types, Emit, Goto, Goes, s, n, At, ThenAt
  <2>2. Free("changed", reg[Scanner])
    BY <1>3, <1>1, <1>2, <1>0 DEF Free, FreePlaces, ScanPlaces, LeafPlaces, ReadPlaces, PutPlaces,
         RemovePlaces, BothPlaces, DyingPlaces
  <2> QED
    BY <1>0, <1>1, <2>1, <2>2 DEF Reading, Free
<1>4. CASE ~Changed(reg[Scanner].v, leaf[reg[Scanner].n].ver) /\ Duplicate
  <2> DEFINE r == [reg[Scanner] EXCEPT !.ki = NextPosition(reg[Scanner].ki)]
  <2>1. Goes(Scanner, "next", r)
    BY <1>4, <1>0 DEF Base, Types, Emit, Goto, Goes, s, n, At, ThenAt
  <2>2. r \in Local /\ r.kind = reg[Scanner].kind /\ r.key = reg[Scanner].key
        /\ r.val = reg[Scanner].val /\ r.n = reg[Scanner].n /\ r.nr = reg[Scanner].nr
        /\ r.aux = reg[Scanner].aux /\ r.hasTop = reg[Scanner].hasTop /\ r.kp = reg[Scanner].kp
        /\ r.ki = NextPosition(reg[Scanner].ki) /\ r.perm = reg[Scanner].perm
    BY <1>4, <1>1, <1>2 DEF Local
  <2> HIDE DEF r
  <2>3. Free("next", r)
    BY <1>4, <1>1, <1>2, <1>0, <2>2 DEF Free, FreePlaces, ScanPlaces, LeafPlaces, ReadPlaces,
         PutPlaces, RemovePlaces, BothPlaces, DyingPlaces
  <2> QED
    BY <1>0, <2>1, <2>2, <2>3 DEF Reading, Free
<1>5. CASE ~Changed(reg[Scanner].v, leaf[reg[Scanner].n].ver) /\ ~Duplicate
  <2> DEFINE r == [reg[Scanner] EXCEPT !.ki = NextPosition(reg[Scanner].ki), !.key = ikey]
  <2>1. Goes(Scanner, "next", r)
    BY <1>5, <1>0 DEF Base, Types, Emit, Goto, Goes, s, n, At, ThenAt
  <2>2. r \in Local /\ r.kind = reg[Scanner].kind /\ r.key = ikey /\ r.val = reg[Scanner].val
        /\ r.n = reg[Scanner].n /\ r.nr = reg[Scanner].nr /\ r.aux = reg[Scanner].aux
        /\ r.hasTop = reg[Scanner].hasTop /\ r.kp = reg[Scanner].kp
        /\ r.ki = NextPosition(reg[Scanner].ki) /\ r.perm = reg[Scanner].perm
    BY <1>5, <1>1, <1>2 DEF Local
  <2> HIDE DEF r
  <2>3. Free("next", r)
    BY <1>5, <1>1, <1>2, <1>0, <2>2 DEF Free, FreePlaces, ScanPlaces, LeafPlaces, ReadPlaces,
         PutPlaces, RemovePlaces, BothPlaces, DyingPlaces
  <2> QED
    BY <1>0, <2>1, <2>2, <2>3 DEF Reading, Free
<1> QED
  BY <1>3, <1>4, <1>5

LEMMA FindInitialReads ==
  ASSUME Base, FindInitial
  PROVE  Reading(Scanner)
<1>0. pc[Scanner] \in {"check", "probe"} /\ Scanner \in Threads /\ leaf' = leaf /\ top' = top
      /\ freed' = freed /\ pc[Scanner] \in FreePlaces
  BY ScannerAssumption DEF FindInitial, Searched, nodes, FreePlaces, ReadPlaces, s, n, At, ThenAt
<1>1. Free(pc[Scanner], reg[Scanner]) /\ reg[Scanner] \in Local
  BY <1>0, FreeNow DEF Free
<1>2. CASE Changed(s.v, n.ver)
  <2>1. Goes(Scanner, "advance", reg[Scanner])
    BY <1>2 DEF Base, Types, FindInitial, ThenAt, Goes
  <2>2. Free("advance", reg[Scanner])
    BY <1>0, <1>1 DEF Free, FreePlaces, ScanPlaces, LeafPlaces, ReadPlaces
  <2> QED
    BY <1>0, <1>1, <2>1, <2>2 DEF Reading, Free
<1>3. CASE ~Changed(s.v, n.ver)
  <2> DEFINE i == IF Forward /\ reg[Scanner].kp = -1 THEN reg[Scanner].lo ELSE NextPosition(reg[Scanner].lo)
             r == [reg[Scanner] EXCEPT !.kind = "rescan", !.ki = i]
  <2>1. Goes(Scanner, "next", r)
    BY <1>0, <1>3 DEF Base, Types, FindInitial, ThenAt, Goes, s, n
  <2>2. i \in Int
    BY <1>1, LocalType, WidthType DEF NextPosition
  <2> HIDE DEF i
  <2>3. /\ r \in Local /\ r.n = reg[Scanner].n /\ r.nr = reg[Scanner].nr /\ r.aux = reg[Scanner].aux
        /\ r.hasTop = reg[Scanner].hasTop /\ r.kind = "rescan"
    BY <1>1, <2>2 DEF Local, Kinds
  <2> HIDE DEF r
  <2>4. Free("next", r)
    BY <1>0, <1>1, <2>3 DEF Free, FreePlaces, ScanPlaces, LeafPlaces, ReadPlaces
  <2> QED
    BY <1>0, <2>1, <2>3, <2>4 DEF Reading, Free
<1> QED
  BY <1>2, <1>3

LEMMA LowerReads ==
  ASSUME Base, Lower
  PROVE  Reading(Scanner)
<1>0. /\ pc[Scanner] = "lower" /\ leaf' = leaf /\ top' = top /\ freed' = freed
         /\ pc[Scanner] \in FreePlaces
      /\ reg[Scanner].lo < reg[Scanner].hi /\ Scanner \in Threads
  BY ScannerAssumption DEF Lower, nodes, FreePlaces, ReadPlaces, s, n, At
<1>1. Free(pc[Scanner], reg[Scanner]) /\ reg[Scanner] \in Local
  BY <1>0, FreeNow DEF Free
<1>2. reg[Scanner].lo \in 0..Width /\ reg[Scanner].hi \in 0..Width
  BY <1>1, LocalType
<1> DEFINE m == (reg[Scanner].lo + reg[Scanner].hi) \div 2
           k == leaf[reg[Scanner].n].ikey[reg[Scanner].perm.order[m + 1]]
<1>4. m \in 0..Width /\ m + 1 \in 0..Width /\ m \in Int
  BY <1>0, <1>2, MiddleFacts
<1>5. CASE reg[Scanner].key = k /\ ~bar
  <2> DEFINE r == [reg[Scanner] EXCEPT !.ki = m]
  <2>1. Goes(Scanner, "next", r)
    BY <1>0, <1>5 DEF Base, Types, Lower, ThenAt, Goes, s, n
  <2> HIDE DEF m
  <2>2. /\ r \in Local /\ r.n = reg[Scanner].n /\ r.nr = reg[Scanner].nr /\ r.aux = reg[Scanner].aux
        /\ r.hasTop = reg[Scanner].hasTop /\ r.kind = reg[Scanner].kind /\ r.key = reg[Scanner].key
        /\ r.val = reg[Scanner].val
    BY <1>1, <1>4 DEF Local
  <2> HIDE DEF r
  <2>3. Free("next", r)
    BY <1>0, <1>1, <2>2 DEF Free, FreePlaces, ScanPlaces, LeafPlaces, ReadPlaces
  <2> QED
    BY <1>0, <2>1, <2>2, <2>3 DEF Reading, Free
<1>6. CASE ~(reg[Scanner].key = k /\ ~bar)
  <2> DEFINE r == IF reg[Scanner].key <= k THEN [reg[Scanner] EXCEPT !.hi = m]
                  ELSE [reg[Scanner] EXCEPT !.lo = m + 1]
  <2>1. Goes(Scanner, "lower", r)
    BY <1>0, <1>6 DEF Base, Types, Lower, ThenAt, Goes, s, n
  <2> HIDE DEF m, k
  <2>2. /\ r \in Local /\ r.n = reg[Scanner].n /\ r.nr = reg[Scanner].nr /\ r.aux = reg[Scanner].aux
        /\ r.hasTop = reg[Scanner].hasTop /\ r.kind = reg[Scanner].kind /\ r.key = reg[Scanner].key
        /\ r.val = reg[Scanner].val
    <3>1. CASE reg[Scanner].key <= k
      BY <3>1, <1>1, <1>4 DEF Local
    <3>2. CASE ~(reg[Scanner].key <= k)
      BY <3>2, <1>1, <1>4 DEF Local
    <3> QED
      BY <3>1, <3>2
  <2> HIDE DEF r
  <2>3. Free("lower", r)
    BY <1>0, <1>1, <2>2 DEF Free, FreePlaces, ScanPlaces, LeafPlaces, ReadPlaces
  <2> QED
    BY <1>0, <2>1, <2>2, <2>3 DEF Reading, Free
<1> QED
  BY <1>5, <1>6

LEMMA AdvanceLeafReads ==
  ASSUME Base, AdvanceLeaf
  PROVE  Reading(Scanner)
<1>0. /\ pc[Scanner] = "beyond" /\ leaf' = leaf /\ top' = top /\ freed' = freed
         /\ pc[Scanner] \in FreePlaces
      /\ Scanner \in Threads
  BY ScannerAssumption DEF AdvanceLeaf, nodes, FreePlaces, ReadPlaces, s, n, At
<1>1. Free(pc[Scanner], reg[Scanner]) /\ reg[Scanner] \in Local
  BY <1>0, FreeNow DEF Free
<1>2. reg[Scanner].n \in LeafIds
  BY <1>0, <1>1, LeafIdFacts DEF Free, LeafPlaces, ReadPlaces, OptLeaf
<1> DEFINE to == IF Forward THEN leaf[reg[Scanner].n].next ELSE leaf[reg[Scanner].n].prev
           k == IF Forward THEN reg[Scanner].key ELSE Bound(reg[Scanner].n)
           r == [reg[Scanner] EXCEPT !.n = to, !.key = k]
<1>3. to \in OptLeaf /\ to \in Nat
  BY <1>2, LeafFacts, LeafIdFacts DEF OptLeaf
<1>4. k \in Int
  BY <1>1, <1>2, LeafFacts, LocalType, WidthType DEF Bound
<1>5. CASE to = Null
  <2>1. Return(Scanner, Blank)
    BY <1>5 DEF AdvanceLeaf, s, n
  <2> QED
    BY <1>0, <2>1, ReturnReads
<1>6. CASE to # Null
  <2>1. Goes(Scanner, "changed", r)
    BY <1>0, <1>6 DEF Base, Types, AdvanceLeaf, ThenAt, Goes, s, n
  <2> HIDE DEF to, k
  <2>2. /\ r \in Local /\ r.n = to /\ r.nr = reg[Scanner].nr /\ r.aux = reg[Scanner].aux
        /\ r.hasTop = reg[Scanner].hasTop /\ r.kind = reg[Scanner].kind /\ r.val = reg[Scanner].val
    BY <1>1, <1>3, <1>4 DEF Local
  <2> HIDE DEF r
  <2>3. Free("changed", r)
    BY <1>0, <1>1, <1>3, <1>6, <2>2 DEF Free, FreePlaces, ScanPlaces, LeafPlaces, ReadPlaces
  <2> QED
    BY <1>0, <2>1, <2>2, <2>3 DEF Reading, Free
<1> QED
  BY <1>5, <1>6
-----------------------------------------------------------------------------
(* What a step of t leaves to the other threads.                            *)

Grows == LeafIds \subseteq LeafIds'

\* t does not touch the keys and the version of a leaf that another thread has locked.
Mine(t) ==
  \A l \in LeafIds : leaf[l].ver.lock /\ ~Holds(t, l) =>
    leaf'[l].ver = leaf[l].ver /\ leaf'[l].perm = leaf[l].perm /\ leaf'[l].ikey = leaf[l].ikey

LEMMA OthersRoles ==
  ASSUME NEW t \in Threads, Only(t), NEW u \in Threads \ {t}
  PROVE  /\ (HoldsLeaf(u)' <=> HoldsLeaf(u)) /\ (HoldsOther(u)' <=> HoldsOther(u))
         /\ (HoldsTop(u)' <=> HoldsTop(u)) /\ (Halving(u)' <=> Halving(u))
            /\ (Dying(u)' <=> Dying(u))
         /\ (Halved(u)' <=> Halved(u)) /\ (Inserting(u)' <=> Inserting(u))
         /\ (Puts(u)' <=> Puts(u)) /\ (Removes(u)' <=> Removes(u))
         /\ \A l : Holds(u, l)' <=> Holds(u, l)
<1>1. pc'[u] = pc[u] /\ reg'[u] = reg[u]
  BY DEF Only
<1>2. (Puts(u)' <=> Puts(u)) /\ (Removes(u)' <=> Removes(u))
  BY <1>1 DEF Puts, Removes
<1>3. /\ (Halving(u)' <=> Halving(u)) /\ (Dying(u)' <=> Dying(u)) /\ (Halved(u)' <=> Halved(u))
      /\ (Inserting(u)' <=> Inserting(u)) /\ (HoldsLeaf(u)' <=> HoldsLeaf(u))
  BY <1>1, <1>2 DEF Halving, Dying, Halved, Inserting, HoldsLeaf
<1>4. (HoldsOther(u)' <=> HoldsOther(u)) /\ (HoldsTop(u)' <=> HoldsTop(u))
  BY <1>1, <1>3 DEF HoldsOther, HoldsTop
<1>5. \A l : Holds(u, l)' <=> Holds(u, l)
  BY <1>1, <1>3, <1>4 DEF Holds
<1> QED
  BY <1>2, <1>3, <1>4, <1>5

LEMMA HoldsIsLocked ==
  ASSUME Base, NEW t \in Threads
  PROVE  /\ HoldsLeaf(t) => reg[t].n \in LeafIds /\ leaf[reg[t].n].ver.lock /\ Holds(t, reg[t].n)
         /\ HoldsOther(t) => reg[t].nr \in LeafIds /\ leaf[reg[t].nr].ver.lock
            /\ Holds(t, reg[t].nr)
         /\ HoldsOther(t) => HoldsLeaf(t) /\ reg[t].n # reg[t].nr
<1>1. HoldsLeaf(t) => pc[t] \in LeafPlaces
  BY DEF HoldsLeaf, LeafPlaces, PutPlaces, RemovePlaces, BothPlaces, DyingPlaces
<1>2. HoldsLeaf(t) => reg[t].n \in LeafIds
  BY <1>1 DEF Base, Pointers, Pointing, OptLeaf
<1>3. HoldsOther(t) => reg[t].nr \in LeafIds /\ reg[t].n # reg[t].nr
  BY DEF Base, Pointers, Pointing, OptLeaf
<1>4. HoldsLeaf(t) => Holds(t, reg[t].n)
  BY DEF Holds
<1>5. HoldsOther(t) => Holds(t, reg[t].nr)
  BY DEF Holds
<1>6. HoldsOther(t) => HoldsLeaf(t)
  BY DEF HoldsOther, HoldsLeaf, Halving, Halved, PutPlaces
<1> QED
  BY <1>2, <1>3, <1>4, <1>5, <1>6 DEF Base, Locking

LEMMA OnlyHolder ==
  ASSUME Base, NEW t \in Threads, NEW u \in Threads \ {t}, NEW l \in LeafIds, Holds(u, l)
  PROVE  leaf[l].ver.lock /\ ~Holds(t, l)
  BY DEF Base, Locking

LEMMA OthersKept ==
  ASSUME Base, NEW t \in Threads, Only(t), Grows, Mine(t), NEW u \in Threads \ {t}
  PROVE  Pointing(u)' /\ Controlled(u)' /\ Placed(u)'
<1>1. pc'[u] = pc[u] /\ reg'[u] = reg[u] /\ Pointing(u) /\ Controlled(u) /\ Placed(u)
  BY DEF Only, Base, Pointers, Control, Placing
<1>2. Pointing(u)'
  BY <1>1, OthersRoles DEF Pointing, Grows, OptLeaf
<1>3. Controlled(u)'
  BY <1>1, OthersRoles DEF Controlled
<1>4. HoldsLeaf(u) => leaf'[reg[u].n].perm = leaf[reg[u].n].perm
  BY HoldsIsLocked, OnlyHolder DEF Mine
<1>5. HoldsOther(u) => leaf'[reg[u].nr].perm = leaf[reg[u].nr].perm
  BY HoldsIsLocked, OnlyHolder DEF Mine
<1>6. Inserting(u) \/ pc[u] \in {"stamp", "unuse"} => HoldsLeaf(u)
  BY DEF Inserting, HoldsLeaf, PutPlaces
<1>7. Halving(u) => HoldsOther(u) /\ HoldsLeaf(u)
  BY DEF HoldsOther, Halving, HoldsLeaf, PutPlaces
<1>8. Halving(u) => Keep(u)' = Keep(u)
  BY <1>1, <1>4, <1>5, <1>7 DEF Keep
<1> HIDE DEF Keep
<1>9. Placed(u)'
  BY <1>1, <1>4, <1>5, <1>6, <1>7, <1>8, OthersRoles DEF Placed
<1> QED
  BY <1>2, <1>3, <1>9

\* The locks of leaves are those that other threads hold, and those of t.
LEMMA LockingKept ==
  ASSUME Base, NEW t \in Threads, Only(t), Grows, Mine(t),
         \A l \in LeafIds' : leaf'[l].ver.lock <=>
            Holds(t, l)' \/ (l \in LeafIds /\ leaf[l].ver.lock /\ ~Holds(t, l)),
         \A l \in LeafIds : Holds(t, l)' => Holds(t, l) \/ ~leaf[l].ver.lock,
         \A l \in LeafIds' : ~leaf'[l].ver.lock => Steady(leaf'[l].ver),
         pc'[t] = "decide" => Steady(leaf'[reg'[t].n].ver)
  PROVE  Locking'
<1>1. \A u \in Threads \ {t} : \A l : Holds(u, l)' <=> Holds(u, l)
  BY OthersRoles
<1>2. \A u \in Threads : \A l : Holds(u, l) => l \in LeafIds
  <2> SUFFICES ASSUME NEW u \in Threads, NEW l, Holds(u, l) PROVE l \in LeafIds
    OBVIOUS
  <2>1. (HoldsLeaf(u) => reg[u].n \in LeafIds) /\ (HoldsOther(u) => reg[u].nr \in LeafIds)
    BY HoldsIsLocked
  <2> QED
    BY <2>1 DEF Holds
<1>3. \A u \in Threads : \A l \in LeafIds : Holds(u, l) => leaf[l].ver.lock
  BY DEF Base, Locking
<1>4. \A u \in Threads \ {t} : \A l \in LeafIds : Holds(u, l) => ~Holds(t, l)
  BY OnlyHolder
<1>5. \A l \in LeafIds' : leaf'[l].ver.lock <=> \E u \in Threads : Holds(u, l)'
  <2> SUFFICES ASSUME NEW l \in LeafIds' PROVE leaf'[l].ver.lock <=> \E u \in Threads : Holds(u, l)'
    OBVIOUS
  <2>1. ASSUME leaf'[l].ver.lock, ~Holds(t, l)' PROVE \E u \in Threads : Holds(u, l)'
    <3>1. l \in LeafIds /\ leaf[l].ver.lock /\ ~Holds(t, l)
      BY <2>1
    <3>2. PICK u \in Threads : Holds(u, l)
      BY <3>1 DEF Base, Locking
    <3> QED
      BY <3>1, <3>2, <1>1
  <2>2. ASSUME NEW u \in Threads, Holds(u, l)' PROVE leaf'[l].ver.lock
    <3>1. CASE u = t
      BY <2>2, <3>1
    <3>2. CASE u # t
      <4>1. Holds(u, l) /\ u \in Threads \ {t}
        BY <1>1, <2>2, <3>2
      <4>2. l \in LeafIds /\ leaf[l].ver.lock /\ ~Holds(t, l)
        BY <4>1, <1>2, <1>3, <1>4
      <4> QED
        BY <4>2
    <3> QED
      BY <3>1, <3>2
  <2> QED
    BY <2>1, <2>2
<1>6. \A u, w \in Threads : \A l \in LeafIds' : Holds(u, l)' /\ Holds(w, l)' => u = w
  <2>1. ASSUME NEW u \in Threads \ {t}, NEW l \in LeafIds', Holds(u, l)' PROVE ~Holds(t, l)'
    <3>1. Holds(u, l) /\ l \in LeafIds
      BY <2>1, <1>1, <1>2
    <3> QED
      BY <3>1, <1>3, <1>4
  <2>2. ASSUME NEW u \in Threads \ {t}, NEW w \in Threads \ {t}, NEW l \in LeafIds', Holds(u, l)',
               Holds(w, l)'
        PROVE  u = w
    <3>1. Holds(u, l) /\ Holds(w, l) /\ l \in LeafIds
      BY <2>2, <1>1, <1>2
    <3> QED
      BY <3>1 DEF Base, Locking
  <2> QED
    BY <2>1, <2>2
<1>7. \A u \in Threads : pc'[u] = "decide" => Steady(leaf'[reg'[u].n].ver)
  <2> SUFFICES ASSUME NEW u \in Threads \ {t}, pc'[u] = "decide" PROVE Steady(leaf'[reg'[u].n].ver)
    OBVIOUS
  <2>1. pc[u] = "decide" /\ reg'[u] = reg[u]
    BY DEF Only
  <2>2. HoldsLeaf(u)
    BY <2>1 DEF HoldsLeaf
  <2>3. reg[u].n \in LeafIds /\ Holds(u, reg[u].n)
    BY <2>2, HoldsIsLocked
  <2>4. leaf'[reg[u].n].ver = leaf[reg[u].n].ver
    BY <2>3, OnlyHolder DEF Mine
  <2>5. Steady(leaf[reg[u].n].ver)
    BY <2>1 DEF Base, Locking
  <2> QED
    BY <2>1, <2>4, <2>5
<1> QED
  BY <1>5, <1>6, <1>7 DEF Locking

LEMMA TopLockingKept ==
  ASSUME Base, NEW t \in Threads, Only(t),
         top'.ver.lock <=> HoldsTop(t)' \/ (top.ver.lock /\ ~HoldsTop(t)),
         HoldsTop(t)' => HoldsTop(t) \/ ~top.ver.lock,
         top.ver.lock /\ ~HoldsTop(t) => top'.ver.ins = top.ver.ins,
         ~top'.ver.lock => ~top'.ver.ins,
         ~top'.ver.spl /\ ~top'.ver.del /\ top'.ver.vsplit = 0,
         Topped => Topped', Topped' => top'.ver.root, HoldsTop(t)' => Topped',
         pc'[t] \in {"addChild", "dropChild"} => top'.ver.ins
  PROVE  TopLocking'
<1>1. \A u \in Threads \ {t} : (HoldsTop(u)' <=> HoldsTop(u)) /\ pc'[u] = pc[u]
  BY OthersRoles DEF Only
<1>2. /\ top.ver.lock <=> \E u \in Threads : HoldsTop(u)
      /\ \A u, w \in Threads : HoldsTop(u) /\ HoldsTop(w) => u = w
      /\ \A u \in Threads : /\ HoldsTop(u) => Topped
                            /\ pc[u] \in {"addChild", "dropChild"} => top.ver.ins /\ HoldsTop(u)
  BY DEF Base, TopLocking, HoldsTop
<1>3. top'.ver.lock <=> \E u \in Threads : HoldsTop(u)'
  BY <1>1, <1>2
<1>4. \A u, w \in Threads : HoldsTop(u)' /\ HoldsTop(w)' => u = w
  BY <1>1, <1>2
<1>5. ASSUME NEW u \in Threads
      PROVE  /\ HoldsTop(u)' => Topped'
             /\ pc'[u] \in {"addChild", "dropChild"} => top'.ver.ins
  <2>1. CASE u = t
    BY <2>1
  <2>2. CASE u # t
    BY <2>2, <1>1, <1>2
  <2> QED
    BY <2>1, <2>2
<1> QED
  BY <1>3, <1>4, <1>5 DEF TopLocking

LEMMA ParentsKept ==
  ASSUME Base, NEW t \in Threads, Only(t), LeafIds' = LeafIds, Topped' = Topped,
         \A l \in LeafIds : leaf'[l].hasParent = leaf[l].hasParent,
         Pending(t) => Pending(t)' /\ reg'[t].n = reg[t].n /\ reg'[t].nr = reg[t].nr
  PROVE  Parents'
<1>1. \A u \in Threads : Pending(u) => Pending(u)' /\ reg'[u].n = reg[u].n /\ reg'[u].nr = reg[u].nr
  <2> SUFFICES ASSUME NEW u \in Threads \ {t}, Pending(u)
               PROVE  Pending(u)' /\ reg'[u].n = reg[u].n /\ reg'[u].nr = reg[u].nr
    OBVIOUS
  <2> QED
    BY OthersRoles DEF Only, Pending
<1> QED
  BY <1>1 DEF Base, Parents

\* A step that changes nothing that is shared, and holds no lock.
LEMMA ReadingKeepsBase ==
  ASSUME Base, NEW t \in Threads, Reading(t)
  PROVE  Base'
<1>1. PICK p \in FreePlaces, r \in Local : Free(p, r) /\ Goes(t, p, r)
  BY DEF Reading
<1>2. Only(t) /\ pc'[t] = p /\ reg'[t] = r
  BY <1>1, GoesFacts, FreePlaceFacts DEF Base
<1>3. leaf' = leaf /\ top' = top /\ freed' = freed /\ pc[t] \in FreePlaces /\ LeafIds' = LeafIds
  BY DEF Reading, LeafIds
<1>4. Grows /\ Mine(t)
  BY <1>3 DEF Grows, Mine
<1>5. ~HoldsLeaf(t) /\ ~HoldsOther(t) /\ ~HoldsTop(t) /\ ~Halving(t) /\ ~Dying(t) /\ ~Inserting(t)
  <2>1. ~reg[t].hasTop
    BY <1>3, FreeNow DEF Free
  <2> QED
    BY <1>3, <2>1 DEF FreePlaces, ReadPlaces, HoldsLeaf, HoldsOther, HoldsTop, Halving, Halved,
         Dying, Inserting,
                   PutPlaces, DyingPlaces
<1>6. /\ ~HoldsLeaf(t)' /\ ~HoldsOther(t)' /\ ~HoldsTop(t)' /\ ~Halving(t)' /\ ~Dying(t)'
         /\ ~Inserting(t)'
      /\ pc'[t] # "decide" /\ pc'[t] \notin {"addChild", "dropChild"}
  BY <1>1, <1>2 DEF Free, FreePlaces, ReadPlaces, HoldsLeaf, HoldsOther, HoldsTop, Halving, Halved,
       Dying, Inserting,
                   PutPlaces, DyingPlaces
<1>7. Pointing(t)'
  BY <1>1, <1>2, <1>3, <1>6 DEF Pointing, Free, FreePlaces, ReadPlaces, OptLeaf
<1>8. Controlled(t)'
  BY <1>1, <1>2, <1>6 DEF Controlled, Free, Puts, Removes, FreePlaces, ReadPlaces, PutPlaces,
       RemovePlaces,
                          DyingPlaces, BothPlaces
<1>9. Placed(t)'
  BY <1>1, <1>2, <1>6 DEF Placed, Free, FreePlaces, ReadPlaces
<1>10. \A u \in Threads : Pointing(u)' /\ Controlled(u)' /\ Placed(u)'
  BY <1>2, <1>4, <1>7, <1>8, <1>9, OthersKept
<1>11. Types'
  BY <1>2, <1>3 DEF Base, Types, Only, Topped
<1>12. Pointers'
  BY <1>3, <1>10 DEF Base, Pointers, OptLeaf
<1>13. Locking'
  <2>1. \A l : ~Holds(t, l) /\ ~Holds(t, l)'
    BY <1>5, <1>6 DEF Holds
  <2>2. \A l \in LeafIds : ~leaf[l].ver.lock => Steady(leaf[l].ver)
    BY DEF Base, Locking
  <2> QED
    BY <1>2, <1>3, <1>4, <1>6, <2>1, <2>2, LockingKept
<1>14. TopLocking'
  <2>2. /\ top'.ver.lock <=> HoldsTop(t)' \/ (top.ver.lock /\ ~HoldsTop(t))
        /\ HoldsTop(t)' => HoldsTop(t) \/ ~top.ver.lock
        /\ top.ver.lock /\ ~HoldsTop(t) => top'.ver.ins = top.ver.ins
        /\ ~top'.ver.lock => ~top'.ver.ins
        /\ ~top'.ver.spl /\ ~top'.ver.del /\ top'.ver.vsplit = 0
        /\ Topped => Topped'
        /\ Topped' => top'.ver.root
        /\ HoldsTop(t)' => Topped'
        /\ pc'[t] \in {"addChild", "dropChild"} => top'.ver.ins
    BY <1>3, <1>5, <1>6 DEF Base, TopLocking, Topped
  <2> QED
    BY <1>2, <2>2, TopLockingKept
<1>15. Parents'
  <2>1. Topped' = Topped
    BY <1>3 DEF Topped
  <2> QED
    BY <1>2, <1>3, <1>5, <2>1, ParentsKept DEF Pending
<1> QED
  BY <1>10, <1>11, <1>12, <1>13, <1>14, <1>15 DEF Base, Control, Placing
-----------------------------------------------------------------------------
(* What a step that writes a leaf may change.                               *)

Writes(l) ==
  /\ l \in LeafIds /\ leaf' \in Seq(LeafRecord) /\ leaf' # <<>> /\ LeafIds' = LeafIds
  /\ \A m \in LeafIds \ {l} : leaf'[m] = leaf[m]

SameVer(l) == leaf'[l].ver = leaf[l].ver
SameKeys(l) == leaf'[l].perm = leaf[l].perm /\ leaf'[l].ikey = leaf[l].ikey
SameLinks(l) == leaf'[l].next = leaf[l].next /\ leaf'[l].marked = leaf[l].marked
SameRest(l) == leaf'[l].prev = leaf[l].prev /\ leaf'[l].hasParent = leaf[l].hasParent

\* What a step that looks up a position or a slot leaves of the locals.
SameCall(t) ==
  /\ reg'[t].kind = reg[t].kind /\ reg'[t].key = reg[t].key /\ reg'[t].val = reg[t].val
  /\ reg'[t].v = reg[t].v /\ reg'[t].hasTop = reg[t].hasTop

LEMMA WriteFacts ==
  ASSUME Base, NEW l \in LeafIds, NEW x \in LeafRecord, leaf' = [leaf EXCEPT ![l] = x]
  PROVE  Writes(l) /\ leaf'[l] = x
<1>1. leaf \in Seq(LeafRecord) /\ LeafIds = 1..Len(leaf) /\ leaf # <<>>
  BY DEF Base, Types, LeafIds
<1>2. Len(leaf') = Len(leaf) /\ leaf' \in Seq(LeafRecord)
  BY <1>1
<1>3. LeafIds' = LeafIds
  BY <1>2 DEF LeafIds
<1> QED
  BY <1>1, <1>2, <1>3 DEF Writes

LEMMA AtLeaf ==
  ASSUME Base, NEW t \in Threads, pc[t] \in LeafPlaces
  PROVE  /\ reg[t].n \in LeafIds /\ leaf[reg[t].n] \in LeafRecord /\ reg[t] \in Local
         /\ leaf[reg[t].n].ver \in Version /\ leaf[reg[t].n].perm \in Permuters
         /\ leaf[reg[t].n].ikey \in [Slots -> Int]
         /\ leaf[reg[t].n].lv \in [Slots -> Values \cup {Blank}]
<1>1. reg[t].n \in LeafIds
  BY DEF Base, Pointers, Pointing, OptLeaf
<1>2. reg[t] \in Local
  BY DEF Base, Types
<1> QED
  BY <1>1, <1>2, LeafFacts

LEMMA FindFacts ==
  ASSUME Base, NEW l \in LeafIds, NEW k \in Int
  PROVE  /\ Find(l, k) # -1 => /\ Find(l, k) \in Slots
                               /\ \E i \in 1..leaf[l].perm.size : IkeyAt(l, i) = k
         /\ Find(l, k) = -1 => \A i \in 1..leaf[l].perm.size : IkeyAt(l, i) # k
<1>1. leaf[l].perm \in Permuters
  BY LeafFacts
<1>2. \A i \in 1..leaf[l].perm.size : leaf[l].perm.order[i] \in Slots
  BY <1>1, PermType, WidthType
<1> DEFINE here == {e \in Used(leaf[l].perm) : leaf[l].ikey[e] = k}
<1>3. Find(l, k) = IF here = {} THEN -1 ELSE CHOOSE e \in here : TRUE
  BY DEF Find
<1>4. CASE here = {}
  <2>1. Find(l, k) = -1
    BY <1>3, <1>4
  <2>2. \A i \in 1..leaf[l].perm.size : IkeyAt(l, i) # k
    BY <1>4 DEF Used, IkeyAt
  <2> QED
    BY <2>1, <2>2
<1>5. CASE here # {}
  <2>1. Find(l, k) \in here
    BY <1>3, <1>5
  <2>2. PICK i \in 1..leaf[l].perm.size : leaf[l].perm.order[i] = Find(l, k)
                                          /\ leaf[l].ikey[Find(l, k)] = k
    BY <2>1 DEF Used
  <2>3. Find(l, k) \in Slots /\ IkeyAt(l, i) = k
    BY <2>2, <1>2 DEF IkeyAt
  <2>4. Find(l, k) # -1
    BY <2>3, WidthType
  <2> QED
    BY <2>2, <2>3, <2>4
<1> QED
  BY <1>4, <1>5

LEMMA PositionType ==
  ASSUME Base, NEW l \in LeafIds, NEW k \in Int
  PROVE  /\ Position(l, k) \in 0..leaf[l].perm.size
         /\ Find(l, k) # -1 => Position(l, k) \in 0..(leaf[l].perm.size - 1)
<1>0. leaf[l].perm \in Permuters
  BY LeafFacts
<1>1. PICK z \in Nat : z = leaf[l].perm.size
  BY <1>0, PermType, WidthType
<1> DEFINE low == {i \in 1..z : IkeyAt(l, i) < k}
<1>2. Position(l, k) = Cardinality(low)
  BY <1>1 DEF Position
<1>3. low \in SUBSET (1..z)
  OBVIOUS
<1>4. Find(l, k) # -1 => \E i \in 1..z : i \notin low
  <2> SUFFICES ASSUME Find(l, k) # -1 PROVE \E i \in 1..z : i \notin low
    OBVIOUS
  <2>1. PICK i \in 1..z : IkeyAt(l, i) = k
    BY <1>1, FindFacts
  <2> QED
    BY <2>1
<1> HIDE DEF low
<1>5. Cardinality(low) \in 0..z /\ (Find(l, k) # -1 => Cardinality(low) < z)
  BY <1>3, <1>4, CountAmong
<1> QED
  BY <1>1, <1>2, <1>5
-----------------------------------------------------------------------------
(* The effect of each step that writes one leaf.                            *)

LEMMA ReturnFree ==
  ASSUME Base, NEW t \in Threads, NEW x \in Values \cup {Blank}, Return(t, x)
  PROVE  /\ Only(t) /\ pc'[t] = "done" /\ Free("done", reg'[t]) /\ reg'[t].kind = reg[t].kind
         /\ reg'[t].n = Null /\ reg'[t].nr = Null /\ reg'[t].aux = Null
<1>1. /\ Only(t) /\ pc'[t] = "done"
      /\ reg'[t].kind = reg[t].kind /\ reg'[t].key = reg[t].key /\ reg'[t].val = reg[t].val
      /\ reg'[t].n = Null /\ reg'[t].nr = Null /\ reg'[t].aux = Null /\ ~reg'[t].hasTop
  BY ReturnFacts DEF Base
<1>2. reg'[t] \in Local
  BY <1>1 DEF Only
<1>3. (Puts(t) \/ Removes(t) => reg[t].key \in Keys) /\ (Puts(t) => reg[t].val \in Values)
  BY DEF Base, Control, Controlled
<1>4. Free("done", reg'[t])
  BY <1>1, <1>2, <1>3, LeafIdFacts DEF Free, Puts, Removes, FreePlaces, ScanPlaces, LeafPlaces,
       ReadPlaces, PutPlaces,
     RemovePlaces, DyingPlaces, BothPlaces
<1> QED
  BY <1>1, <1>4

LEMMA BackInt ==
  ASSUME NEW p \in Permuters
  PROVE  Back(p) \in Int /\ Back(p) \in Slots
<1>1. Back(p) \in Slots
  BY PermType
<1> QED
  BY <1>1, WidthType

LEMMA PositionInt ==
  ASSUME Base, NEW l \in LeafIds, NEW k \in Int
  PROVE  Position(l, k) \in Int
<1>1. Position(l, k) \in 0..leaf[l].perm.size
  BY PositionType
<1> QED
  BY <1>1

LEMMA OtherBackFacts ==
  ASSUME NEW p \in Permuters, p.size < Width
  PROVE  /\ OtherBack(p) \in Permuters /\ OtherBack(p).size = p.size
         /\ \A i \in 1..p.size : OtherBack(p).order[i] = p.order[i]
         /\ Back(OtherBack(p)) = p.order[p.size + 1]
<1>1. p.size \in 0..(Width - 1) /\ Width - 1 \in 0..(Width - 1) /\ Width - 1 + 1 = Width
      /\ p.size \in Nat
  BY PermType, WidthType
<1>2. /\ Exchange(p, p.size, Width - 1) \in Permuters
         /\ Exchange(p, p.size, Width - 1).size = p.size
      /\ Exchange(p, p.size, Width - 1).order[Width - 1 + 1] = p.order[p.size + 1]
      /\ \A x \in 1..Width : x # p.size + 1 /\ x # Width - 1 + 1
         => Exchange(p, p.size, Width - 1).order[x] = p.order[x]
  <2>1. PICK i \in 0..(Width - 1) : i = p.size
    BY <1>1
  <2>2. PICK j \in 0..(Width - 1) : j = Width - 1
    BY <1>1
  <2> QED
    BY <2>1, <2>2, ExchangeFacts
<1>3. \A i \in 1..p.size : i \in 1..Width /\ i # p.size + 1 /\ i # Width - 1 + 1
  BY <1>1
<1> QED
  BY <1>1, <1>2, <1>3 DEF OtherBack, Back

LEMMA LockLeafEffect ==
  ASSUME Base, Concurrent, NEW t \in Threads, LockLeaf(t)
  PROVE  /\ pc[t] = "lock" /\ pc'[t] = "decide" /\ Only(t) /\ top' = top /\ freed' = freed
         /\ reg'[t] = reg[t]
         /\ Writes(reg[t].n)
         /\ leaf'[reg[t].n].ver = (Lock(leaf[reg[t].n].ver)) /\ SameKeys(reg[t].n)
            /\ SameLinks(reg[t].n) /\ SameRest(reg[t].n)
<1>1. pc[t] = "lock" /\ top' = top /\ freed' = freed /\ pc[t] \in LeafPlaces
  BY DEF LockLeaf, nodes, Responsible, Searched, LeafPlaces, ReadPlaces, PutPlaces, RemovePlaces,
       DyingPlaces, BothPlaces
<1>2. /\ reg[t].n \in LeafIds /\ leaf[reg[t].n] \in LeafRecord /\ reg[t] \in Local
      /\ leaf[reg[t].n].ver \in Version /\ leaf[reg[t].n].perm \in Permuters
         /\ leaf[reg[t].n].ikey \in [Slots -> Int]
      /\ leaf[reg[t].n].lv \in [Slots -> Values \cup {Blank}]
  BY <1>1, AtLeaf
<1>3. Lock(leaf[reg[t].n].ver) \in Version
  BY <1>2, LockVersion
<1> DEFINE x == [leaf[reg[t].n] EXCEPT !.ver = Lock(leaf[reg[t].n].ver)]
<1>4. leaf' = [leaf EXCEPT ![reg[t].n] = x]
  BY <1>1, <1>2, <1>3 DEF LockLeaf, Here, Base, Types, LeafIds
<1>5. x \in LeafRecord
  BY <1>1, <1>2, <1>3 DEF LeafRecord
<1>6. x.ver = (Lock(leaf[reg[t].n].ver)) /\ x.perm = leaf[reg[t].n].perm
      /\ x.ikey = leaf[reg[t].n].ikey /\ x.next = leaf[reg[t].n].next
      /\ x.marked = leaf[reg[t].n].marked /\ x.prev = leaf[reg[t].n].prev
      /\ x.hasParent = leaf[reg[t].n].hasParent
  BY <1>1, <1>2, <1>3 DEF LeafRecord
<1> HIDE DEF x
<1>7. Writes(reg[t].n) /\ leaf'[reg[t].n] = x
  BY <1>2, <1>4, <1>5, WriteFacts
<1>8. Goes(t, "decide", reg[t])
  BY <1>1, <1>2, <1>3 DEF Base, Types, LockLeaf, Goto, Goes, Here
<1>9. "decide" \in Places
  BY DEF Places
<1>10. Only(t) /\ pc'[t] = "decide" /\ reg'[t] = reg[t]
  BY <1>2, <1>8, <1>9, GoesFacts DEF Base
<1> QED
  BY <1>1, <1>6, <1>7, <1>10 DEF SameVer, SameKeys, SameLinks, SameRest

LEMMA DeletedMeanwhileEffect ==
  ASSUME Base, Concurrent, NEW t \in Threads, DeletedMeanwhile(t)
  PROVE  /\ pc[t] = "decide" /\ pc'[t] = "root" /\ Only(t) /\ top' = top /\ freed' = freed
         /\ reg'[t] = reg[t]
         /\ Writes(reg[t].n)
         /\ leaf'[reg[t].n].ver = (Unlock(leaf[reg[t].n].ver)) /\ SameKeys(reg[t].n)
            /\ SameLinks(reg[t].n) /\ SameRest(reg[t].n)
<1>1. pc[t] = "decide" /\ top' = top /\ freed' = freed /\ pc[t] \in LeafPlaces
  BY DEF DeletedMeanwhile, nodes, Responsible, Searched, LeafPlaces, ReadPlaces, PutPlaces,
       RemovePlaces, DyingPlaces, BothPlaces
<1>2. /\ reg[t].n \in LeafIds /\ leaf[reg[t].n] \in LeafRecord /\ reg[t] \in Local
      /\ leaf[reg[t].n].ver \in Version /\ leaf[reg[t].n].perm \in Permuters
         /\ leaf[reg[t].n].ikey \in [Slots -> Int]
      /\ leaf[reg[t].n].lv \in [Slots -> Values \cup {Blank}]
  BY <1>1, AtLeaf
<1>3. Unlock(leaf[reg[t].n].ver) \in Version
  BY <1>2, UnlockVersion
<1> DEFINE x == [leaf[reg[t].n] EXCEPT !.ver = Unlock(leaf[reg[t].n].ver)]
<1>4. leaf' = [leaf EXCEPT ![reg[t].n] = x]
  BY <1>1, <1>2, <1>3 DEF DeletedMeanwhile, Here, Base, Types, LeafIds
<1>5. x \in LeafRecord
  BY <1>1, <1>2, <1>3 DEF LeafRecord
<1>6. x.ver = (Unlock(leaf[reg[t].n].ver)) /\ x.perm = leaf[reg[t].n].perm
      /\ x.ikey = leaf[reg[t].n].ikey /\ x.next = leaf[reg[t].n].next
      /\ x.marked = leaf[reg[t].n].marked /\ x.prev = leaf[reg[t].n].prev
      /\ x.hasParent = leaf[reg[t].n].hasParent
  BY <1>1, <1>2, <1>3 DEF LeafRecord
<1> HIDE DEF x
<1>7. Writes(reg[t].n) /\ leaf'[reg[t].n] = x
  BY <1>2, <1>4, <1>5, WriteFacts
<1>8. Goes(t, "root", reg[t])
  BY <1>1, <1>2, <1>3 DEF Base, Types, DeletedMeanwhile, Goto, Goes, Here
<1>9. "root" \in Places
  BY DEF Places
<1>10. Only(t) /\ pc'[t] = "root" /\ reg'[t] = reg[t]
  BY <1>2, <1>8, <1>9, GoesFacts DEF Base
<1> QED
  BY <1>1, <1>6, <1>7, <1>10 DEF SameVer, SameKeys, SameLinks, SameRest

LEMMA WalkRightEffect ==
  ASSUME Base, Concurrent, NEW t \in Threads, WalkRight(t)
  PROVE  /\ pc[t] = "decide" /\ pc'[t] = "rightward" /\ Only(t) /\ top' = top /\ freed' = freed
         /\ reg'[t].n = leaf[reg[t].n].next
         /\ reg'[t] \in Local /\ reg'[t].kind = reg[t].kind /\ reg'[t].key = reg[t].key
            /\ reg'[t].val = reg[t].val /\ reg'[t].nr = reg[t].nr /\ reg'[t].aux = reg[t].aux
            /\ reg'[t].hasTop = reg[t].hasTop /\ reg'[t].toRight = reg[t].toRight
            /\ reg'[t].ki = reg[t].ki /\ reg'[t].kp = reg[t].kp /\ reg'[t].v = reg[t].v
         /\ Writes(reg[t].n)
         /\ leaf'[reg[t].n].ver = (Unlock(leaf[reg[t].n].ver)) /\ SameKeys(reg[t].n)
            /\ SameLinks(reg[t].n) /\ SameRest(reg[t].n)
<1>1. pc[t] = "decide" /\ top' = top /\ freed' = freed /\ pc[t] \in LeafPlaces
  BY DEF WalkRight, nodes, Responsible, Searched, LeafPlaces, ReadPlaces, PutPlaces, RemovePlaces,
       DyingPlaces, BothPlaces
<1>2. /\ reg[t].n \in LeafIds /\ leaf[reg[t].n] \in LeafRecord /\ reg[t] \in Local
      /\ leaf[reg[t].n].ver \in Version /\ leaf[reg[t].n].perm \in Permuters
         /\ leaf[reg[t].n].ikey \in [Slots -> Int]
      /\ leaf[reg[t].n].lv \in [Slots -> Values \cup {Blank}]
  BY <1>1, AtLeaf
<1>3. Unlock(leaf[reg[t].n].ver) \in Version
  BY <1>2, UnlockVersion
<1>4. leaf[reg[t].n].next \in Nat /\ leaf[reg[t].n].next \in LeafIds
  BY <1>2, LeafFacts, LeafIdFacts DEF WalkRight, MovedRight, Beyond, Here, OptLeaf
<1> DEFINE x == [leaf[reg[t].n] EXCEPT !.ver = Unlock(leaf[reg[t].n].ver)]
<1>5. leaf' = [leaf EXCEPT ![reg[t].n] = x]
  BY <1>1, <1>2, <1>3, <1>4 DEF WalkRight, Here, Base, Types, LeafIds
<1>6. x \in LeafRecord
  BY <1>1, <1>2, <1>3, <1>4 DEF LeafRecord
<1>7. x.ver = (Unlock(leaf[reg[t].n].ver)) /\ x.perm = leaf[reg[t].n].perm
      /\ x.ikey = leaf[reg[t].n].ikey /\ x.next = leaf[reg[t].n].next
      /\ x.marked = leaf[reg[t].n].marked /\ x.prev = leaf[reg[t].n].prev
      /\ x.hasParent = leaf[reg[t].n].hasParent
  BY <1>1, <1>2, <1>3, <1>4 DEF LeafRecord
<1> HIDE DEF x
<1>8. Writes(reg[t].n) /\ leaf'[reg[t].n] = x
  BY <1>2, <1>5, <1>6, WriteFacts
<1> DEFINE r == [reg[t] EXCEPT !.n = leaf[reg[t].n].next]
<1>9. Goes(t, "rightward", r)
  BY <1>1, <1>2, <1>3, <1>4 DEF Base, Types, WalkRight, Goto, Goes, Here
<1>10. r \in Local /\ r.kind = reg[t].kind /\ r.key = reg[t].key /\ r.val = reg[t].val
       /\ r.n = leaf[reg[t].n].next /\ r.nr = reg[t].nr /\ r.aux = reg[t].aux
       /\ r.hasTop = reg[t].hasTop /\ r.toRight = reg[t].toRight /\ r.ki = reg[t].ki
       /\ r.kp = reg[t].kp /\ r.v = reg[t].v
  BY <1>1, <1>2, <1>3, <1>4 DEF Local
<1> HIDE DEF r
<1>11. "rightward" \in Places
  BY DEF Places
<1>12. Only(t) /\ pc'[t] = "rightward" /\ reg'[t] = r
  BY <1>9, <1>10, <1>11, GoesFacts DEF Base
<1> QED
  BY <1>1, <1>7, <1>8, <1>12, <1>10 DEF SameVer, SameKeys, SameLinks, SameRest

LEMMA UpdateValueEffect ==
  ASSUME Base, Concurrent, NEW t \in Threads, UpdateValue(t)
  PROVE  /\ pc[t] = "decide" /\ pc'[t] = "done" /\ Only(t) /\ top' = top /\ freed' = freed
         /\ Free("done", reg'[t]) /\ reg'[t].kind = reg[t].kind /\ reg'[t].n = Null
            /\ reg'[t].nr = Null /\ reg'[t].aux = Null
         /\ Writes(reg[t].n)
         /\ leaf'[reg[t].n].ver = (Unlock(leaf[reg[t].n].ver)) /\ SameKeys(reg[t].n)
            /\ SameLinks(reg[t].n) /\ SameRest(reg[t].n)
<1>1. pc[t] = "decide" /\ top' = top /\ freed' = freed /\ pc[t] \in LeafPlaces
  BY DEF UpdateValue, nodes, Responsible, Searched, LeafPlaces, ReadPlaces, PutPlaces, RemovePlaces,
       DyingPlaces, BothPlaces
<1>2. /\ reg[t].n \in LeafIds /\ leaf[reg[t].n] \in LeafRecord /\ reg[t] \in Local
      /\ leaf[reg[t].n].ver \in Version /\ leaf[reg[t].n].perm \in Permuters
         /\ leaf[reg[t].n].ikey \in [Slots -> Int]
      /\ leaf[reg[t].n].lv \in [Slots -> Values \cup {Blank}]
  BY <1>1, AtLeaf
<1>3. Unlock(leaf[reg[t].n].ver) \in Version
  BY <1>2, UnlockVersion
<1>4. reg[t].key \in Int /\ reg[t].val \in Values \cup {Blank}
  BY <1>2, LocalType
<1>5. Find(reg[t].n, reg[t].key) \in Slots
  BY <1>2, <1>4, FindFacts DEF UpdateValue
<1>6. [leaf[reg[t].n].lv EXCEPT ![Find(reg[t].n, reg[t].key)] = reg[t].val] \in [Slots -> Values \cup {Blank}]
  BY <1>2, <1>4, <1>5
<1> DEFINE x == [leaf[reg[t].n] EXCEPT !.lv = [leaf[reg[t].n].lv EXCEPT ![Find(reg[t].n, reg[t].key)] = reg[t].val],
           !.ver = Unlock(leaf[reg[t].n].ver)]
<1>7. leaf' = [leaf EXCEPT ![reg[t].n] = x]
  BY <1>1, <1>2, <1>3, <1>4, <1>5, <1>6 DEF UpdateValue, Here, Base, Types, LeafIds
<1>8. x \in LeafRecord
  BY <1>1, <1>2, <1>3, <1>4, <1>5, <1>6 DEF LeafRecord
<1>9. x.ver = (Unlock(leaf[reg[t].n].ver)) /\ x.perm = leaf[reg[t].n].perm
      /\ x.ikey = leaf[reg[t].n].ikey /\ x.next = leaf[reg[t].n].next
      /\ x.marked = leaf[reg[t].n].marked /\ x.prev = leaf[reg[t].n].prev
      /\ x.hasParent = leaf[reg[t].n].hasParent
  BY <1>1, <1>2, <1>3, <1>4, <1>5, <1>6 DEF LeafRecord
<1> HIDE DEF x
<1>10. Writes(reg[t].n) /\ leaf'[reg[t].n] = x
  BY <1>2, <1>7, <1>8, WriteFacts
<1>11. reg[t].val \in Values \cup {Blank}
  BY <1>2, LocalType
<1>12. Return(t, reg[t].val)
  BY <1>1 DEF UpdateValue, Here, Responsible
<1>13. /\ Only(t) /\ pc'[t] = "done" /\ Free("done", reg'[t]) /\ reg'[t].kind = reg[t].kind
      /\ reg'[t].n = Null /\ reg'[t].nr = Null /\ reg'[t].aux = Null
  BY <1>2, <1>11, <1>12, ReturnFree
<1> QED
  BY <1>1, <1>9, <1>10, <1>13 DEF SameVer, SameKeys, SameLinks, SameRest

LEMMA RemoveAbsentEffect ==
  ASSUME Base, Concurrent, NEW t \in Threads, RemoveAbsent(t)
  PROVE  /\ pc[t] = "decide" /\ pc'[t] = "done" /\ Only(t) /\ top' = top /\ freed' = freed
         /\ Free("done", reg'[t]) /\ reg'[t].kind = reg[t].kind /\ reg'[t].n = Null
            /\ reg'[t].nr = Null /\ reg'[t].aux = Null
         /\ Writes(reg[t].n)
         /\ leaf'[reg[t].n].ver = (Unlock(leaf[reg[t].n].ver)) /\ SameKeys(reg[t].n)
            /\ SameLinks(reg[t].n) /\ SameRest(reg[t].n)
<1>1. pc[t] = "decide" /\ top' = top /\ freed' = freed /\ pc[t] \in LeafPlaces
  BY DEF RemoveAbsent, nodes, Responsible, Searched, LeafPlaces, ReadPlaces, PutPlaces,
       RemovePlaces, DyingPlaces, BothPlaces
<1>2. /\ reg[t].n \in LeafIds /\ leaf[reg[t].n] \in LeafRecord /\ reg[t] \in Local
      /\ leaf[reg[t].n].ver \in Version /\ leaf[reg[t].n].perm \in Permuters
         /\ leaf[reg[t].n].ikey \in [Slots -> Int]
      /\ leaf[reg[t].n].lv \in [Slots -> Values \cup {Blank}]
  BY <1>1, AtLeaf
<1>3. Unlock(leaf[reg[t].n].ver) \in Version
  BY <1>2, UnlockVersion
<1> DEFINE x == [leaf[reg[t].n] EXCEPT !.ver = Unlock(leaf[reg[t].n].ver)]
<1>4. leaf' = [leaf EXCEPT ![reg[t].n] = x]
  BY <1>1, <1>2, <1>3 DEF RemoveAbsent, Here, Base, Types, LeafIds
<1>5. x \in LeafRecord
  BY <1>1, <1>2, <1>3 DEF LeafRecord
<1>6. x.ver = (Unlock(leaf[reg[t].n].ver)) /\ x.perm = leaf[reg[t].n].perm
      /\ x.ikey = leaf[reg[t].n].ikey /\ x.next = leaf[reg[t].n].next
      /\ x.marked = leaf[reg[t].n].marked /\ x.prev = leaf[reg[t].n].prev
      /\ x.hasParent = leaf[reg[t].n].hasParent
  BY <1>1, <1>2, <1>3 DEF LeafRecord
<1> HIDE DEF x
<1>7. Writes(reg[t].n) /\ leaf'[reg[t].n] = x
  BY <1>2, <1>4, <1>5, WriteFacts
<1>8. Blank \in Values \cup {Blank}
  BY <1>2, LocalType
<1>9. Return(t, Blank)
  BY <1>1 DEF RemoveAbsent, Here, Responsible
<1>10. /\ Only(t) /\ pc'[t] = "done" /\ Free("done", reg'[t]) /\ reg'[t].kind = reg[t].kind
      /\ reg'[t].n = Null /\ reg'[t].nr = Null /\ reg'[t].aux = Null
  BY <1>2, <1>8, <1>9, ReturnFree
<1> QED
  BY <1>1, <1>6, <1>7, <1>10 DEF SameVer, SameKeys, SameLinks, SameRest

LEMMA KeepFirstLeafEffect ==
  ASSUME Base, Concurrent, NEW t \in Threads, KeepFirstLeaf(t)
  PROVE  /\ pc[t] = "empty" /\ pc'[t] = "done" /\ Only(t) /\ top' = top /\ freed' = freed
         /\ Free("done", reg'[t]) /\ reg'[t].kind = reg[t].kind /\ reg'[t].n = Null
            /\ reg'[t].nr = Null /\ reg'[t].aux = Null
         /\ Writes(reg[t].n)
         /\ leaf'[reg[t].n].ver = (Unlock(leaf[reg[t].n].ver)) /\ SameKeys(reg[t].n)
            /\ SameLinks(reg[t].n) /\ SameRest(reg[t].n)
<1>1. pc[t] = "empty" /\ top' = top /\ freed' = freed /\ pc[t] \in LeafPlaces
  BY DEF KeepFirstLeaf, nodes, Responsible, Searched, LeafPlaces, ReadPlaces, PutPlaces,
       RemovePlaces, DyingPlaces, BothPlaces
<1>2. /\ reg[t].n \in LeafIds /\ leaf[reg[t].n] \in LeafRecord /\ reg[t] \in Local
      /\ leaf[reg[t].n].ver \in Version /\ leaf[reg[t].n].perm \in Permuters
         /\ leaf[reg[t].n].ikey \in [Slots -> Int]
      /\ leaf[reg[t].n].lv \in [Slots -> Values \cup {Blank}]
  BY <1>1, AtLeaf
<1>3. Unlock(leaf[reg[t].n].ver) \in Version
  BY <1>2, UnlockVersion
<1> DEFINE x == [leaf[reg[t].n] EXCEPT !.ver = Unlock(leaf[reg[t].n].ver)]
<1>4. leaf' = [leaf EXCEPT ![reg[t].n] = x]
  BY <1>1, <1>2, <1>3 DEF KeepFirstLeaf, Here, Base, Types, LeafIds
<1>5. x \in LeafRecord
  BY <1>1, <1>2, <1>3 DEF LeafRecord
<1>6. x.ver = (Unlock(leaf[reg[t].n].ver)) /\ x.perm = leaf[reg[t].n].perm
      /\ x.ikey = leaf[reg[t].n].ikey /\ x.next = leaf[reg[t].n].next
      /\ x.marked = leaf[reg[t].n].marked /\ x.prev = leaf[reg[t].n].prev
      /\ x.hasParent = leaf[reg[t].n].hasParent
  BY <1>1, <1>2, <1>3 DEF LeafRecord
<1> HIDE DEF x
<1>7. Writes(reg[t].n) /\ leaf'[reg[t].n] = x
  BY <1>2, <1>4, <1>5, WriteFacts
<1>8. reg[t].lv \in Values \cup {Blank}
  BY <1>2, LocalType
<1>9. Return(t, reg[t].lv)
  BY <1>1 DEF KeepFirstLeaf, Here, Responsible
<1>10. /\ Only(t) /\ pc'[t] = "done" /\ Free("done", reg'[t]) /\ reg'[t].kind = reg[t].kind
      /\ reg'[t].n = Null /\ reg'[t].nr = Null /\ reg'[t].aux = Null
  BY <1>2, <1>8, <1>9, ReturnFree
<1> QED
  BY <1>1, <1>6, <1>7, <1>10 DEF SameVer, SameKeys, SameLinks, SameRest

LEMMA BeginInsertEffect ==
  ASSUME Base, Concurrent, NEW t \in Threads, BeginInsert(t)
  PROVE  /\ pc[t] = "decide" /\ pc'[t] = "slot" /\ Only(t) /\ top' = top /\ freed' = freed
         /\ reg'[t].ki = Position(reg[t].n, reg[t].key)
         /\ reg'[t] \in Local /\ reg'[t].kind = reg[t].kind /\ reg'[t].key = reg[t].key
            /\ reg'[t].val = reg[t].val /\ reg'[t].n = reg[t].n /\ reg'[t].nr = reg[t].nr
            /\ reg'[t].aux = reg[t].aux /\ reg'[t].hasTop = reg[t].hasTop
            /\ reg'[t].toRight = reg[t].toRight /\ reg'[t].kp = reg[t].kp /\ reg'[t].v = reg[t].v
         /\ Writes(reg[t].n)
         /\ leaf'[reg[t].n].ver = ((IF leaf[reg[t].n].mod = "remove" THEN MarkInsert(leaf[reg[t].n].ver) ELSE leaf[reg[t].n].ver))
            /\ SameKeys(reg[t].n) /\ SameLinks(reg[t].n) /\ SameRest(reg[t].n)
<1>1. pc[t] = "decide" /\ top' = top /\ freed' = freed /\ pc[t] \in LeafPlaces
  BY DEF BeginInsert, nodes, Responsible, Searched, LeafPlaces, ReadPlaces, PutPlaces, RemovePlaces,
       DyingPlaces, BothPlaces
<1>2. /\ reg[t].n \in LeafIds /\ leaf[reg[t].n] \in LeafRecord /\ reg[t] \in Local
      /\ leaf[reg[t].n].ver \in Version /\ leaf[reg[t].n].perm \in Permuters
         /\ leaf[reg[t].n].ikey \in [Slots -> Int]
      /\ leaf[reg[t].n].lv \in [Slots -> Values \cup {Blank}]
  BY <1>1, AtLeaf
<1>3. (IF leaf[reg[t].n].mod = "remove" THEN MarkInsert(leaf[reg[t].n].ver) ELSE leaf[reg[t].n].ver) \in Version
  BY <1>2, MarkInsertVersion
<1>4. reg[t].key \in Int /\ reg[t].val \in Values \cup {Blank}
  BY <1>2, LocalType
<1>5. Position(reg[t].n, reg[t].key) \in Int
  BY <1>2, <1>4, PositionInt
<1> DEFINE x == [leaf[reg[t].n] EXCEPT !.ver = (IF leaf[reg[t].n].mod = "remove" THEN MarkInsert(leaf[reg[t].n].ver) ELSE leaf[reg[t].n].ver),
           !.mod = "insert"]
<1>6. leaf' = [leaf EXCEPT ![reg[t].n] = x]
  BY <1>1, <1>2, <1>3, <1>4, <1>5 DEF BeginInsert, Here, Base, Types, LeafIds
<1>7. x \in LeafRecord
  BY <1>1, <1>2, <1>3, <1>4, <1>5 DEF LeafRecord
<1>8. x.ver = ((IF leaf[reg[t].n].mod = "remove" THEN MarkInsert(leaf[reg[t].n].ver) ELSE leaf[reg[t].n].ver))
      /\ x.perm = leaf[reg[t].n].perm /\ x.ikey = leaf[reg[t].n].ikey
      /\ x.next = leaf[reg[t].n].next /\ x.marked = leaf[reg[t].n].marked
      /\ x.prev = leaf[reg[t].n].prev /\ x.hasParent = leaf[reg[t].n].hasParent
  BY <1>1, <1>2, <1>3, <1>4, <1>5 DEF LeafRecord
<1> HIDE DEF x
<1>9. Writes(reg[t].n) /\ leaf'[reg[t].n] = x
  BY <1>2, <1>6, <1>7, WriteFacts
<1> DEFINE r == [reg[t] EXCEPT !.ki = Position(reg[t].n, reg[t].key)]
<1>10. Goes(t, "slot", r)
  BY <1>1, <1>2, <1>3, <1>4, <1>5 DEF Base, Types, BeginInsert, Goto, Goes, Here
<1>11. r \in Local /\ r.kind = reg[t].kind /\ r.key = reg[t].key /\ r.val = reg[t].val
       /\ r.n = reg[t].n /\ r.nr = reg[t].nr /\ r.aux = reg[t].aux /\ r.hasTop = reg[t].hasTop
       /\ r.toRight = reg[t].toRight /\ r.ki = Position(reg[t].n, reg[t].key) /\ r.kp = reg[t].kp
       /\ r.v = reg[t].v
  BY <1>1, <1>2, <1>3, <1>4, <1>5 DEF Local
<1> HIDE DEF r
<1>12. "slot" \in Places
  BY DEF Places
<1>13. Only(t) /\ pc'[t] = "slot" /\ reg'[t] = r
  BY <1>10, <1>11, <1>12, GoesFacts DEF Base
<1> QED
  BY <1>1, <1>8, <1>9, <1>13, <1>11 DEF SameVer, SameKeys, SameLinks, SameRest

LEMMA InsertHereEffect ==
  ASSUME Base, Concurrent, NEW t \in Threads, InsertHere(t)
  PROVE  /\ pc[t] = "slot" /\ pc'[t] = "assign" /\ Only(t) /\ top' = top /\ freed' = freed
         /\ reg'[t].kp = Back(leaf[reg[t].n].perm)
         /\ reg'[t] \in Local /\ reg'[t].kind = reg[t].kind /\ reg'[t].key = reg[t].key
            /\ reg'[t].val = reg[t].val /\ reg'[t].n = reg[t].n /\ reg'[t].nr = reg[t].nr
            /\ reg'[t].aux = reg[t].aux /\ reg'[t].hasTop = reg[t].hasTop
            /\ reg'[t].toRight = reg[t].toRight /\ reg'[t].ki = reg[t].ki /\ reg'[t].v = reg[t].v
         /\ leaf' = leaf /\ LeafIds' = LeafIds
<1>1. pc[t] = "slot" /\ top' = top /\ freed' = freed /\ pc[t] \in LeafPlaces
  BY DEF InsertHere, nodes, Responsible, Searched, LeafPlaces, ReadPlaces, PutPlaces, RemovePlaces,
       DyingPlaces, BothPlaces
<1>2. /\ reg[t].n \in LeafIds /\ leaf[reg[t].n] \in LeafRecord /\ reg[t] \in Local
      /\ leaf[reg[t].n].ver \in Version /\ leaf[reg[t].n].perm \in Permuters
         /\ leaf[reg[t].n].ikey \in [Slots -> Int]
      /\ leaf[reg[t].n].lv \in [Slots -> Values \cup {Blank}]
  BY <1>1, AtLeaf
<1>3. Back(leaf[reg[t].n].perm) \in Int
  BY <1>2, BackInt
<1>4. leaf' = leaf /\ LeafIds' = LeafIds
  BY <1>1, <1>2, <1>3 DEF InsertHere, nodes, LeafIds, Here
<1> DEFINE r == [reg[t] EXCEPT !.kp = Back(leaf[reg[t].n].perm)]
<1>5. Goes(t, "assign", r)
  BY <1>1, <1>2, <1>3 DEF Base, Types, InsertHere, Goto, Goes, Here
<1>6. r \in Local /\ r.kind = reg[t].kind /\ r.key = reg[t].key /\ r.val = reg[t].val
      /\ r.n = reg[t].n /\ r.nr = reg[t].nr /\ r.aux = reg[t].aux /\ r.hasTop = reg[t].hasTop
      /\ r.toRight = reg[t].toRight /\ r.ki = reg[t].ki /\ r.kp = Back(leaf[reg[t].n].perm)
      /\ r.v = reg[t].v
  BY <1>1, <1>2, <1>3 DEF Local
<1> HIDE DEF r
<1>7. "assign" \in Places
  BY DEF Places
<1>8. Only(t) /\ pc'[t] = "assign" /\ reg'[t] = r
  BY <1>5, <1>6, <1>7, GoesFacts DEF Base
<1> QED
  BY <1>1, <1>4, <1>8, <1>6 DEF SameVer, SameKeys, SameLinks, SameRest

LEMMA InsertExchangedEffect ==
  ASSUME Base, Concurrent, NEW t \in Threads, InsertExchanged(t)
  PROVE  /\ pc[t] = "slot" /\ pc'[t] = "assign" /\ Only(t) /\ top' = top /\ freed' = freed
         /\ reg'[t].kp = Back(OtherBack(leaf[reg[t].n].perm))
         /\ reg'[t] \in Local /\ reg'[t].kind = reg[t].kind /\ reg'[t].key = reg[t].key
            /\ reg'[t].val = reg[t].val /\ reg'[t].n = reg[t].n /\ reg'[t].nr = reg[t].nr
            /\ reg'[t].aux = reg[t].aux /\ reg'[t].hasTop = reg[t].hasTop
            /\ reg'[t].toRight = reg[t].toRight /\ reg'[t].ki = reg[t].ki /\ reg'[t].v = reg[t].v
         /\ Writes(reg[t].n)
         /\ SameVer(reg[t].n) /\ leaf'[reg[t].n].perm = (OtherBack(leaf[reg[t].n].perm))
            /\ leaf'[reg[t].n].ikey = leaf[reg[t].n].ikey /\ SameLinks(reg[t].n)
            /\ SameRest(reg[t].n)
<1>1. pc[t] = "slot" /\ top' = top /\ freed' = freed /\ pc[t] \in LeafPlaces
  BY DEF InsertExchanged, nodes, Responsible, Searched, LeafPlaces, ReadPlaces, PutPlaces,
       RemovePlaces, DyingPlaces, BothPlaces
<1>2. /\ reg[t].n \in LeafIds /\ leaf[reg[t].n] \in LeafRecord /\ reg[t] \in Local
      /\ leaf[reg[t].n].ver \in Version /\ leaf[reg[t].n].perm \in Permuters
         /\ leaf[reg[t].n].ikey \in [Slots -> Int]
      /\ leaf[reg[t].n].lv \in [Slots -> Values \cup {Blank}]
  BY <1>1, AtLeaf
<1>3. OtherBack(leaf[reg[t].n].perm) \in Permuters
  BY <1>2, OtherBackFacts DEF InsertExchanged, Here
<1>4. Back(OtherBack(leaf[reg[t].n].perm)) \in Int
  BY <1>3, BackInt
<1> DEFINE x == [leaf[reg[t].n] EXCEPT !.perm = OtherBack(leaf[reg[t].n].perm)]
<1>5. leaf' = [leaf EXCEPT ![reg[t].n] = x]
  BY <1>1, <1>2, <1>3, <1>4 DEF InsertExchanged, Here, Base, Types, LeafIds
<1>6. x \in LeafRecord
  BY <1>1, <1>2, <1>3, <1>4 DEF LeafRecord
<1>7. x.ver = leaf[reg[t].n].ver /\ x.perm = (OtherBack(leaf[reg[t].n].perm))
      /\ x.ikey = leaf[reg[t].n].ikey /\ x.next = leaf[reg[t].n].next
      /\ x.marked = leaf[reg[t].n].marked /\ x.prev = leaf[reg[t].n].prev
      /\ x.hasParent = leaf[reg[t].n].hasParent
  BY <1>1, <1>2, <1>3, <1>4 DEF LeafRecord
<1> HIDE DEF x
<1>8. Writes(reg[t].n) /\ leaf'[reg[t].n] = x
  BY <1>2, <1>5, <1>6, WriteFacts
<1> DEFINE r == [reg[t] EXCEPT !.kp = Back(OtherBack(leaf[reg[t].n].perm))]
<1>9. Goes(t, "assign", r)
  BY <1>1, <1>2, <1>3, <1>4 DEF Base, Types, InsertExchanged, Goto, Goes, Here
<1>10. r \in Local /\ r.kind = reg[t].kind /\ r.key = reg[t].key /\ r.val = reg[t].val
       /\ r.n = reg[t].n /\ r.nr = reg[t].nr /\ r.aux = reg[t].aux /\ r.hasTop = reg[t].hasTop
       /\ r.toRight = reg[t].toRight /\ r.ki = reg[t].ki
       /\ r.kp = Back(OtherBack(leaf[reg[t].n].perm)) /\ r.v = reg[t].v
  BY <1>1, <1>2, <1>3, <1>4 DEF Local
<1> HIDE DEF r
<1>11. "assign" \in Places
  BY DEF Places
<1>12. Only(t) /\ pc'[t] = "assign" /\ reg'[t] = r
  BY <1>9, <1>10, <1>11, GoesFacts DEF Base
<1> QED
  BY <1>1, <1>7, <1>8, <1>12, <1>10 DEF SameVer, SameKeys, SameLinks, SameRest

LEMMA AssignEffect ==
  ASSUME Base, Concurrent, NEW t \in Threads, Assign(t)
  PROVE  /\ pc[t] = "assign" /\ pc'[t] = "assignKey" /\ Only(t) /\ top' = top /\ freed' = freed
         /\ reg'[t] = reg[t]
         /\ Writes(reg[t].n)
         /\ SameVer(reg[t].n) /\ SameKeys(reg[t].n) /\ SameLinks(reg[t].n) /\ SameRest(reg[t].n)
<1>1. pc[t] = "assign" /\ top' = top /\ freed' = freed /\ pc[t] \in LeafPlaces
  BY DEF Assign, nodes, Responsible, Searched, LeafPlaces, ReadPlaces, PutPlaces, RemovePlaces,
       DyingPlaces, BothPlaces
<1>2. /\ reg[t].n \in LeafIds /\ leaf[reg[t].n] \in LeafRecord /\ reg[t] \in Local
      /\ leaf[reg[t].n].ver \in Version /\ leaf[reg[t].n].perm \in Permuters
         /\ leaf[reg[t].n].ikey \in [Slots -> Int]
      /\ leaf[reg[t].n].lv \in [Slots -> Values \cup {Blank}]
  BY <1>1, AtLeaf
<1>3. reg[t].kp \in Slots /\ reg[t].key \in Int /\ reg[t].val \in Values \cup {Blank}
  BY <1>1, <1>2, LocalType, PermType DEF Base, Placing, Placed, Inserting
<1>4. [leaf[reg[t].n].lv EXCEPT ![reg[t].kp] = Blank] \in [Slots -> Values \cup {Blank}]
  BY <1>2, <1>3
<1> DEFINE x == [leaf[reg[t].n] EXCEPT !.lv = [leaf[reg[t].n].lv EXCEPT ![reg[t].kp] = Blank]]
<1>5. leaf' = [leaf EXCEPT ![reg[t].n] = x]
  BY <1>1, <1>2, <1>3, <1>4 DEF Assign, Here, Base, Types, LeafIds
<1>6. x \in LeafRecord
  BY <1>1, <1>2, <1>3, <1>4 DEF LeafRecord
<1>7. x.ver = leaf[reg[t].n].ver /\ x.perm = leaf[reg[t].n].perm /\ x.ikey = leaf[reg[t].n].ikey
      /\ x.next = leaf[reg[t].n].next /\ x.marked = leaf[reg[t].n].marked
      /\ x.prev = leaf[reg[t].n].prev /\ x.hasParent = leaf[reg[t].n].hasParent
  BY <1>1, <1>2, <1>3, <1>4 DEF LeafRecord
<1> HIDE DEF x
<1>8. Writes(reg[t].n) /\ leaf'[reg[t].n] = x
  BY <1>2, <1>5, <1>6, WriteFacts
<1>9. Goes(t, "assignKey", reg[t])
  BY <1>1, <1>2, <1>3, <1>4 DEF Base, Types, Assign, Goto, Goes, Here
<1>10. "assignKey" \in Places
  BY DEF Places
<1>11. Only(t) /\ pc'[t] = "assignKey" /\ reg'[t] = reg[t]
  BY <1>2, <1>9, <1>10, GoesFacts DEF Base
<1> QED
  BY <1>1, <1>7, <1>8, <1>11 DEF SameVer, SameKeys, SameLinks, SameRest

LEMMA AssignKeyEffect ==
  ASSUME Base, Concurrent, NEW t \in Threads, AssignKey(t)
  PROVE  /\ pc[t] = "assignKey" /\ pc'[t] = (IF reg[t].nr = Null THEN "store" ELSE "unlockOther")
            /\ Only(t) /\ top' = top /\ freed' = freed
         /\ reg'[t] = reg[t]
         /\ Writes(reg[t].n)
         /\ SameVer(reg[t].n) /\ leaf'[reg[t].n].perm = leaf[reg[t].n].perm
            /\ leaf'[reg[t].n].ikey = ([leaf[reg[t].n].ikey EXCEPT ![reg[t].kp] = reg[t].key])
            /\ SameLinks(reg[t].n) /\ SameRest(reg[t].n)
<1>1. pc[t] = "assignKey" /\ top' = top /\ freed' = freed /\ pc[t] \in LeafPlaces
  BY DEF AssignKey, nodes, Responsible, Searched, LeafPlaces, ReadPlaces, PutPlaces, RemovePlaces,
       DyingPlaces, BothPlaces
<1>2. /\ reg[t].n \in LeafIds /\ leaf[reg[t].n] \in LeafRecord /\ reg[t] \in Local
      /\ leaf[reg[t].n].ver \in Version /\ leaf[reg[t].n].perm \in Permuters
         /\ leaf[reg[t].n].ikey \in [Slots -> Int]
      /\ leaf[reg[t].n].lv \in [Slots -> Values \cup {Blank}]
  BY <1>1, AtLeaf
<1>3. reg[t].kp \in Slots /\ reg[t].key \in Int /\ reg[t].val \in Values \cup {Blank}
  BY <1>1, <1>2, LocalType, PermType DEF Base, Placing, Placed, Inserting
<1>4. [leaf[reg[t].n].ikey EXCEPT ![reg[t].kp] = reg[t].key] \in [Slots -> Int]
  BY <1>2, <1>3
<1> DEFINE x == [leaf[reg[t].n] EXCEPT !.ikey = [leaf[reg[t].n].ikey EXCEPT ![reg[t].kp] = reg[t].key]]
<1>5. leaf' = [leaf EXCEPT ![reg[t].n] = x]
  BY <1>1, <1>2, <1>3, <1>4 DEF AssignKey, Here, Base, Types, LeafIds
<1>6. x \in LeafRecord
  BY <1>1, <1>2, <1>3, <1>4 DEF LeafRecord
<1>7. x.ver = leaf[reg[t].n].ver /\ x.perm = leaf[reg[t].n].perm
      /\ x.ikey = ([leaf[reg[t].n].ikey EXCEPT ![reg[t].kp] = reg[t].key])
      /\ x.next = leaf[reg[t].n].next /\ x.marked = leaf[reg[t].n].marked
      /\ x.prev = leaf[reg[t].n].prev /\ x.hasParent = leaf[reg[t].n].hasParent
  BY <1>1, <1>2, <1>3, <1>4 DEF LeafRecord
<1> HIDE DEF x
<1>8. Writes(reg[t].n) /\ leaf'[reg[t].n] = x
  BY <1>2, <1>5, <1>6, WriteFacts
<1>9. Goes(t, (IF reg[t].nr = Null THEN "store" ELSE "unlockOther"), reg[t])
  BY <1>1, <1>2, <1>3, <1>4 DEF Base, Types, AssignKey, Goto, Goes, Here
<1>10. (IF reg[t].nr = Null THEN "store" ELSE "unlockOther") \in Places
  BY DEF Places
<1>11. Only(t) /\ pc'[t] = (IF reg[t].nr = Null THEN "store" ELSE "unlockOther") /\ reg'[t] = reg[t]
  BY <1>2, <1>9, <1>10, GoesFacts DEF Base
<1> QED
  BY <1>1, <1>7, <1>8, <1>11 DEF SameVer, SameKeys, SameLinks, SameRest

LEMMA StoreEffect ==
  ASSUME Base, Concurrent, NEW t \in Threads, Store(t)
  PROVE  /\ pc[t] = "store" /\ pc'[t] = "publish" /\ Only(t) /\ top' = top /\ freed' = freed
         /\ reg'[t] = reg[t]
         /\ Writes(reg[t].n)
         /\ SameVer(reg[t].n) /\ SameKeys(reg[t].n) /\ SameLinks(reg[t].n) /\ SameRest(reg[t].n)
<1>1. pc[t] = "store" /\ top' = top /\ freed' = freed /\ pc[t] \in LeafPlaces
  BY DEF Store, nodes, Responsible, Searched, LeafPlaces, ReadPlaces, PutPlaces, RemovePlaces,
       DyingPlaces, BothPlaces
<1>2. /\ reg[t].n \in LeafIds /\ leaf[reg[t].n] \in LeafRecord /\ reg[t] \in Local
      /\ leaf[reg[t].n].ver \in Version /\ leaf[reg[t].n].perm \in Permuters
         /\ leaf[reg[t].n].ikey \in [Slots -> Int]
      /\ leaf[reg[t].n].lv \in [Slots -> Values \cup {Blank}]
  BY <1>1, AtLeaf
<1>3. reg[t].kp \in Slots /\ reg[t].key \in Int /\ reg[t].val \in Values \cup {Blank}
  BY <1>1, <1>2, LocalType, PermType DEF Base, Placing, Placed, Inserting
<1>4. [leaf[reg[t].n].lv EXCEPT ![reg[t].kp] = reg[t].val] \in [Slots -> Values \cup {Blank}]
  BY <1>2, <1>3
<1> DEFINE x == [leaf[reg[t].n] EXCEPT !.lv = [leaf[reg[t].n].lv EXCEPT ![reg[t].kp] = reg[t].val]]
<1>5. leaf' = [leaf EXCEPT ![reg[t].n] = x]
  BY <1>1, <1>2, <1>3, <1>4 DEF Store, Here, Base, Types, LeafIds
<1>6. x \in LeafRecord
  BY <1>1, <1>2, <1>3, <1>4 DEF LeafRecord
<1>7. x.ver = leaf[reg[t].n].ver /\ x.perm = leaf[reg[t].n].perm /\ x.ikey = leaf[reg[t].n].ikey
      /\ x.next = leaf[reg[t].n].next /\ x.marked = leaf[reg[t].n].marked
      /\ x.prev = leaf[reg[t].n].prev /\ x.hasParent = leaf[reg[t].n].hasParent
  BY <1>1, <1>2, <1>3, <1>4 DEF LeafRecord
<1> HIDE DEF x
<1>8. Writes(reg[t].n) /\ leaf'[reg[t].n] = x
  BY <1>2, <1>5, <1>6, WriteFacts
<1>9. Goes(t, "publish", reg[t])
  BY <1>1, <1>2, <1>3, <1>4 DEF Base, Types, Store, Goto, Goes, Here
<1>10. "publish" \in Places
  BY DEF Places
<1>11. Only(t) /\ pc'[t] = "publish" /\ reg'[t] = reg[t]
  BY <1>2, <1>9, <1>10, GoesFacts DEF Base
<1> QED
  BY <1>1, <1>7, <1>8, <1>11 DEF SameVer, SameKeys, SameLinks, SameRest

LEMMA FinishInsertEffect ==
  ASSUME Base, Concurrent, NEW t \in Threads, FinishInsert(t)
  PROVE  /\ pc[t] = "publish" /\ pc'[t] = "done" /\ Only(t) /\ top' = top /\ freed' = freed
         /\ Free("done", reg'[t]) /\ reg'[t].kind = reg[t].kind /\ reg'[t].n = Null
            /\ reg'[t].nr = Null /\ reg'[t].aux = Null
         /\ Writes(reg[t].n)
         /\ leaf'[reg[t].n].ver = (Unlock(leaf[reg[t].n].ver))
            /\ leaf'[reg[t].n].perm = (InsertFromBack(leaf[reg[t].n].perm, reg[t].ki))
            /\ leaf'[reg[t].n].ikey = leaf[reg[t].n].ikey /\ SameLinks(reg[t].n)
            /\ SameRest(reg[t].n)
<1>1. pc[t] = "publish" /\ top' = top /\ freed' = freed /\ pc[t] \in LeafPlaces
  BY DEF FinishInsert, nodes, Responsible, Searched, LeafPlaces, ReadPlaces, PutPlaces,
       RemovePlaces, DyingPlaces, BothPlaces
<1>2. /\ reg[t].n \in LeafIds /\ leaf[reg[t].n] \in LeafRecord /\ reg[t] \in Local
      /\ leaf[reg[t].n].ver \in Version /\ leaf[reg[t].n].perm \in Permuters
         /\ leaf[reg[t].n].ikey \in [Slots -> Int]
      /\ leaf[reg[t].n].lv \in [Slots -> Values \cup {Blank}]
  BY <1>1, AtLeaf
<1>3. Unlock(leaf[reg[t].n].ver) \in Version
  BY <1>2, UnlockVersion
<1>4. leaf[reg[t].n].perm.size < Width /\ reg[t].ki \in 0..leaf[reg[t].n].perm.size
  BY <1>1 DEF Base, Placing, Placed, Inserting
<1>5. InsertFromBack(leaf[reg[t].n].perm, reg[t].ki) \in Permuters
  BY <1>2, <1>4, InsertFromBackFacts
<1> DEFINE x == [leaf[reg[t].n] EXCEPT !.ver = Unlock(leaf[reg[t].n].ver),
           !.perm = InsertFromBack(leaf[reg[t].n].perm, reg[t].ki)]
<1>6. leaf' = [leaf EXCEPT ![reg[t].n] = x]
  BY <1>1, <1>2, <1>3, <1>4, <1>5 DEF FinishInsert, Here, Base, Types, LeafIds
<1>7. x \in LeafRecord
  BY <1>1, <1>2, <1>3, <1>4, <1>5 DEF LeafRecord
<1>8. x.ver = (Unlock(leaf[reg[t].n].ver))
      /\ x.perm = (InsertFromBack(leaf[reg[t].n].perm, reg[t].ki)) /\ x.ikey = leaf[reg[t].n].ikey
      /\ x.next = leaf[reg[t].n].next /\ x.marked = leaf[reg[t].n].marked
      /\ x.prev = leaf[reg[t].n].prev /\ x.hasParent = leaf[reg[t].n].hasParent
  BY <1>1, <1>2, <1>3, <1>4, <1>5 DEF LeafRecord
<1> HIDE DEF x
<1>9. Writes(reg[t].n) /\ leaf'[reg[t].n] = x
  BY <1>2, <1>6, <1>7, WriteFacts
<1>10. reg[t].val \in Values \cup {Blank}
  BY <1>2, LocalType
<1>11. Return(t, reg[t].val)
  BY <1>1 DEF FinishInsert, Here, Responsible
<1>12. /\ Only(t) /\ pc'[t] = "done" /\ Free("done", reg'[t]) /\ reg'[t].kind = reg[t].kind
      /\ reg'[t].n = Null /\ reg'[t].nr = Null /\ reg'[t].aux = Null
  BY <1>2, <1>10, <1>11, ReturnFree
<1> QED
  BY <1>1, <1>8, <1>9, <1>12 DEF SameVer, SameKeys, SameLinks, SameRest

LEMMA LockNextEffect ==
  ASSUME Base, Concurrent, NEW t \in Threads, LockNext(t)
  PROVE  /\ pc[t] = "lockNext" /\ pc'[t] = "linkBack" /\ Only(t) /\ top' = top /\ freed' = freed
         /\ reg'[t] = reg[t]
         /\ Writes(reg[t].n)
         /\ SameVer(reg[t].n) /\ SameKeys(reg[t].n) /\ leaf'[reg[t].n].next = leaf[reg[t].n].next
            /\ leaf'[reg[t].n].marked = (Mark(leaf[reg[t].n].next)) /\ SameRest(reg[t].n)
<1>1. pc[t] = "lockNext" /\ top' = top /\ freed' = freed /\ pc[t] \in LeafPlaces
  BY DEF LockNext, nodes, Responsible, Searched, LeafPlaces, ReadPlaces, PutPlaces, RemovePlaces,
       DyingPlaces, BothPlaces
<1>2. /\ reg[t].n \in LeafIds /\ leaf[reg[t].n] \in LeafRecord /\ reg[t] \in Local
      /\ leaf[reg[t].n].ver \in Version /\ leaf[reg[t].n].perm \in Permuters
         /\ leaf[reg[t].n].ikey \in [Slots -> Int]
      /\ leaf[reg[t].n].lv \in [Slots -> Values \cup {Blank}]
  BY <1>1, AtLeaf
<1>3. Mark(leaf[reg[t].n].next) \in BOOLEAN
  BY DEF Mark
<1> DEFINE x == [leaf[reg[t].n] EXCEPT !.marked = Mark(leaf[reg[t].n].next)]
<1>4. leaf' = [leaf EXCEPT ![reg[t].n] = x]
  BY <1>1, <1>2, <1>3 DEF LockNext, Here, Base, Types, LeafIds
<1>5. x \in LeafRecord
  BY <1>1, <1>2, <1>3 DEF LeafRecord
<1>6. x.ver = leaf[reg[t].n].ver /\ x.perm = leaf[reg[t].n].perm /\ x.ikey = leaf[reg[t].n].ikey
      /\ x.next = leaf[reg[t].n].next /\ x.marked = (Mark(leaf[reg[t].n].next))
      /\ x.prev = leaf[reg[t].n].prev /\ x.hasParent = leaf[reg[t].n].hasParent
  BY <1>1, <1>2, <1>3 DEF LeafRecord
<1> HIDE DEF x
<1>7. Writes(reg[t].n) /\ leaf'[reg[t].n] = x
  BY <1>2, <1>4, <1>5, WriteFacts
<1>8. Goes(t, "linkBack", reg[t])
  BY <1>1, <1>2, <1>3 DEF Base, Types, LockNext, Goto, Goes, Here
<1>9. "linkBack" \in Places
  BY DEF Places
<1>10. Only(t) /\ pc'[t] = "linkBack" /\ reg'[t] = reg[t]
  BY <1>2, <1>8, <1>9, GoesFacts DEF Base
<1> QED
  BY <1>1, <1>6, <1>7, <1>10 DEF SameVer, SameKeys, SameLinks, SameRest

LEMMA LinkEffect ==
  ASSUME Base, Concurrent, NEW t \in Threads, Link(t)
  PROVE  /\ pc[t] = "link" /\ pc'[t] = "parent" /\ Only(t) /\ top' = top /\ freed' = freed
         /\ reg'[t] = reg[t]
         /\ Writes(reg[t].n)
         /\ SameVer(reg[t].n) /\ SameKeys(reg[t].n) /\ leaf'[reg[t].n].next = (reg[t].nr)
            /\ leaf'[reg[t].n].marked = (FALSE) /\ SameRest(reg[t].n)
<1>1. pc[t] = "link" /\ top' = top /\ freed' = freed /\ pc[t] \in LeafPlaces
  BY DEF Link, nodes, Responsible, Searched, LeafPlaces, ReadPlaces, PutPlaces, RemovePlaces,
       DyingPlaces, BothPlaces
<1>2. /\ reg[t].n \in LeafIds /\ leaf[reg[t].n] \in LeafRecord /\ reg[t] \in Local
      /\ leaf[reg[t].n].ver \in Version /\ leaf[reg[t].n].perm \in Permuters
         /\ leaf[reg[t].n].ikey \in [Slots -> Int]
      /\ leaf[reg[t].n].lv \in [Slots -> Values \cup {Blank}]
  BY <1>1, AtLeaf
<1>3. reg[t].nr \in Nat
  BY <1>2, LocalType
<1> DEFINE x == [leaf[reg[t].n] EXCEPT !.next = reg[t].nr, !.marked = FALSE]
<1>4. leaf' = [leaf EXCEPT ![reg[t].n] = x]
  BY <1>1, <1>2, <1>3 DEF Link, Here, Base, Types, LeafIds
<1>5. x \in LeafRecord
  BY <1>1, <1>2, <1>3 DEF LeafRecord
<1>6. x.ver = leaf[reg[t].n].ver /\ x.perm = leaf[reg[t].n].perm /\ x.ikey = leaf[reg[t].n].ikey
      /\ x.next = (reg[t].nr) /\ x.marked = (FALSE) /\ x.prev = leaf[reg[t].n].prev
      /\ x.hasParent = leaf[reg[t].n].hasParent
  BY <1>1, <1>2, <1>3 DEF LeafRecord
<1> HIDE DEF x
<1>7. Writes(reg[t].n) /\ leaf'[reg[t].n] = x
  BY <1>2, <1>4, <1>5, WriteFacts
<1>8. Goes(t, "parent", reg[t])
  BY <1>1, <1>2, <1>3 DEF Base, Types, Link, Goto, Goes, Here
<1>9. "parent" \in Places
  BY DEF Places
<1>10. Only(t) /\ pc'[t] = "parent" /\ reg'[t] = reg[t]
  BY <1>2, <1>8, <1>9, GoesFacts DEF Base
<1> QED
  BY <1>1, <1>6, <1>7, <1>10 DEF SameVer, SameKeys, SameLinks, SameRest

LEMMA MarkLeafSplitEffect ==
  ASSUME Base, Concurrent, NEW t \in Threads, MarkLeafSplit(t)
  PROVE  /\ pc[t] = "split" /\ pc'[t] = "shrink" /\ Only(t) /\ top' = top /\ freed' = freed
         /\ reg'[t] = reg[t]
         /\ Writes(reg[t].n)
         /\ leaf'[reg[t].n].ver = (MarkSplit(leaf[reg[t].n].ver)) /\ SameKeys(reg[t].n)
            /\ SameLinks(reg[t].n) /\ SameRest(reg[t].n)
<1>1. pc[t] = "split" /\ top' = top /\ freed' = freed /\ pc[t] \in LeafPlaces
  BY DEF MarkLeafSplit, nodes, Responsible, Searched, LeafPlaces, ReadPlaces, PutPlaces,
       RemovePlaces, DyingPlaces, BothPlaces
<1>2. /\ reg[t].n \in LeafIds /\ leaf[reg[t].n] \in LeafRecord /\ reg[t] \in Local
      /\ leaf[reg[t].n].ver \in Version /\ leaf[reg[t].n].perm \in Permuters
         /\ leaf[reg[t].n].ikey \in [Slots -> Int]
      /\ leaf[reg[t].n].lv \in [Slots -> Values \cup {Blank}]
  BY <1>1, AtLeaf
<1>3. MarkSplit(leaf[reg[t].n].ver) \in Version
  BY <1>2, MarkSplitVersion
<1> DEFINE x == [leaf[reg[t].n] EXCEPT !.ver = MarkSplit(leaf[reg[t].n].ver)]
<1>4. leaf' = [leaf EXCEPT ![reg[t].n] = x]
  BY <1>1, <1>2, <1>3 DEF MarkLeafSplit, Here, Base, Types, LeafIds
<1>5. x \in LeafRecord
  BY <1>1, <1>2, <1>3 DEF LeafRecord
<1>6. x.ver = (MarkSplit(leaf[reg[t].n].ver)) /\ x.perm = leaf[reg[t].n].perm
      /\ x.ikey = leaf[reg[t].n].ikey /\ x.next = leaf[reg[t].n].next
      /\ x.marked = leaf[reg[t].n].marked /\ x.prev = leaf[reg[t].n].prev
      /\ x.hasParent = leaf[reg[t].n].hasParent
  BY <1>1, <1>2, <1>3 DEF LeafRecord
<1> HIDE DEF x
<1>7. Writes(reg[t].n) /\ leaf'[reg[t].n] = x
  BY <1>2, <1>4, <1>5, WriteFacts
<1>8. Goes(t, "shrink", reg[t])
  BY <1>1, <1>2, <1>3 DEF Base, Types, MarkLeafSplit, Goto, Goes, Here
<1>9. "shrink" \in Places
  BY DEF Places
<1>10. Only(t) /\ pc'[t] = "shrink" /\ reg'[t] = reg[t]
  BY <1>2, <1>8, <1>9, GoesFacts DEF Base
<1> QED
  BY <1>1, <1>6, <1>7, <1>10 DEF SameVer, SameKeys, SameLinks, SameRest

LEMMA UnlockOtherEffect ==
  ASSUME Base, Concurrent, NEW t \in Threads, UnlockOther(t)
  PROVE  /\ pc[t] = "unlockOther" /\ pc'[t] = (IF reg[t].hasTop THEN "unlockParent" ELSE "store")
            /\ Only(t) /\ top' = top /\ freed' = freed
         /\ reg'[t] = reg[t]
         /\ Writes(reg[t].nr)
         /\ leaf'[reg[t].nr].ver = (Unlock(leaf[reg[t].nr].ver)) /\ SameKeys(reg[t].nr)
            /\ SameLinks(reg[t].nr) /\ SameRest(reg[t].nr)
<1>1. pc[t] = "unlockOther" /\ top' = top /\ freed' = freed /\ pc[t] \in LeafPlaces
  BY DEF UnlockOther, nodes, Responsible, Searched, LeafPlaces, ReadPlaces, PutPlaces, RemovePlaces,
       DyingPlaces, BothPlaces
<1>2. /\ reg[t].n \in LeafIds /\ leaf[reg[t].n] \in LeafRecord /\ reg[t] \in Local
      /\ leaf[reg[t].n].ver \in Version /\ leaf[reg[t].n].perm \in Permuters
         /\ leaf[reg[t].n].ikey \in [Slots -> Int]
      /\ leaf[reg[t].n].lv \in [Slots -> Values \cup {Blank}]
  BY <1>1, AtLeaf
<1>3. reg[t].nr \in LeafIds /\ leaf[reg[t].nr] \in LeafRecord /\ leaf[reg[t].nr].ver \in Version
  BY <1>1, HoldsIsLocked, LeafFacts DEF HoldsOther, Halved
<1>4. Unlock(leaf[reg[t].nr].ver) \in Version
  BY <1>3, UnlockVersion
<1> DEFINE x == [leaf[reg[t].nr] EXCEPT !.ver = Unlock(leaf[reg[t].nr].ver)]
<1>5. leaf' = [leaf EXCEPT ![reg[t].nr] = x]
  BY <1>1, <1>2, <1>3, <1>4 DEF UnlockOther, Here, Base, Types, LeafIds
<1>6. x \in LeafRecord
  BY <1>1, <1>2, <1>3, <1>4 DEF LeafRecord
<1>7. x.ver = (Unlock(leaf[reg[t].nr].ver)) /\ x.perm = leaf[reg[t].nr].perm
      /\ x.ikey = leaf[reg[t].nr].ikey /\ x.next = leaf[reg[t].nr].next
      /\ x.marked = leaf[reg[t].nr].marked /\ x.prev = leaf[reg[t].nr].prev
      /\ x.hasParent = leaf[reg[t].nr].hasParent
  BY <1>1, <1>2, <1>3, <1>4 DEF LeafRecord
<1> HIDE DEF x
<1>8. Writes(reg[t].nr) /\ leaf'[reg[t].nr] = x
  BY <1>3, <1>5, <1>6, WriteFacts
<1>9. Goes(t, (IF reg[t].hasTop THEN "unlockParent" ELSE "store"), reg[t])
  BY <1>1, <1>2, <1>3, <1>4 DEF Base, Types, UnlockOther, Goto, Goes, Here
<1>10. (IF reg[t].hasTop THEN "unlockParent" ELSE "store") \in Places
  BY DEF Places
<1>11. Only(t) /\ pc'[t] = (IF reg[t].hasTop THEN "unlockParent" ELSE "store") /\ reg'[t] = reg[t]
  BY <1>2, <1>9, <1>10, GoesFacts DEF Base
<1> QED
  BY <1>1, <1>7, <1>8, <1>11 DEF SameVer, SameKeys, SameLinks, SameRest

LEMMA BeginRemoveEffect ==
  ASSUME Base, Concurrent, NEW t \in Threads, BeginRemove(t)
  PROVE  /\ pc[t] = "decide" /\ pc'[t] = "stamp" /\ Only(t) /\ top' = top /\ freed' = freed
         /\ reg'[t].ki = Position(reg[t].n, reg[t].key)
         /\ reg'[t] \in Local /\ reg'[t].kind = reg[t].kind /\ reg'[t].key = reg[t].key
            /\ reg'[t].val = reg[t].val /\ reg'[t].n = reg[t].n /\ reg'[t].nr = reg[t].nr
            /\ reg'[t].aux = reg[t].aux /\ reg'[t].hasTop = reg[t].hasTop
            /\ reg'[t].toRight = reg[t].toRight /\ reg'[t].kp = reg[t].kp /\ reg'[t].v = reg[t].v
         /\ leaf' = leaf /\ LeafIds' = LeafIds
<1>1. pc[t] = "decide" /\ top' = top /\ freed' = freed /\ pc[t] \in LeafPlaces
  BY DEF BeginRemove, nodes, Responsible, Searched, LeafPlaces, ReadPlaces, PutPlaces, RemovePlaces,
       DyingPlaces, BothPlaces
<1>2. /\ reg[t].n \in LeafIds /\ leaf[reg[t].n] \in LeafRecord /\ reg[t] \in Local
      /\ leaf[reg[t].n].ver \in Version /\ leaf[reg[t].n].perm \in Permuters
         /\ leaf[reg[t].n].ikey \in [Slots -> Int]
      /\ leaf[reg[t].n].lv \in [Slots -> Values \cup {Blank}]
  BY <1>1, AtLeaf
<1>3. reg[t].key \in Int /\ reg[t].key \in Keys
  BY <1>1, <1>2, LocalType DEF BeginRemove, Base, Control, Controlled, Removes
<1>4. Find(reg[t].n, reg[t].key) \in Slots /\ Position(reg[t].n, reg[t].key) \in Int
  BY <1>2, <1>3, FindFacts, PositionInt DEF BeginRemove
<1>5. leaf[reg[t].n].lv[Find(reg[t].n, reg[t].key)] \in Values \cup {Blank}
  BY <1>2, <1>4
<1>6. leaf[reg[t].n].ts \cup {reg[t].key} \in SUBSET Keys
  BY <1>2, <1>3, LeafType
<1>7. leaf' = leaf /\ LeafIds' = LeafIds
  BY <1>1, <1>2, <1>3, <1>4, <1>5, <1>6 DEF BeginRemove, nodes, LeafIds, Here
<1> DEFINE r == [reg[t] EXCEPT !.ki = Position(reg[t].n, reg[t].key),
           !.lv = leaf[reg[t].n].lv[Find(reg[t].n, reg[t].key)],
           !.ts = leaf[reg[t].n].ts \cup {reg[t].key}]
<1>8. Goes(t, "stamp", r)
  BY <1>1, <1>2, <1>3, <1>4, <1>5, <1>6 DEF Base, Types, BeginRemove, Goto, Goes, Here
<1>9. r \in Local /\ r.kind = reg[t].kind /\ r.key = reg[t].key /\ r.val = reg[t].val
      /\ r.n = reg[t].n /\ r.nr = reg[t].nr /\ r.aux = reg[t].aux /\ r.hasTop = reg[t].hasTop
      /\ r.toRight = reg[t].toRight /\ r.ki = Position(reg[t].n, reg[t].key) /\ r.kp = reg[t].kp
      /\ r.v = reg[t].v
  BY <1>1, <1>2, <1>3, <1>4, <1>5, <1>6 DEF Local
<1> HIDE DEF r
<1>10. "stamp" \in Places
  BY DEF Places
<1>11. Only(t) /\ pc'[t] = "stamp" /\ reg'[t] = r
  BY <1>8, <1>9, <1>10, GoesFacts DEF Base
<1> QED
  BY <1>1, <1>7, <1>11, <1>9 DEF SameVer, SameKeys, SameLinks, SameRest

LEMMA StampEffect ==
  ASSUME Base, Concurrent, NEW t \in Threads, Stamp(t)
  PROVE  /\ pc[t] = "stamp" /\ pc'[t] = "unuse" /\ Only(t) /\ top' = top /\ freed' = freed
         /\ reg'[t] = reg[t]
         /\ Writes(reg[t].n)
         /\ leaf'[reg[t].n].ver = ((IF leaf[reg[t].n].mod = "insert" THEN MarkInsert(leaf[reg[t].n].ver) ELSE leaf[reg[t].n].ver))
            /\ SameKeys(reg[t].n) /\ SameLinks(reg[t].n) /\ SameRest(reg[t].n)
<1>1. pc[t] = "stamp" /\ top' = top /\ freed' = freed /\ pc[t] \in LeafPlaces
  BY DEF Stamp, nodes, Responsible, Searched, LeafPlaces, ReadPlaces, PutPlaces, RemovePlaces,
       DyingPlaces, BothPlaces
<1>2. /\ reg[t].n \in LeafIds /\ leaf[reg[t].n] \in LeafRecord /\ reg[t] \in Local
      /\ leaf[reg[t].n].ver \in Version /\ leaf[reg[t].n].perm \in Permuters
         /\ leaf[reg[t].n].ikey \in [Slots -> Int]
      /\ leaf[reg[t].n].lv \in [Slots -> Values \cup {Blank}]
  BY <1>1, AtLeaf
<1>3. (IF leaf[reg[t].n].mod = "insert" THEN MarkInsert(leaf[reg[t].n].ver) ELSE leaf[reg[t].n].ver) \in Version
  BY <1>2, MarkInsertVersion
<1>4. reg[t].ts \in SUBSET Keys
  BY <1>2, LocalType
<1> DEFINE x == [leaf[reg[t].n] EXCEPT !.ts = reg[t].ts,
           !.ver = (IF leaf[reg[t].n].mod = "insert" THEN MarkInsert(leaf[reg[t].n].ver) ELSE leaf[reg[t].n].ver),
           !.mod = "remove"]
<1>5. leaf' = [leaf EXCEPT ![reg[t].n] = x]
  BY <1>1, <1>2, <1>3, <1>4 DEF Stamp, Here, Base, Types, LeafIds
<1>6. x \in LeafRecord
  BY <1>1, <1>2, <1>3, <1>4 DEF LeafRecord
<1>7. x.ver = ((IF leaf[reg[t].n].mod = "insert" THEN MarkInsert(leaf[reg[t].n].ver) ELSE leaf[reg[t].n].ver))
      /\ x.perm = leaf[reg[t].n].perm /\ x.ikey = leaf[reg[t].n].ikey
      /\ x.next = leaf[reg[t].n].next /\ x.marked = leaf[reg[t].n].marked
      /\ x.prev = leaf[reg[t].n].prev /\ x.hasParent = leaf[reg[t].n].hasParent
  BY <1>1, <1>2, <1>3, <1>4 DEF LeafRecord
<1> HIDE DEF x
<1>8. Writes(reg[t].n) /\ leaf'[reg[t].n] = x
  BY <1>2, <1>5, <1>6, WriteFacts
<1>9. Goes(t, "unuse", reg[t])
  BY <1>1, <1>2, <1>3, <1>4 DEF Base, Types, Stamp, Goto, Goes, Here
<1>10. "unuse" \in Places
  BY DEF Places
<1>11. Only(t) /\ pc'[t] = "unuse" /\ reg'[t] = reg[t]
  BY <1>2, <1>9, <1>10, GoesFacts DEF Base
<1> QED
  BY <1>1, <1>7, <1>8, <1>11 DEF SameVer, SameKeys, SameLinks, SameRest

LEMMA RemoveEntryEffectSome ==
  ASSUME Base, Concurrent, NEW t \in Threads, RemoveEntry(t),
         RemoveSlot(leaf[reg[t].n].perm, reg[t].ki).size > 0
  PROVE  /\ pc[t] = "unuse" /\ pc'[t] = "done" /\ Only(t) /\ top' = top /\ freed' = freed
         /\ Free("done", reg'[t]) /\ reg'[t].kind = reg[t].kind /\ reg'[t].n = Null
            /\ reg'[t].nr = Null /\ reg'[t].aux = Null
         /\ Writes(reg[t].n)
         /\ leaf'[reg[t].n].ver = (Unlock(leaf[reg[t].n].ver))
            /\ leaf'[reg[t].n].perm = (RemoveSlot(leaf[reg[t].n].perm, reg[t].ki))
            /\ leaf'[reg[t].n].ikey = leaf[reg[t].n].ikey /\ SameLinks(reg[t].n)
            /\ SameRest(reg[t].n)
<1>1. pc[t] = "unuse" /\ top' = top /\ freed' = freed /\ pc[t] \in LeafPlaces
  BY DEF RemoveEntry, nodes, Responsible, Searched, LeafPlaces, ReadPlaces, PutPlaces, RemovePlaces,
       DyingPlaces, BothPlaces
<1>2. /\ reg[t].n \in LeafIds /\ leaf[reg[t].n] \in LeafRecord /\ reg[t] \in Local
      /\ leaf[reg[t].n].ver \in Version /\ leaf[reg[t].n].perm \in Permuters
         /\ leaf[reg[t].n].ikey \in [Slots -> Int]
      /\ leaf[reg[t].n].lv \in [Slots -> Values \cup {Blank}]
  BY <1>1, AtLeaf
<1>3. reg[t].ki \in 0..(leaf[reg[t].n].perm.size - 1)
  BY <1>1 DEF Base, Placing, Placed
<1>4. RemoveSlot(leaf[reg[t].n].perm, reg[t].ki) \in Permuters
      /\ RemoveSlot(leaf[reg[t].n].perm, reg[t].ki).size = leaf[reg[t].n].perm.size - 1
  BY <1>2, <1>3, RemoveSlotFacts
<1>5. Unlock(leaf[reg[t].n].ver) \in Version
  BY <1>2, UnlockVersion
<1> DEFINE x == [leaf[reg[t].n] EXCEPT !.ver = Unlock(leaf[reg[t].n].ver),
           !.perm = RemoveSlot(leaf[reg[t].n].perm, reg[t].ki)]
<1>6. leaf' = [leaf EXCEPT ![reg[t].n] = x]
  BY <1>1, <1>2, <1>3, <1>4, <1>5 DEF RemoveEntry, Here, Base, Types, LeafIds
<1>7. x \in LeafRecord
  BY <1>1, <1>2, <1>3, <1>4, <1>5 DEF LeafRecord
<1>8. x.ver = (Unlock(leaf[reg[t].n].ver)) /\ x.perm = (RemoveSlot(leaf[reg[t].n].perm, reg[t].ki))
      /\ x.ikey = leaf[reg[t].n].ikey /\ x.next = leaf[reg[t].n].next
      /\ x.marked = leaf[reg[t].n].marked /\ x.prev = leaf[reg[t].n].prev
      /\ x.hasParent = leaf[reg[t].n].hasParent
  BY <1>1, <1>2, <1>3, <1>4, <1>5 DEF LeafRecord
<1> HIDE DEF x
<1>9. Writes(reg[t].n) /\ leaf'[reg[t].n] = x
  BY <1>2, <1>6, <1>7, WriteFacts
<1>10. reg[t].lv \in Values \cup {Blank}
  BY <1>2, LocalType
<1>11. Return(t, reg[t].lv)
  BY <1>1, <1>2, <1>3, <1>4, <1>5 DEF RemoveEntry, Here, Responsible
<1>12. /\ Only(t) /\ pc'[t] = "done" /\ Free("done", reg'[t]) /\ reg'[t].kind = reg[t].kind
      /\ reg'[t].n = Null /\ reg'[t].nr = Null /\ reg'[t].aux = Null
  BY <1>2, <1>10, <1>11, ReturnFree
<1> QED
  BY <1>1, <1>8, <1>9, <1>12 DEF SameVer, SameKeys, SameLinks, SameRest

LEMMA RemoveEntryEffectLast ==
  ASSUME Base, Concurrent, NEW t \in Threads, RemoveEntry(t),
         ~(RemoveSlot(leaf[reg[t].n].perm, reg[t].ki).size > 0)
  PROVE  /\ pc[t] = "unuse" /\ pc'[t] = "empty" /\ Only(t) /\ top' = top /\ freed' = freed
         /\ reg'[t] = reg[t]
         /\ Writes(reg[t].n)
         /\ SameVer(reg[t].n) /\ leaf'[reg[t].n].perm = (RemoveSlot(leaf[reg[t].n].perm, reg[t].ki))
            /\ leaf'[reg[t].n].ikey = leaf[reg[t].n].ikey /\ SameLinks(reg[t].n)
            /\ SameRest(reg[t].n)
<1>1. pc[t] = "unuse" /\ top' = top /\ freed' = freed /\ pc[t] \in LeafPlaces
  BY DEF RemoveEntry, nodes, Responsible, Searched, LeafPlaces, ReadPlaces, PutPlaces, RemovePlaces,
       DyingPlaces, BothPlaces
<1>2. /\ reg[t].n \in LeafIds /\ leaf[reg[t].n] \in LeafRecord /\ reg[t] \in Local
      /\ leaf[reg[t].n].ver \in Version /\ leaf[reg[t].n].perm \in Permuters
         /\ leaf[reg[t].n].ikey \in [Slots -> Int]
      /\ leaf[reg[t].n].lv \in [Slots -> Values \cup {Blank}]
  BY <1>1, AtLeaf
<1>3. reg[t].ki \in 0..(leaf[reg[t].n].perm.size - 1)
  BY <1>1 DEF Base, Placing, Placed
<1>4. RemoveSlot(leaf[reg[t].n].perm, reg[t].ki) \in Permuters
      /\ RemoveSlot(leaf[reg[t].n].perm, reg[t].ki).size = leaf[reg[t].n].perm.size - 1
  BY <1>2, <1>3, RemoveSlotFacts
<1> DEFINE x == [leaf[reg[t].n] EXCEPT !.perm = RemoveSlot(leaf[reg[t].n].perm, reg[t].ki)]
<1>5. leaf' = [leaf EXCEPT ![reg[t].n] = x]
  BY <1>1, <1>2, <1>3, <1>4 DEF RemoveEntry, Here, Base, Types, LeafIds
<1>6. x \in LeafRecord
  BY <1>1, <1>2, <1>3, <1>4 DEF LeafRecord
<1>7. x.ver = leaf[reg[t].n].ver /\ x.perm = (RemoveSlot(leaf[reg[t].n].perm, reg[t].ki))
      /\ x.ikey = leaf[reg[t].n].ikey /\ x.next = leaf[reg[t].n].next
      /\ x.marked = leaf[reg[t].n].marked /\ x.prev = leaf[reg[t].n].prev
      /\ x.hasParent = leaf[reg[t].n].hasParent
  BY <1>1, <1>2, <1>3, <1>4 DEF LeafRecord
<1> HIDE DEF x
<1>8. Writes(reg[t].n) /\ leaf'[reg[t].n] = x
  BY <1>2, <1>5, <1>6, WriteFacts
<1>9. Goes(t, "empty", reg[t])
  BY <1>1, <1>2, <1>3, <1>4 DEF Base, Types, RemoveEntry, Goto, Goes, Here
<1>10. "empty" \in Places
  BY DEF Places
<1>11. Only(t) /\ pc'[t] = "empty" /\ reg'[t] = reg[t]
  BY <1>2, <1>9, <1>10, GoesFacts DEF Base
<1> QED
  BY <1>1, <1>7, <1>8, <1>11 DEF SameVer, SameKeys, SameLinks, SameRest

LEMMA MarkLeafDeletedEffect ==
  ASSUME Base, Concurrent, NEW t \in Threads, MarkLeafDeleted(t)
  PROVE  /\ pc[t] = "empty" /\ pc'[t] = "readKeeper" /\ Only(t) /\ top' = top /\ freed' = freed
         /\ reg'[t] = reg[t]
         /\ Writes(reg[t].n)
         /\ leaf'[reg[t].n].ver = (MarkDeleted(leaf[reg[t].n].ver)) /\ SameKeys(reg[t].n)
            /\ SameLinks(reg[t].n) /\ SameRest(reg[t].n)
<1>1. pc[t] = "empty" /\ top' = top /\ freed' = freed /\ pc[t] \in LeafPlaces
  BY DEF MarkLeafDeleted, nodes, Responsible, Searched, LeafPlaces, ReadPlaces, PutPlaces,
       RemovePlaces, DyingPlaces, BothPlaces
<1>2. /\ reg[t].n \in LeafIds /\ leaf[reg[t].n] \in LeafRecord /\ reg[t] \in Local
      /\ leaf[reg[t].n].ver \in Version /\ leaf[reg[t].n].perm \in Permuters
         /\ leaf[reg[t].n].ikey \in [Slots -> Int]
      /\ leaf[reg[t].n].lv \in [Slots -> Values \cup {Blank}]
  BY <1>1, AtLeaf
<1>3. MarkDeleted(leaf[reg[t].n].ver) \in Version
  BY <1>2, MarkDeletedVersion
<1> DEFINE x == [leaf[reg[t].n] EXCEPT !.ver = MarkDeleted(leaf[reg[t].n].ver)]
<1>4. leaf' = [leaf EXCEPT ![reg[t].n] = x]
  BY <1>1, <1>2, <1>3 DEF MarkLeafDeleted, Here, Base, Types, LeafIds
<1>5. x \in LeafRecord
  BY <1>1, <1>2, <1>3 DEF LeafRecord
<1>6. x.ver = (MarkDeleted(leaf[reg[t].n].ver)) /\ x.perm = leaf[reg[t].n].perm
      /\ x.ikey = leaf[reg[t].n].ikey /\ x.next = leaf[reg[t].n].next
      /\ x.marked = leaf[reg[t].n].marked /\ x.prev = leaf[reg[t].n].prev
      /\ x.hasParent = leaf[reg[t].n].hasParent
  BY <1>1, <1>2, <1>3 DEF LeafRecord
<1> HIDE DEF x
<1>7. Writes(reg[t].n) /\ leaf'[reg[t].n] = x
  BY <1>2, <1>4, <1>5, WriteFacts
<1>8. Goes(t, "readKeeper", reg[t])
  BY <1>1, <1>2, <1>3 DEF Base, Types, MarkLeafDeleted, Goto, Goes, Here
<1>9. "readKeeper" \in Places
  BY DEF Places
<1>10. Only(t) /\ pc'[t] = "readKeeper" /\ reg'[t] = reg[t]
  BY <1>2, <1>8, <1>9, GoesFacts DEF Base
<1> QED
  BY <1>1, <1>6, <1>7, <1>10 DEF SameVer, SameKeys, SameLinks, SameRest

LEMMA ReadKeeperEffect ==
  ASSUME Base, Concurrent, NEW t \in Threads, ReadKeeper(t)
  PROVE  /\ pc[t] = "readKeeper" /\ pc'[t] = "raise" /\ Only(t) /\ top' = top /\ freed' = freed
         /\ reg'[t].aux = leaf[reg[t].n].prev
         /\ reg'[t] \in Local /\ reg'[t].kind = reg[t].kind /\ reg'[t].key = reg[t].key
            /\ reg'[t].val = reg[t].val /\ reg'[t].n = reg[t].n /\ reg'[t].nr = reg[t].nr
            /\ reg'[t].hasTop = reg[t].hasTop /\ reg'[t].toRight = reg[t].toRight
            /\ reg'[t].ki = reg[t].ki /\ reg'[t].kp = reg[t].kp /\ reg'[t].v = reg[t].v
         /\ leaf' = leaf /\ LeafIds' = LeafIds
<1>1. pc[t] = "readKeeper" /\ top' = top /\ freed' = freed /\ pc[t] \in LeafPlaces
  BY DEF ReadKeeper, nodes, Responsible, Searched, LeafPlaces, ReadPlaces, PutPlaces, RemovePlaces,
       DyingPlaces, BothPlaces
<1>2. /\ reg[t].n \in LeafIds /\ leaf[reg[t].n] \in LeafRecord /\ reg[t] \in Local
      /\ leaf[reg[t].n].ver \in Version /\ leaf[reg[t].n].perm \in Permuters
         /\ leaf[reg[t].n].ikey \in [Slots -> Int]
      /\ leaf[reg[t].n].lv \in [Slots -> Values \cup {Blank}]
  BY <1>1, AtLeaf
<1>3. leaf[reg[t].n].prev \in Nat
  BY <1>2, LeafType
<1>4. leaf' = leaf /\ LeafIds' = LeafIds
  BY <1>1, <1>2, <1>3 DEF ReadKeeper, nodes, LeafIds, Here
<1> DEFINE r == [reg[t] EXCEPT !.aux = leaf[reg[t].n].prev]
<1>5. Goes(t, "raise", r)
  BY <1>1, <1>2, <1>3 DEF Base, Types, ReadKeeper, Goto, Goes, Here
<1>6. r \in Local /\ r.kind = reg[t].kind /\ r.key = reg[t].key /\ r.val = reg[t].val
      /\ r.n = reg[t].n /\ r.nr = reg[t].nr /\ r.aux = leaf[reg[t].n].prev
      /\ r.hasTop = reg[t].hasTop /\ r.toRight = reg[t].toRight /\ r.ki = reg[t].ki
      /\ r.kp = reg[t].kp /\ r.v = reg[t].v
  BY <1>1, <1>2, <1>3 DEF Local
<1> HIDE DEF r
<1>7. "raise" \in Places
  BY DEF Places
<1>8. Only(t) /\ pc'[t] = "raise" /\ reg'[t] = r
  BY <1>5, <1>6, <1>7, GoesFacts DEF Base
<1> QED
  BY <1>1, <1>4, <1>8, <1>6 DEF SameVer, SameKeys, SameLinks, SameRest

LEMMA RaiseEffect ==
  ASSUME Base, Concurrent, NEW t \in Threads, Raise(t)
  PROVE  /\ pc[t] = "raise" /\ pc'[t] = "checkKeeper" /\ Only(t) /\ top' = top /\ freed' = freed
         /\ reg'[t] = reg[t]
         /\ Writes(reg[t].aux)
         /\ SameVer(reg[t].aux) /\ SameKeys(reg[t].aux) /\ SameLinks(reg[t].aux)
            /\ SameRest(reg[t].aux)
<1>1. pc[t] = "raise" /\ top' = top /\ freed' = freed /\ pc[t] \in LeafPlaces
  BY DEF Raise, nodes, Responsible, Searched, LeafPlaces, ReadPlaces, PutPlaces, RemovePlaces,
       DyingPlaces, BothPlaces
<1>2. /\ reg[t].n \in LeafIds /\ leaf[reg[t].n] \in LeafRecord /\ reg[t] \in Local
      /\ leaf[reg[t].n].ver \in Version /\ leaf[reg[t].n].perm \in Permuters
         /\ leaf[reg[t].n].ikey \in [Slots -> Int]
      /\ leaf[reg[t].n].lv \in [Slots -> Values \cup {Blank}]
  BY <1>1, AtLeaf
<1>3. reg[t].aux \in LeafIds /\ leaf[reg[t].aux] \in LeafRecord
  BY <1>1, LeafFacts DEF Base, Pointers, Pointing, OptLeaf
<1>4. leaf[reg[t].aux].ts \cup leaf[reg[t].n].ts \in SUBSET Keys
  BY <1>2, <1>3, LeafType
<1> DEFINE x == [leaf[reg[t].aux] EXCEPT !.ts = leaf[reg[t].aux].ts \cup leaf[reg[t].n].ts]
<1>5. leaf' = [leaf EXCEPT ![reg[t].aux] = x]
  BY <1>1, <1>2, <1>3, <1>4 DEF Raise, Here, Base, Types, LeafIds
<1>6. x \in LeafRecord
  BY <1>1, <1>2, <1>3, <1>4 DEF LeafRecord
<1>7. x.ver = leaf[reg[t].aux].ver /\ x.perm = leaf[reg[t].aux].perm
      /\ x.ikey = leaf[reg[t].aux].ikey /\ x.next = leaf[reg[t].aux].next
      /\ x.marked = leaf[reg[t].aux].marked /\ x.prev = leaf[reg[t].aux].prev
      /\ x.hasParent = leaf[reg[t].aux].hasParent
  BY <1>1, <1>2, <1>3, <1>4 DEF LeafRecord
<1> HIDE DEF x
<1>8. Writes(reg[t].aux) /\ leaf'[reg[t].aux] = x
  BY <1>3, <1>5, <1>6, WriteFacts
<1>9. Goes(t, "checkKeeper", reg[t])
  BY <1>1, <1>2, <1>3, <1>4 DEF Base, Types, Raise, Goto, Goes, Here
<1>10. "checkKeeper" \in Places
  BY DEF Places
<1>11. Only(t) /\ pc'[t] = "checkKeeper" /\ reg'[t] = reg[t]
  BY <1>2, <1>9, <1>10, GoesFacts DEF Base
<1> QED
  BY <1>1, <1>7, <1>8, <1>11 DEF SameVer, SameKeys, SameLinks, SameRest

LEMMA CheckKeeperEffect ==
  ASSUME Base, Concurrent, NEW t \in Threads, CheckKeeper(t)
  PROVE  /\ pc[t] = "checkKeeper"
            /\ pc'[t] = (IF reg[t].aux = leaf[reg[t].n].prev THEN "unlinkNext" ELSE "readKeeper")
            /\ Only(t) /\ top' = top /\ freed' = freed
         /\ reg'[t] = reg[t]
         /\ leaf' = leaf /\ LeafIds' = LeafIds
<1>1. pc[t] = "checkKeeper" /\ top' = top /\ freed' = freed /\ pc[t] \in LeafPlaces
  BY DEF CheckKeeper, nodes, Responsible, Searched, LeafPlaces, ReadPlaces, PutPlaces, RemovePlaces,
       DyingPlaces, BothPlaces
<1>2. /\ reg[t].n \in LeafIds /\ leaf[reg[t].n] \in LeafRecord /\ reg[t] \in Local
      /\ leaf[reg[t].n].ver \in Version /\ leaf[reg[t].n].perm \in Permuters
         /\ leaf[reg[t].n].ikey \in [Slots -> Int]
      /\ leaf[reg[t].n].lv \in [Slots -> Values \cup {Blank}]
  BY <1>1, AtLeaf
<1>3. leaf' = leaf /\ LeafIds' = LeafIds
  BY <1>1, <1>2 DEF CheckKeeper, nodes, LeafIds, Here
<1>4. Goes(t, (IF reg[t].aux = leaf[reg[t].n].prev THEN "unlinkNext" ELSE "readKeeper"), reg[t])
  BY <1>1, <1>2 DEF Base, Types, CheckKeeper, Goto, Goes, Here
<1>5. (IF reg[t].aux = leaf[reg[t].n].prev THEN "unlinkNext" ELSE "readKeeper") \in Places
  BY DEF Places
<1>6. Only(t) /\ pc'[t] = (IF reg[t].aux = leaf[reg[t].n].prev THEN "unlinkNext" ELSE "readKeeper")
      /\ reg'[t] = reg[t]
  BY <1>2, <1>4, <1>5, GoesFacts DEF Base
<1> QED
  BY <1>1, <1>3, <1>6 DEF SameVer, SameKeys, SameLinks, SameRest

LEMMA UnlinkNextEffect ==
  ASSUME Base, Concurrent, NEW t \in Threads, UnlinkNext(t)
  PROVE  /\ pc[t] = "unlinkNext" /\ pc'[t] = "readPrev" /\ Only(t) /\ top' = top /\ freed' = freed
         /\ reg'[t] = reg[t]
         /\ Writes(reg[t].n)
         /\ SameVer(reg[t].n) /\ SameKeys(reg[t].n) /\ leaf'[reg[t].n].next = leaf[reg[t].n].next
            /\ leaf'[reg[t].n].marked = (Mark(leaf[reg[t].n].next)) /\ SameRest(reg[t].n)
<1>1. pc[t] = "unlinkNext" /\ top' = top /\ freed' = freed /\ pc[t] \in LeafPlaces
  BY DEF UnlinkNext, nodes, Responsible, Searched, LeafPlaces, ReadPlaces, PutPlaces, RemovePlaces,
       DyingPlaces, BothPlaces
<1>2. /\ reg[t].n \in LeafIds /\ leaf[reg[t].n] \in LeafRecord /\ reg[t] \in Local
      /\ leaf[reg[t].n].ver \in Version /\ leaf[reg[t].n].perm \in Permuters
         /\ leaf[reg[t].n].ikey \in [Slots -> Int]
      /\ leaf[reg[t].n].lv \in [Slots -> Values \cup {Blank}]
  BY <1>1, AtLeaf
<1>3. Mark(leaf[reg[t].n].next) \in BOOLEAN
  BY DEF Mark
<1> DEFINE x == [leaf[reg[t].n] EXCEPT !.marked = Mark(leaf[reg[t].n].next)]
<1>4. leaf' = [leaf EXCEPT ![reg[t].n] = x]
  BY <1>1, <1>2, <1>3 DEF UnlinkNext, Here, Base, Types, LeafIds
<1>5. x \in LeafRecord
  BY <1>1, <1>2, <1>3 DEF LeafRecord
<1>6. x.ver = leaf[reg[t].n].ver /\ x.perm = leaf[reg[t].n].perm /\ x.ikey = leaf[reg[t].n].ikey
      /\ x.next = leaf[reg[t].n].next /\ x.marked = (Mark(leaf[reg[t].n].next))
      /\ x.prev = leaf[reg[t].n].prev /\ x.hasParent = leaf[reg[t].n].hasParent
  BY <1>1, <1>2, <1>3 DEF LeafRecord
<1> HIDE DEF x
<1>7. Writes(reg[t].n) /\ leaf'[reg[t].n] = x
  BY <1>2, <1>4, <1>5, WriteFacts
<1>8. Goes(t, "readPrev", reg[t])
  BY <1>1, <1>2, <1>3 DEF Base, Types, UnlinkNext, Goto, Goes, Here
<1>9. "readPrev" \in Places
  BY DEF Places
<1>10. Only(t) /\ pc'[t] = "readPrev" /\ reg'[t] = reg[t]
  BY <1>2, <1>8, <1>9, GoesFacts DEF Base
<1> QED
  BY <1>1, <1>6, <1>7, <1>10 DEF SameVer, SameKeys, SameLinks, SameRest

LEMMA ReadPrevEffect ==
  ASSUME Base, Concurrent, NEW t \in Threads, ReadPrev(t)
  PROVE  /\ pc[t] = "readPrev" /\ pc'[t] = "markPrev" /\ Only(t) /\ top' = top /\ freed' = freed
         /\ reg'[t].aux = leaf[reg[t].n].prev
         /\ reg'[t] \in Local /\ reg'[t].kind = reg[t].kind /\ reg'[t].key = reg[t].key
            /\ reg'[t].val = reg[t].val /\ reg'[t].n = reg[t].n /\ reg'[t].nr = reg[t].nr
            /\ reg'[t].hasTop = reg[t].hasTop /\ reg'[t].toRight = reg[t].toRight
            /\ reg'[t].ki = reg[t].ki /\ reg'[t].kp = reg[t].kp /\ reg'[t].v = reg[t].v
         /\ leaf' = leaf /\ LeafIds' = LeafIds
<1>1. pc[t] = "readPrev" /\ top' = top /\ freed' = freed /\ pc[t] \in LeafPlaces
  BY DEF ReadPrev, nodes, Responsible, Searched, LeafPlaces, ReadPlaces, PutPlaces, RemovePlaces,
       DyingPlaces, BothPlaces
<1>2. /\ reg[t].n \in LeafIds /\ leaf[reg[t].n] \in LeafRecord /\ reg[t] \in Local
      /\ leaf[reg[t].n].ver \in Version /\ leaf[reg[t].n].perm \in Permuters
         /\ leaf[reg[t].n].ikey \in [Slots -> Int]
      /\ leaf[reg[t].n].lv \in [Slots -> Values \cup {Blank}]
  BY <1>1, AtLeaf
<1>3. leaf[reg[t].n].prev \in Nat
  BY <1>2, LeafType
<1>4. leaf' = leaf /\ LeafIds' = LeafIds
  BY <1>1, <1>2, <1>3 DEF ReadPrev, nodes, LeafIds, Here
<1> DEFINE r == [reg[t] EXCEPT !.aux = leaf[reg[t].n].prev]
<1>5. Goes(t, "markPrev", r)
  BY <1>1, <1>2, <1>3 DEF Base, Types, ReadPrev, Goto, Goes, Here
<1>6. r \in Local /\ r.kind = reg[t].kind /\ r.key = reg[t].key /\ r.val = reg[t].val
      /\ r.n = reg[t].n /\ r.nr = reg[t].nr /\ r.aux = leaf[reg[t].n].prev
      /\ r.hasTop = reg[t].hasTop /\ r.toRight = reg[t].toRight /\ r.ki = reg[t].ki
      /\ r.kp = reg[t].kp /\ r.v = reg[t].v
  BY <1>1, <1>2, <1>3 DEF Local
<1> HIDE DEF r
<1>7. "markPrev" \in Places
  BY DEF Places
<1>8. Only(t) /\ pc'[t] = "markPrev" /\ reg'[t] = r
  BY <1>5, <1>6, <1>7, GoesFacts DEF Base
<1> QED
  BY <1>1, <1>4, <1>8, <1>6 DEF SameVer, SameKeys, SameLinks, SameRest

LEMMA MarkPrevEffectDone ==
  ASSUME Base, Concurrent, NEW t \in Threads, MarkPrev(t),
         leaf[reg[t].aux].next = reg[t].n /\ ~leaf[reg[t].aux].marked
  PROVE  /\ pc[t] = "markPrev" /\ pc'[t] = "unlinkBack" /\ Only(t) /\ top' = top /\ freed' = freed
         /\ reg'[t] = reg[t]
         /\ Writes(reg[t].aux)
         /\ SameVer(reg[t].aux) /\ SameKeys(reg[t].aux)
            /\ leaf'[reg[t].aux].next = leaf[reg[t].aux].next /\ leaf'[reg[t].aux].marked = (TRUE)
            /\ SameRest(reg[t].aux)
<1>1. pc[t] = "markPrev" /\ top' = top /\ freed' = freed /\ pc[t] \in LeafPlaces
  BY DEF MarkPrev, nodes, Responsible, Searched, LeafPlaces, ReadPlaces, PutPlaces, RemovePlaces,
       DyingPlaces, BothPlaces
<1>2. /\ reg[t].n \in LeafIds /\ leaf[reg[t].n] \in LeafRecord /\ reg[t] \in Local
      /\ leaf[reg[t].n].ver \in Version /\ leaf[reg[t].n].perm \in Permuters
         /\ leaf[reg[t].n].ikey \in [Slots -> Int]
      /\ leaf[reg[t].n].lv \in [Slots -> Values \cup {Blank}]
  BY <1>1, AtLeaf
<1>3. reg[t].aux \in LeafIds /\ leaf[reg[t].aux] \in LeafRecord
  BY <1>1, LeafFacts DEF Base, Pointers, Pointing, OptLeaf
<1>4. Mark(reg[t].n) = TRUE
  BY <1>2, LeafIdFacts DEF Mark
<1> DEFINE x == [leaf[reg[t].aux] EXCEPT !.marked = TRUE]
<1>5. leaf' = [leaf EXCEPT ![reg[t].aux] = x]
  BY <1>1, <1>2, <1>3, <1>4 DEF MarkPrev, Here, Base, Types, LeafIds
<1>6. x \in LeafRecord
  BY <1>1, <1>2, <1>3, <1>4 DEF LeafRecord
<1>7. x.ver = leaf[reg[t].aux].ver /\ x.perm = leaf[reg[t].aux].perm
      /\ x.ikey = leaf[reg[t].aux].ikey /\ x.next = leaf[reg[t].aux].next /\ x.marked = (TRUE)
      /\ x.prev = leaf[reg[t].aux].prev /\ x.hasParent = leaf[reg[t].aux].hasParent
  BY <1>1, <1>2, <1>3, <1>4 DEF LeafRecord
<1> HIDE DEF x
<1>8. Writes(reg[t].aux) /\ leaf'[reg[t].aux] = x
  BY <1>3, <1>5, <1>6, WriteFacts
<1>9. Goes(t, "unlinkBack", reg[t])
  BY <1>1, <1>2, <1>3, <1>4 DEF Base, Types, MarkPrev, Goto, Goes, Here
<1>10. "unlinkBack" \in Places
  BY DEF Places
<1>11. Only(t) /\ pc'[t] = "unlinkBack" /\ reg'[t] = reg[t]
  BY <1>2, <1>9, <1>10, GoesFacts DEF Base
<1> QED
  BY <1>1, <1>7, <1>8, <1>11 DEF SameVer, SameKeys, SameLinks, SameRest

LEMMA MarkPrevEffectAgain ==
  ASSUME Base, Concurrent, NEW t \in Threads, MarkPrev(t),
         ~(leaf[reg[t].aux].next = reg[t].n /\ ~leaf[reg[t].aux].marked)
  PROVE  /\ pc[t] = "markPrev" /\ pc'[t] = "readPrev" /\ Only(t) /\ top' = top /\ freed' = freed
         /\ reg'[t] = reg[t]
         /\ leaf' = leaf /\ LeafIds' = LeafIds
<1>1. pc[t] = "markPrev" /\ top' = top /\ freed' = freed /\ pc[t] \in LeafPlaces
  BY DEF MarkPrev, nodes, Responsible, Searched, LeafPlaces, ReadPlaces, PutPlaces, RemovePlaces,
       DyingPlaces, BothPlaces
<1>2. /\ reg[t].n \in LeafIds /\ leaf[reg[t].n] \in LeafRecord /\ reg[t] \in Local
      /\ leaf[reg[t].n].ver \in Version /\ leaf[reg[t].n].perm \in Permuters
         /\ leaf[reg[t].n].ikey \in [Slots -> Int]
      /\ leaf[reg[t].n].lv \in [Slots -> Values \cup {Blank}]
  BY <1>1, AtLeaf
<1>3. leaf' = leaf /\ LeafIds' = LeafIds
  BY <1>1, <1>2 DEF MarkPrev, nodes, LeafIds, Here
<1>4. Goes(t, "readPrev", reg[t])
  BY <1>1, <1>2 DEF Base, Types, MarkPrev, Goto, Goes, Here
<1>5. "readPrev" \in Places
  BY DEF Places
<1>6. Only(t) /\ pc'[t] = "readPrev" /\ reg'[t] = reg[t]
  BY <1>2, <1>4, <1>5, GoesFacts DEF Base
<1> QED
  BY <1>1, <1>3, <1>6 DEF SameVer, SameKeys, SameLinks, SameRest

LEMMA UnlinkBackEffectNext ==
  ASSUME Base, Concurrent, NEW t \in Threads, UnlinkBack(t), leaf[reg[t].n].next # Null
  PROVE  /\ pc[t] = "unlinkBack" /\ pc'[t] = "unlink" /\ Only(t) /\ top' = top /\ freed' = freed
         /\ reg'[t] = reg[t]
         /\ Writes(leaf[reg[t].n].next)
         /\ SameVer(leaf[reg[t].n].next) /\ SameKeys(leaf[reg[t].n].next)
            /\ SameLinks(leaf[reg[t].n].next) /\ leaf'[leaf[reg[t].n].next].prev = (reg[t].aux)
            /\ leaf'[leaf[reg[t].n].next].hasParent = leaf[leaf[reg[t].n].next].hasParent
<1>1. pc[t] = "unlinkBack" /\ top' = top /\ freed' = freed /\ pc[t] \in LeafPlaces
  BY DEF UnlinkBack, nodes, Responsible, Searched, LeafPlaces, ReadPlaces, PutPlaces, RemovePlaces,
       DyingPlaces, BothPlaces
<1>2. /\ reg[t].n \in LeafIds /\ leaf[reg[t].n] \in LeafRecord /\ reg[t] \in Local
      /\ leaf[reg[t].n].ver \in Version /\ leaf[reg[t].n].perm \in Permuters
         /\ leaf[reg[t].n].ikey \in [Slots -> Int]
      /\ leaf[reg[t].n].lv \in [Slots -> Values \cup {Blank}]
  BY <1>1, AtLeaf
<1>3. leaf[reg[t].n].next \in LeafIds /\ leaf[leaf[reg[t].n].next] \in LeafRecord
  BY <1>2, LeafFacts DEF OptLeaf
<1>4. reg[t].aux \in Nat
  BY <1>2, LocalType
<1> DEFINE x == [leaf[leaf[reg[t].n].next] EXCEPT !.prev = reg[t].aux]
<1>5. leaf' = [leaf EXCEPT ![leaf[reg[t].n].next] = x]
  BY <1>1, <1>2, <1>3, <1>4 DEF UnlinkBack, Here, Base, Types, LeafIds
<1>6. x \in LeafRecord
  BY <1>1, <1>2, <1>3, <1>4 DEF LeafRecord
<1>7. x.ver = leaf[leaf[reg[t].n].next].ver /\ x.perm = leaf[leaf[reg[t].n].next].perm
      /\ x.ikey = leaf[leaf[reg[t].n].next].ikey /\ x.next = leaf[leaf[reg[t].n].next].next
      /\ x.marked = leaf[leaf[reg[t].n].next].marked /\ x.prev = (reg[t].aux)
      /\ x.hasParent = leaf[leaf[reg[t].n].next].hasParent
  BY <1>1, <1>2, <1>3, <1>4 DEF LeafRecord
<1> HIDE DEF x
<1>8. Writes(leaf[reg[t].n].next) /\ leaf'[leaf[reg[t].n].next] = x
  BY <1>3, <1>5, <1>6, WriteFacts
<1>9. Goes(t, "unlink", reg[t])
  BY <1>1, <1>2, <1>3, <1>4 DEF Base, Types, UnlinkBack, Goto, Goes, Here
<1>10. "unlink" \in Places
  BY DEF Places
<1>11. Only(t) /\ pc'[t] = "unlink" /\ reg'[t] = reg[t]
  BY <1>2, <1>9, <1>10, GoesFacts DEF Base
<1> QED
  BY <1>1, <1>7, <1>8, <1>11 DEF SameVer, SameKeys, SameLinks, SameRest

LEMMA UnlinkBackEffectLast ==
  ASSUME Base, Concurrent, NEW t \in Threads, UnlinkBack(t), leaf[reg[t].n].next = Null
  PROVE  /\ pc[t] = "unlinkBack" /\ pc'[t] = "unlink" /\ Only(t) /\ top' = top /\ freed' = freed
         /\ reg'[t] = reg[t]
         /\ leaf' = leaf /\ LeafIds' = LeafIds
<1>1. pc[t] = "unlinkBack" /\ top' = top /\ freed' = freed /\ pc[t] \in LeafPlaces
  BY DEF UnlinkBack, nodes, Responsible, Searched, LeafPlaces, ReadPlaces, PutPlaces, RemovePlaces,
       DyingPlaces, BothPlaces
<1>2. /\ reg[t].n \in LeafIds /\ leaf[reg[t].n] \in LeafRecord /\ reg[t] \in Local
      /\ leaf[reg[t].n].ver \in Version /\ leaf[reg[t].n].perm \in Permuters
         /\ leaf[reg[t].n].ikey \in [Slots -> Int]
      /\ leaf[reg[t].n].lv \in [Slots -> Values \cup {Blank}]
  BY <1>1, AtLeaf
<1>3. leaf' = leaf /\ LeafIds' = LeafIds
  BY <1>1, <1>2 DEF UnlinkBack, nodes, LeafIds, Here
<1>4. Goes(t, "unlink", reg[t])
  BY <1>1, <1>2 DEF Base, Types, UnlinkBack, Goto, Goes, Here
<1>5. "unlink" \in Places
  BY DEF Places
<1>6. Only(t) /\ pc'[t] = "unlink" /\ reg'[t] = reg[t]
  BY <1>2, <1>4, <1>5, GoesFacts DEF Base
<1> QED
  BY <1>1, <1>3, <1>6 DEF SameVer, SameKeys, SameLinks, SameRest

LEMMA UnlinkEffect ==
  ASSUME Base, Concurrent, NEW t \in Threads, Unlink(t)
  PROVE  /\ pc[t] = "unlink" /\ pc'[t] = "parent" /\ Only(t) /\ top' = top /\ freed' = freed
         /\ reg'[t] = reg[t]
         /\ Writes(reg[t].aux)
         /\ SameVer(reg[t].aux) /\ SameKeys(reg[t].aux)
            /\ leaf'[reg[t].aux].next = (leaf[reg[t].n].next) /\ leaf'[reg[t].aux].marked = (FALSE)
            /\ SameRest(reg[t].aux)
<1>1. pc[t] = "unlink" /\ top' = top /\ freed' = freed /\ pc[t] \in LeafPlaces
  BY DEF Unlink, nodes, Responsible, Searched, LeafPlaces, ReadPlaces, PutPlaces, RemovePlaces,
       DyingPlaces, BothPlaces
<1>2. /\ reg[t].n \in LeafIds /\ leaf[reg[t].n] \in LeafRecord /\ reg[t] \in Local
      /\ leaf[reg[t].n].ver \in Version /\ leaf[reg[t].n].perm \in Permuters
         /\ leaf[reg[t].n].ikey \in [Slots -> Int]
      /\ leaf[reg[t].n].lv \in [Slots -> Values \cup {Blank}]
  BY <1>1, AtLeaf
<1>3. reg[t].aux \in LeafIds /\ leaf[reg[t].aux] \in LeafRecord
  BY <1>1, LeafFacts DEF Base, Pointers, Pointing, OptLeaf
<1>4. leaf[reg[t].n].next \in Nat
  BY <1>2, LeafType
<1> DEFINE x == [leaf[reg[t].aux] EXCEPT !.next = leaf[reg[t].n].next, !.marked = FALSE]
<1>5. leaf' = [leaf EXCEPT ![reg[t].aux] = x]
  BY <1>1, <1>2, <1>3, <1>4 DEF Unlink, Here, Base, Types, LeafIds
<1>6. x \in LeafRecord
  BY <1>1, <1>2, <1>3, <1>4 DEF LeafRecord
<1>7. x.ver = leaf[reg[t].aux].ver /\ x.perm = leaf[reg[t].aux].perm
      /\ x.ikey = leaf[reg[t].aux].ikey /\ x.next = (leaf[reg[t].n].next) /\ x.marked = (FALSE)
      /\ x.prev = leaf[reg[t].aux].prev /\ x.hasParent = leaf[reg[t].aux].hasParent
  BY <1>1, <1>2, <1>3, <1>4 DEF LeafRecord
<1> HIDE DEF x
<1>8. Writes(reg[t].aux) /\ leaf'[reg[t].aux] = x
  BY <1>3, <1>5, <1>6, WriteFacts
<1>9. Goes(t, "parent", reg[t])
  BY <1>1, <1>2, <1>3, <1>4 DEF Base, Types, Unlink, Goto, Goes, Here
<1>10. "parent" \in Places
  BY DEF Places
<1>11. Only(t) /\ pc'[t] = "parent" /\ reg'[t] = reg[t]
  BY <1>2, <1>9, <1>10, GoesFacts DEF Base
<1> QED
  BY <1>1, <1>7, <1>8, <1>11 DEF SameVer, SameKeys, SameLinks, SameRest

LEMMA UnlockDeletedEffect ==
  ASSUME Base, Concurrent, NEW t \in Threads, UnlockDeleted(t)
  PROVE  /\ pc[t] = "unlockDeleted" /\ pc'[t] = "markParent" /\ Only(t) /\ top' = top
            /\ freed' = freed
         /\ reg'[t] = reg[t]
         /\ Writes(reg[t].n)
         /\ leaf'[reg[t].n].ver = (Unlock(leaf[reg[t].n].ver)) /\ SameKeys(reg[t].n)
            /\ SameLinks(reg[t].n) /\ SameRest(reg[t].n)
<1>1. pc[t] = "unlockDeleted" /\ top' = top /\ freed' = freed /\ pc[t] \in LeafPlaces
  BY DEF UnlockDeleted, nodes, Responsible, Searched, LeafPlaces, ReadPlaces, PutPlaces,
       RemovePlaces, DyingPlaces, BothPlaces
<1>2. /\ reg[t].n \in LeafIds /\ leaf[reg[t].n] \in LeafRecord /\ reg[t] \in Local
      /\ leaf[reg[t].n].ver \in Version /\ leaf[reg[t].n].perm \in Permuters
         /\ leaf[reg[t].n].ikey \in [Slots -> Int]
      /\ leaf[reg[t].n].lv \in [Slots -> Values \cup {Blank}]
  BY <1>1, AtLeaf
<1>3. Unlock(leaf[reg[t].n].ver) \in Version
  BY <1>2, UnlockVersion
<1> DEFINE x == [leaf[reg[t].n] EXCEPT !.ver = Unlock(leaf[reg[t].n].ver)]
<1>4. leaf' = [leaf EXCEPT ![reg[t].n] = x]
  BY <1>1, <1>2, <1>3 DEF UnlockDeleted, Here, Base, Types, LeafIds
<1>5. x \in LeafRecord
  BY <1>1, <1>2, <1>3 DEF LeafRecord
<1>6. x.ver = (Unlock(leaf[reg[t].n].ver)) /\ x.perm = leaf[reg[t].n].perm
      /\ x.ikey = leaf[reg[t].n].ikey /\ x.next = leaf[reg[t].n].next
      /\ x.marked = leaf[reg[t].n].marked /\ x.prev = leaf[reg[t].n].prev
      /\ x.hasParent = leaf[reg[t].n].hasParent
  BY <1>1, <1>2, <1>3 DEF LeafRecord
<1> HIDE DEF x
<1>7. Writes(reg[t].n) /\ leaf'[reg[t].n] = x
  BY <1>2, <1>4, <1>5, WriteFacts
<1>8. Goes(t, "markParent", reg[t])
  BY <1>1, <1>2, <1>3 DEF Base, Types, UnlockDeleted, Goto, Goes, Here
<1>9. "markParent" \in Places
  BY DEF Places
<1>10. Only(t) /\ pc'[t] = "markParent" /\ reg'[t] = reg[t]
  BY <1>2, <1>8, <1>9, GoesFacts DEF Base
<1> QED
  BY <1>1, <1>6, <1>7, <1>10 DEF SameVer, SameKeys, SameLinks, SameRest
-----------------------------------------------------------------------------
(* The keys and the permutations of the two halves of a split.              *)

LEMMA SplitSize ==
  ASSUME Base, NEW t \in Threads, SplitInto(t)
  PROVE  /\ reg[t].n \in LeafIds /\ leaf[reg[t].n].perm \in Permuters /\ reg[t] \in Local /\ Puts(t)
         /\ reg[t].ki \in 0..leaf[reg[t].n].perm.size
         /\ \/ leaf[reg[t].n].perm.size = Width
            \/ leaf[reg[t].n].perm.size = Width - 1 /\ Back(leaf[reg[t].n].perm) = 0
         /\ leaf[reg[t].n].perm.size >= Width - 1
<1>1. pc[t] = "slot" /\ pc[t] \in LeafPlaces /\ pc[t] \in PutPlaces
  BY DEF SplitInto, LeafPlaces, PutPlaces
<1>2. reg[t].n \in LeafIds /\ leaf[reg[t].n].perm \in Permuters /\ reg[t] \in Local
  BY <1>1, AtLeaf
<1>3. reg[t].ki \in 0..leaf[reg[t].n].perm.size /\ Puts(t)
  BY <1>1 DEF Base, Placing, Placed, Inserting, Control, Controlled
<1>4. PICK p \in Permuters : p = leaf[reg[t].n].perm
  BY <1>2
<1>5. p.size = Width \/ (Back(p) = 0 /\ Back(OtherBack(p)) = 0)
  BY <1>4 DEF SplitInto, Usable, Here
<1>6. p.size \in 0..Width /\ \A i, j \in 1..Width : i # j => p.order[i] # p.order[j]
  BY PermType
<1>7. ASSUME p.size # Width PROVE p.size = Width - 1 /\ Back(p) = 0
  <2>1. p.size < Width /\ p.size + 1 \in 1..Width /\ Width \in 1..Width
    BY <1>6, <1>7, WidthType
  <2>2. Back(OtherBack(p)) = p.order[p.size + 1]
    BY <2>1, OtherBackFacts
  <2>3. p.order[p.size + 1] = p.order[Width]
    BY <1>5, <1>7, <2>2 DEF Back
  <2>4. p.size + 1 = Width
    BY <1>6, <2>1, <2>3
  <2> QED
    BY <1>5, <1>6, <1>7, <2>4, WidthType
<1> QED
  BY <1>2, <1>3, <1>4, <1>6, <1>7, WidthType

LEMMA MiddleType ==
  ASSUME Base, NEW t \in Threads, SplitInto(t)
  PROVE  /\ Middle(t) \in 1..leaf[reg[t].n].perm.size /\ Middle(t) \in Nat
         /\ leaf[reg[t].n].perm.size + 1 - Middle(t) \in 1..Width
<1>1. PICK z \in 0..Width : z = leaf[reg[t].n].perm.size /\ z >= Width - 1
  BY SplitSize, PermType
<1>2. Width \div 2 + 1 \in 1..(Width - 1)
  BY WidthType
<1>3. Middle(t) \in {1, z, Width \div 2 + 1}
  BY <1>1 DEF Middle, Here
<1>4. 1 \in 1..z /\ z \in 1..z
  BY <1>1, WidthType
<1>5. PICK h \in 1..(Width - 1) : h = Width \div 2 + 1
  BY <1>2
<1>6. PICK m : m = Middle(t)
  OBVIOUS
<1>7. m \in 1..z
  <2>1. m \in {1, z, h}
    BY <1>3, <1>5, <1>6
  <2>2. h \in 1..(Width - 1)
    BY <1>5
  <2>3. h \in 1..z
    BY <1>1, <2>2, WidthType
  <2> QED
    BY <1>4, <2>1, <2>3
<1>8. m \in Nat /\ z + 1 - m \in 1..Width
  BY <1>1, <1>7, WidthType
<1> QED
  BY <1>1, <1>6, <1>7, <1>8

RightKeys(p, old, key, ki, mid, count) ==
  [e \in Slots |->
     IF e >= count THEN 0
     ELSE IF e + mid = ki THEN key
     ELSE old[[y \in (mid..p.size) \ {ki} |-> p.order[IF y > ki THEN y ELSE y + 1]][e + mid]]]
RightValues(p, old, ki, mid, count) ==
  [e \in Slots |->
     IF e >= count \/ e + mid = ki THEN Blank
     ELSE old[[y \in (mid..p.size) \ {ki} |-> p.order[IF y > ki THEN y ELSE y + 1]][e + mid]]]
RightKey(p, old, key, ki, mid, e) ==
  IF e + mid = ki THEN key ELSE old[p.order[IF e + mid > ki THEN e + mid ELSE e + mid + 1]]
RightPerm(ki, mid, count) ==
  IF ki >= mid THEN RemoveToBack(MakeSorted(count), ki - mid) ELSE MakeSorted(count)

LEMMA RightKeysFacts ==
  ASSUME NEW p \in Permuters, NEW old \in [Slots -> Int], NEW key \in Int, NEW size \in Nat,
         size = p.size,
         NEW ki \in 0..size, NEW mid \in 1..size, NEW count \in 1..Width, count = size + 1 - mid,
         NEW keys, keys = RightKeys(p, old, key, ki, mid, count)
  PROVE  /\ keys \in [Slots -> Int]
         /\ \A e \in 0..(count - 1) : keys[e] = RightKey(p, old, key, ki, mid, e)
<1>1. size \in 0..Width /\ \A i \in 1..Width : p.order[i] \in Slots
  BY PermType
<1>2. Width \in Nat /\ Slots = 0..(Width - 1)
  BY WidthType
<1> DEFINE from == [y \in (mid..size) \ {ki} |-> p.order[IF y > ki THEN y ELSE y + 1]]
<1>3. \A y \in (mid..size) \ {ki} : from[y] = p.order[IF y > ki THEN y ELSE y + 1]
  OBVIOUS
<1>4. \A y \in (mid..size) \ {ki} : from[y] \in Slots
  <2> SUFFICES ASSUME NEW y \in (mid..size) \ {ki} PROVE from[y] \in Slots
    OBVIOUS
  <2>1. (IF y > ki THEN y ELSE y + 1) \in 1..Width
    BY <1>1, <1>2
  <2> HIDE DEF from
  <2> QED
    BY <2>1, <1>1, <1>3
<1>5. keys = [e \in Slots |-> IF e >= count THEN 0 ELSE IF e + mid = ki THEN key ELSE old[from[e + mid]]]
  BY DEF RightKeys
<1> HIDE DEF from
<1>6. \A e \in Slots : ~(e >= count) => e + mid \in mid..size
  BY <1>1, <1>2
<1>7. keys \in [Slots -> Int]
  <2>1. \A e \in Slots : ~(e >= count) /\ e + mid # ki => old[from[e + mid]] \in Int
    BY <1>4, <1>6
  <2> QED
    BY <1>5, <2>1
<1> SUFFICES ASSUME NEW e \in 0..(count - 1)
             PROVE  keys[e] = RightKey(p, old, key, ki, mid, e)
  BY <1>7
<1>8. e \in Slots /\ ~(e >= count)
  BY <1>1, <1>2
<1>9. keys[e] = IF e + mid = ki THEN key ELSE old[from[e + mid]]
  BY <1>5, <1>8
<1> QED
  BY <1>3, <1>6, <1>8, <1>9 DEF RightKey

RightPermIs(size, ki, mid, perm) ==
  /\ perm \in Permuters
  /\ ki >= mid => /\ perm.size = size - mid /\ Back(perm) = ki - mid
                  /\ \A j \in 1..(size - mid) : perm.order[j] = IF j <= ki - mid THEN j - 1 ELSE j
  /\ ~(ki >= mid) => /\ perm.size = size - (mid - 1)
                     /\ \A j \in 1..(size - (mid - 1)) : perm.order[j] = j - 1

LEMMA RightPermFacts ==
  ASSUME NEW size \in 0..Width,
         NEW ki \in 0..size, NEW mid \in 1..size, NEW count \in 1..Width, count = size + 1 - mid,
         NEW perm, perm = RightPerm(ki, mid, count)
  PROVE  RightPermIs(size, ki, mid, perm)
<1> USE DEF RightPermIs
<1> DEFINE sorted == MakeSorted(count)
<1>0. Width \in Nat /\ size \in Nat
  BY WidthType
<1>5. /\ sorted \in Permuters /\ sorted.size = count /\ \A j \in 1..Width : sorted.order[j] = j - 1
  BY MakeSortedFacts
<1> HIDE DEF sorted
<1>9. CASE ki >= mid
  <2>1. PICK i \in 0..(sorted.size - 1) : i = ki - mid
    BY <1>0, <1>5, <1>9
  <2>2. /\ RemoveToBack(sorted, i) \in Permuters
        /\ RemoveToBack(sorted, i).size = sorted.size - 1
        /\ \A j \in 1..i : RemoveToBack(sorted, i).order[j] = sorted.order[j]
        /\ \A j \in (i + 1)..(Width - 1) : RemoveToBack(sorted, i).order[j] = sorted.order[j + 1]
        /\ Back(RemoveToBack(sorted, i)) = sorted.order[i + 1]
    BY <1>5, RemoveToBackFacts
  <2>3. perm = RemoveToBack(sorted, i)
    BY <1>9, <2>1 DEF sorted, RightPerm
  <2>4. perm.size = size - mid /\ Back(perm) = ki - mid
    <3>1. i + 1 \in 1..Width
      BY <2>1, <1>0, <1>5
    <3> QED
      BY <2>1, <2>2, <2>3, <3>1, <1>0, <1>5
  <2>5. ASSUME NEW j \in 1..(size - mid)
        PROVE  perm.order[j] = IF j <= ki - mid THEN j - 1 ELSE j
    <3>1. j \in 1..Width /\ j + 1 \in 1..Width /\ j \in 1..(Width - 1)
      BY <1>0
    <3>2. sorted.order[j] = j - 1 /\ sorted.order[j + 1] = j
      BY <3>1, <1>5
    <3>3. CASE j <= ki - mid
      <4>1. j \in 1..i
        BY <3>3, <2>1
      <4> QED
        BY <4>1, <3>2, <3>3, <2>2, <2>3
    <3>4. CASE ~(j <= ki - mid)
      <4>1. j \in (i + 1)..(Width - 1)
        BY <3>1, <3>4, <2>1
      <4> QED
        BY <4>1, <3>2, <3>4, <2>2, <2>3
    <3> QED
      BY <3>3, <3>4
  <2> QED
    BY <1>9, <2>2, <2>3, <2>4, <2>5
<1>10. CASE ~(ki >= mid)
  <2>1. perm = sorted
    BY <1>10 DEF sorted, RightPerm
  <2>2. \A j \in 1..(size - (mid - 1)) : j \in 1..Width
    BY <1>0
  <2> QED
    BY <1>0, <1>5, <1>10, <2>1, <2>2
<1> QED
  BY <1>9, <1>10

RightHas(p, old, key, size, ki, mid, keep, keys, perm) ==
  /\ perm \in Permuters /\ perm.size = size - keep /\ keys \in [Slots -> Int]
  /\ \A j \in 1..(size - keep) : keys[perm.order[j]] = old[p.order[keep + j]]
  /\ ki >= mid => Back(perm) = ki - mid /\ keys[ki - mid] = key
  /\ keys[0] = IF ki = mid THEN key ELSE old[p.order[keep + 1]]

\* The new leaf has the entries of the old one from some position on.
LEMMA RightEntries ==
  ASSUME NEW p \in Permuters, NEW old \in [Slots -> Int], NEW key \in Int, NEW size \in Nat,
         size = p.size,
         NEW ki \in 0..size, NEW mid \in 1..size, NEW count \in 1..Width, count = size + 1 - mid,
         NEW keys, keys = RightKeys(p, old, key, ki, mid, count),
         NEW perm, perm = RightPerm(ki, mid, count),
         NEW keep, keep = IF ki >= mid THEN mid ELSE mid - 1
  PROVE  RightHas(p, old, key, size, ki, mid, keep, keys, perm)
<1>0. size \in 0..Width
  BY PermType
<1>1. /\ keys \in [Slots -> Int]
      /\ \A e \in 0..(count - 1) : keys[e] = RightKey(p, old, key, ki, mid, e)
  BY RightKeysFacts
<1>2. /\ perm \in Permuters
      /\ ki >= mid => /\ perm.size = size - mid /\ Back(perm) = ki - mid
                      /\ \A j \in 1..(size - mid) : perm.order[j] = IF j <= ki - mid THEN j - 1 ELSE j
      /\ ~(ki >= mid) => /\ perm.size = size - (mid - 1)
                         /\ \A j \in 1..(size - (mid - 1)) : perm.order[j] = j - 1
  <2>1. RightPermIs(size, ki, mid, perm)
    BY <1>0, RightPermFacts
  <2> QED
    BY ONLY <2>1 DEF RightPermIs
<1>3. perm.size = size - keep
  BY <1>2
<1>4. ASSUME NEW j \in 1..(size - keep) PROVE keys[perm.order[j]] = old[p.order[keep + j]]
  <2>1. PICK e : e = IF ki >= mid THEN (IF j <= ki - mid THEN j - 1 ELSE j) ELSE j - 1
    OBVIOUS
  <2>2. perm.order[j] = e
    BY <2>1, <1>2, <1>4
  <2>3. /\ e \in 0..(count - 1) /\ e + mid # ki
        /\ (IF e + mid > ki THEN e + mid ELSE e + mid + 1) = keep + j
    BY <2>1
  <2> QED
    BY <2>2, <2>3, <1>1 DEF RightKey
<1>5. ki >= mid => keys[ki - mid] = key
  <2>1. ki >= mid => ki - mid \in 0..(count - 1) /\ (ki - mid) + mid = ki
    OBVIOUS
  <2> QED
    BY <2>1, <1>1 DEF RightKey
<1>6. keys[0] = IF ki = mid THEN key ELSE old[p.order[keep + 1]]
  <2>1. /\ 0 \in 0..(count - 1) /\ 0 + mid = mid
        /\ ki # mid => (IF mid > ki THEN mid ELSE mid + 1) = keep + 1
    OBVIOUS
  <2> QED
    BY <2>1, <1>1 DEF RightKey
<1> QED
  BY <1>1, <1>2, <1>3, <1>4, <1>5, <1>6 DEF RightHas

LEMMA RightValuesType ==
  ASSUME NEW p \in Permuters, NEW old \in [Slots -> Values \cup {Blank}], NEW size \in Nat,
         size = p.size,
         NEW ki \in 0..size, NEW mid \in 1..size, NEW count \in 1..Width, count = size + 1 - mid,
         NEW lv, lv = RightValues(p, old, ki, mid, count)
  PROVE  lv \in [Slots -> Values \cup {Blank}]
<1>0. size \in 0..Width /\ \A i \in 1..Width : p.order[i] \in Slots
  BY PermType
<1> DEFINE from == [y \in (mid..size) \ {ki} |-> p.order[IF y > ki THEN y ELSE y + 1]]
<1>1. lv = [e \in Slots |-> IF e >= count \/ e + mid = ki THEN Blank ELSE old[from[e + mid]]]
  BY DEF RightValues
<1>2. ASSUME NEW e \in Slots, ~(e >= count),
             e + mid # ki PROVE old[from[e + mid]] \in Values \cup {Blank}
  <2>1. PICK y : y = e + mid
    OBVIOUS
  <2>2. y \in (mid..size) \ {ki} /\ (IF y > ki THEN y ELSE y + 1) \in 1..Width
    <3>1. e \in Nat /\ e < count /\ Width \in Nat /\ y # ki
      BY <1>2, <2>1, WidthType
    <3> QED
      BY <1>0, <2>1, <3>1
  <2>3. from[y] = p.order[IF y > ki THEN y ELSE y + 1]
    BY <2>2
  <2> HIDE DEF from
  <2>4. PICK z \in 1..Width : z = IF y > ki THEN y ELSE y + 1
    BY <2>2
  <2>5. from[y] \in Slots
    BY <1>0, <2>3, <2>4
  <2> QED
    BY <2>1, <2>5
<1> HIDE DEF from
<1> QED
  BY <1>1, <1>2

LEMMA RightFacts ==
  ASSUME Base, NEW t \in Threads, SplitInto(t), NEW l, l = reg[t].n,
         NEW mid, mid = Middle(t), NEW x, x = RightLeaf(t), NEW ki, ki = reg[t].ki,
         NEW keep, keep = IF ki >= mid THEN mid ELSE mid - 1,
         NEW size, size = leaf[l].perm.size
  PROVE  /\ x \in LeafRecord
         /\ x.ver = leaf[l].ver /\ x.prev = l /\ x.next = Null /\ ~x.marked /\ ~x.hasParent
         /\ size \in 2..Width /\ ki \in 0..size /\ mid \in 1..size
         /\ x.perm.size = size - keep
         /\ \A j \in 1..(size - keep) : x.ikey[x.perm.order[j]] = IkeyAt(l, keep + j)
         /\ ki >= mid => Back(x.perm) = ki - mid /\ x.ikey[ki - mid] = reg[t].key
         /\ x.ikey[0] = IF ki = mid THEN reg[t].key ELSE IkeyAt(l, keep + 1)
<1>1. /\ l \in LeafIds /\ leaf[l] \in LeafRecord /\ leaf[l].perm \in Permuters
         /\ leaf[l].ikey \in [Slots -> Int]
      /\ leaf[l].lv \in [Slots -> Values \cup {Blank}] /\ l \in Nat /\ reg[t] \in Local
  BY SplitSize, LeafFacts, LeafIdFacts
<1>2. /\ size \in 2..Width /\ ki \in 0..size /\ mid \in 1..size /\ size \in Nat
      /\ size + 1 - mid \in 1..Width
  <2>1. size \in 0..Width /\ size >= Width - 1
    BY <1>1, SplitSize, PermType
  <2> QED
    BY <2>1, SplitSize, MiddleType, WidthType
<1>3. reg[t].key \in Int
  BY <1>1, LocalType
<1>4. PICK count \in 1..Width : count = size + 1 - mid
  BY <1>2
<1>5. PICK keys : keys = RightKeys(leaf[l].perm, leaf[l].ikey, reg[t].key, ki, mid, count)
  OBVIOUS
<1>6. PICK perm : perm = RightPerm(ki, mid, count)
  OBVIOUS
<1>7. RightHas(leaf[l].perm, leaf[l].ikey, reg[t].key, size, ki, mid, keep, keys, perm)
  <2>1. PICK p \in Permuters : p = leaf[l].perm
    BY <1>1
  <2>2. PICK old \in [Slots -> Int] : old = leaf[l].ikey
    BY <1>1
  <2>3. PICK key \in Int : key = reg[t].key
    BY <1>3
  <2>4. keys = RightKeys(p, old, key, ki, mid, count) /\ size = p.size
    BY <1>5, <2>1, <2>2, <2>3
  <2>5. RightHas(p, old, key, size, ki, mid, keep, keys, perm)
    BY <1>2, <1>4, <1>6, <2>1, <2>2, <2>3, <2>4, RightEntries
  <2> QED
    BY <2>1, <2>2, <2>3, <2>5
<1>8. PICK lv : lv = RightValues(leaf[l].perm, leaf[l].lv, ki, mid, count)
  OBVIOUS
<1>9. x = [leaf[l] EXCEPT !.mod = "insert", !.prev = l, !.next = Null, !.marked = FALSE, !.hasParent = FALSE,
                          !.ikey = keys, !.lv = lv, !.perm = perm]
  <2>1. l = reg[t].n /\ mid = Middle(t) /\ ki = reg[t].ki
        /\ count = leaf[reg[t].n].perm.size + 1 - Middle(t)
    BY <1>4
  <2>2. x = [leaf[reg[t].n] EXCEPT
              !.mod = "insert", !.prev = reg[t].n, !.next = Null, !.marked = FALSE,
              !.hasParent = FALSE,
              !.ikey = RightKeys(leaf[reg[t].n].perm, leaf[reg[t].n].ikey, reg[t].key, reg[t].ki, Middle(t),
                                 leaf[reg[t].n].perm.size + 1 - Middle(t)),
              !.lv = RightValues(leaf[reg[t].n].perm, leaf[reg[t].n].lv, reg[t].ki, Middle(t),
                                 leaf[reg[t].n].perm.size + 1 - Middle(t)),
              !.perm = RightPerm(reg[t].ki, Middle(t), leaf[reg[t].n].perm.size + 1 - Middle(t))]
    BY DEF RightLeaf, Here, RightKeys, RightValues, RightPerm
  <2> QED
    BY <1>5, <1>6, <1>8, <2>1, <2>2
<1>11. lv \in [Slots -> Values \cup {Blank}]
  BY <1>1, <1>2, <1>4, <1>8, RightValuesType
<1>12. keys \in [Slots -> Int] /\ perm \in Permuters
  BY <1>7 DEF RightHas
<1>13. x.ver = leaf[l].ver /\ x.mod = "insert" /\ x.ts = leaf[l].ts /\ x.prev = l /\ x.next = Null
  BY <1>1, <1>9 DEF LeafRecord
<1>14. x.marked = FALSE /\ x.hasParent = FALSE /\ x.ikey = keys /\ x.perm = perm /\ x.lv = lv
  BY <1>1, <1>9 DEF LeafRecord
<1>15. x \in LeafRecord
  <2>1. l \in Nat /\ Null \in Nat /\ FALSE \in BOOLEAN
    BY <1>1 DEF Null
  <2> QED
    BY <1>1, <1>9, <1>11, <1>12, <2>1 DEF LeafRecord
<1> QED
  BY <1>2, <1>7, <1>13, <1>14, <1>15 DEF IkeyAt, RightHas
-----------------------------------------------------------------------------
(* The effect of the steps that write more than one thing.                  *)

\* The locals of t that every step of a split or a removal keeps.
SameCaller(t) ==
  /\ reg'[t] \in Local /\ reg'[t].kind = reg[t].kind /\ reg'[t].key = reg[t].key
     /\ reg'[t].val = reg[t].val

LEMMA SplitIntoEffect ==
  ASSUME Base, Concurrent, NEW t \in Threads, SplitInto(t)
  PROVE  /\ pc[t] = "slot" /\ pc'[t] = "lockNext" /\ Only(t) /\ top' = top /\ freed' = freed
         /\ SameCaller(t) /\ reg'[t].n = reg[t].n /\ reg'[t].aux = reg[t].aux
            /\ reg'[t].hasTop = reg[t].hasTop
         /\ reg'[t].ki = reg[t].ki /\ reg'[t].nr = Len(leaf) + 1
         /\ reg'[t].toRight = (reg[t].ki >= Middle(t))
         /\ leaf' \in Seq(LeafRecord) /\ leaf' # <<>> /\ LeafIds' = LeafIds \cup {Len(leaf) + 1}
         /\ Len(leaf) + 1 \notin LeafIds /\ leaf'[Len(leaf) + 1] = RightLeaf(t)
         /\ \A l \in LeafIds : leaf'[l] = leaf[l]
<1>1. pc[t] = "slot" /\ top' = top /\ freed' = freed
  BY DEF SplitInto
<1>2. reg[t] \in Local /\ reg[t].ki \in 0..leaf[reg[t].n].perm.size /\ leaf \in Seq(LeafRecord)
  BY SplitSize DEF Base, Types
<1>3. PICK x \in LeafRecord : x = RightLeaf(t)
  BY RightFacts
<1>4. PICK right \in BOOLEAN : right = (reg[t].ki >= Middle(t))
  <2>1. (reg[t].ki >= Middle(t)) \in BOOLEAN
    OBVIOUS
  <2> QED
    BY <2>1
<1>5. Len(leaf) + 1 \in Nat
  BY <1>2
<1> DEFINE r == [reg[t] EXCEPT !.nr = Len(leaf) + 1, !.toRight = right]
<1>6. Goes(t, "lockNext", r)
  BY <1>2, <1>4 DEF Base, Types, SplitInto, Goto, Goes
<1>7. /\ r \in Local /\ r.kind = reg[t].kind /\ r.key = reg[t].key /\ r.val = reg[t].val
      /\ r.n = reg[t].n /\ r.aux = reg[t].aux /\ r.hasTop = reg[t].hasTop /\ r.ki = reg[t].ki
      /\ r.nr = Len(leaf) + 1 /\ r.toRight = right
  BY <1>2, <1>4, <1>5 DEF Local
<1> HIDE DEF r
<1>8. "lockNext" \in Places
  BY DEF Places
<1>9. Only(t) /\ pc'[t] = "lockNext" /\ reg'[t] = r
  BY <1>6, <1>7, <1>8, GoesFacts DEF Base
<1>10. leaf' = Append(leaf, x)
  BY <1>3 DEF SplitInto
<1>11. /\ leaf' \in Seq(LeafRecord) /\ Len(leaf') = Len(leaf) + 1 /\ leaf'[Len(leaf) + 1] = x
       /\ \A l \in 1..Len(leaf) : leaf'[l] = leaf[l]
  BY <1>2, <1>10
<1>12. /\ LeafIds' = LeafIds \cup {Len(leaf) + 1} /\ Len(leaf) + 1 \notin LeafIds /\ leaf' # <<>>
       /\ \A l \in LeafIds : leaf'[l] = leaf[l]
  BY <1>2, <1>11 DEF LeafIds
<1> QED
  BY <1>1, <1>3, <1>4, <1>7, <1>9, <1>11, <1>12 DEF SameCaller

LEMMA LinkBackEffect ==
  ASSUME Base, Concurrent, NEW t \in Threads, LinkBack(t)
  PROVE  /\ pc[t] = "linkBack" /\ pc'[t] = "link" /\ Only(t) /\ top' = top /\ freed' = freed
            /\ reg'[t] = reg[t]
         /\ leaf' \in Seq(LeafRecord) /\ leaf' # <<>> /\ LeafIds' = LeafIds
         /\ reg[t].n \in LeafIds /\ reg[t].nr \in LeafIds
         /\ \A l \in LeafIds :
              /\ leaf'[l].ver = leaf[l].ver /\ leaf'[l].perm = leaf[l].perm
                 /\ leaf'[l].ikey = leaf[l].ikey
              /\ leaf'[l].hasParent = leaf[l].hasParent /\ leaf'[l].marked = leaf[l].marked
              /\ leaf'[l].next = IF l = reg[t].nr THEN leaf[reg[t].n].next ELSE leaf[l].next
              /\ leaf'[l].prev = IF l # reg[t].nr /\ l = leaf[reg[t].n].next THEN reg[t].nr ELSE leaf[l].prev
<1>1. pc[t] = "linkBack" /\ top' = top /\ freed' = freed /\ reg' = reg
  BY DEF LinkBack
<1>2. HoldsOther(t)
  BY <1>1 DEF HoldsOther, Halving
<1>3. reg[t].n \in LeafIds /\ reg[t].nr \in LeafIds /\ reg[t] \in Local
  BY <1>2, HoldsIsLocked DEF Base, Types
<1>4. leaf[reg[t].n].next \in Nat /\ reg[t].nr \in Nat
  BY <1>3, LeafFacts, LeafType, LocalType
<1>5. \A l \in LeafIds : leaf[l] \in LeafRecord
  BY LeafFacts
<1> DEFINE new(l) == IF l = reg[t].nr THEN [leaf[l] EXCEPT !.next = leaf[reg[t].n].next]
                     ELSE IF l = leaf[reg[t].n].next THEN [leaf[l] EXCEPT !.prev = reg[t].nr]
                     ELSE leaf[l]
<1>6. leaf' = [l \in LeafIds |-> new(l)]
  BY DEF LinkBack, Here
<1>7. ASSUME NEW l \in LeafIds
      PROVE  /\ new(l) \in LeafRecord
             /\ new(l).ver = leaf[l].ver /\ new(l).perm = leaf[l].perm /\ new(l).ikey = leaf[l].ikey
             /\ new(l).hasParent = leaf[l].hasParent /\ new(l).marked = leaf[l].marked
             /\ new(l).next = IF l = reg[t].nr THEN leaf[reg[t].n].next ELSE leaf[l].next
             /\ new(l).prev = IF l # reg[t].nr /\ l = leaf[reg[t].n].next THEN reg[t].nr ELSE leaf[l].prev
  <2>1. PICK x \in LeafRecord : x = leaf[l]
    BY <1>5
  <2>2. PICK a \in Nat : a = leaf[reg[t].n].next
    BY <1>4
  <2>3. PICK b \in Nat : b = reg[t].nr
    BY <1>4
  <2>4. new(l) = IF l = b THEN [x EXCEPT !.next = a] ELSE IF l = a THEN [x EXCEPT !.prev = b] ELSE x
    BY <2>1, <2>2, <2>3
  <2>5. /\ [x EXCEPT !.next = a] \in LeafRecord /\ [x EXCEPT !.prev = b] \in LeafRecord
        /\ [x EXCEPT !.next = a].ver = x.ver /\ [x EXCEPT !.next = a].perm = x.perm
        /\ [x EXCEPT !.next = a].ikey = x.ikey /\ [x EXCEPT !.next = a].hasParent = x.hasParent
        /\ [x EXCEPT !.next = a].marked = x.marked /\ [x EXCEPT !.next = a].next = a
        /\ [x EXCEPT !.next = a].prev = x.prev
        /\ [x EXCEPT !.prev = b].ver = x.ver /\ [x EXCEPT !.prev = b].perm = x.perm
        /\ [x EXCEPT !.prev = b].ikey = x.ikey /\ [x EXCEPT !.prev = b].hasParent = x.hasParent
        /\ [x EXCEPT !.prev = b].marked = x.marked /\ [x EXCEPT !.prev = b].next = x.next
        /\ [x EXCEPT !.prev = b].prev = b
    BY DEF LeafRecord
  <2> HIDE DEF new
  <2>6. CASE l = b
    BY <2>1, <2>2, <2>3, <2>4, <2>5, <2>6
  <2>7. CASE l # b /\ l = a
    BY <2>1, <2>2, <2>3, <2>4, <2>5, <2>7
  <2>8. CASE l # b /\ l # a
    BY <2>1, <2>2, <2>3, <2>4, <2>8
  <2> QED
    BY <2>6, <2>7, <2>8
<1> HIDE DEF new
<1>8. PICK k \in Nat : k = Len(leaf) /\ LeafIds = 1..k /\ k >= 1
  BY DEF Base, Types, LeafIds
<1>9. leaf' \in Seq(LeafRecord) /\ Len(leaf') = k /\ \A l \in LeafIds : leaf'[l] = new(l)
  BY <1>6, <1>7, <1>8
<1>10. LeafIds' = LeafIds /\ leaf' # <<>>
  BY <1>8, <1>9 DEF LeafIds
<1>11. Goes(t, "link", reg[t])
  BY <1>1, <1>3 DEF Base, Types, LinkBack, Goto, Goes
<1>12. "link" \in Places
  BY DEF Places
<1>13. Only(t) /\ pc'[t] = "link" /\ reg'[t] = reg[t]
  BY <1>3, <1>11, <1>12, GoesFacts DEF Base
<1> QED
  BY <1>1, <1>3, <1>7, <1>9, <1>10, <1>13

\* Steps that change only the internode and the place of t.
LEMMA TopStepGoes ==
  ASSUME Base, NEW t \in Threads, NEW p \in Places, pc' = [pc EXCEPT ![t] = p], reg' = reg
  PROVE  Only(t) /\ pc'[t] = p /\ reg'[t] = reg[t]
<1>1. reg[t] \in Local
  BY DEF Base, Types
<1>2. Goes(t, p, reg[t])
  BY DEF Base, Types, Goes
<1> QED
  BY <1>1, <1>2, GoesFacts DEF Base

LEMMA MarkParentEffect ==
  ASSUME Base, Concurrent, NEW t \in Threads, MarkParent(t)
  PROVE  /\ pc[t] = "markParent"
            /\ pc'[t] = (IF reg[t].kind = "put" THEN "addChild" ELSE "dropChild")
         /\ Only(t) /\ reg'[t] = reg[t] /\ leaf' = leaf /\ LeafIds' = LeafIds /\ freed' = freed
         /\ top'.ver = MarkInsert(top.ver) /\ top'.ikey = top.ikey /\ top'.child = top.child
         /\ top' \in [ver : Version, ikey : Seq(Int), child : Seq(Nat)]
<1>1. pc[t] = "markParent" /\ reg' = reg /\ leaf' = leaf /\ freed' = freed /\ LeafIds' = LeafIds
  BY DEF MarkParent, LeafIds
<1>2. (IF reg[t].kind = "put" THEN "addChild" ELSE "dropChild") \in Places
  BY DEF Places
<1>3. pc' = [pc EXCEPT ![t] = IF reg[t].kind = "put" THEN "addChild" ELSE "dropChild"]
  BY DEF MarkParent, Goto
<1>4. Only(t) /\ pc'[t] = (IF reg[t].kind = "put" THEN "addChild" ELSE "dropChild")
      /\ reg'[t] = reg[t]
  BY <1>1, <1>2, <1>3, TopStepGoes
<1>5. top \in [ver : Version, ikey : Seq(Int), child : Seq(Nat)]
  BY DEF Base, Types
<1>6. MarkInsert(top.ver) \in Version
  BY <1>5, MarkInsertVersion
<1>7. top' = [top EXCEPT !.ver = MarkInsert(top.ver)]
  BY DEF MarkParent
<1> QED
  BY <1>1, <1>4, <1>5, <1>6, <1>7

LEMMA UnlockParentEffect ==
  ASSUME Base, Concurrent, NEW t \in Threads, UnlockParent(t)
  PROVE  /\ pc[t] = "unlockParent" /\ pc'[t] = (IF reg[t].kind = "put" THEN "store" ELSE "free")
         /\ Only(t) /\ reg'[t] = reg[t] /\ leaf' = leaf /\ LeafIds' = LeafIds /\ freed' = freed
         /\ top'.ver = Unlock(top.ver) /\ top'.ikey = top.ikey /\ top'.child = top.child
         /\ top' \in [ver : Version, ikey : Seq(Int), child : Seq(Nat)]
<1>1. pc[t] = "unlockParent" /\ reg' = reg /\ leaf' = leaf /\ freed' = freed /\ LeafIds' = LeafIds
  BY DEF UnlockParent, LeafIds
<1>2. (IF reg[t].kind = "put" THEN "store" ELSE "free") \in Places
  BY DEF Places
<1>3. pc' = [pc EXCEPT ![t] = IF reg[t].kind = "put" THEN "store" ELSE "free"]
  BY DEF UnlockParent, Goto
<1>4. Only(t) /\ pc'[t] = (IF reg[t].kind = "put" THEN "store" ELSE "free") /\ reg'[t] = reg[t]
  BY <1>1, <1>2, <1>3, TopStepGoes
<1>5. top \in [ver : Version, ikey : Seq(Int), child : Seq(Nat)]
  BY DEF Base, Types
<1>6. Unlock(top.ver) \in Version
  BY <1>5, UnlockVersion
<1>7. top' = [top EXCEPT !.ver = Unlock(top.ver)]
  BY DEF UnlockParent
<1> QED
  BY <1>1, <1>4, <1>5, <1>6, <1>7

LEMMA LockParentEffect ==
  ASSUME Base, Concurrent, NEW t \in Threads, LockParent(t)
  PROVE  /\ pc[t] = "parent"
            /\ pc'[t] = (IF reg[t].kind = "put" THEN "markParent" ELSE "unlockDeleted")
         /\ Only(t) /\ SameCaller(t) /\ reg'[t].n = reg[t].n /\ reg'[t].nr = reg[t].nr
            /\ reg'[t].aux = reg[t].aux
         /\ reg'[t].ki = reg[t].ki /\ reg'[t].kp = reg[t].kp /\ reg'[t].toRight = reg[t].toRight
            /\ reg'[t].hasTop
         /\ leaf' = leaf /\ LeafIds' = LeafIds /\ freed' = freed
         /\ reg[t].n \in LeafIds /\ leaf[reg[t].n].hasParent /\ ~top.ver.lock
         /\ top'.ver = Lock(top.ver) /\ top'.ikey = top.ikey /\ top'.child = top.child
         /\ top' \in [ver : Version, ikey : Seq(Int), child : Seq(Nat)]
<1>1. pc[t] = "parent" /\ leaf' = leaf /\ freed' = freed /\ LeafIds' = LeafIds
      /\ leaf[reg[t].n].hasParent
      /\ ~top.ver.lock
  BY DEF LockParent, LeafIds, Here, Locked
<1>2. reg[t].n \in LeafIds /\ reg[t] \in Local
  BY <1>1, AtLeaf DEF LeafPlaces, BothPlaces
<1> DEFINE r == [reg[t] EXCEPT !.hasTop = TRUE]
<1>3. Goes(t, IF reg[t].kind = "put" THEN "markParent" ELSE "unlockDeleted", r)
  BY <1>2 DEF Base, Types, LockParent, Goto, Goes
<1>4. /\ r \in Local /\ r.kind = reg[t].kind /\ r.key = reg[t].key /\ r.val = reg[t].val
      /\ r.n = reg[t].n /\ r.nr = reg[t].nr /\ r.aux = reg[t].aux /\ r.hasTop = TRUE
         /\ r.ki = reg[t].ki
      /\ r.kp = reg[t].kp /\ r.toRight = reg[t].toRight
  BY <1>2 DEF Local
<1> HIDE DEF r
<1>5. (IF reg[t].kind = "put" THEN "markParent" ELSE "unlockDeleted") \in Places
  BY DEF Places
<1>6. Only(t) /\ pc'[t] = (IF reg[t].kind = "put" THEN "markParent" ELSE "unlockDeleted")
      /\ reg'[t] = r
  BY <1>3, <1>4, <1>5, GoesFacts DEF Base
<1>7. top \in [ver : Version, ikey : Seq(Int), child : Seq(Nat)]
  BY DEF Base, Types
<1>8. Lock(top.ver) \in Version
  BY <1>7, LockVersion
<1>9. top' = [top EXCEPT !.ver = Lock(top.ver)]
  BY DEF LockParent
<1> QED
  BY <1>1, <1>2, <1>4, <1>6, <1>7, <1>8, <1>9 DEF SameCaller

LEMMA FreeLeafEffect ==
  ASSUME Base, Concurrent, NEW t \in Threads, FreeLeaf(t)
  PROVE  /\ pc[t] = "free" /\ pc'[t] = "done" /\ Only(t) /\ top' = top
            /\ freed' = freed \cup {reg[t].n}
         /\ Free("done", reg'[t]) /\ reg'[t].kind = reg[t].kind /\ reg'[t].n = Null
            /\ reg'[t].nr = Null
         /\ reg'[t].aux = Null /\ leaf' = leaf /\ LeafIds' = LeafIds /\ reg[t].n \in LeafIds
<1>1. pc[t] = "free" /\ top' = top /\ freed' = freed \cup {reg[t].n} /\ leaf' = leaf
      /\ LeafIds' = LeafIds
  BY DEF FreeLeaf, nodes, LeafIds
<1>2. reg[t].n \in LeafIds /\ reg[t] \in Local
  BY <1>1, AtLeaf DEF LeafPlaces, RemovePlaces
<1>3. reg[t].lv \in Values \cup {Blank}
  BY <1>2, LocalType
<1>4. Return(t, reg[t].lv)
  BY DEF FreeLeaf
<1> QED
  BY <1>1, <1>2, <1>3, <1>4, ReturnFree
-----------------------------------------------------------------------------
(* The effect of the steps on the internode.                                *)

LEMMA UpperType ==
  ASSUME Base, NEW k \in Int
  PROVE  Upper(k) \in 0..Len(top.ikey) /\ Len(top.ikey) \in Nat
<1>1. PICK z \in Nat : z = Len(top.ikey)
  BY DEF Base, Types
<1> DEFINE low == {i \in 1..z : top.ikey[i] <= k}
<1>2. Upper(k) = Cardinality(low)
  BY <1>1 DEF Upper
<1>3. low \in SUBSET (1..z)
  OBVIOUS
<1> HIDE DEF low
<1>4. Cardinality(low) \in 0..z
  BY <1>3, CountAmong
<1> QED
  BY <1>1, <1>2, <1>4

Ascending(q) == \A i, j \in 1..Len(q) : i < j => q[i] <= q[j]

LEMMA UpperFacts ==
  ASSUME Base, Ascending(top.ikey), NEW k \in Int
  PROVE  \A i \in 1..Len(top.ikey) : i <= Upper(k) <=> top.ikey[i] <= k
<1>1. PICK z \in Nat : z = Len(top.ikey)
  BY DEF Base, Types
<1>2. \A i \in 1..z : top.ikey[i] \in Int
  BY <1>1 DEF Base, Types
<1> DEFINE low == {i \in 1..z : top.ikey[i] <= k}
<1>3. Upper(k) = Cardinality(low)
  BY <1>1 DEF Upper
<1>4. low \in SUBSET (1..z)
  OBVIOUS
<1>5. \A i \in low : \A j \in 1..z : j < i => j \in low
  BY <1>1, <1>2 DEF Ascending
<1>6. \A i \in 1..z : i \in low <=> top.ikey[i] <= k
  OBVIOUS
<1> HIDE DEF low
<1>7. Cardinality(low) \in 0..z /\ low = 1..Cardinality(low)
  BY <1>4, <1>5, CountBelow
<1>8. \A i \in 1..z : i <= Cardinality(low) <=> i \in low
  BY <1>7
<1> QED
  BY <1>1, <1>3, <1>6, <1>8

LEMMA ToppedFacts ==
  ASSUME Base, Topped
  PROVE  /\ top.ver \in Version /\ top.ikey \in Seq(Int) /\ top.child \in Seq(Nat)
         /\ Len(top.ikey) \in Nat /\ Len(top.child) = Len(top.ikey) + 1
  BY DEF Base, Types, Topped, NoTop

LEMMA NewTopEffect ==
  ASSUME Base, Concurrent, NEW t \in Threads, NewTop(t)
  PROVE  /\ pc[t] = "parent" /\ pc'[t] = "split" /\ Only(t) /\ reg'[t] = reg[t] /\ freed' = freed
         /\ reg[t].n \in LeafIds /\ ~leaf[reg[t].n].hasParent
         /\ leaf' \in Seq(LeafRecord) /\ leaf' # <<>> /\ LeafIds' = LeafIds
         /\ \A l \in LeafIds :
              /\ leaf'[l].ver = leaf[l].ver /\ leaf'[l].perm = leaf[l].perm
                 /\ leaf'[l].ikey = leaf[l].ikey
              /\ leaf'[l].next = leaf[l].next /\ leaf'[l].marked = leaf[l].marked
                 /\ leaf'[l].prev = leaf[l].prev
              /\ leaf'[l].hasParent = (leaf[l].hasParent \/ l = reg[t].n \/ l = reg[t].nr)
         /\ top' = [ver |-> RootVersion, ikey |-> <<Bound(reg[t].nr)>>, child |-> <<reg[t].n, reg[t].nr>>]
<1>1. pc[t] = "parent" /\ reg' = reg /\ freed' = freed /\ ~leaf[reg[t].n].hasParent
      /\ top' = [ver |-> RootVersion, ikey |-> <<Bound(reg[t].nr)>>, child |-> <<reg[t].n, reg[t].nr>>]
  BY DEF NewTop, Here, RootVersion
<1>2. reg[t].n \in LeafIds
  BY <1>1, AtLeaf DEF LeafPlaces, BothPlaces
<1>3. "split" \in Places /\ pc' = [pc EXCEPT ![t] = "split"]
  BY DEF Places, NewTop, Goto
<1>4. Only(t) /\ pc'[t] = "split" /\ reg'[t] = reg[t]
  BY <1>1, <1>3, TopStepGoes
<1>5. PICK l1 \in LeafIds : l1 = reg[t].n
  BY <1>2
<1>6. PICK l2 : l2 = reg[t].nr
  OBVIOUS
<1>7. leaf' = [leaf EXCEPT ![l1].hasParent = TRUE, ![l2].hasParent = TRUE]
  BY <1>5, <1>6 DEF NewTop
<1>8. PICK k \in Nat : k = Len(leaf) /\ LeafIds = 1..k /\ k >= 1
  BY DEF Base, Types, LeafIds
<1>9. \A l \in 1..k : leaf[l] \in LeafRecord
  BY <1>8, LeafFacts
<1>10. \A l \in 1..k : leaf'[l] = IF l = l1 \/ l = l2 THEN [leaf[l] EXCEPT !.hasParent = TRUE] ELSE leaf[l]
  <2>1. leaf \in [1..k -> LeafRecord]
    BY <1>8 DEF Base, Types
  <2> DEFINE a == [leaf EXCEPT ![l1].hasParent = TRUE]
  <2>4. a \in [1..k -> LeafRecord] /\ \A l \in 1..k : a[l] = IF l = l1 THEN [leaf[l] EXCEPT !.hasParent = TRUE] ELSE leaf[l]
    BY <1>9, <2>1 DEF LeafRecord
  <2>5. leaf' = [a EXCEPT ![l2].hasParent = TRUE]
    BY <1>7
  <2> HIDE DEF a
  <2>6. \A l \in 1..k : leaf'[l] = IF l = l2 THEN [a[l] EXCEPT !.hasParent = TRUE] ELSE a[l]
    BY <2>4, <2>5
  <2> SUFFICES ASSUME NEW l \in 1..k
               PROVE  leaf'[l] = IF l = l1 \/ l = l2 THEN [leaf[l] EXCEPT !.hasParent = TRUE] ELSE leaf[l]
    OBVIOUS
  <2>7. PICK x \in LeafRecord : x = leaf[l]
    BY <1>9
  <2>8. [[x EXCEPT !.hasParent = TRUE] EXCEPT !.hasParent = TRUE] = [x EXCEPT !.hasParent = TRUE]
    BY DEF LeafRecord
  <2> QED
    BY <2>4, <2>6, <2>7, <2>8
<1>11. \A x \in LeafRecord :
         LET y == [x EXCEPT !.hasParent = TRUE] IN
         /\ y \in LeafRecord /\ y.ver = x.ver /\ y.perm = x.perm /\ y.ikey = x.ikey
            /\ y.next = x.next
         /\ y.marked = x.marked /\ y.prev = x.prev /\ y.hasParent = TRUE
  BY DEF LeafRecord
<1>12. ASSUME NEW l \in 1..k
       PROVE  /\ leaf'[l] \in LeafRecord
              /\ leaf'[l].ver = leaf[l].ver /\ leaf'[l].perm = leaf[l].perm
                 /\ leaf'[l].ikey = leaf[l].ikey
              /\ leaf'[l].next = leaf[l].next /\ leaf'[l].marked = leaf[l].marked
                 /\ leaf'[l].prev = leaf[l].prev
              /\ leaf'[l].hasParent = (leaf[l].hasParent \/ l = l1 \/ l = l2)
  <2>1. PICK x \in LeafRecord : x = leaf[l]
    BY <1>9
  <2>2. x.hasParent \in BOOLEAN
    BY <2>1 DEF LeafRecord
  <2> QED
    BY <1>10, <1>11, <2>1, <2>2
<1>13. Len(leaf') = k /\ leaf' \in Seq(LeafRecord)
  <2>1. leaf \in [1..k -> LeafRecord]
    BY <1>8 DEF Base, Types
  <2>2. leaf' = [l \in 1..k |-> leaf'[l]]
    BY <1>7, <2>1
  <2>3. leaf' \in [1..k -> LeafRecord]
    BY <1>12, <2>2
  <2> QED
    BY <1>8, <2>3
<1>14. LeafIds' = LeafIds /\ leaf' # <<>>
  BY <1>8, <1>13 DEF LeafIds
<1> QED
  BY <1>1, <1>2, <1>4, <1>5, <1>6, <1>8, <1>12, <1>13, <1>14

Inserted(r, q, i, e, len) ==
  /\ Len(r) = len + 1
  /\ \A j \in 1..i : r[j] = q[j]
  /\ r[i + 1] = e
  /\ \A j \in (i + 2)..(len + 1) : r[j] = q[j - 1]

LEMMA InsertedAt ==
  ASSUME NEW S, NEW q \in Seq(S), NEW e \in S, NEW len \in Nat, len = Len(q), NEW i \in 0..len,
         NEW r, r = InsertAt(q, i + 1, e)
  PROVE  r \in Seq(S) /\ Inserted(r, q, i, e, len)
<1>1. PICK k \in 1..(Len(q) + 1) : k = i + 1
  OBVIOUS
<1>2. /\ InsertAt(q, k, e) \in Seq(S) /\ Len(InsertAt(q, k, e)) = Len(q) + 1
      /\ \A j \in 1..(k - 1) : InsertAt(q, k, e)[j] = q[j]
      /\ InsertAt(q, k, e)[k] = e
      /\ \A j \in (k + 1)..(Len(q) + 1) : InsertAt(q, k, e)[j] = q[j - 1]
  BY <1>1, InsertAtFacts
<1>3. r = InsertAt(q, k, e)
  BY <1>1
<1> QED
  BY <1>1, <1>2, <1>3 DEF Inserted

Removed(r, q, i, len) ==
  /\ Len(r) = len - 1
  /\ \A j \in 1..(i - 1) : r[j] = q[j]
  /\ \A j \in i..(len - 1) : r[j] = q[j + 1]

LEMMA RemovedAt ==
  ASSUME NEW S, NEW q \in Seq(S), NEW len \in Nat, len = Len(q), NEW i \in 1..len,
         NEW r, r = RemoveAt(q, i)
  PROVE  r \in Seq(S) /\ Removed(r, q, i, len)
<1>2. /\ RemoveAt(q, i) \in Seq(S) /\ Len(RemoveAt(q, i)) = Len(q) - 1
      /\ \A j \in 1..(i - 1) : RemoveAt(q, i)[j] = q[j]
      /\ \A j \in i..(Len(q) - 1) : RemoveAt(q, i)[j] = q[j + 1]
  BY RemoveAtFacts
<1> QED
  BY <1>2 DEF Removed

LEMMA AddChildEffect ==
  ASSUME Base, Concurrent, NEW t \in Threads, AddChild(t),
         NEW kp, kp = Upper(Bound(reg[t].nr)), NEW len, len = Len(top.ikey)
  PROVE  /\ pc[t] = "addChild" /\ pc'[t] = "split" /\ Only(t) /\ reg'[t] = reg[t] /\ freed' = freed
         /\ Writes(reg[t].nr) /\ SameVer(reg[t].nr) /\ SameKeys(reg[t].nr) /\ SameLinks(reg[t].nr)
         /\ leaf'[reg[t].nr].prev = leaf[reg[t].nr].prev /\ leaf'[reg[t].nr].hasParent = TRUE
         /\ kp \in 0..len /\ len \in Nat /\ Topped
         /\ top' \in [ver : Version, ikey : Seq(Int), child : Seq(Nat)] /\ top'.ver = top.ver
         /\ Inserted(top'.ikey, top.ikey, kp, Bound(reg[t].nr), len)
         /\ Inserted(top'.child, top.child, kp + 1, reg[t].nr, len + 1)
<1>1. pc[t] = "addChild" /\ reg' = reg /\ freed' = freed /\ HoldsOther(t) /\ HoldsTop(t)
  BY DEF AddChild, HoldsOther, Halving, HoldsTop
<1>2. reg[t].nr \in LeafIds /\ leaf[reg[t].nr] \in LeafRecord /\ Bound(reg[t].nr) \in Int
      /\ reg[t].nr \in Nat
  <2>1. reg[t].nr \in LeafIds
    BY <1>1, HoldsIsLocked
  <2>2. leaf[reg[t].nr].ikey \in [Slots -> Int] /\ 0 \in Slots
    BY <2>1, LeafFacts, WidthType
  <2> QED
    BY <2>1, <2>2, LeafFacts, LeafIdFacts DEF Bound
<1>3. Topped
  BY <1>1 DEF Base, TopLocking
<1>4. /\ top.ver \in Version /\ top.ikey \in Seq(Int) /\ top.child \in Seq(Nat)
      /\ len \in Nat /\ Len(top.child) = len + 1 /\ kp \in 0..len
  BY <1>2, <1>3, ToppedFacts, UpperType
<1>5. "split" \in Places /\ pc' = [pc EXCEPT ![t] = "split"]
  BY DEF Places, AddChild, Goto
<1>6. Only(t) /\ pc'[t] = "split" /\ reg'[t] = reg[t]
  BY <1>1, <1>5, TopStepGoes
<1> DEFINE x == [leaf[reg[t].nr] EXCEPT !.hasParent = TRUE]
<1>7. leaf' = [leaf EXCEPT ![reg[t].nr] = x]
  BY <1>2 DEF AddChild, Base, Types, LeafIds
<1>8. /\ x \in LeafRecord /\ x.ver = leaf[reg[t].nr].ver /\ x.perm = leaf[reg[t].nr].perm
      /\ x.ikey = leaf[reg[t].nr].ikey /\ x.next = leaf[reg[t].nr].next
         /\ x.marked = leaf[reg[t].nr].marked
      /\ x.prev = leaf[reg[t].nr].prev /\ x.hasParent = TRUE
  BY <1>2 DEF LeafRecord
<1> HIDE DEF x
<1>9. Writes(reg[t].nr) /\ leaf'[reg[t].nr] = x
  BY <1>2, <1>7, <1>8, WriteFacts
<1>10. top' = [top EXCEPT !.ikey = InsertAt(top.ikey, kp + 1, Bound(reg[t].nr)),
                          !.child = InsertAt(top.child, kp + 2, reg[t].nr)]
  BY DEF AddChild
<1>11. PICK a : a = InsertAt(top.ikey, kp + 1, Bound(reg[t].nr))
  OBVIOUS
<1>12. a \in Seq(Int) /\ Inserted(a, top.ikey, kp, Bound(reg[t].nr), len)
  <2>1. PICK q \in Seq(Int) : q = top.ikey
    BY <1>4
  <2>2. PICK e \in Int : e = Bound(reg[t].nr)
    BY <1>2
  <2>3. a = InsertAt(q, kp + 1, e) /\ len = Len(q)
    BY <1>11, <2>1, <2>2
  <2>4. a \in Seq(Int) /\ Inserted(a, q, kp, e, len)
    BY <1>4, <2>1, <2>2, <2>3, InsertedAt
  <2> QED
    BY <2>1, <2>2, <2>4
<1>13. PICK b : b = InsertAt(top.child, kp + 2, reg[t].nr)
  OBVIOUS
<1>14. b \in Seq(Nat) /\ Inserted(b, top.child, kp + 1, reg[t].nr, len + 1)
  <2>1. PICK q \in Seq(Nat) : q = top.child
    BY <1>4
  <2>2. PICK e \in Nat : e = reg[t].nr
    BY <1>2
  <2>3. PICK m \in Nat : m = len + 1
    BY <1>4
  <2>4. PICK i \in 0..m : i = kp + 1
    BY <1>4, <2>3
  <2>5. b = InsertAt(q, i + 1, e) /\ m = Len(q)
    <3>1. i + 1 = kp + 2
      BY <1>4, <2>4
    <3> QED
      BY <1>4, <1>13, <2>1, <2>2, <2>3, <3>1
  <2>6. b \in Seq(Nat) /\ Inserted(b, q, i, e, m)
    BY <2>1, <2>2, <2>3, <2>4, <2>5, InsertedAt
  <2> QED
    BY <2>1, <2>2, <2>3, <2>4, <2>6
<1>15. /\ top' \in [ver : Version, ikey : Seq(Int), child : Seq(Nat)] /\ top'.ver = top.ver
       /\ top'.ikey = a /\ top'.child = b
  <2>1. top' = [top EXCEPT !.ikey = a, !.child = b]
    BY <1>10, <1>11, <1>13
  <2>2. top \in [ver : Version, ikey : Seq(Int), child : Seq(Nat)]
    BY DEF Base, Types
  <2> QED
    BY <1>12, <1>14, <2>1, <2>2
<1> QED
  BY <1>1, <1>3, <1>4, <1>6, <1>8, <1>9, <1>12, <1>14, <1>15 DEF SameVer, SameKeys, SameLinks

LEMMA DropChildEffect ==
  ASSUME Base, Concurrent, NEW t \in Threads, DropChild(t),
         NEW kp, kp = Upper(Bound(reg[t].n)), kp >= 1, NEW len, len = Len(top.ikey)
  PROVE  /\ pc[t] = "dropChild" /\ pc'[t] = "unlockParent" /\ Only(t) /\ reg'[t] = reg[t]
            /\ freed' = freed
         /\ leaf' = leaf /\ LeafIds' = LeafIds /\ reg[t].n \in LeafIds
         /\ kp \in 1..len /\ len \in Nat /\ Topped
         /\ top' \in [ver : Version, ikey : Seq(Int), child : Seq(Nat)] /\ top'.ver = top.ver
         /\ Removed(top'.ikey, top.ikey, kp, len) /\ Removed(top'.child, top.child, kp + 1, len + 1)
<1>1. pc[t] = "dropChild" /\ reg' = reg /\ freed' = freed /\ leaf' = leaf /\ LeafIds' = LeafIds
      /\ HoldsTop(t)
  BY DEF DropChild, HoldsTop, LeafIds
<1>2. reg[t].n \in LeafIds
  BY <1>1, AtLeaf DEF LeafPlaces, RemovePlaces
<1>3. Topped
  BY <1>1 DEF Base, TopLocking
<1>4. Bound(reg[t].n) \in Int
  <2>1. leaf[reg[t].n].ikey \in [Slots -> Int] /\ 0 \in Slots
    BY <1>2, LeafFacts, WidthType
  <2> QED
    BY <2>1 DEF Bound
<1>5. /\ top.ver \in Version /\ top.ikey \in Seq(Int) /\ top.child \in Seq(Nat)
      /\ len \in Nat /\ Len(top.child) = len + 1 /\ kp \in 1..len
  BY <1>3, <1>4, ToppedFacts, UpperType
<1>6. "unlockParent" \in Places /\ pc' = [pc EXCEPT ![t] = "unlockParent"]
  BY DEF Places, DropChild, Goto
<1>7. Only(t) /\ pc'[t] = "unlockParent" /\ reg'[t] = reg[t]
  BY <1>1, <1>6, TopStepGoes
<1>8. top' = [top EXCEPT !.ikey = RemoveAt(top.ikey, kp), !.child = RemoveAt(top.child, kp + 1)]
  BY DEF DropChild
<1>9. PICK a : a = RemoveAt(top.ikey, kp)
  OBVIOUS
<1>10. a \in Seq(Int) /\ Removed(a, top.ikey, kp, len)
  <2>1. PICK q \in Seq(Int) : q = top.ikey
    BY <1>5
  <2>2. a = RemoveAt(q, kp) /\ len = Len(q)
    BY <1>9, <2>1
  <2>3. a \in Seq(Int) /\ Removed(a, q, kp, len)
    BY <1>5, <2>1, <2>2, RemovedAt
  <2> QED
    BY <2>1, <2>3
<1>11. PICK b : b = RemoveAt(top.child, kp + 1)
  OBVIOUS
<1>12. b \in Seq(Nat) /\ Removed(b, top.child, kp + 1, len + 1)
  <2>1. PICK q \in Seq(Nat) : q = top.child
    BY <1>5
  <2>2. PICK m \in Nat : m = len + 1
    BY <1>5
  <2>3. PICK i \in 1..m : i = kp + 1
    BY <1>5, <2>2
  <2>4. b = RemoveAt(q, i) /\ m = Len(q)
    BY <1>5, <1>11, <2>1, <2>2, <2>3
  <2>5. b \in Seq(Nat) /\ Removed(b, q, i, m)
    BY <2>1, <2>2, <2>3, <2>4, RemovedAt
  <2> QED
    BY <2>1, <2>2, <2>3, <2>5
<1>13. /\ top' \in [ver : Version, ikey : Seq(Int), child : Seq(Nat)] /\ top'.ver = top.ver
       /\ top'.ikey = a /\ top'.child = b
  <2>1. top' = [top EXCEPT !.ikey = a, !.child = b]
    BY <1>8, <1>9, <1>11
  <2>2. top \in [ver : Version, ikey : Seq(Int), child : Seq(Nat)]
    BY DEF Base, Types
  <2> QED
    BY <1>10, <1>12, <2>1, <2>2
<1> QED
  BY <1>1, <1>2, <1>3, <1>5, <1>7, <1>10, <1>12, <1>13
-----------------------------------------------------------------------------
(* The effect of the step that shrinks the leaf of a split.                 *)

LEMMA ShrunkFacts ==
  ASSUME Base, NEW t \in Threads, Halving(t)
  PROVE  /\ Shrunk(t) \in Permuters /\ Shrunk(t).size = Keep(t)
            /\ Keep(t) \in 0..leaf[reg[t].n].perm.size
         /\ \A i \in 1..Keep(t) : Shrunk(t).order[i] = leaf[reg[t].n].perm.order[i]
         /\ leaf[reg[t].n].perm.size = Width => Back(Shrunk(t)) = Back(leaf[reg[t].n].perm)
         /\ leaf[reg[t].n].perm.size # Width
            => Back(Shrunk(t)) = leaf[reg[t].n].perm.order[Keep(t) + 1]
<1>1. reg[t].n \in LeafIds /\ reg[t].nr \in LeafIds
  BY HoldsIsLocked DEF HoldsOther
<1>2. PICK p \in Permuters : p = leaf[reg[t].n].perm
  BY <1>1, LeafFacts
<1>3. PICK q \in Permuters : q = leaf[reg[t].nr].perm
  BY <1>1, LeafFacts
<1>4. Keep(t) = p.size - q.size
  BY <1>2, <1>3 DEF Keep
<1>5. Keep(t) \in 0..p.size /\ p.size >= Width - 1
  BY <1>2 DEF Base, Placing, Placed
<1>6. p.size \in 0..Width /\ Width \in Nat /\ q.size \in 0..Width
  BY PermType, WidthType
<1>7. PICK keep \in 0..Width : keep = Keep(t)
  BY <1>5, <1>6
<1>8. PICK less : less = [p EXCEPT !.size = keep]
  OBVIOUS
<1>9. less \in Permuters /\ less.size = keep /\ less.order = p.order
  BY <1>8, ResizeFacts
<1>10. Shrunk(t) = IF p.size = Width THEN less ELSE Exchange(less, keep, Width - 1)
  BY <1>2, <1>3, <1>4, <1>7, <1>8, <1>9 DEF Shrunk, Here
<1>11. CASE p.size = Width
  BY <1>2, <1>5, <1>7, <1>9, <1>10, <1>11 DEF Back
<1>12. CASE p.size # Width
  <2>1. PICK i \in 0..(Width - 1) : i = keep
    BY <1>5, <1>6, <1>7, <1>12
  <2>2. PICK j \in 0..(Width - 1) : j = Width - 1
    BY WidthType
  <2>3. /\ Exchange(less, i, j) \in Permuters /\ Exchange(less, i, j).size = less.size
        /\ Exchange(less, i, j).order[j + 1] = less.order[i + 1]
        /\ \A x \in 1..Width : x # i + 1 /\ x # j + 1
           => Exchange(less, i, j).order[x] = less.order[x]
    BY <1>9, ExchangeFacts
  <2>4. j + 1 = Width
    BY <2>2, WidthType
  <2>5. \A x \in 1..keep : x \in 1..Width /\ x # i + 1 /\ x # j + 1
    BY <1>5, <1>6, <1>7, <1>12, <2>1, <2>4
  <2>6. Shrunk(t) = Exchange(less, i, j)
    BY <1>10, <1>12, <2>1, <2>2
  <2> QED
    BY <1>2, <1>5, <1>7, <1>9, <1>12, <2>1, <2>3, <2>4, <2>5, <2>6 DEF Back
<1> QED
  BY <1>11, <1>12

LEMMA ShrinkEffect ==
  ASSUME Base, Concurrent, NEW t \in Threads, Shrink(t)
  PROVE  /\ pc[t] = "shrink" /\ Halving(t) /\ Only(t) /\ top' = top /\ freed' = freed
         /\ SameCaller(t) /\ reg'[t].aux = reg[t].aux /\ reg'[t].hasTop = reg[t].hasTop
         /\ Writes(reg[t].n) /\ SameVer(reg[t].n) /\ leaf'[reg[t].n].perm = Shrunk(t)
         /\ leaf'[reg[t].n].ikey = leaf[reg[t].n].ikey /\ SameLinks(reg[t].n) /\ SameRest(reg[t].n)
         /\ pc'[t] = (IF reg[t].toRight THEN "unlockOther" ELSE "assign")
         /\ reg[t].toRight => /\ reg'[t].n = reg[t].nr /\ reg'[t].nr = reg[t].n
                              /\ reg'[t].ki = reg[t].ki - Keep(t)
                                 /\ reg'[t].kp = reg[t].ki - Keep(t)
         /\ ~reg[t].toRight => /\ reg'[t].n = reg[t].n /\ reg'[t].nr = reg[t].nr
                               /\ reg'[t].ki = reg[t].ki /\ reg'[t].kp = Back(Shrunk(t))
<1>1. pc[t] = "shrink" /\ top' = top /\ freed' = freed /\ Halving(t)
  BY DEF Shrink, Halving
<1>2. reg[t].n \in LeafIds /\ reg[t].nr \in LeafIds /\ reg[t] \in Local
  BY <1>1, HoldsIsLocked DEF HoldsOther, Base, Types
<1>3. leaf[reg[t].n] \in LeafRecord /\ reg[t].n \in Nat /\ reg[t].nr \in Nat /\ reg[t].ki \in Int
  BY <1>2, LeafFacts, LocalType
<1>4. PICK p \in Permuters : p = Shrunk(t)
  BY <1>1, ShrunkFacts
<1>5. p.size = Keep(t) /\ Keep(t) \in Int
  BY <1>1, <1>4, ShrunkFacts, PermType
<1>6. Back(p) \in Int
  BY BackInt
<1> DEFINE x == [leaf[reg[t].n] EXCEPT !.perm = p]
<1>7. leaf' = [leaf EXCEPT ![reg[t].n] = x]
  BY <1>2, <1>4 DEF Shrink, Base, Types, LeafIds
<1>8. /\ x \in LeafRecord /\ x.ver = leaf[reg[t].n].ver /\ x.perm = p
      /\ x.ikey = leaf[reg[t].n].ikey /\ x.next = leaf[reg[t].n].next
         /\ x.marked = leaf[reg[t].n].marked
      /\ x.prev = leaf[reg[t].n].prev /\ x.hasParent = leaf[reg[t].n].hasParent
  BY <1>3 DEF LeafRecord
<1> HIDE DEF x
<1>9. Writes(reg[t].n) /\ leaf'[reg[t].n] = x
  BY <1>2, <1>7, <1>8, WriteFacts
<1>10. PICK d \in Int : d = reg[t].ki - Keep(t)
  BY <1>3, <1>5
<1> DEFINE right == [reg[t] EXCEPT !.n = reg[t].nr, !.nr = reg[t].n, !.ki = d, !.kp = d]
           left == [reg[t] EXCEPT !.kp = Back(p)]
           r == IF reg[t].toRight THEN right ELSE left
<1>11. /\ right \in Local /\ right.kind = reg[t].kind /\ right.key = reg[t].key
          /\ right.val = reg[t].val
       /\ right.n = reg[t].nr /\ right.nr = reg[t].n /\ right.aux = reg[t].aux
          /\ right.hasTop = reg[t].hasTop
       /\ right.ki = d /\ right.kp = d
  BY <1>2, <1>3 DEF Local
<1>12. /\ left \in Local /\ left.kind = reg[t].kind /\ left.key = reg[t].key
          /\ left.val = reg[t].val
       /\ left.n = reg[t].n /\ left.nr = reg[t].nr /\ left.aux = reg[t].aux
          /\ left.hasTop = reg[t].hasTop
       /\ left.ki = reg[t].ki /\ left.kp = Back(p)
  BY <1>2, <1>6 DEF Local
<1>13. reg' = [reg EXCEPT ![t] = r]
  <2>1. reg' = [reg EXCEPT ![t] =
               IF reg[t].toRight
               THEN [reg[t] EXCEPT !.n = reg[t].nr, !.nr = reg[t].n,
                                   !.ki = reg[t].ki - Shrunk(t).size,
                                   !.kp = reg[t].ki - Shrunk(t).size]
               ELSE [reg[t] EXCEPT !.kp = Back(Shrunk(t))]]
    BY DEF Shrink
  <2>2. reg[t].ki - Shrunk(t).size = d
    BY <1>4, <1>5, <1>10
  <2> QED
    BY <1>4, <2>1, <2>2
<1>14. Goes(t, IF reg[t].toRight THEN "unlockOther" ELSE "assign", r)
  BY <1>13 DEF Shrink, Goto, Goes
<1> HIDE DEF right, left
<1>15. r \in Local
  BY <1>11, <1>12
<1>16. (IF reg[t].toRight THEN "unlockOther" ELSE "assign") \in Places
  BY DEF Places
<1>17. /\ Only(t) /\ reg'[t] = r
       /\ pc'[t] = (IF reg[t].toRight THEN "unlockOther" ELSE "assign")
  <2> HIDE DEF r
  <2> QED
    BY <1>14, <1>15, <1>16, GoesFacts DEF Base
<1>18. SameCaller(t) /\ reg'[t].aux = reg[t].aux /\ reg'[t].hasTop = reg[t].hasTop
  BY <1>11, <1>12, <1>15, <1>17 DEF SameCaller
<1>19. reg[t].toRight => /\ reg'[t].n = reg[t].nr /\ reg'[t].nr = reg[t].n
                         /\ reg'[t].ki = reg[t].ki - Keep(t) /\ reg'[t].kp = reg[t].ki - Keep(t)
  BY <1>10, <1>11, <1>17
<1>20. ~reg[t].toRight => /\ reg'[t].n = reg[t].n /\ reg'[t].nr = reg[t].nr
                          /\ reg'[t].ki = reg[t].ki /\ reg'[t].kp = Back(Shrunk(t))
  BY <1>4, <1>12, <1>17
<1> QED
  BY <1>1, <1>4, <1>8, <1>9, <1>17, <1>18, <1>19, <1>20 DEF SameVer, SameKeys, SameLinks, SameRest
-----------------------------------------------------------------------------
(* Steps that keep the locks of t.                                          *)

\* t changes the versions and the keys of no leaf but those that it has locked.
Own(t) ==
  \A l \in LeafIds : ~Holds(t, l) =>
    leaf'[l].ver = leaf[l].ver /\ leaf'[l].perm = leaf[l].perm /\ leaf'[l].ikey = leaf[l].ikey

SameRoles(t) ==
  /\ \A l : Holds(t, l)' <=> Holds(t, l)
  /\ HoldsTop(t)' <=> HoldsTop(t)
  /\ Pending(t) => Pending(t)' /\ reg'[t].n = reg[t].n /\ reg'[t].nr = reg[t].nr
  /\ pc'[t] \notin {"decide", "addChild", "dropChild"}

SoundLinks(l) ==
  /\ leaf'[l].next \in OptLeaf \ {1} /\ leaf'[l].prev \in OptLeaf
  /\ leaf'[l].prev = Null <=> l = 1

LEMMA SoundLinksNow ==
  ASSUME Base, NEW l \in LeafIds, leaf'[l].next = leaf[l].next, leaf'[l].prev = leaf[l].prev
  PROVE  SoundLinks(l)
  BY DEF Base, Pointers, SoundLinks

LEMMA TypesKept ==
  ASSUME Base, NEW t \in Threads, Only(t), leaf' \in Seq(LeafRecord), leaf' # <<>>, top' = top,
         freed' \subseteq LeafIds'
  PROVE  Types'
  BY DEF Base, Types, Only, Topped

LEMMA TopQuiet ==
  ASSUME Base, NEW t \in Threads, Only(t), top' = top, HoldsTop(t)' <=> HoldsTop(t),
         pc'[t] \notin {"addChild", "dropChild"}
  PROVE  TopLocking'
<1>1. /\ top.ver.lock <=> \E u \in Threads : HoldsTop(u)
      /\ ~top.ver.lock => ~top.ver.ins
      /\ ~top.ver.spl /\ ~top.ver.del /\ top.ver.vsplit = 0
      /\ Topped => top.ver.root
      /\ HoldsTop(t) => Topped
  BY DEF Base, TopLocking
<1>2. Topped' = Topped
  BY DEF Topped
<1>3. /\ top'.ver.lock <=> HoldsTop(t)' \/ (top.ver.lock /\ ~HoldsTop(t))
      /\ HoldsTop(t)' => HoldsTop(t) \/ ~top.ver.lock
      /\ top.ver.lock /\ ~HoldsTop(t) => top'.ver.ins = top.ver.ins
      /\ ~top'.ver.lock => ~top'.ver.ins
      /\ ~top'.ver.spl /\ ~top'.ver.del /\ top'.ver.vsplit = 0
      /\ Topped => Topped'
      /\ Topped' => top'.ver.root
      /\ HoldsTop(t)' => Topped'
      /\ pc'[t] \in {"addChild", "dropChild"} => top'.ver.ins
  BY <1>1, <1>2
<1> QED
  BY <1>3, TopLockingKept

LEMMA HoldingKept ==
  ASSUME Base, NEW t \in Threads, Only(t), LeafIds' = LeafIds, leaf' \in Seq(LeafRecord),
         leaf' # <<>>,
         top' = top, freed' = freed, Own(t), SameRoles(t),
         \A l \in LeafIds : /\ leaf'[l].ver.lock = leaf[l].ver.lock
                            /\ leaf'[l].hasParent = leaf[l].hasParent /\ SoundLinks(l),
         Pointing(t)', Controlled(t)', Placed(t)'
  PROVE  Base'
<1>1. Grows /\ Mine(t)
  BY DEF Grows, Own, Mine
<1>2. \A u \in Threads : Pointing(u)' /\ Controlled(u)' /\ Placed(u)'
  BY <1>1, OthersKept
<1>3. freed' \subseteq LeafIds'
  BY DEF Base, Types
<1>4. Types'
  BY <1>3, TypesKept
<1>5. Pointers'
  <2>1. \A l \in LeafIds' : /\ leaf'[l].next \in OptLeaf' \ {1} /\ leaf'[l].prev \in OptLeaf'
                            /\ leaf'[l].prev = Null <=> l = 1
    BY DEF SoundLinks, OptLeaf
  <2>2. \A i \in 1..Len(top'.child) : top'.child[i] \in LeafIds'
    BY DEF Base, Pointers
  <2> QED
    BY <1>2, <2>1, <2>2 DEF Pointers
<1>6. Locking'
  <2>1. \A l \in LeafIds : Holds(t, l) => leaf[l].ver.lock
    BY DEF Base, Locking
  <2>2. \A l \in LeafIds' : leaf'[l].ver.lock <=>
            Holds(t, l)' \/ (l \in LeafIds /\ leaf[l].ver.lock /\ ~Holds(t, l))
    BY <2>1 DEF SameRoles
  <2>3. \A l \in LeafIds : Holds(t, l)' => Holds(t, l) \/ ~leaf[l].ver.lock
    BY DEF SameRoles
  <2>4. \A l \in LeafIds' : ~leaf'[l].ver.lock => Steady(leaf'[l].ver)
    BY <2>1 DEF Own, Base, Locking
  <2>5. pc'[t] = "decide" => Steady(leaf'[reg'[t].n].ver)
    BY DEF SameRoles
  <2> QED
    BY <1>1, <2>2, <2>3, <2>4, <2>5, LockingKept
<1>7. TopLocking'
  BY TopQuiet DEF SameRoles
<1>8. Parents'
  <2>1. Topped' = Topped
    BY DEF Topped
  <2>2. Pending(t) => Pending(t)' /\ reg'[t].n = reg[t].n /\ reg'[t].nr = reg[t].nr
    BY DEF SameRoles
  <2>3. \A l \in LeafIds : leaf'[l].hasParent = leaf[l].hasParent
    OBVIOUS
  <2> QED
    BY <2>1, <2>2, <2>3, ParentsKept
<1> QED
  BY <1>2, <1>4, <1>5, <1>6, <1>7, <1>8 DEF Base, Control, Placing

LEMMA QuietWrite ==
  ASSUME Base, NEW t \in Threads, Only(t), NEW l, Writes(l), top' = top, freed' = freed,
         SameRoles(t),
         Holds(t, l) \/ (SameVer(l) /\ SameKeys(l)), leaf'[l].ver.lock = leaf[l].ver.lock,
         leaf'[l].hasParent = leaf[l].hasParent, SoundLinks(l),
         Pointing(t)', Controlled(t)', Placed(t)'
  PROVE  Base' /\ Own(t)
<1>1. /\ l \in LeafIds /\ leaf' \in Seq(LeafRecord) /\ leaf' # <<>> /\ LeafIds' = LeafIds
      /\ \A m \in LeafIds \ {l} : leaf'[m] = leaf[m]
  BY DEF Writes
<1>2. Own(t)
  BY <1>1 DEF Own, SameVer, SameKeys
<1>3. \A m \in LeafIds : /\ leaf'[m].ver.lock = leaf[m].ver.lock
                         /\ leaf'[m].hasParent = leaf[m].hasParent /\ SoundLinks(m)
  <2> SUFFICES ASSUME NEW m \in LeafIds \ {l}
               PROVE  /\ leaf'[m].ver.lock = leaf[m].ver.lock
                      /\ leaf'[m].hasParent = leaf[m].hasParent /\ SoundLinks(m)
    OBVIOUS
  <2> QED
    BY <1>1, SoundLinksNow
<1> QED
  BY <1>1, <1>2, <1>3, HoldingKept

LEMMA QuietRead ==
  ASSUME Base, NEW t \in Threads, Only(t), leaf' = leaf, top' = top, freed' = freed, SameRoles(t),
         Pointing(t)', Controlled(t)', Placed(t)'
  PROVE  Base' /\ Own(t)
<1>1. /\ leaf' \in Seq(LeafRecord) /\ leaf' # <<>> /\ LeafIds' = LeafIds
  BY DEF Base, Types, LeafIds
<1>2. Own(t)
  BY DEF Own
<1>3. \A m \in LeafIds : /\ leaf'[m].ver.lock = leaf[m].ver.lock
                         /\ leaf'[m].hasParent = leaf[m].hasParent /\ SoundLinks(m)
  BY SoundLinksNow
<1> QED
  BY <1>1, <1>2, <1>3, HoldingKept
-----------------------------------------------------------------------------
(* The steps that keep the locks of t keep Base.                            *)

LEMMA PlacedKept ==
  ASSUME NEW t \in Threads, Placed(t), reg'[t].n = reg[t].n, reg'[t].nr = reg[t].nr,
         reg'[t].ki = reg[t].ki,
         reg'[t].kp = reg[t].kp, reg'[t].toRight = reg[t].toRight,
         \A m \in LeafIds : leaf'[m].perm = leaf[m].perm, LeafIds' = LeafIds,
         Inserting(t)' => Inserting(t) /\ pc[t] # "slot" /\ reg[t].n \in LeafIds,
         pc'[t] \in {"stamp", "unuse"} => pc[t] = "stamp" /\ reg[t].n \in LeafIds,
         Halving(t)' => Halving(t) /\ reg[t].n \in LeafIds /\ reg[t].nr \in LeafIds
  PROVE  Placed(t)'
<1>1. Halving(t)' => Keep(t)' = Keep(t)
  BY DEF Keep
<1> HIDE DEF Keep
<1>2. Inserting(t)' => /\ reg'[t].ki \in 0..leaf'[reg'[t].n].perm.size
                       /\ leaf'[reg'[t].n].perm.size < Width
                          /\ reg'[t].kp = Back(leaf'[reg'[t].n].perm)
  BY DEF Placed
<1>3. pc'[t] \in {"stamp", "unuse"} => reg'[t].ki \in 0..(leaf'[reg'[t].n].perm.size - 1)
  BY DEF Placed
<1>4. Halving(t)' =>
       /\ Keep(t)' \in 0..leaf'[reg'[t].n].perm.size
       /\ leaf'[reg'[t].n].perm.size >= Width - 1
       /\ IF reg'[t].toRight
          THEN reg'[t].ki - Keep(t)' \in 0..leaf'[reg'[t].nr].perm.size
          /\ leaf'[reg'[t].nr].perm.size < Width
               /\ Back(leaf'[reg'[t].nr].perm) = reg'[t].ki - Keep(t)'
          ELSE reg'[t].ki \in 0..Keep(t)' /\ Keep(t)' < leaf'[reg'[t].n].perm.size
  BY <1>1 DEF Placed
<1> QED
  BY <1>2, <1>3, <1>4 DEF Placed

LEMMA AssignBase ==
  ASSUME Base, Concurrent, NEW t \in Threads, Assign(t)
  PROVE  Base' /\ Own(t)
<1>1. Only(t) /\ reg'[t] = reg[t] /\ top' = top /\ freed' = freed
  BY AssignEffect
<1>2. pc[t] = "assign" /\ pc'[t] = "assignKey"
  BY AssignEffect
<1>3. Pointing(t) /\ Controlled(t) /\ Placed(t)
  BY DEF Base, Pointers, Control, Placing
<1>4. Puts(t)
  BY <1>2, <1>3 DEF Controlled, PutPlaces, RemovePlaces, DyingPlaces
<1>5. SameRoles(t)
  BY <1>1, <1>2, <1>3, <1>4 DEF Controlled, SameRoles, Holds, HoldsLeaf, HoldsOther, HoldsTop,
       Halving, Halved, Pending, Puts, Removes, PutPlaces, DyingPlaces
<1>6. LeafIds' = LeafIds /\ OptLeaf' = OptLeaf /\ \A m \in LeafIds : leaf'[m].perm = leaf[m].perm
  BY AssignEffect DEF Writes, SameKeys, OptLeaf
<1>7. Pointing(t)'
  BY <1>1, <1>2, <1>3, <1>4, <1>6 DEF Pointing, LeafPlaces, HoldsOther, Halving, Halved, Dying,
       Puts, Removes, PutPlaces, RemovePlaces,
     DyingPlaces, BothPlaces
<1>8. Controlled(t)'
  BY <1>1, <1>2, <1>3, <1>4 DEF Controlled, HoldsOther, HoldsTop, Halving, Halved, Puts, Removes,
       PutPlaces, RemovePlaces,
     DyingPlaces, BothPlaces, ScanPlaces
<1>9. Placed(t)'
  <2>1. (HoldsLeaf(t) => reg[t].n \in LeafIds) /\ (HoldsOther(t) => reg[t].nr \in LeafIds)
    BY HoldsIsLocked
  <2>2. Inserting(t)' => Inserting(t) /\ pc[t] # "slot" /\ HoldsLeaf(t)
    BY <1>1, <1>2, <1>4 DEF Inserting, HoldsLeaf, Puts, Removes, PutPlaces, DyingPlaces
  <2>3. pc'[t] \in {"stamp", "unuse"} => pc[t] = "stamp" /\ HoldsLeaf(t)
    BY <1>1, <1>2, <1>4 DEF HoldsLeaf, PutPlaces, DyingPlaces
  <2>4. Halving(t)' => Halving(t) /\ HoldsLeaf(t) /\ HoldsOther(t)
    BY <1>1, <1>2, <1>4 DEF Halving, HoldsLeaf, HoldsOther, Puts, Removes, PutPlaces, DyingPlaces
  <2> QED
    BY <1>1, <1>3, <1>6, <2>1, <2>2, <2>3, <2>4, PlacedKept
<1>10. Writes(reg[t].n) /\ leaf'[reg[t].n].ver.lock = leaf[reg[t].n].ver.lock
       /\ leaf'[reg[t].n].hasParent = leaf[reg[t].n].hasParent
  BY AssignEffect DEF SameVer, SameRest
<1>11. Holds(t, reg[t].n) \/ (SameVer(reg[t].n) /\ SameKeys(reg[t].n))
  BY <1>2 DEF Holds, HoldsLeaf, PutPlaces, DyingPlaces
<1>12. SoundLinks(reg[t].n)
  BY <1>10, SoundLinksNow, AssignEffect DEF SameLinks, SameRest, Writes
<1> QED
  BY <1>1, <1>5, <1>7, <1>8, <1>9, <1>10, <1>11, <1>12, QuietWrite

LEMMA AssignKeyBase ==
  ASSUME Base, Concurrent, NEW t \in Threads, AssignKey(t)
  PROVE  Base' /\ Own(t)
<1>1. Only(t) /\ reg'[t] = reg[t] /\ top' = top /\ freed' = freed
  BY AssignKeyEffect
<1>2. pc[t] = "assignKey" /\ pc'[t] = IF reg[t].nr = Null THEN "store" ELSE "unlockOther"
  BY AssignKeyEffect
<1>3. Pointing(t) /\ Controlled(t) /\ Placed(t)
  BY DEF Base, Pointers, Control, Placing
<1>4. Puts(t)
  BY <1>2, <1>3 DEF Controlled, PutPlaces, RemovePlaces, DyingPlaces
<1>5. SameRoles(t)
  BY <1>1, <1>2, <1>3, <1>4 DEF Controlled, SameRoles, Holds, HoldsLeaf, HoldsOther, HoldsTop,
       Halving, Halved, Pending, Puts, Removes, PutPlaces, DyingPlaces
<1>6. LeafIds' = LeafIds /\ OptLeaf' = OptLeaf /\ \A m \in LeafIds : leaf'[m].perm = leaf[m].perm
  BY AssignKeyEffect DEF Writes, SameKeys, OptLeaf
<1>7. Pointing(t)'
  BY <1>1, <1>2, <1>3, <1>4, <1>6 DEF Pointing, LeafPlaces, HoldsOther, Halving, Halved, Dying,
       Puts, Removes, PutPlaces, RemovePlaces,
     DyingPlaces, BothPlaces
<1>8. Controlled(t)'
  BY <1>1, <1>2, <1>3, <1>4 DEF Controlled, HoldsOther, HoldsTop, Halving, Halved, Puts, Removes,
       PutPlaces, RemovePlaces,
     DyingPlaces, BothPlaces, ScanPlaces
<1>9. Placed(t)'
  <2>1. (HoldsLeaf(t) => reg[t].n \in LeafIds) /\ (HoldsOther(t) => reg[t].nr \in LeafIds)
    BY HoldsIsLocked
  <2>2. Inserting(t)' => Inserting(t) /\ pc[t] # "slot" /\ HoldsLeaf(t)
    BY <1>1, <1>2, <1>4 DEF Inserting, HoldsLeaf, Puts, Removes, PutPlaces, DyingPlaces
  <2>3. pc'[t] \in {"stamp", "unuse"} => pc[t] = "stamp" /\ HoldsLeaf(t)
    BY <1>1, <1>2, <1>4 DEF HoldsLeaf, PutPlaces, DyingPlaces
  <2>4. Halving(t)' => Halving(t) /\ HoldsLeaf(t) /\ HoldsOther(t)
    BY <1>1, <1>2, <1>4 DEF Halving, HoldsLeaf, HoldsOther, Puts, Removes, PutPlaces, DyingPlaces
  <2> QED
    BY <1>1, <1>3, <1>6, <2>1, <2>2, <2>3, <2>4, PlacedKept
<1>10. Writes(reg[t].n) /\ leaf'[reg[t].n].ver.lock = leaf[reg[t].n].ver.lock
       /\ leaf'[reg[t].n].hasParent = leaf[reg[t].n].hasParent
  BY AssignKeyEffect DEF SameVer, SameRest
<1>11. Holds(t, reg[t].n) \/ (SameVer(reg[t].n) /\ SameKeys(reg[t].n))
  BY <1>2 DEF Holds, HoldsLeaf, PutPlaces, DyingPlaces
<1>12. SoundLinks(reg[t].n)
  BY <1>10, SoundLinksNow, AssignKeyEffect DEF SameLinks, SameRest, Writes
<1> QED
  BY <1>1, <1>5, <1>7, <1>8, <1>9, <1>10, <1>11, <1>12, QuietWrite

LEMMA StoreBase ==
  ASSUME Base, Concurrent, NEW t \in Threads, Store(t)
  PROVE  Base' /\ Own(t)
<1>1. Only(t) /\ reg'[t] = reg[t] /\ top' = top /\ freed' = freed
  BY StoreEffect
<1>2. pc[t] = "store" /\ pc'[t] = "publish"
  BY StoreEffect
<1>3. Pointing(t) /\ Controlled(t) /\ Placed(t)
  BY DEF Base, Pointers, Control, Placing
<1>4. Puts(t)
  BY <1>2, <1>3 DEF Controlled, PutPlaces, RemovePlaces, DyingPlaces
<1>5. SameRoles(t)
  BY <1>1, <1>2, <1>3, <1>4 DEF Controlled, SameRoles, Holds, HoldsLeaf, HoldsOther, HoldsTop,
       Halving, Halved, Pending, Puts, Removes, PutPlaces, DyingPlaces
<1>6. LeafIds' = LeafIds /\ OptLeaf' = OptLeaf /\ \A m \in LeafIds : leaf'[m].perm = leaf[m].perm
  BY StoreEffect DEF Writes, SameKeys, OptLeaf
<1>7. Pointing(t)'
  BY <1>1, <1>2, <1>3, <1>4, <1>6 DEF Pointing, LeafPlaces, HoldsOther, Halving, Halved, Dying,
       Puts, Removes, PutPlaces, RemovePlaces,
     DyingPlaces, BothPlaces
<1>8. Controlled(t)'
  BY <1>1, <1>2, <1>3, <1>4 DEF Controlled, HoldsOther, HoldsTop, Halving, Halved, Puts, Removes,
       PutPlaces, RemovePlaces,
     DyingPlaces, BothPlaces, ScanPlaces
<1>9. Placed(t)'
  <2>1. (HoldsLeaf(t) => reg[t].n \in LeafIds) /\ (HoldsOther(t) => reg[t].nr \in LeafIds)
    BY HoldsIsLocked
  <2>2. Inserting(t)' => Inserting(t) /\ pc[t] # "slot" /\ HoldsLeaf(t)
    BY <1>1, <1>2, <1>4 DEF Inserting, HoldsLeaf, Puts, Removes, PutPlaces, DyingPlaces
  <2>3. pc'[t] \in {"stamp", "unuse"} => pc[t] = "stamp" /\ HoldsLeaf(t)
    BY <1>1, <1>2, <1>4 DEF HoldsLeaf, PutPlaces, DyingPlaces
  <2>4. Halving(t)' => Halving(t) /\ HoldsLeaf(t) /\ HoldsOther(t)
    BY <1>1, <1>2, <1>4 DEF Halving, HoldsLeaf, HoldsOther, Puts, Removes, PutPlaces, DyingPlaces
  <2> QED
    BY <1>1, <1>3, <1>6, <2>1, <2>2, <2>3, <2>4, PlacedKept
<1>10. Writes(reg[t].n) /\ leaf'[reg[t].n].ver.lock = leaf[reg[t].n].ver.lock
       /\ leaf'[reg[t].n].hasParent = leaf[reg[t].n].hasParent
  BY StoreEffect DEF SameVer, SameRest
<1>11. Holds(t, reg[t].n) \/ (SameVer(reg[t].n) /\ SameKeys(reg[t].n))
  BY <1>2 DEF Holds, HoldsLeaf, PutPlaces, DyingPlaces
<1>12. SoundLinks(reg[t].n)
  BY <1>10, SoundLinksNow, StoreEffect DEF SameLinks, SameRest, Writes
<1> QED
  BY <1>1, <1>5, <1>7, <1>8, <1>9, <1>10, <1>11, <1>12, QuietWrite

LEMMA LockNextBase ==
  ASSUME Base, Concurrent, NEW t \in Threads, LockNext(t)
  PROVE  Base' /\ Own(t)
<1>1. Only(t) /\ reg'[t] = reg[t] /\ top' = top /\ freed' = freed
  BY LockNextEffect
<1>2. pc[t] = "lockNext" /\ pc'[t] = "linkBack"
  BY LockNextEffect
<1>3. Pointing(t) /\ Controlled(t) /\ Placed(t)
  BY DEF Base, Pointers, Control, Placing
<1>4. Puts(t)
  BY <1>2, <1>3 DEF Controlled, PutPlaces, RemovePlaces, DyingPlaces
<1>5. SameRoles(t)
  BY <1>1, <1>2, <1>3, <1>4 DEF Controlled, SameRoles, Holds, HoldsLeaf, HoldsOther, HoldsTop,
       Halving, Halved, Pending, Puts, Removes, PutPlaces, DyingPlaces
<1>6. LeafIds' = LeafIds /\ OptLeaf' = OptLeaf /\ \A m \in LeafIds : leaf'[m].perm = leaf[m].perm
  BY LockNextEffect DEF Writes, SameKeys, OptLeaf
<1>7. Pointing(t)'
  BY <1>1, <1>2, <1>3, <1>4, <1>6 DEF Pointing, LeafPlaces, HoldsOther, Halving, Halved, Dying,
       Puts, Removes, PutPlaces, RemovePlaces,
     DyingPlaces, BothPlaces
<1>8. Controlled(t)'
  BY <1>1, <1>2, <1>3, <1>4 DEF Controlled, HoldsOther, HoldsTop, Halving, Halved, Puts, Removes,
       PutPlaces, RemovePlaces,
     DyingPlaces, BothPlaces, ScanPlaces
<1>9. Placed(t)'
  <2>1. (HoldsLeaf(t) => reg[t].n \in LeafIds) /\ (HoldsOther(t) => reg[t].nr \in LeafIds)
    BY HoldsIsLocked
  <2>2. Inserting(t)' => Inserting(t) /\ pc[t] # "slot" /\ HoldsLeaf(t)
    BY <1>1, <1>2, <1>4 DEF Inserting, HoldsLeaf, Puts, Removes, PutPlaces, DyingPlaces
  <2>3. pc'[t] \in {"stamp", "unuse"} => pc[t] = "stamp" /\ HoldsLeaf(t)
    BY <1>1, <1>2, <1>4 DEF HoldsLeaf, PutPlaces, DyingPlaces
  <2>4. Halving(t)' => Halving(t) /\ HoldsLeaf(t) /\ HoldsOther(t)
    BY <1>1, <1>2, <1>4 DEF Halving, HoldsLeaf, HoldsOther, Puts, Removes, PutPlaces, DyingPlaces
  <2> QED
    BY <1>1, <1>3, <1>6, <2>1, <2>2, <2>3, <2>4, PlacedKept
<1>10. Writes(reg[t].n) /\ leaf'[reg[t].n].ver.lock = leaf[reg[t].n].ver.lock
       /\ leaf'[reg[t].n].hasParent = leaf[reg[t].n].hasParent
  BY LockNextEffect DEF SameVer, SameRest
<1>11. Holds(t, reg[t].n) \/ (SameVer(reg[t].n) /\ SameKeys(reg[t].n))
  BY <1>2 DEF Holds, HoldsLeaf, PutPlaces, DyingPlaces
<1>12. SoundLinks(reg[t].n)
  BY <1>10, SoundLinksNow, LockNextEffect DEF SameLinks, SameRest, Writes
<1> QED
  BY <1>1, <1>5, <1>7, <1>8, <1>9, <1>10, <1>11, <1>12, QuietWrite

LEMMA LinkBase ==
  ASSUME Base, Concurrent, NEW t \in Threads, Link(t)
  PROVE  Base' /\ Own(t)
<1>1. Only(t) /\ reg'[t] = reg[t] /\ top' = top /\ freed' = freed
  BY LinkEffect
<1>2. pc[t] = "link" /\ pc'[t] = "parent"
  BY LinkEffect
<1>3. Pointing(t) /\ Controlled(t) /\ Placed(t)
  BY DEF Base, Pointers, Control, Placing
<1>4. Puts(t)
  BY <1>2, <1>3 DEF Controlled, PutPlaces, RemovePlaces, DyingPlaces
<1>5. SameRoles(t)
  BY <1>1, <1>2, <1>3, <1>4 DEF Controlled, SameRoles, Holds, HoldsLeaf, HoldsOther, HoldsTop,
       Halving, Halved, Pending, Puts, Removes, PutPlaces, DyingPlaces
<1>6. LeafIds' = LeafIds /\ OptLeaf' = OptLeaf /\ \A m \in LeafIds : leaf'[m].perm = leaf[m].perm
  BY LinkEffect DEF Writes, SameKeys, OptLeaf
<1>7. Pointing(t)'
  BY <1>1, <1>2, <1>3, <1>4, <1>6 DEF Pointing, LeafPlaces, HoldsOther, Halving, Halved, Dying,
       Puts, Removes, PutPlaces, RemovePlaces,
     DyingPlaces, BothPlaces
<1>8. Controlled(t)'
  BY <1>1, <1>2, <1>3, <1>4 DEF Controlled, HoldsOther, HoldsTop, Halving, Halved, Puts, Removes,
       PutPlaces, RemovePlaces,
     DyingPlaces, BothPlaces, ScanPlaces
<1>9. Placed(t)'
  <2>1. (HoldsLeaf(t) => reg[t].n \in LeafIds) /\ (HoldsOther(t) => reg[t].nr \in LeafIds)
    BY HoldsIsLocked
  <2>2. Inserting(t)' => Inserting(t) /\ pc[t] # "slot" /\ HoldsLeaf(t)
    BY <1>1, <1>2, <1>4 DEF Inserting, HoldsLeaf, Puts, Removes, PutPlaces, DyingPlaces
  <2>3. pc'[t] \in {"stamp", "unuse"} => pc[t] = "stamp" /\ HoldsLeaf(t)
    BY <1>1, <1>2, <1>4 DEF HoldsLeaf, PutPlaces, DyingPlaces
  <2>4. Halving(t)' => Halving(t) /\ HoldsLeaf(t) /\ HoldsOther(t)
    BY <1>1, <1>2, <1>4 DEF Halving, HoldsLeaf, HoldsOther, Puts, Removes, PutPlaces, DyingPlaces
  <2> QED
    BY <1>1, <1>3, <1>6, <2>1, <2>2, <2>3, <2>4, PlacedKept
<1>10. Writes(reg[t].n) /\ leaf'[reg[t].n].ver.lock = leaf[reg[t].n].ver.lock
       /\ leaf'[reg[t].n].hasParent = leaf[reg[t].n].hasParent
  BY LinkEffect DEF SameVer, SameRest
<1>11. Holds(t, reg[t].n) \/ (SameVer(reg[t].n) /\ SameKeys(reg[t].n))
  BY <1>2 DEF Holds, HoldsLeaf, PutPlaces, DyingPlaces
<1>12. SoundLinks(reg[t].n)
  <2>1. reg[t].nr \in OptLeaf \ {1}
    BY <1>2, <1>3 DEF Pointing, Halving
  <2>2. leaf'[reg[t].n].next = reg[t].nr /\ leaf'[reg[t].n].prev = leaf[reg[t].n].prev
    BY LinkEffect DEF SameRest
  <2> QED
    BY <1>10, <2>1, <2>2 DEF SoundLinks, Base, Pointers, Writes
<1> QED
  BY <1>1, <1>5, <1>7, <1>8, <1>9, <1>10, <1>11, <1>12, QuietWrite

LEMMA MarkLeafSplitBase ==
  ASSUME Base, Concurrent, NEW t \in Threads, MarkLeafSplit(t)
  PROVE  Base' /\ Own(t)
<1>1. Only(t) /\ reg'[t] = reg[t] /\ top' = top /\ freed' = freed
  BY MarkLeafSplitEffect
<1>2. pc[t] = "split" /\ pc'[t] = "shrink"
  BY MarkLeafSplitEffect
<1>3. Pointing(t) /\ Controlled(t) /\ Placed(t)
  BY DEF Base, Pointers, Control, Placing
<1>4. Puts(t)
  BY <1>2, <1>3 DEF Controlled, PutPlaces, RemovePlaces, DyingPlaces
<1>5. SameRoles(t)
  BY <1>1, <1>2, <1>3, <1>4 DEF Controlled, SameRoles, Holds, HoldsLeaf, HoldsOther, HoldsTop,
       Halving, Halved, Pending, Puts, Removes, PutPlaces, DyingPlaces
<1>6. LeafIds' = LeafIds /\ OptLeaf' = OptLeaf /\ \A m \in LeafIds : leaf'[m].perm = leaf[m].perm
  BY MarkLeafSplitEffect DEF Writes, SameKeys, OptLeaf
<1>7. Pointing(t)'
  BY <1>1, <1>2, <1>3, <1>4, <1>6 DEF Pointing, LeafPlaces, HoldsOther, Halving, Halved, Dying,
       Puts, Removes, PutPlaces, RemovePlaces,
     DyingPlaces, BothPlaces
<1>8. Controlled(t)'
  BY <1>1, <1>2, <1>3, <1>4 DEF Controlled, HoldsOther, HoldsTop, Halving, Halved, Puts, Removes,
       PutPlaces, RemovePlaces,
     DyingPlaces, BothPlaces, ScanPlaces
<1>9. Placed(t)'
  <2>1. (HoldsLeaf(t) => reg[t].n \in LeafIds) /\ (HoldsOther(t) => reg[t].nr \in LeafIds)
    BY HoldsIsLocked
  <2>2. Inserting(t)' => Inserting(t) /\ pc[t] # "slot" /\ HoldsLeaf(t)
    BY <1>1, <1>2, <1>4 DEF Inserting, HoldsLeaf, Puts, Removes, PutPlaces, DyingPlaces
  <2>3. pc'[t] \in {"stamp", "unuse"} => pc[t] = "stamp" /\ HoldsLeaf(t)
    BY <1>1, <1>2, <1>4 DEF HoldsLeaf, PutPlaces, DyingPlaces
  <2>4. Halving(t)' => Halving(t) /\ HoldsLeaf(t) /\ HoldsOther(t)
    BY <1>1, <1>2, <1>4 DEF Halving, HoldsLeaf, HoldsOther, Puts, Removes, PutPlaces, DyingPlaces
  <2> QED
    BY <1>1, <1>3, <1>6, <2>1, <2>2, <2>3, <2>4, PlacedKept
<1>10. Writes(reg[t].n) /\ leaf'[reg[t].n].ver.lock = leaf[reg[t].n].ver.lock
       /\ leaf'[reg[t].n].hasParent = leaf[reg[t].n].hasParent
  <2>1. reg[t].n \in LeafIds /\ leaf[reg[t].n].ver \in Version
    BY <1>2, AtLeaf DEF LeafPlaces, PutPlaces, RemovePlaces, DyingPlaces
  <2> QED
    BY <2>1, MarkLeafSplitEffect, MarkSplitVersion DEF SameRest
<1>11. Holds(t, reg[t].n) \/ (SameVer(reg[t].n) /\ SameKeys(reg[t].n))
  BY <1>2 DEF Holds, HoldsLeaf, PutPlaces, DyingPlaces
<1>12. SoundLinks(reg[t].n)
  BY <1>10, SoundLinksNow, MarkLeafSplitEffect DEF SameLinks, SameRest, Writes
<1> QED
  BY <1>1, <1>5, <1>7, <1>8, <1>9, <1>10, <1>11, <1>12, QuietWrite

LEMMA StampBase ==
  ASSUME Base, Concurrent, NEW t \in Threads, Stamp(t)
  PROVE  Base' /\ Own(t)
<1>1. Only(t) /\ reg'[t] = reg[t] /\ top' = top /\ freed' = freed
  BY StampEffect
<1>2. pc[t] = "stamp" /\ pc'[t] = "unuse"
  BY StampEffect
<1>3. Pointing(t) /\ Controlled(t) /\ Placed(t)
  BY DEF Base, Pointers, Control, Placing
<1>4. Removes(t)
  BY <1>2, <1>3 DEF Controlled, PutPlaces, RemovePlaces, DyingPlaces
<1>5. SameRoles(t)
  BY <1>1, <1>2, <1>3, <1>4 DEF Controlled, SameRoles, Holds, HoldsLeaf, HoldsOther, HoldsTop,
       Halving, Halved, Pending, Puts, Removes, PutPlaces, DyingPlaces
<1>6. LeafIds' = LeafIds /\ OptLeaf' = OptLeaf /\ \A m \in LeafIds : leaf'[m].perm = leaf[m].perm
  BY StampEffect DEF Writes, SameKeys, OptLeaf
<1>7. Pointing(t)'
  BY <1>1, <1>2, <1>3, <1>4, <1>6 DEF Pointing, LeafPlaces, HoldsOther, Halving, Halved, Dying,
       Puts, Removes, PutPlaces, RemovePlaces,
     DyingPlaces, BothPlaces
<1>8. Controlled(t)'
  BY <1>1, <1>2, <1>3, <1>4 DEF Controlled, HoldsOther, HoldsTop, Halving, Halved, Puts, Removes,
       PutPlaces, RemovePlaces,
     DyingPlaces, BothPlaces, ScanPlaces
<1>9. Placed(t)'
  <2>1. (HoldsLeaf(t) => reg[t].n \in LeafIds) /\ (HoldsOther(t) => reg[t].nr \in LeafIds)
    BY HoldsIsLocked
  <2>2. Inserting(t)' => Inserting(t) /\ pc[t] # "slot" /\ HoldsLeaf(t)
    BY <1>1, <1>2, <1>4 DEF Inserting, HoldsLeaf, Puts, Removes, PutPlaces, DyingPlaces
  <2>3. pc'[t] \in {"stamp", "unuse"} => pc[t] = "stamp" /\ HoldsLeaf(t)
    BY <1>1, <1>2, <1>4 DEF HoldsLeaf, PutPlaces, DyingPlaces
  <2>4. Halving(t)' => Halving(t) /\ HoldsLeaf(t) /\ HoldsOther(t)
    BY <1>1, <1>2, <1>4 DEF Halving, HoldsLeaf, HoldsOther, Puts, Removes, PutPlaces, DyingPlaces
  <2> QED
    BY <1>1, <1>3, <1>6, <2>1, <2>2, <2>3, <2>4, PlacedKept
<1>10. Writes(reg[t].n) /\ leaf'[reg[t].n].ver.lock = leaf[reg[t].n].ver.lock
       /\ leaf'[reg[t].n].hasParent = leaf[reg[t].n].hasParent
  <2>1. reg[t].n \in LeafIds /\ leaf[reg[t].n].ver \in Version
    BY <1>2, AtLeaf DEF LeafPlaces, PutPlaces, RemovePlaces, DyingPlaces
  <2> QED
    BY <2>1, StampEffect, MarkInsertVersion DEF SameRest
<1>11. Holds(t, reg[t].n) \/ (SameVer(reg[t].n) /\ SameKeys(reg[t].n))
  BY <1>2 DEF Holds, HoldsLeaf, PutPlaces, DyingPlaces
<1>12. SoundLinks(reg[t].n)
  BY <1>10, SoundLinksNow, StampEffect DEF SameLinks, SameRest, Writes
<1> QED
  BY <1>1, <1>5, <1>7, <1>8, <1>9, <1>10, <1>11, <1>12, QuietWrite

LEMMA MarkLeafDeletedBase ==
  ASSUME Base, Concurrent, NEW t \in Threads, MarkLeafDeleted(t)
  PROVE  Base' /\ Own(t)
<1>1. Only(t) /\ reg'[t] = reg[t] /\ top' = top /\ freed' = freed
  BY MarkLeafDeletedEffect
<1>2. pc[t] = "empty" /\ pc'[t] = "readKeeper"
  BY MarkLeafDeletedEffect
<1>3. Pointing(t) /\ Controlled(t) /\ Placed(t)
  BY DEF Base, Pointers, Control, Placing
<1>4. Removes(t)
  BY <1>2, <1>3 DEF Controlled, PutPlaces, RemovePlaces, DyingPlaces
<1>5. SameRoles(t)
  BY <1>1, <1>2, <1>3, <1>4 DEF Controlled, SameRoles, Holds, HoldsLeaf, HoldsOther, HoldsTop,
       Halving, Halved, Pending, Puts, Removes, PutPlaces, DyingPlaces
<1>6. LeafIds' = LeafIds /\ OptLeaf' = OptLeaf /\ \A m \in LeafIds : leaf'[m].perm = leaf[m].perm
  BY MarkLeafDeletedEffect DEF Writes, SameKeys, OptLeaf
<1>7. Pointing(t)'
  <2>1. reg[t].n # 1
    BY <1>2, AtLeaf DEF LeafPlaces, RemovePlaces, MarkLeafDeleted, Here, Base, Pointers
  <2> QED
    BY <2>1, <1>1, <1>2, <1>3, <1>4, <1>6 DEF Pointing, LeafPlaces, HoldsOther, Halving, Halved,
         Dying, Puts, Removes, PutPlaces, RemovePlaces,
       DyingPlaces, BothPlaces
<1>8. Controlled(t)'
  BY <1>1, <1>2, <1>3, <1>4 DEF Controlled, HoldsOther, HoldsTop, Halving, Halved, Puts, Removes,
       PutPlaces, RemovePlaces,
     DyingPlaces, BothPlaces, ScanPlaces
<1>9. Placed(t)'
  <2>1. (HoldsLeaf(t) => reg[t].n \in LeafIds) /\ (HoldsOther(t) => reg[t].nr \in LeafIds)
    BY HoldsIsLocked
  <2>2. Inserting(t)' => Inserting(t) /\ pc[t] # "slot" /\ HoldsLeaf(t)
    BY <1>1, <1>2, <1>4 DEF Inserting, HoldsLeaf, Puts, Removes, PutPlaces, DyingPlaces
  <2>3. pc'[t] \in {"stamp", "unuse"} => pc[t] = "stamp" /\ HoldsLeaf(t)
    BY <1>1, <1>2, <1>4 DEF HoldsLeaf, PutPlaces, DyingPlaces
  <2>4. Halving(t)' => Halving(t) /\ HoldsLeaf(t) /\ HoldsOther(t)
    BY <1>1, <1>2, <1>4 DEF Halving, HoldsLeaf, HoldsOther, Puts, Removes, PutPlaces, DyingPlaces
  <2> QED
    BY <1>1, <1>3, <1>6, <2>1, <2>2, <2>3, <2>4, PlacedKept
<1>10. Writes(reg[t].n) /\ leaf'[reg[t].n].ver.lock = leaf[reg[t].n].ver.lock
       /\ leaf'[reg[t].n].hasParent = leaf[reg[t].n].hasParent
  <2>1. reg[t].n \in LeafIds /\ leaf[reg[t].n].ver \in Version
    BY <1>2, AtLeaf DEF LeafPlaces, PutPlaces, RemovePlaces, DyingPlaces
  <2> QED
    BY <2>1, MarkLeafDeletedEffect, MarkDeletedVersion DEF SameRest
<1>11. Holds(t, reg[t].n) \/ (SameVer(reg[t].n) /\ SameKeys(reg[t].n))
  BY <1>2 DEF Holds, HoldsLeaf, PutPlaces, DyingPlaces
<1>12. SoundLinks(reg[t].n)
  BY <1>10, SoundLinksNow, MarkLeafDeletedEffect DEF SameLinks, SameRest, Writes
<1> QED
  BY <1>1, <1>5, <1>7, <1>8, <1>9, <1>10, <1>11, <1>12, QuietWrite

LEMMA RaiseBase ==
  ASSUME Base, Concurrent, NEW t \in Threads, Raise(t)
  PROVE  Base' /\ Own(t)
<1>1. Only(t) /\ reg'[t] = reg[t] /\ top' = top /\ freed' = freed
  BY RaiseEffect
<1>2. pc[t] = "raise" /\ pc'[t] = "checkKeeper"
  BY RaiseEffect
<1>3. Pointing(t) /\ Controlled(t) /\ Placed(t)
  BY DEF Base, Pointers, Control, Placing
<1>4. Removes(t)
  BY <1>2, <1>3 DEF Controlled, PutPlaces, RemovePlaces, DyingPlaces
<1>5. SameRoles(t)
  BY <1>1, <1>2, <1>3, <1>4 DEF Controlled, SameRoles, Holds, HoldsLeaf, HoldsOther, HoldsTop,
       Halving, Halved, Pending, Puts, Removes, PutPlaces, DyingPlaces
<1>6. LeafIds' = LeafIds /\ OptLeaf' = OptLeaf /\ \A m \in LeafIds : leaf'[m].perm = leaf[m].perm
  BY RaiseEffect DEF Writes, SameKeys, OptLeaf
<1>7. Pointing(t)'
  BY <1>1, <1>2, <1>3, <1>4, <1>6 DEF Pointing, LeafPlaces, HoldsOther, Halving, Halved, Dying,
       Puts, Removes, PutPlaces, RemovePlaces,
     DyingPlaces, BothPlaces
<1>8. Controlled(t)'
  BY <1>1, <1>2, <1>3, <1>4 DEF Controlled, HoldsOther, HoldsTop, Halving, Halved, Puts, Removes,
       PutPlaces, RemovePlaces,
     DyingPlaces, BothPlaces, ScanPlaces
<1>9. Placed(t)'
  <2>1. (HoldsLeaf(t) => reg[t].n \in LeafIds) /\ (HoldsOther(t) => reg[t].nr \in LeafIds)
    BY HoldsIsLocked
  <2>2. Inserting(t)' => Inserting(t) /\ pc[t] # "slot" /\ HoldsLeaf(t)
    BY <1>1, <1>2, <1>4 DEF Inserting, HoldsLeaf, Puts, Removes, PutPlaces, DyingPlaces
  <2>3. pc'[t] \in {"stamp", "unuse"} => pc[t] = "stamp" /\ HoldsLeaf(t)
    BY <1>1, <1>2, <1>4 DEF HoldsLeaf, PutPlaces, DyingPlaces
  <2>4. Halving(t)' => Halving(t) /\ HoldsLeaf(t) /\ HoldsOther(t)
    BY <1>1, <1>2, <1>4 DEF Halving, HoldsLeaf, HoldsOther, Puts, Removes, PutPlaces, DyingPlaces
  <2> QED
    BY <1>1, <1>3, <1>6, <2>1, <2>2, <2>3, <2>4, PlacedKept
<1>10. Writes(reg[t].aux) /\ leaf'[reg[t].aux].ver.lock = leaf[reg[t].aux].ver.lock
       /\ leaf'[reg[t].aux].hasParent = leaf[reg[t].aux].hasParent
  BY RaiseEffect DEF SameVer, SameRest
<1>11. Holds(t, reg[t].aux) \/ (SameVer(reg[t].aux) /\ SameKeys(reg[t].aux))
  BY RaiseEffect
<1>12. SoundLinks(reg[t].aux)
  BY <1>10, SoundLinksNow, RaiseEffect DEF SameLinks, SameRest, Writes
<1> QED
  BY <1>1, <1>5, <1>7, <1>8, <1>9, <1>10, <1>11, <1>12, QuietWrite

LEMMA CheckKeeperBase ==
  ASSUME Base, Concurrent, NEW t \in Threads, CheckKeeper(t)
  PROVE  Base' /\ Own(t)
<1>1. Only(t) /\ reg'[t] = reg[t] /\ top' = top /\ freed' = freed
  BY CheckKeeperEffect
<1>2. pc[t] = "checkKeeper" /\ pc'[t] = IF reg[t].aux = leaf[reg[t].n].prev THEN "unlinkNext" ELSE "readKeeper"
  BY CheckKeeperEffect
<1>3. Pointing(t) /\ Controlled(t) /\ Placed(t)
  BY DEF Base, Pointers, Control, Placing
<1>4. Removes(t)
  BY <1>2, <1>3 DEF Controlled, PutPlaces, RemovePlaces, DyingPlaces
<1>5. SameRoles(t)
  BY <1>1, <1>2, <1>3, <1>4 DEF Controlled, SameRoles, Holds, HoldsLeaf, HoldsOther, HoldsTop,
       Halving, Halved, Pending, Puts, Removes, PutPlaces, DyingPlaces
<1>6. LeafIds' = LeafIds /\ OptLeaf' = OptLeaf /\ \A m \in LeafIds : leaf'[m].perm = leaf[m].perm
  BY CheckKeeperEffect DEF OptLeaf
<1>7. Pointing(t)'
  BY <1>1, <1>2, <1>3, <1>4, <1>6 DEF Pointing, LeafPlaces, HoldsOther, Halving, Halved, Dying,
       Puts, Removes, PutPlaces, RemovePlaces,
     DyingPlaces, BothPlaces
<1>8. Controlled(t)'
  BY <1>1, <1>2, <1>3, <1>4 DEF Controlled, HoldsOther, HoldsTop, Halving, Halved, Puts, Removes,
       PutPlaces, RemovePlaces,
     DyingPlaces, BothPlaces, ScanPlaces
<1>9. Placed(t)'
  <2>1. (HoldsLeaf(t) => reg[t].n \in LeafIds) /\ (HoldsOther(t) => reg[t].nr \in LeafIds)
    BY HoldsIsLocked
  <2>2. Inserting(t)' => Inserting(t) /\ pc[t] # "slot" /\ HoldsLeaf(t)
    BY <1>1, <1>2, <1>4 DEF Inserting, HoldsLeaf, Puts, Removes, PutPlaces, DyingPlaces
  <2>3. pc'[t] \in {"stamp", "unuse"} => pc[t] = "stamp" /\ HoldsLeaf(t)
    BY <1>1, <1>2, <1>4 DEF HoldsLeaf, PutPlaces, DyingPlaces
  <2>4. Halving(t)' => Halving(t) /\ HoldsLeaf(t) /\ HoldsOther(t)
    BY <1>1, <1>2, <1>4 DEF Halving, HoldsLeaf, HoldsOther, Puts, Removes, PutPlaces, DyingPlaces
  <2> QED
    BY <1>1, <1>3, <1>6, <2>1, <2>2, <2>3, <2>4, PlacedKept
<1>10. leaf' = leaf
  BY CheckKeeperEffect
<1> QED
  BY <1>1, <1>5, <1>7, <1>8, <1>9, <1>10, QuietRead

LEMMA UnlinkNextBase ==
  ASSUME Base, Concurrent, NEW t \in Threads, UnlinkNext(t)
  PROVE  Base' /\ Own(t)
<1>1. Only(t) /\ reg'[t] = reg[t] /\ top' = top /\ freed' = freed
  BY UnlinkNextEffect
<1>2. pc[t] = "unlinkNext" /\ pc'[t] = "readPrev"
  BY UnlinkNextEffect
<1>3. Pointing(t) /\ Controlled(t) /\ Placed(t)
  BY DEF Base, Pointers, Control, Placing
<1>4. Removes(t)
  BY <1>2, <1>3 DEF Controlled, PutPlaces, RemovePlaces, DyingPlaces
<1>5. SameRoles(t)
  BY <1>1, <1>2, <1>3, <1>4 DEF Controlled, SameRoles, Holds, HoldsLeaf, HoldsOther, HoldsTop,
       Halving, Halved, Pending, Puts, Removes, PutPlaces, DyingPlaces
<1>6. LeafIds' = LeafIds /\ OptLeaf' = OptLeaf /\ \A m \in LeafIds : leaf'[m].perm = leaf[m].perm
  BY UnlinkNextEffect DEF Writes, SameKeys, OptLeaf
<1>7. Pointing(t)'
  BY <1>1, <1>2, <1>3, <1>4, <1>6 DEF Pointing, LeafPlaces, HoldsOther, Halving, Halved, Dying,
       Puts, Removes, PutPlaces, RemovePlaces,
     DyingPlaces, BothPlaces
<1>8. Controlled(t)'
  BY <1>1, <1>2, <1>3, <1>4 DEF Controlled, HoldsOther, HoldsTop, Halving, Halved, Puts, Removes,
       PutPlaces, RemovePlaces,
     DyingPlaces, BothPlaces, ScanPlaces
<1>9. Placed(t)'
  <2>1. (HoldsLeaf(t) => reg[t].n \in LeafIds) /\ (HoldsOther(t) => reg[t].nr \in LeafIds)
    BY HoldsIsLocked
  <2>2. Inserting(t)' => Inserting(t) /\ pc[t] # "slot" /\ HoldsLeaf(t)
    BY <1>1, <1>2, <1>4 DEF Inserting, HoldsLeaf, Puts, Removes, PutPlaces, DyingPlaces
  <2>3. pc'[t] \in {"stamp", "unuse"} => pc[t] = "stamp" /\ HoldsLeaf(t)
    BY <1>1, <1>2, <1>4 DEF HoldsLeaf, PutPlaces, DyingPlaces
  <2>4. Halving(t)' => Halving(t) /\ HoldsLeaf(t) /\ HoldsOther(t)
    BY <1>1, <1>2, <1>4 DEF Halving, HoldsLeaf, HoldsOther, Puts, Removes, PutPlaces, DyingPlaces
  <2> QED
    BY <1>1, <1>3, <1>6, <2>1, <2>2, <2>3, <2>4, PlacedKept
<1>10. Writes(reg[t].n) /\ leaf'[reg[t].n].ver.lock = leaf[reg[t].n].ver.lock
       /\ leaf'[reg[t].n].hasParent = leaf[reg[t].n].hasParent
  BY UnlinkNextEffect DEF SameVer, SameRest
<1>11. Holds(t, reg[t].n) \/ (SameVer(reg[t].n) /\ SameKeys(reg[t].n))
  BY <1>2 DEF Holds, HoldsLeaf, PutPlaces, DyingPlaces
<1>12. SoundLinks(reg[t].n)
  BY <1>10, SoundLinksNow, UnlinkNextEffect DEF SameLinks, SameRest, Writes
<1> QED
  BY <1>1, <1>5, <1>7, <1>8, <1>9, <1>10, <1>11, <1>12, QuietWrite

LEMMA MarkPrevBaseDone ==
  ASSUME Base, Concurrent, NEW t \in Threads, MarkPrev(t),
         leaf[reg[t].aux].next = reg[t].n /\ ~leaf[reg[t].aux].marked
  PROVE  Base' /\ Own(t)
<1>1. Only(t) /\ reg'[t] = reg[t] /\ top' = top /\ freed' = freed
  BY MarkPrevEffectDone
<1>2. pc[t] = "markPrev" /\ pc'[t] = "unlinkBack"
  BY MarkPrevEffectDone
<1>3. Pointing(t) /\ Controlled(t) /\ Placed(t)
  BY DEF Base, Pointers, Control, Placing
<1>4. Removes(t)
  BY <1>2, <1>3 DEF Controlled, PutPlaces, RemovePlaces, DyingPlaces
<1>5. SameRoles(t)
  BY <1>1, <1>2, <1>3, <1>4 DEF Controlled, SameRoles, Holds, HoldsLeaf, HoldsOther, HoldsTop,
       Halving, Halved, Pending, Puts, Removes, PutPlaces, DyingPlaces
<1>6. LeafIds' = LeafIds /\ OptLeaf' = OptLeaf /\ \A m \in LeafIds : leaf'[m].perm = leaf[m].perm
  BY MarkPrevEffectDone DEF Writes, SameKeys, OptLeaf
<1>7. Pointing(t)'
  BY <1>1, <1>2, <1>3, <1>4, <1>6 DEF Pointing, LeafPlaces, HoldsOther, Halving, Halved, Dying,
       Puts, Removes, PutPlaces, RemovePlaces,
     DyingPlaces, BothPlaces
<1>8. Controlled(t)'
  BY <1>1, <1>2, <1>3, <1>4 DEF Controlled, HoldsOther, HoldsTop, Halving, Halved, Puts, Removes,
       PutPlaces, RemovePlaces,
     DyingPlaces, BothPlaces, ScanPlaces
<1>9. Placed(t)'
  <2>1. (HoldsLeaf(t) => reg[t].n \in LeafIds) /\ (HoldsOther(t) => reg[t].nr \in LeafIds)
    BY HoldsIsLocked
  <2>2. Inserting(t)' => Inserting(t) /\ pc[t] # "slot" /\ HoldsLeaf(t)
    BY <1>1, <1>2, <1>4 DEF Inserting, HoldsLeaf, Puts, Removes, PutPlaces, DyingPlaces
  <2>3. pc'[t] \in {"stamp", "unuse"} => pc[t] = "stamp" /\ HoldsLeaf(t)
    BY <1>1, <1>2, <1>4 DEF HoldsLeaf, PutPlaces, DyingPlaces
  <2>4. Halving(t)' => Halving(t) /\ HoldsLeaf(t) /\ HoldsOther(t)
    BY <1>1, <1>2, <1>4 DEF Halving, HoldsLeaf, HoldsOther, Puts, Removes, PutPlaces, DyingPlaces
  <2> QED
    BY <1>1, <1>3, <1>6, <2>1, <2>2, <2>3, <2>4, PlacedKept
<1>10. Writes(reg[t].aux) /\ leaf'[reg[t].aux].ver.lock = leaf[reg[t].aux].ver.lock
       /\ leaf'[reg[t].aux].hasParent = leaf[reg[t].aux].hasParent
  BY MarkPrevEffectDone DEF SameVer, SameRest
<1>11. Holds(t, reg[t].aux) \/ (SameVer(reg[t].aux) /\ SameKeys(reg[t].aux))
  BY MarkPrevEffectDone
<1>12. SoundLinks(reg[t].aux)
  BY <1>10, SoundLinksNow, MarkPrevEffectDone DEF SameLinks, SameRest, Writes
<1> QED
  BY <1>1, <1>5, <1>7, <1>8, <1>9, <1>10, <1>11, <1>12, QuietWrite

LEMMA MarkPrevBaseAgain ==
  ASSUME Base, Concurrent, NEW t \in Threads, MarkPrev(t),
         ~(leaf[reg[t].aux].next = reg[t].n /\ ~leaf[reg[t].aux].marked)
  PROVE  Base' /\ Own(t)
<1>1. Only(t) /\ reg'[t] = reg[t] /\ top' = top /\ freed' = freed
  BY MarkPrevEffectAgain
<1>2. pc[t] = "markPrev" /\ pc'[t] = "readPrev"
  BY MarkPrevEffectAgain
<1>3. Pointing(t) /\ Controlled(t) /\ Placed(t)
  BY DEF Base, Pointers, Control, Placing
<1>4. Removes(t)
  BY <1>2, <1>3 DEF Controlled, PutPlaces, RemovePlaces, DyingPlaces
<1>5. SameRoles(t)
  BY <1>1, <1>2, <1>3, <1>4 DEF Controlled, SameRoles, Holds, HoldsLeaf, HoldsOther, HoldsTop,
       Halving, Halved, Pending, Puts, Removes, PutPlaces, DyingPlaces
<1>6. LeafIds' = LeafIds /\ OptLeaf' = OptLeaf /\ \A m \in LeafIds : leaf'[m].perm = leaf[m].perm
  BY MarkPrevEffectAgain DEF OptLeaf
<1>7. Pointing(t)'
  BY <1>1, <1>2, <1>3, <1>4, <1>6 DEF Pointing, LeafPlaces, HoldsOther, Halving, Halved, Dying,
       Puts, Removes, PutPlaces, RemovePlaces,
     DyingPlaces, BothPlaces
<1>8. Controlled(t)'
  BY <1>1, <1>2, <1>3, <1>4 DEF Controlled, HoldsOther, HoldsTop, Halving, Halved, Puts, Removes,
       PutPlaces, RemovePlaces,
     DyingPlaces, BothPlaces, ScanPlaces
<1>9. Placed(t)'
  <2>1. (HoldsLeaf(t) => reg[t].n \in LeafIds) /\ (HoldsOther(t) => reg[t].nr \in LeafIds)
    BY HoldsIsLocked
  <2>2. Inserting(t)' => Inserting(t) /\ pc[t] # "slot" /\ HoldsLeaf(t)
    BY <1>1, <1>2, <1>4 DEF Inserting, HoldsLeaf, Puts, Removes, PutPlaces, DyingPlaces
  <2>3. pc'[t] \in {"stamp", "unuse"} => pc[t] = "stamp" /\ HoldsLeaf(t)
    BY <1>1, <1>2, <1>4 DEF HoldsLeaf, PutPlaces, DyingPlaces
  <2>4. Halving(t)' => Halving(t) /\ HoldsLeaf(t) /\ HoldsOther(t)
    BY <1>1, <1>2, <1>4 DEF Halving, HoldsLeaf, HoldsOther, Puts, Removes, PutPlaces, DyingPlaces
  <2> QED
    BY <1>1, <1>3, <1>6, <2>1, <2>2, <2>3, <2>4, PlacedKept
<1>10. leaf' = leaf
  BY MarkPrevEffectAgain
<1> QED
  BY <1>1, <1>5, <1>7, <1>8, <1>9, <1>10, QuietRead

LEMMA UnlinkBackBaseNext ==
  ASSUME Base, Concurrent, NEW t \in Threads, UnlinkBack(t), leaf[reg[t].n].next # Null
  PROVE  Base' /\ Own(t)
<1>1. Only(t) /\ reg'[t] = reg[t] /\ top' = top /\ freed' = freed
  BY UnlinkBackEffectNext
<1>2. pc[t] = "unlinkBack" /\ pc'[t] = "unlink"
  BY UnlinkBackEffectNext
<1>3. Pointing(t) /\ Controlled(t) /\ Placed(t)
  BY DEF Base, Pointers, Control, Placing
<1>4. Removes(t)
  BY <1>2, <1>3 DEF Controlled, PutPlaces, RemovePlaces, DyingPlaces
<1>5. SameRoles(t)
  BY <1>1, <1>2, <1>3, <1>4 DEF Controlled, SameRoles, Holds, HoldsLeaf, HoldsOther, HoldsTop,
       Halving, Halved, Pending, Puts, Removes, PutPlaces, DyingPlaces
<1>6. LeafIds' = LeafIds /\ OptLeaf' = OptLeaf /\ \A m \in LeafIds : leaf'[m].perm = leaf[m].perm
  BY UnlinkBackEffectNext DEF Writes, SameKeys, OptLeaf
<1>7. Pointing(t)'
  BY <1>1, <1>2, <1>3, <1>4, <1>6 DEF Pointing, LeafPlaces, HoldsOther, Halving, Halved, Dying,
       Puts, Removes, PutPlaces, RemovePlaces,
     DyingPlaces, BothPlaces
<1>8. Controlled(t)'
  BY <1>1, <1>2, <1>3, <1>4 DEF Controlled, HoldsOther, HoldsTop, Halving, Halved, Puts, Removes,
       PutPlaces, RemovePlaces,
     DyingPlaces, BothPlaces, ScanPlaces
<1>9. Placed(t)'
  <2>1. (HoldsLeaf(t) => reg[t].n \in LeafIds) /\ (HoldsOther(t) => reg[t].nr \in LeafIds)
    BY HoldsIsLocked
  <2>2. Inserting(t)' => Inserting(t) /\ pc[t] # "slot" /\ HoldsLeaf(t)
    BY <1>1, <1>2, <1>4 DEF Inserting, HoldsLeaf, Puts, Removes, PutPlaces, DyingPlaces
  <2>3. pc'[t] \in {"stamp", "unuse"} => pc[t] = "stamp" /\ HoldsLeaf(t)
    BY <1>1, <1>2, <1>4 DEF HoldsLeaf, PutPlaces, DyingPlaces
  <2>4. Halving(t)' => Halving(t) /\ HoldsLeaf(t) /\ HoldsOther(t)
    BY <1>1, <1>2, <1>4 DEF Halving, HoldsLeaf, HoldsOther, Puts, Removes, PutPlaces, DyingPlaces
  <2> QED
    BY <1>1, <1>3, <1>6, <2>1, <2>2, <2>3, <2>4, PlacedKept
<1>10. Writes(leaf[reg[t].n].next)
       /\ leaf'[leaf[reg[t].n].next].ver.lock = leaf[leaf[reg[t].n].next].ver.lock
       /\ leaf'[leaf[reg[t].n].next].hasParent = leaf[leaf[reg[t].n].next].hasParent
  BY UnlinkBackEffectNext DEF SameVer, SameRest
<1>11. Holds(t, leaf[reg[t].n].next) \/ (SameVer(leaf[reg[t].n].next) /\ SameKeys(leaf[reg[t].n].next))
  BY UnlinkBackEffectNext
<1>12. SoundLinks(leaf[reg[t].n].next)
  <2>1. reg[t].aux \in OptLeaf /\ reg[t].aux # Null
    BY <1>2, <1>3 DEF Pointing
  <2>2. leaf[reg[t].n].next # 1
    BY <1>2, AtLeaf DEF LeafPlaces, RemovePlaces, DyingPlaces, Base, Pointers
  <2> QED
    BY <1>10, <2>1, <2>2, UnlinkBackEffectNext DEF SoundLinks, Base, Pointers, Writes, SameLinks
<1> QED
  BY <1>1, <1>5, <1>7, <1>8, <1>9, <1>10, <1>11, <1>12, QuietWrite

LEMMA UnlinkBackBaseLast ==
  ASSUME Base, Concurrent, NEW t \in Threads, UnlinkBack(t), leaf[reg[t].n].next = Null
  PROVE  Base' /\ Own(t)
<1>1. Only(t) /\ reg'[t] = reg[t] /\ top' = top /\ freed' = freed
  BY UnlinkBackEffectLast
<1>2. pc[t] = "unlinkBack" /\ pc'[t] = "unlink"
  BY UnlinkBackEffectLast
<1>3. Pointing(t) /\ Controlled(t) /\ Placed(t)
  BY DEF Base, Pointers, Control, Placing
<1>4. Removes(t)
  BY <1>2, <1>3 DEF Controlled, PutPlaces, RemovePlaces, DyingPlaces
<1>5. SameRoles(t)
  BY <1>1, <1>2, <1>3, <1>4 DEF Controlled, SameRoles, Holds, HoldsLeaf, HoldsOther, HoldsTop,
       Halving, Halved, Pending, Puts, Removes, PutPlaces, DyingPlaces
<1>6. LeafIds' = LeafIds /\ OptLeaf' = OptLeaf /\ \A m \in LeafIds : leaf'[m].perm = leaf[m].perm
  BY UnlinkBackEffectLast DEF OptLeaf
<1>7. Pointing(t)'
  BY <1>1, <1>2, <1>3, <1>4, <1>6 DEF Pointing, LeafPlaces, HoldsOther, Halving, Halved, Dying,
       Puts, Removes, PutPlaces, RemovePlaces,
     DyingPlaces, BothPlaces
<1>8. Controlled(t)'
  BY <1>1, <1>2, <1>3, <1>4 DEF Controlled, HoldsOther, HoldsTop, Halving, Halved, Puts, Removes,
       PutPlaces, RemovePlaces,
     DyingPlaces, BothPlaces, ScanPlaces
<1>9. Placed(t)'
  <2>1. (HoldsLeaf(t) => reg[t].n \in LeafIds) /\ (HoldsOther(t) => reg[t].nr \in LeafIds)
    BY HoldsIsLocked
  <2>2. Inserting(t)' => Inserting(t) /\ pc[t] # "slot" /\ HoldsLeaf(t)
    BY <1>1, <1>2, <1>4 DEF Inserting, HoldsLeaf, Puts, Removes, PutPlaces, DyingPlaces
  <2>3. pc'[t] \in {"stamp", "unuse"} => pc[t] = "stamp" /\ HoldsLeaf(t)
    BY <1>1, <1>2, <1>4 DEF HoldsLeaf, PutPlaces, DyingPlaces
  <2>4. Halving(t)' => Halving(t) /\ HoldsLeaf(t) /\ HoldsOther(t)
    BY <1>1, <1>2, <1>4 DEF Halving, HoldsLeaf, HoldsOther, Puts, Removes, PutPlaces, DyingPlaces
  <2> QED
    BY <1>1, <1>3, <1>6, <2>1, <2>2, <2>3, <2>4, PlacedKept
<1>10. leaf' = leaf
  BY UnlinkBackEffectLast
<1> QED
  BY <1>1, <1>5, <1>7, <1>8, <1>9, <1>10, QuietRead

LEMMA UnlinkBase ==
  ASSUME Base, Concurrent, NEW t \in Threads, Unlink(t)
  PROVE  Base' /\ Own(t)
<1>1. Only(t) /\ reg'[t] = reg[t] /\ top' = top /\ freed' = freed
  BY UnlinkEffect
<1>2. pc[t] = "unlink" /\ pc'[t] = "parent"
  BY UnlinkEffect
<1>3. Pointing(t) /\ Controlled(t) /\ Placed(t)
  BY DEF Base, Pointers, Control, Placing
<1>4. Removes(t)
  BY <1>2, <1>3 DEF Controlled, PutPlaces, RemovePlaces, DyingPlaces
<1>5. SameRoles(t)
  BY <1>1, <1>2, <1>3, <1>4 DEF Controlled, SameRoles, Holds, HoldsLeaf, HoldsOther, HoldsTop,
       Halving, Halved, Pending, Puts, Removes, PutPlaces, DyingPlaces
<1>6. LeafIds' = LeafIds /\ OptLeaf' = OptLeaf /\ \A m \in LeafIds : leaf'[m].perm = leaf[m].perm
  BY UnlinkEffect DEF Writes, SameKeys, OptLeaf
<1>7. Pointing(t)'
  BY <1>1, <1>2, <1>3, <1>4, <1>6 DEF Pointing, LeafPlaces, HoldsOther, Halving, Halved, Dying,
       Puts, Removes, PutPlaces, RemovePlaces,
     DyingPlaces, BothPlaces
<1>8. Controlled(t)'
  BY <1>1, <1>2, <1>3, <1>4 DEF Controlled, HoldsOther, HoldsTop, Halving, Halved, Puts, Removes,
       PutPlaces, RemovePlaces,
     DyingPlaces, BothPlaces, ScanPlaces
<1>9. Placed(t)'
  <2>1. (HoldsLeaf(t) => reg[t].n \in LeafIds) /\ (HoldsOther(t) => reg[t].nr \in LeafIds)
    BY HoldsIsLocked
  <2>2. Inserting(t)' => Inserting(t) /\ pc[t] # "slot" /\ HoldsLeaf(t)
    BY <1>1, <1>2, <1>4 DEF Inserting, HoldsLeaf, Puts, Removes, PutPlaces, DyingPlaces
  <2>3. pc'[t] \in {"stamp", "unuse"} => pc[t] = "stamp" /\ HoldsLeaf(t)
    BY <1>1, <1>2, <1>4 DEF HoldsLeaf, PutPlaces, DyingPlaces
  <2>4. Halving(t)' => Halving(t) /\ HoldsLeaf(t) /\ HoldsOther(t)
    BY <1>1, <1>2, <1>4 DEF Halving, HoldsLeaf, HoldsOther, Puts, Removes, PutPlaces, DyingPlaces
  <2> QED
    BY <1>1, <1>3, <1>6, <2>1, <2>2, <2>3, <2>4, PlacedKept
<1>10. Writes(reg[t].aux) /\ leaf'[reg[t].aux].ver.lock = leaf[reg[t].aux].ver.lock
       /\ leaf'[reg[t].aux].hasParent = leaf[reg[t].aux].hasParent
  BY UnlinkEffect DEF SameVer, SameRest
<1>11. Holds(t, reg[t].aux) \/ (SameVer(reg[t].aux) /\ SameKeys(reg[t].aux))
  BY UnlinkEffect
<1>12. SoundLinks(reg[t].aux)
  <2>1. leaf[reg[t].n].next \in OptLeaf \ {1}
    BY <1>2, AtLeaf DEF LeafPlaces, RemovePlaces, DyingPlaces, Base, Pointers
  <2> QED
    BY <1>10, <2>1, UnlinkEffect DEF SoundLinks, Base, Pointers, Writes, SameRest
<1> QED
  BY <1>1, <1>5, <1>7, <1>8, <1>9, <1>10, <1>11, <1>12, QuietWrite
-----------------------------------------------------------------------------
(* The same, for the steps that note a place or a leaf.                     *)

LEMMA BeginInsertBase ==
  ASSUME Base, Concurrent, NEW t \in Threads, BeginInsert(t)
  PROVE  Base' /\ Own(t)
<1>1. Only(t) /\ top' = top /\ freed' = freed
  BY BeginInsertEffect
<1>2. pc[t] = "decide" /\ pc'[t] = "slot"
  BY BeginInsertEffect
<1>0. reg'[t].kind = reg[t].kind /\ reg'[t].key = reg[t].key /\ reg'[t].val = reg[t].val
      /\ reg'[t].n = reg[t].n /\ reg'[t].nr = reg[t].nr /\ reg'[t].aux = reg[t].aux
      /\ reg'[t].hasTop = reg[t].hasTop /\ reg'[t].toRight = reg[t].toRight
      /\ reg'[t].kp = reg[t].kp
  BY BeginInsertEffect
<1>3. Pointing(t) /\ Controlled(t) /\ Placed(t)
  BY DEF Base, Pointers, Control, Placing
<1>4. Puts(t)
  BY DEF BeginInsert, Puts, Removes
<1>5. SameRoles(t)
  BY <1>1, <1>2, <1>0, <1>3, <1>4 DEF Controlled, SameRoles, Holds, HoldsLeaf, HoldsOther, HoldsTop,
       Halving, Halved, Pending, Puts, Removes, PutPlaces, DyingPlaces
<1>6. LeafIds' = LeafIds /\ OptLeaf' = OptLeaf /\ reg[t].n \in LeafIds /\ HoldsLeaf(t)
      /\ leaf[reg[t].n].perm \in Permuters
  BY <1>2, BeginInsertEffect, AtLeaf DEF Writes, OptLeaf, HoldsLeaf, LeafPlaces, PutPlaces,
       RemovePlaces, BothPlaces, DyingPlaces
<1>7. Pointing(t)'
  BY <1>2, <1>0, <1>3, <1>4, <1>6 DEF Controlled, Pointing, LeafPlaces, HoldsOther, Halving, Halved,
       Dying, Puts, Removes, PutPlaces, RemovePlaces,
       DyingPlaces, BothPlaces
<1>8. Controlled(t)'
  BY <1>1, <1>2, <1>0, <1>3, <1>4 DEF Controlled, HoldsOther, HoldsTop, Halving, Halved, Puts,
       Removes, PutPlaces, RemovePlaces,
     DyingPlaces, BothPlaces, ScanPlaces
<1>9. Placed(t)'
  <2>1. ~Halving(t)'
    BY <1>2, <1>0, <1>4 DEF Halving, Puts, Removes
  <2>2. reg[t].key \in Int
    BY AtLeaf, LocalType, <1>2 DEF LeafPlaces, BothPlaces
  <2>3. reg'[t].ki \in 0..leaf'[reg'[t].n].perm.size
    BY <1>0, <1>6, <2>2, BeginInsertEffect, PositionType DEF SameKeys
  <2> QED
    BY <1>2, <2>1, <2>3 DEF Placed
<1>10. Writes(reg[t].n) /\ leaf'[reg[t].n].ver.lock = leaf[reg[t].n].ver.lock
       /\ leaf'[reg[t].n].hasParent = leaf[reg[t].n].hasParent
  <2>1. leaf[reg[t].n].ver \in Version
    BY <1>6, LeafFacts
  <2> QED
    BY <2>1, BeginInsertEffect, MarkInsertVersion DEF SameRest
<1>11. Holds(t, reg[t].n)
  BY <1>6 DEF Holds
<1>12. SoundLinks(reg[t].n)
  BY <1>10, SoundLinksNow, BeginInsertEffect DEF SameLinks, SameRest, Writes
<1> QED
  BY <1>1, <1>5, <1>7, <1>8, <1>9, <1>10, <1>11, <1>12, QuietWrite

LEMMA InsertHereBase ==
  ASSUME Base, Concurrent, NEW t \in Threads, InsertHere(t)
  PROVE  Base' /\ Own(t)
<1>1. Only(t) /\ top' = top /\ freed' = freed
  BY InsertHereEffect
<1>2. pc[t] = "slot" /\ pc'[t] = "assign"
  BY InsertHereEffect
<1>0. reg'[t].kind = reg[t].kind /\ reg'[t].key = reg[t].key /\ reg'[t].val = reg[t].val
      /\ reg'[t].n = reg[t].n /\ reg'[t].nr = reg[t].nr /\ reg'[t].aux = reg[t].aux
      /\ reg'[t].hasTop = reg[t].hasTop /\ reg'[t].toRight = reg[t].toRight
      /\ reg'[t].ki = reg[t].ki
  BY InsertHereEffect
<1>3. Pointing(t) /\ Controlled(t) /\ Placed(t)
  BY DEF Base, Pointers, Control, Placing
<1>4. Puts(t)
  BY <1>2, <1>3 DEF Controlled, PutPlaces, RemovePlaces, DyingPlaces
<1>5. SameRoles(t)
  BY <1>1, <1>2, <1>0, <1>3, <1>4 DEF Controlled, SameRoles, Holds, HoldsLeaf, HoldsOther, HoldsTop,
       Halving, Halved, Pending, Puts, Removes, PutPlaces, DyingPlaces
<1>6. LeafIds' = LeafIds /\ OptLeaf' = OptLeaf /\ reg[t].n \in LeafIds /\ HoldsLeaf(t)
      /\ leaf[reg[t].n].perm \in Permuters
  BY <1>2, InsertHereEffect, AtLeaf DEF Writes, OptLeaf, HoldsLeaf, LeafPlaces, PutPlaces,
       RemovePlaces, BothPlaces, DyingPlaces
<1>7. Pointing(t)'
  BY <1>2, <1>0, <1>3, <1>4, <1>6 DEF Controlled, Pointing, LeafPlaces, HoldsOther, Halving, Halved,
       Dying, Puts, Removes, PutPlaces, RemovePlaces,
       DyingPlaces, BothPlaces
<1>8. Controlled(t)'
  BY <1>1, <1>2, <1>0, <1>3, <1>4 DEF Controlled, HoldsOther, HoldsTop, Halving, Halved, Puts,
       Removes, PutPlaces, RemovePlaces,
     DyingPlaces, BothPlaces, ScanPlaces
<1>9. Placed(t)'
  <2>1. ~Halving(t)'
    BY <1>2, <1>0, <1>4 DEF Halving, Puts, Removes
  <2>2. leaf'[reg'[t].n].perm = leaf[reg[t].n].perm /\ leaf[reg[t].n].perm.size < Width
    BY <1>0, InsertHereEffect DEF InsertHere, Here
  <2>3. reg[t].ki \in 0..leaf[reg[t].n].perm.size
    BY <1>2, <1>3 DEF Placed, Inserting
  <2> QED
    BY <1>0, <1>2, <2>1, <2>2, <2>3, InsertHereEffect DEF Placed
<1>10. leaf' = leaf
  BY InsertHereEffect
<1> QED
  BY <1>1, <1>5, <1>7, <1>8, <1>9, <1>10, QuietRead

LEMMA InsertExchangedBase ==
  ASSUME Base, Concurrent, NEW t \in Threads, InsertExchanged(t)
  PROVE  Base' /\ Own(t)
<1>1. Only(t) /\ top' = top /\ freed' = freed
  BY InsertExchangedEffect
<1>2. pc[t] = "slot" /\ pc'[t] = "assign"
  BY InsertExchangedEffect
<1>0. reg'[t].kind = reg[t].kind /\ reg'[t].key = reg[t].key /\ reg'[t].val = reg[t].val
      /\ reg'[t].n = reg[t].n /\ reg'[t].nr = reg[t].nr /\ reg'[t].aux = reg[t].aux
      /\ reg'[t].hasTop = reg[t].hasTop /\ reg'[t].toRight = reg[t].toRight
      /\ reg'[t].ki = reg[t].ki
  BY InsertExchangedEffect
<1>3. Pointing(t) /\ Controlled(t) /\ Placed(t)
  BY DEF Base, Pointers, Control, Placing
<1>4. Puts(t)
  BY <1>2, <1>3 DEF Controlled, PutPlaces, RemovePlaces, DyingPlaces
<1>5. SameRoles(t)
  BY <1>1, <1>2, <1>0, <1>3, <1>4 DEF Controlled, SameRoles, Holds, HoldsLeaf, HoldsOther, HoldsTop,
       Halving, Halved, Pending, Puts, Removes, PutPlaces, DyingPlaces
<1>6. LeafIds' = LeafIds /\ OptLeaf' = OptLeaf /\ reg[t].n \in LeafIds /\ HoldsLeaf(t)
      /\ leaf[reg[t].n].perm \in Permuters
  BY <1>2, InsertExchangedEffect, AtLeaf DEF Writes, OptLeaf, HoldsLeaf, LeafPlaces, PutPlaces,
       RemovePlaces, BothPlaces, DyingPlaces
<1>7. Pointing(t)'
  BY <1>2, <1>0, <1>3, <1>4, <1>6 DEF Controlled, Pointing, LeafPlaces, HoldsOther, Halving, Halved,
       Dying, Puts, Removes, PutPlaces, RemovePlaces,
       DyingPlaces, BothPlaces
<1>8. Controlled(t)'
  BY <1>1, <1>2, <1>0, <1>3, <1>4 DEF Controlled, HoldsOther, HoldsTop, Halving, Halved, Puts,
       Removes, PutPlaces, RemovePlaces,
     DyingPlaces, BothPlaces, ScanPlaces
<1>9. Placed(t)'
  <2>1. ~Halving(t)'
    BY <1>2, <1>0, <1>4 DEF Halving, Puts, Removes
  <2>2. leaf[reg[t].n].perm.size < Width
    BY DEF InsertExchanged, Here
  <2>3. leaf'[reg'[t].n].perm = OtherBack(leaf[reg[t].n].perm)
    BY <1>0, InsertExchangedEffect
  <2>4. leaf'[reg'[t].n].perm.size = leaf[reg[t].n].perm.size
    BY <1>6, <2>2, <2>3, OtherBackFacts
  <2>5. reg[t].ki \in 0..leaf[reg[t].n].perm.size
    BY <1>2, <1>3 DEF Placed, Inserting
  <2> QED
    BY <1>0, <1>2, <2>1, <2>2, <2>3, <2>4, <2>5, InsertExchangedEffect DEF Placed
<1>10. Writes(reg[t].n) /\ leaf'[reg[t].n].ver.lock = leaf[reg[t].n].ver.lock
       /\ leaf'[reg[t].n].hasParent = leaf[reg[t].n].hasParent
  BY InsertExchangedEffect DEF SameVer, SameRest
<1>11. Holds(t, reg[t].n)
  BY <1>6 DEF Holds
<1>12. SoundLinks(reg[t].n)
  BY <1>10, SoundLinksNow, InsertExchangedEffect DEF SameLinks, SameRest, Writes
<1> QED
  BY <1>1, <1>5, <1>7, <1>8, <1>9, <1>10, <1>11, <1>12, QuietWrite

LEMMA BeginRemoveBase ==
  ASSUME Base, Concurrent, NEW t \in Threads, BeginRemove(t)
  PROVE  Base' /\ Own(t)
<1>1. Only(t) /\ top' = top /\ freed' = freed
  BY BeginRemoveEffect
<1>2. pc[t] = "decide" /\ pc'[t] = "stamp"
  BY BeginRemoveEffect
<1>0. reg'[t].kind = reg[t].kind /\ reg'[t].key = reg[t].key /\ reg'[t].val = reg[t].val
      /\ reg'[t].n = reg[t].n /\ reg'[t].nr = reg[t].nr /\ reg'[t].aux = reg[t].aux
      /\ reg'[t].hasTop = reg[t].hasTop /\ reg'[t].toRight = reg[t].toRight
      /\ reg'[t].kp = reg[t].kp
  BY BeginRemoveEffect
<1>3. Pointing(t) /\ Controlled(t) /\ Placed(t)
  BY DEF Base, Pointers, Control, Placing
<1>4. Removes(t)
  BY DEF BeginRemove, Puts, Removes
<1>5. SameRoles(t)
  BY <1>1, <1>2, <1>0, <1>3, <1>4 DEF Controlled, SameRoles, Holds, HoldsLeaf, HoldsOther, HoldsTop,
       Halving, Halved, Pending, Puts, Removes, PutPlaces, DyingPlaces
<1>6. LeafIds' = LeafIds /\ OptLeaf' = OptLeaf /\ reg[t].n \in LeafIds /\ HoldsLeaf(t)
      /\ leaf[reg[t].n].perm \in Permuters
  BY <1>2, BeginRemoveEffect, AtLeaf DEF Writes, OptLeaf, HoldsLeaf, LeafPlaces, PutPlaces,
       RemovePlaces, BothPlaces, DyingPlaces
<1>7. Pointing(t)'
  BY <1>2, <1>0, <1>3, <1>4, <1>6 DEF Controlled, Pointing, LeafPlaces, HoldsOther, Halving, Halved,
       Dying, Puts, Removes, PutPlaces, RemovePlaces,
       DyingPlaces, BothPlaces
<1>8. Controlled(t)'
  BY <1>1, <1>2, <1>0, <1>3, <1>4 DEF Controlled, HoldsOther, HoldsTop, Halving, Halved, Puts,
       Removes, PutPlaces, RemovePlaces,
     DyingPlaces, BothPlaces, ScanPlaces
<1>9. Placed(t)'
  <2>1. ~Halving(t)'
    BY <1>2, <1>0, <1>4 DEF Halving, Puts, Removes
  <2>2. reg[t].key \in Int
    BY AtLeaf, LocalType, <1>2 DEF LeafPlaces, BothPlaces
  <2>3. reg'[t].ki \in 0..(leaf'[reg'[t].n].perm.size - 1)
    BY <1>0, <1>6, <2>2, BeginRemoveEffect, PositionType DEF BeginRemove
  <2>4. ~Inserting(t)'
    BY <1>2 DEF Inserting
  <2> QED
    BY <1>2, <2>1, <2>3, <2>4 DEF Placed
<1>10. leaf' = leaf
  BY BeginRemoveEffect
<1> QED
  BY <1>1, <1>5, <1>7, <1>8, <1>9, <1>10, QuietRead

LEMMA ReadKeeperBase ==
  ASSUME Base, Concurrent, NEW t \in Threads, ReadKeeper(t)
  PROVE  Base' /\ Own(t)
<1>1. Only(t) /\ top' = top /\ freed' = freed
  BY ReadKeeperEffect
<1>2. pc[t] = "readKeeper" /\ pc'[t] = "raise"
  BY ReadKeeperEffect
<1>0. reg'[t].kind = reg[t].kind /\ reg'[t].key = reg[t].key /\ reg'[t].val = reg[t].val
      /\ reg'[t].n = reg[t].n /\ reg'[t].nr = reg[t].nr /\ reg'[t].hasTop = reg[t].hasTop
      /\ reg'[t].toRight = reg[t].toRight /\ reg'[t].ki = reg[t].ki /\ reg'[t].kp = reg[t].kp
  BY ReadKeeperEffect
<1>3. Pointing(t) /\ Controlled(t) /\ Placed(t)
  BY DEF Base, Pointers, Control, Placing
<1>4. Removes(t)
  BY <1>2, <1>3 DEF Controlled, PutPlaces, RemovePlaces, DyingPlaces
<1>5. SameRoles(t)
  BY <1>1, <1>2, <1>0, <1>3, <1>4 DEF Controlled, SameRoles, Holds, HoldsLeaf, HoldsOther, HoldsTop,
       Halving, Halved, Pending, Puts, Removes, PutPlaces, DyingPlaces
<1>6. LeafIds' = LeafIds /\ OptLeaf' = OptLeaf /\ reg[t].n \in LeafIds /\ HoldsLeaf(t)
      /\ leaf[reg[t].n].perm \in Permuters
  BY <1>2, ReadKeeperEffect, AtLeaf DEF Writes, OptLeaf, HoldsLeaf, LeafPlaces, PutPlaces,
       RemovePlaces, BothPlaces, DyingPlaces
<1>7. Pointing(t)'
  <2>1. reg[t].n # 1
    BY <1>2, <1>3 DEF Pointing, Dying, DyingPlaces
  <2>2. reg'[t].aux \in OptLeaf /\ reg'[t].aux # Null
    BY <1>6, <2>1, ReadKeeperEffect DEF Base, Pointers
  <2> QED
    BY <2>2, <1>2, <1>0, <1>3, <1>4, <1>6 DEF Controlled, Pointing, LeafPlaces, HoldsOther, Halving,
         Halved, Dying, Puts, Removes, PutPlaces, RemovePlaces,
       DyingPlaces, BothPlaces
<1>8. Controlled(t)'
  BY <1>1, <1>2, <1>0, <1>3, <1>4 DEF Controlled, HoldsOther, HoldsTop, Halving, Halved, Puts,
       Removes, PutPlaces, RemovePlaces,
     DyingPlaces, BothPlaces, ScanPlaces
<1>9. Placed(t)'
  <2>1. ~Halving(t)'
    BY <1>2, <1>0, <1>4 DEF Halving, Puts, Removes
  <2>2. ~Inserting(t)'
    BY <1>2, <1>0, <1>4 DEF Inserting, Puts, Removes
  <2> QED
    BY <1>2, <2>1, <2>2 DEF Placed
<1>10. leaf' = leaf
  BY ReadKeeperEffect
<1> QED
  BY <1>1, <1>5, <1>7, <1>8, <1>9, <1>10, QuietRead

LEMMA ReadPrevBase ==
  ASSUME Base, Concurrent, NEW t \in Threads, ReadPrev(t)
  PROVE  Base' /\ Own(t)
<1>1. Only(t) /\ top' = top /\ freed' = freed
  BY ReadPrevEffect
<1>2. pc[t] = "readPrev" /\ pc'[t] = "markPrev"
  BY ReadPrevEffect
<1>0. reg'[t].kind = reg[t].kind /\ reg'[t].key = reg[t].key /\ reg'[t].val = reg[t].val
      /\ reg'[t].n = reg[t].n /\ reg'[t].nr = reg[t].nr /\ reg'[t].hasTop = reg[t].hasTop
      /\ reg'[t].toRight = reg[t].toRight /\ reg'[t].ki = reg[t].ki /\ reg'[t].kp = reg[t].kp
  BY ReadPrevEffect
<1>3. Pointing(t) /\ Controlled(t) /\ Placed(t)
  BY DEF Base, Pointers, Control, Placing
<1>4. Removes(t)
  BY <1>2, <1>3 DEF Controlled, PutPlaces, RemovePlaces, DyingPlaces
<1>5. SameRoles(t)
  BY <1>1, <1>2, <1>0, <1>3, <1>4 DEF Controlled, SameRoles, Holds, HoldsLeaf, HoldsOther, HoldsTop,
       Halving, Halved, Pending, Puts, Removes, PutPlaces, DyingPlaces
<1>6. LeafIds' = LeafIds /\ OptLeaf' = OptLeaf /\ reg[t].n \in LeafIds /\ HoldsLeaf(t)
      /\ leaf[reg[t].n].perm \in Permuters
  BY <1>2, ReadPrevEffect, AtLeaf DEF Writes, OptLeaf, HoldsLeaf, LeafPlaces, PutPlaces,
       RemovePlaces, BothPlaces, DyingPlaces
<1>7. Pointing(t)'
  <2>1. reg[t].n # 1
    BY <1>2, <1>3 DEF Pointing, Dying, DyingPlaces
  <2>2. reg'[t].aux \in OptLeaf /\ reg'[t].aux # Null
    BY <1>6, <2>1, ReadPrevEffect DEF Base, Pointers
  <2> QED
    BY <2>2, <1>2, <1>0, <1>3, <1>4, <1>6 DEF Controlled, Pointing, LeafPlaces, HoldsOther, Halving,
         Halved, Dying, Puts, Removes, PutPlaces, RemovePlaces,
       DyingPlaces, BothPlaces
<1>8. Controlled(t)'
  BY <1>1, <1>2, <1>0, <1>3, <1>4 DEF Controlled, HoldsOther, HoldsTop, Halving, Halved, Puts,
       Removes, PutPlaces, RemovePlaces,
     DyingPlaces, BothPlaces, ScanPlaces
<1>9. Placed(t)'
  <2>1. ~Halving(t)'
    BY <1>2, <1>0, <1>4 DEF Halving, Puts, Removes
  <2>2. ~Inserting(t)'
    BY <1>2, <1>0, <1>4 DEF Inserting, Puts, Removes
  <2> QED
    BY <1>2, <2>1, <2>2 DEF Placed
<1>10. leaf' = leaf
  BY ReadPrevEffect
<1> QED
  BY <1>1, <1>5, <1>7, <1>8, <1>9, <1>10, QuietRead

LEMMA RemoveEntryBaseLast ==
  ASSUME Base, Concurrent, NEW t \in Threads, RemoveEntry(t),
         ~(RemoveSlot(leaf[reg[t].n].perm, reg[t].ki).size > 0)
  PROVE  Base' /\ Own(t)
<1>1. Only(t) /\ top' = top /\ freed' = freed
  BY RemoveEntryEffectLast
<1>2. pc[t] = "unuse" /\ pc'[t] = "empty"
  BY RemoveEntryEffectLast
<1>0. reg'[t].kind = reg[t].kind /\ reg'[t].key = reg[t].key /\ reg'[t].val = reg[t].val
      /\ reg'[t].n = reg[t].n /\ reg'[t].nr = reg[t].nr /\ reg'[t].aux = reg[t].aux
      /\ reg'[t].hasTop = reg[t].hasTop /\ reg'[t].toRight = reg[t].toRight
      /\ reg'[t].ki = reg[t].ki /\ reg'[t].kp = reg[t].kp
  BY RemoveEntryEffectLast
<1>3. Pointing(t) /\ Controlled(t) /\ Placed(t)
  BY DEF Base, Pointers, Control, Placing
<1>4. Removes(t)
  BY <1>2, <1>3 DEF Controlled, PutPlaces, RemovePlaces, DyingPlaces
<1>5. SameRoles(t)
  BY <1>1, <1>2, <1>0, <1>3, <1>4 DEF Controlled, SameRoles, Holds, HoldsLeaf, HoldsOther, HoldsTop,
       Halving, Halved, Pending, Puts, Removes, PutPlaces, DyingPlaces
<1>6. LeafIds' = LeafIds /\ OptLeaf' = OptLeaf /\ reg[t].n \in LeafIds /\ HoldsLeaf(t)
      /\ leaf[reg[t].n].perm \in Permuters
  BY <1>2, RemoveEntryEffectLast, AtLeaf DEF Writes, OptLeaf, HoldsLeaf, LeafPlaces, PutPlaces,
       RemovePlaces, BothPlaces, DyingPlaces
<1>7. Pointing(t)'
  BY <1>2, <1>0, <1>3, <1>4, <1>6 DEF Controlled, Pointing, LeafPlaces, HoldsOther, Halving, Halved,
       Dying, Puts, Removes, PutPlaces, RemovePlaces,
       DyingPlaces, BothPlaces
<1>8. Controlled(t)'
  BY <1>1, <1>2, <1>0, <1>3, <1>4 DEF Controlled, HoldsOther, HoldsTop, Halving, Halved, Puts,
       Removes, PutPlaces, RemovePlaces,
     DyingPlaces, BothPlaces, ScanPlaces
<1>9. Placed(t)'
  <2>1. ~Halving(t)'
    BY <1>2, <1>0, <1>4 DEF Halving, Puts, Removes
  <2>2. ~Inserting(t)'
    BY <1>2, <1>0, <1>4 DEF Inserting, Puts, Removes
  <2> QED
    BY <1>2, <2>1, <2>2 DEF Placed
<1>10. Writes(reg[t].n) /\ leaf'[reg[t].n].ver.lock = leaf[reg[t].n].ver.lock
       /\ leaf'[reg[t].n].hasParent = leaf[reg[t].n].hasParent
  BY RemoveEntryEffectLast DEF SameVer, SameRest
<1>11. Holds(t, reg[t].n)
  BY <1>6 DEF Holds
<1>12. SoundLinks(reg[t].n)
  BY <1>10, SoundLinksNow, RemoveEntryEffectLast DEF SameLinks, SameRest, Writes
<1> QED
  BY <1>1, <1>5, <1>7, <1>8, <1>9, <1>10, <1>11, <1>12, QuietWrite

LEMMA LinkBackBase ==
  ASSUME Base, Concurrent, NEW t \in Threads, LinkBack(t)
  PROVE  Base' /\ Own(t)
<1>1. Only(t) /\ reg'[t] = reg[t] /\ top' = top /\ freed' = freed /\ LeafIds' = LeafIds
      /\ leaf' \in Seq(LeafRecord) /\ leaf' # <<>>
  BY LinkBackEffect
<1>2. pc[t] = "linkBack" /\ pc'[t] = "link"
  BY LinkBackEffect
<1>3. Pointing(t) /\ Controlled(t) /\ Placed(t)
  BY DEF Base, Pointers, Control, Placing
<1>4. Puts(t) /\ HoldsLeaf(t) /\ HoldsOther(t) /\ Halving(t)
  BY <1>2, <1>3 DEF Controlled, PutPlaces, RemovePlaces, DyingPlaces, HoldsLeaf, HoldsOther, Halving
<1>5. SameRoles(t)
  BY <1>1, <1>2, <1>3, <1>4 DEF Controlled, SameRoles, Holds, HoldsLeaf, HoldsOther, HoldsTop,
       Halving, Halved, Pending, Puts, Removes, PutPlaces, DyingPlaces
<1>6. /\ OptLeaf' = OptLeaf /\ \A m \in LeafIds : leaf'[m].perm = leaf[m].perm
      /\ reg[t].n \in LeafIds /\ reg[t].nr \in LeafIds /\ reg[t].nr # 1
  BY <1>1, <1>3, <1>4, LinkBackEffect DEF OptLeaf, Pointing
<1>7. Pointing(t)'
  BY <1>1, <1>2, <1>3, <1>4, <1>6 DEF Pointing, LeafPlaces, HoldsOther, Halving, Halved, Dying,
       Puts, Removes, PutPlaces, RemovePlaces,
     DyingPlaces, BothPlaces
<1>8. Controlled(t)'
  BY <1>1, <1>2, <1>3, <1>4 DEF Controlled, HoldsOther, HoldsTop, Halving, Halved, Puts, Removes,
       PutPlaces, RemovePlaces,
     DyingPlaces, BothPlaces, ScanPlaces
<1>9. Placed(t)'
  <2>1. ~Inserting(t)' /\ pc'[t] \notin {"stamp", "unuse"}
    BY <1>1, <1>2, <1>4 DEF Inserting, Puts, Removes
  <2> QED
    BY <1>1, <1>3, <1>4, <1>6, <2>1, PlacedKept
<1>10. Own(t)
  BY LinkBackEffect DEF Own
<1>11. \A l \in LeafIds : /\ leaf'[l].ver.lock = leaf[l].ver.lock
                          /\ leaf'[l].hasParent = leaf[l].hasParent /\ SoundLinks(l)
  <2> SUFFICES ASSUME NEW l \in LeafIds
               PROVE  /\ leaf'[l].ver.lock = leaf[l].ver.lock
                      /\ leaf'[l].hasParent = leaf[l].hasParent /\ SoundLinks(l)
    OBVIOUS
  <2>1. /\ leaf[reg[t].n].next \in OptLeaf \ {1} /\ leaf[l].next \in OptLeaf \ {1}
           /\ leaf[l].prev \in OptLeaf
        /\ leaf[l].prev = Null <=> l = 1
    BY <1>6 DEF Base, Pointers
  <2>2. reg[t].nr \in OptLeaf /\ reg[t].nr # Null
    BY <1>6, LeafIdFacts
  <2>3. leaf'[l].next \in OptLeaf \ {1}
    BY <2>1, LinkBackEffect
  <2>4. leaf'[l].prev \in OptLeaf /\ (leaf'[l].prev = Null <=> l = 1)
    BY <2>1, <2>2, LinkBackEffect
  <2> QED
    BY <2>3, <2>4, LinkBackEffect DEF SoundLinks
<1> QED
  BY <1>1, <1>5, <1>7, <1>8, <1>9, <1>10, <1>11, HoldingKept

LEMMA ShrinkBase ==
  ASSUME Base, Concurrent, NEW t \in Threads, Shrink(t)
  PROVE  Base' /\ Own(t)
<1>1. Only(t) /\ top' = top /\ freed' = freed /\ Writes(reg[t].n) /\ LeafIds' = LeafIds
  BY ShrinkEffect DEF Writes
<1>2. pc[t] = "shrink" /\ pc'[t] = (IF reg[t].toRight THEN "unlockOther" ELSE "assign")
      /\ Halving(t)
  BY ShrinkEffect
<1>3. Pointing(t) /\ Controlled(t) /\ Placed(t)
  BY DEF Base, Pointers, Control, Placing
<1>4. Puts(t) /\ HoldsLeaf(t) /\ HoldsOther(t)
  BY <1>2, <1>3 DEF Controlled, PutPlaces, HoldsLeaf, HoldsOther
<1>0. /\ reg'[t].kind = reg[t].kind /\ reg'[t].key = reg[t].key /\ reg'[t].val = reg[t].val
      /\ reg'[t].aux = reg[t].aux /\ reg'[t].hasTop = reg[t].hasTop
      /\ \/ reg[t].toRight /\ reg'[t].n = reg[t].nr /\ reg'[t].nr = reg[t].n
         \/ ~reg[t].toRight /\ reg'[t].n = reg[t].n /\ reg'[t].nr = reg[t].nr
  BY ShrinkEffect DEF SameCaller
<1>6. OptLeaf' = OptLeaf /\ reg[t].n \in LeafIds /\ reg[t].nr \in LeafIds /\ reg[t].n # reg[t].nr
      /\ reg[t].nr # Null
      /\ reg[t].n # Null
  BY <1>1, <1>4, HoldsIsLocked, LeafIdFacts DEF OptLeaf
<1>5. SameRoles(t)
  <2>1. HoldsLeaf(t)' /\ HoldsOther(t)'
    BY <1>0, <1>2, <1>6 DEF HoldsLeaf, HoldsOther, Halved, PutPlaces
  <2>2. \A l : Holds(t, l)' <=> Holds(t, l)
    BY <1>0, <1>4, <2>1 DEF Holds
  <2>3. HoldsTop(t)' <=> HoldsTop(t)
    BY <1>0, <1>2, <1>6 DEF HoldsTop, Halved
  <2>4. ~Pending(t) /\ pc'[t] \notin {"decide", "addChild", "dropChild"}
    BY <1>2 DEF Pending
  <2> QED
    BY <2>2, <2>3, <2>4 DEF SameRoles
<1>7. Pointing(t)'
  BY <1>0, <1>1, <1>2, <1>3, <1>4, <1>6 DEF Pointing, HoldsOther, Halving, Halved, Dying, Puts,
       Removes, DyingPlaces
<1>8. Controlled(t)'
  BY <1>0, <1>1, <1>2, <1>3, <1>4, <1>6 DEF Controlled, HoldsOther, HoldsTop, Halving, Halved, Puts,
       Removes, PutPlaces, RemovePlaces,
     DyingPlaces, BothPlaces, ScanPlaces
<1>9. Placed(t)'
  <2>1. ~Halving(t)' /\ pc'[t] \notin {"stamp", "unuse", "slot"} /\ Inserting(t)'
    BY <1>0, <1>2 DEF Halving, Inserting, Puts
  <2>2. leaf'[reg[t].nr] = leaf[reg[t].nr]
    BY <1>1, <1>6 DEF Writes
  <2>3. CASE reg[t].toRight
    <3>1. /\ reg[t].ki - Keep(t) \in 0..leaf[reg[t].nr].perm.size
             /\ leaf[reg[t].nr].perm.size < Width
          /\ Back(leaf[reg[t].nr].perm) = reg[t].ki - Keep(t)
      BY <1>2, <1>3, <2>3 DEF Placed
    <3>2. reg'[t].n = reg[t].nr /\ reg'[t].ki = reg[t].ki - Keep(t)
          /\ reg'[t].kp = reg[t].ki - Keep(t)
      BY <2>3, ShrinkEffect
    <3> QED
      BY <2>1, <2>2, <3>1, <3>2 DEF Placed
  <2>4. CASE ~reg[t].toRight
    <3>1. reg[t].ki \in 0..Keep(t) /\ Keep(t) < leaf[reg[t].n].perm.size
      BY <1>2, <1>3, <2>4 DEF Placed
    <3>2. reg'[t].n = reg[t].n /\ reg'[t].ki = reg[t].ki /\ reg'[t].kp = Back(Shrunk(t))
      BY <2>4, ShrinkEffect
    <3>3. leaf'[reg[t].n].perm = Shrunk(t) /\ Shrunk(t).size = Keep(t)
      BY <1>2, ShrinkEffect, ShrunkFacts
    <3>4. leaf[reg[t].n].perm.size \in 0..Width /\ Keep(t) \in 0..leaf[reg[t].n].perm.size
      BY <1>2, <1>6, LeafFacts, PermType, ShrunkFacts
    <3>5. Keep(t) < Width
      BY <3>1, <3>4, WidthType
    <3> QED
      BY <2>1, <3>1, <3>2, <3>3, <3>5 DEF Placed
  <2> QED
    BY <2>3, <2>4
<1>10. leaf'[reg[t].n].ver.lock = leaf[reg[t].n].ver.lock
       /\ leaf'[reg[t].n].hasParent = leaf[reg[t].n].hasParent
  BY ShrinkEffect DEF SameVer, SameRest
<1>11. Holds(t, reg[t].n)
  BY <1>4 DEF Holds
<1>12. SoundLinks(reg[t].n)
  BY <1>6, SoundLinksNow, ShrinkEffect DEF SameLinks, SameRest
<1> QED
  BY <1>1, <1>5, <1>7, <1>8, <1>9, <1>10, <1>11, <1>12, QuietWrite
-----------------------------------------------------------------------------
(* The steps that release the leaf of t keep Base.                          *)

LEMMA FreeKeeps ==
  ASSUME Base, NEW t \in Threads, Only(t), Free(pc'[t], reg'[t]), OptLeaf' = OptLeaf
  PROVE  /\ ~HoldsLeaf(t)' /\ ~HoldsOther(t)' /\ ~HoldsTop(t)' /\ ~Halving(t)' /\ ~Dying(t)'
            /\ ~Inserting(t)'
         /\ pc'[t] # "decide" /\ pc'[t] \notin {"addChild", "dropChild"} /\ ~Pending(t)'
         /\ pc'[t] # "free" /\ pc'[t] # "unlockParent" /\ pc'[t] # "empty" /\ pc'[t] \in FreePlaces
         /\ Pointing(t)' /\ Controlled(t)' /\ Placed(t)'
<1>1. /\ ~HoldsLeaf(t)' /\ ~HoldsOther(t)' /\ ~HoldsTop(t)' /\ ~Halving(t)' /\ ~Dying(t)'
         /\ ~Inserting(t)'
      /\ pc'[t] # "decide" /\ pc'[t] \notin {"addChild", "dropChild"} /\ ~Pending(t)'
      /\ pc'[t] # "free" /\ pc'[t] # "unlockParent" /\ pc'[t] # "empty" /\ pc'[t] \in FreePlaces
  BY DEF Free, FreePlaces, ReadPlaces, HoldsLeaf, HoldsOther, HoldsTop, Halving, Halved, Dying,
       Inserting,
                   PutPlaces, DyingPlaces, Pending
<1>2. Pointing(t)'
  BY <1>1, LeafIdFacts DEF Pointing, Free, FreePlaces, ReadPlaces
<1>3. Controlled(t)'
  BY <1>1 DEF Controlled, Free, Puts, Removes, FreePlaces, ReadPlaces, PutPlaces, RemovePlaces,
                          DyingPlaces, BothPlaces
<1>4. Placed(t)'
  BY <1>1 DEF Placed, Free, FreePlaces, ReadPlaces
<1> QED
  BY <1>1, <1>2, <1>3, <1>4

LEMMA ReleaseKeepsBase ==
  ASSUME Base, NEW t \in Threads, Only(t), NEW l, l = reg[t].n, Writes(l), top' = top,
         freed' = freed,
         HoldsLeaf(t), ~HoldsOther(t), ~HoldsTop(t), Free(pc'[t], reg'[t]),
         ~leaf'[l].ver.lock, Steady(leaf'[l].ver), leaf'[l].hasParent = leaf[l].hasParent, SoundLinks(l)
  PROVE  Base' /\ Own(t)
<1>1. /\ l \in LeafIds /\ leaf' \in Seq(LeafRecord) /\ leaf' # <<>> /\ LeafIds' = LeafIds
         /\ OptLeaf' = OptLeaf
      /\ \A m \in LeafIds \ {l} : leaf'[m] = leaf[m]
  BY DEF Writes, OptLeaf
<1>2. Holds(t, l) /\ \A m : Holds(t, m) => m = l
  BY DEF Holds
<1>3. Own(t)
  BY <1>1, <1>2 DEF Own
<1>4. Grows /\ Mine(t)
  BY <1>1, <1>3 DEF Grows, Own, Mine
<1>5. /\ ~HoldsLeaf(t)' /\ ~HoldsOther(t)' /\ ~HoldsTop(t)' /\ pc'[t] # "decide"
         /\ pc'[t] \notin {"addChild", "dropChild"}
      /\ Pointing(t)' /\ Controlled(t)' /\ Placed(t)' /\ ~Pending(t)
  <2>1. ~Pending(t)
    BY DEF Pending, HoldsOther
  <2> QED
    BY <1>1, <2>1, FreeKeeps
<1>6. \A u \in Threads : Pointing(u)' /\ Controlled(u)' /\ Placed(u)'
  BY <1>4, <1>5, OthersKept
<1>7. \A m \in LeafIds : SoundLinks(m) /\ leaf'[m].hasParent = leaf[m].hasParent
  <2> SUFFICES ASSUME NEW m \in LeafIds \ {l} PROVE SoundLinks(m) /\ leaf'[m].hasParent = leaf[m].hasParent
    OBVIOUS
  <2> QED
    BY <1>1, SoundLinksNow
<1>8. freed' \subseteq LeafIds'
  BY <1>1 DEF Base, Types
<1>9. Types'
  BY <1>1, <1>8, TypesKept
<1>10. Pointers'
  <2>1. \A m \in LeafIds' : /\ leaf'[m].next \in OptLeaf' \ {1} /\ leaf'[m].prev \in OptLeaf'
                            /\ leaf'[m].prev = Null <=> m = 1
    BY <1>1, <1>7 DEF SoundLinks
  <2>2. \A i \in 1..Len(top'.child) : top'.child[i] \in LeafIds'
    BY <1>1 DEF Base, Pointers
  <2> QED
    BY <1>6, <2>1, <2>2 DEF Pointers
<1>11. Locking'
  <2>1. \A m : ~Holds(t, m)'
    BY <1>5 DEF Holds
  <2>2. \A m \in LeafIds' : leaf'[m].ver.lock <=>
            Holds(t, m)' \/ (m \in LeafIds /\ leaf[m].ver.lock /\ ~Holds(t, m))
    BY <1>1, <1>2, <2>1
  <2>3. \A m \in LeafIds : Holds(t, m)' => Holds(t, m) \/ ~leaf[m].ver.lock
    BY <2>1
  <2>4. \A m \in LeafIds' : ~leaf'[m].ver.lock => Steady(leaf'[m].ver)
    BY <1>1 DEF Base, Locking
  <2>5. pc'[t] = "decide" => Steady(leaf'[reg'[t].n].ver)
    BY <1>5
  <2> QED
    BY <1>4, <2>2, <2>3, <2>4, <2>5, LockingKept
<1>12. TopLocking'
  BY <1>5, TopQuiet
<1>13. Parents'
  <2>1. Topped' = Topped
    BY DEF Topped
  <2>2. \A m \in LeafIds : leaf'[m].hasParent = leaf[m].hasParent
    BY <1>7
  <2>3. Pending(t) => Pending(t)' /\ reg'[t].n = reg[t].n /\ reg'[t].nr = reg[t].nr
    BY <1>5
  <2> QED
    BY <1>1, <2>1, <2>2, <2>3, ParentsKept
<1> QED
  BY <1>3, <1>6, <1>9, <1>10, <1>11, <1>12, <1>13 DEF Base, Control, Placing

LEMMA DecidedFree ==
  ASSUME Base, NEW t \in Threads, pc[t] = "decide"
  PROVE  /\ HoldsLeaf(t) /\ ~HoldsOther(t) /\ ~HoldsTop(t) /\ reg[t].nr = Null /\ ~reg[t].hasTop
         /\ reg[t].n \in LeafIds /\ reg[t].key \in Keys /\ reg[t].kind \in {"put", "remove"}
         /\ reg[t].kind = "put" => reg[t].val \in Values
         /\ reg[t].aux \in OptLeaf /\ reg[t] \in Local /\ reg[t].n \in OptLeaf
<1>1. Pointing(t) /\ Controlled(t)
  BY DEF Base, Pointers, Control
<1>2. HoldsLeaf(t) /\ ~HoldsOther(t) /\ ~HoldsTop(t)
  BY DEF HoldsLeaf, HoldsOther, Halving, Halved, HoldsTop
<1>3. reg[t].n \in LeafIds /\ reg[t] \in Local
  BY AtLeaf DEF LeafPlaces, BothPlaces
<1>4. Puts(t) \/ Removes(t)
  BY <1>1 DEF Controlled, BothPlaces
<1>5. reg[t].nr = Null
  BY <1>1, <1>2 DEF Controlled
<1>6. ~reg[t].hasTop
  BY <1>1, <1>2 DEF Controlled
<1>7. reg[t].key \in Keys /\ reg[t].kind \in {"put", "remove"}
      /\ (reg[t].kind = "put" => reg[t].val \in Values)
  BY <1>1, <1>4 DEF Controlled, Puts, Removes
<1> QED
  BY <1>1, <1>2, <1>3, <1>5, <1>6, <1>7 DEF Pointing, OptLeaf

LEMMA DeletedMeanwhileBase ==
  ASSUME Base, Concurrent, NEW t \in Threads, DeletedMeanwhile(t)
  PROVE  Base' /\ Own(t) /\ Free(pc'[t], reg'[t])
<1>1. pc[t] = "decide" /\ Only(t) /\ top' = top /\ freed' = freed /\ Writes(reg[t].n)
      /\ SameLinks(reg[t].n) /\ SameRest(reg[t].n)
      /\ leaf'[reg[t].n].ver = Unlock(leaf[reg[t].n].ver)
  BY DeletedMeanwhileEffect
<1>2. HoldsLeaf(t) /\ ~HoldsOther(t) /\ ~HoldsTop(t)
  BY <1>1 DEF HoldsLeaf, HoldsOther, HoldsTop, Halving, Halved, PutPlaces, DyingPlaces
<1>3. reg[t].n \in LeafIds /\ leaf[reg[t].n].ver \in Version
  BY <1>2, HoldsIsLocked, LeafFacts
<1>4. ~leaf'[reg[t].n].ver.lock /\ Steady(leaf'[reg[t].n].ver)
  BY <1>1, <1>3, UnlockVersion DEF Steady
<1>5. Free(pc'[t], reg'[t])
  <2>1. pc'[t] = "root" /\ reg'[t] = reg[t]
    BY DeletedMeanwhileEffect
  <2> QED
    BY <1>1, <2>1, DecidedFree DEF Free, FreePlaces, ReadPlaces, LeafPlaces, PutPlaces,
         RemovePlaces, BothPlaces, ScanPlaces, DyingPlaces
<1>6. SoundLinks(reg[t].n)
  BY <1>1, <1>3, SoundLinksNow DEF SameLinks, SameRest
<1>7. leaf'[reg[t].n].hasParent = leaf[reg[t].n].hasParent
  BY <1>1 DEF SameRest
<1> QED
  BY <1>1, <1>2, <1>4, <1>5, <1>6, <1>7, ReleaseKeepsBase

LEMMA WalkRightBase ==
  ASSUME Base, Concurrent, NEW t \in Threads, WalkRight(t)
  PROVE  Base' /\ Own(t) /\ Free(pc'[t], reg'[t])
<1>1. pc[t] = "decide" /\ Only(t) /\ top' = top /\ freed' = freed /\ Writes(reg[t].n)
      /\ SameLinks(reg[t].n) /\ SameRest(reg[t].n)
      /\ leaf'[reg[t].n].ver = Unlock(leaf[reg[t].n].ver)
  BY WalkRightEffect
<1>2. HoldsLeaf(t) /\ ~HoldsOther(t) /\ ~HoldsTop(t)
  BY <1>1 DEF HoldsLeaf, HoldsOther, HoldsTop, Halving, Halved, PutPlaces, DyingPlaces
<1>3. reg[t].n \in LeafIds /\ leaf[reg[t].n].ver \in Version
  BY <1>2, HoldsIsLocked, LeafFacts
<1>4. ~leaf'[reg[t].n].ver.lock /\ Steady(leaf'[reg[t].n].ver)
  BY <1>1, <1>3, UnlockVersion DEF Steady
<1>5. Free(pc'[t], reg'[t])
  <2>1. /\ pc'[t] = "rightward" /\ reg'[t].n = leaf[reg[t].n].next /\ reg'[t] \in Local
        /\ reg'[t].kind = reg[t].kind /\ reg'[t].key = reg[t].key /\ reg'[t].val = reg[t].val
           /\ reg'[t].nr = reg[t].nr
        /\ reg'[t].aux = reg[t].aux /\ reg'[t].hasTop = reg[t].hasTop
    BY WalkRightEffect
  <2>2. leaf[reg[t].n].next \in OptLeaf /\ leaf[reg[t].n].next # Null
    BY <1>3 DEF WalkRight, MovedRight, Beyond, Here, Base, Pointers
  <2> QED
    BY <1>1, <2>1, <2>2, DecidedFree DEF Free, FreePlaces, ReadPlaces, ScanPlaces
<1>6. SoundLinks(reg[t].n)
  BY <1>1, <1>3, SoundLinksNow DEF SameLinks, SameRest
<1>7. leaf'[reg[t].n].hasParent = leaf[reg[t].n].hasParent
  BY <1>1 DEF SameRest
<1> QED
  BY <1>1, <1>2, <1>4, <1>5, <1>6, <1>7, ReleaseKeepsBase

LEMMA UpdateValueBase ==
  ASSUME Base, Concurrent, NEW t \in Threads, UpdateValue(t)
  PROVE  Base' /\ Own(t) /\ Free(pc'[t], reg'[t])
<1>1. pc[t] = "decide" /\ Only(t) /\ top' = top /\ freed' = freed /\ Writes(reg[t].n)
      /\ SameLinks(reg[t].n) /\ SameRest(reg[t].n)
      /\ leaf'[reg[t].n].ver = Unlock(leaf[reg[t].n].ver)
  BY UpdateValueEffect
<1>2. HoldsLeaf(t) /\ ~HoldsOther(t) /\ ~HoldsTop(t)
  BY <1>1 DEF HoldsLeaf, HoldsOther, HoldsTop, Halving, Halved, PutPlaces, DyingPlaces
<1>3. reg[t].n \in LeafIds /\ leaf[reg[t].n].ver \in Version
  BY <1>2, HoldsIsLocked, LeafFacts
<1>4. ~leaf'[reg[t].n].ver.lock /\ Steady(leaf'[reg[t].n].ver)
  BY <1>1, <1>3, UnlockVersion DEF Steady
<1>5. Free(pc'[t], reg'[t])
  BY UpdateValueEffect
<1>6. SoundLinks(reg[t].n)
  BY <1>1, <1>3, SoundLinksNow DEF SameLinks, SameRest
<1>7. leaf'[reg[t].n].hasParent = leaf[reg[t].n].hasParent
  BY <1>1 DEF SameRest
<1> QED
  BY <1>1, <1>2, <1>4, <1>5, <1>6, <1>7, ReleaseKeepsBase

LEMMA RemoveAbsentBase ==
  ASSUME Base, Concurrent, NEW t \in Threads, RemoveAbsent(t)
  PROVE  Base' /\ Own(t) /\ Free(pc'[t], reg'[t])
<1>1. pc[t] = "decide" /\ Only(t) /\ top' = top /\ freed' = freed /\ Writes(reg[t].n)
      /\ SameLinks(reg[t].n) /\ SameRest(reg[t].n)
      /\ leaf'[reg[t].n].ver = Unlock(leaf[reg[t].n].ver)
  BY RemoveAbsentEffect
<1>2. HoldsLeaf(t) /\ ~HoldsOther(t) /\ ~HoldsTop(t)
  BY <1>1 DEF HoldsLeaf, HoldsOther, HoldsTop, Halving, Halved, PutPlaces, DyingPlaces
<1>3. reg[t].n \in LeafIds /\ leaf[reg[t].n].ver \in Version
  BY <1>2, HoldsIsLocked, LeafFacts
<1>4. ~leaf'[reg[t].n].ver.lock /\ Steady(leaf'[reg[t].n].ver)
  BY <1>1, <1>3, UnlockVersion DEF Steady
<1>5. Free(pc'[t], reg'[t])
  BY RemoveAbsentEffect
<1>6. SoundLinks(reg[t].n)
  BY <1>1, <1>3, SoundLinksNow DEF SameLinks, SameRest
<1>7. leaf'[reg[t].n].hasParent = leaf[reg[t].n].hasParent
  BY <1>1 DEF SameRest
<1> QED
  BY <1>1, <1>2, <1>4, <1>5, <1>6, <1>7, ReleaseKeepsBase

LEMMA FinishInsertBase ==
  ASSUME Base, Concurrent, NEW t \in Threads, FinishInsert(t)
  PROVE  Base' /\ Own(t) /\ Free(pc'[t], reg'[t])
<1>1. pc[t] = "publish" /\ Only(t) /\ top' = top /\ freed' = freed /\ Writes(reg[t].n)
      /\ SameLinks(reg[t].n) /\ SameRest(reg[t].n)
      /\ leaf'[reg[t].n].ver = Unlock(leaf[reg[t].n].ver)
  BY FinishInsertEffect
<1>2. HoldsLeaf(t) /\ ~HoldsOther(t) /\ ~HoldsTop(t)
  BY <1>1 DEF HoldsLeaf, HoldsOther, HoldsTop, Halving, Halved, PutPlaces, DyingPlaces
<1>3. reg[t].n \in LeafIds /\ leaf[reg[t].n].ver \in Version
  BY <1>2, HoldsIsLocked, LeafFacts
<1>4. ~leaf'[reg[t].n].ver.lock /\ Steady(leaf'[reg[t].n].ver)
  BY <1>1, <1>3, UnlockVersion DEF Steady
<1>5. Free(pc'[t], reg'[t])
  BY FinishInsertEffect
<1>6. SoundLinks(reg[t].n)
  BY <1>1, <1>3, SoundLinksNow DEF SameLinks, SameRest
<1>7. leaf'[reg[t].n].hasParent = leaf[reg[t].n].hasParent
  BY <1>1 DEF SameRest
<1> QED
  BY <1>1, <1>2, <1>4, <1>5, <1>6, <1>7, ReleaseKeepsBase

LEMMA RemoveEntryBaseSome ==
  ASSUME Base, Concurrent, NEW t \in Threads, RemoveEntry(t),
         RemoveSlot(leaf[reg[t].n].perm, reg[t].ki).size > 0
  PROVE  Base' /\ Own(t) /\ Free(pc'[t], reg'[t])
<1>1. pc[t] = "unuse" /\ Only(t) /\ top' = top /\ freed' = freed /\ Writes(reg[t].n)
      /\ SameLinks(reg[t].n) /\ SameRest(reg[t].n)
      /\ leaf'[reg[t].n].ver = Unlock(leaf[reg[t].n].ver)
  BY RemoveEntryEffectSome
<1>2. HoldsLeaf(t) /\ ~HoldsOther(t) /\ ~HoldsTop(t)
  BY <1>1 DEF HoldsLeaf, HoldsOther, HoldsTop, Halving, Halved, PutPlaces, DyingPlaces
<1>3. reg[t].n \in LeafIds /\ leaf[reg[t].n].ver \in Version
  BY <1>2, HoldsIsLocked, LeafFacts
<1>4. ~leaf'[reg[t].n].ver.lock /\ Steady(leaf'[reg[t].n].ver)
  BY <1>1, <1>3, UnlockVersion DEF Steady
<1>5. Free(pc'[t], reg'[t])
  BY RemoveEntryEffectSome
<1>6. SoundLinks(reg[t].n)
  BY <1>1, <1>3, SoundLinksNow DEF SameLinks, SameRest
<1>7. leaf'[reg[t].n].hasParent = leaf[reg[t].n].hasParent
  BY <1>1 DEF SameRest
<1> QED
  BY <1>1, <1>2, <1>4, <1>5, <1>6, <1>7, ReleaseKeepsBase

LEMMA KeepFirstLeafBase ==
  ASSUME Base, Concurrent, NEW t \in Threads, KeepFirstLeaf(t)
  PROVE  Base' /\ Own(t) /\ Free(pc'[t], reg'[t])
<1>1. pc[t] = "empty" /\ Only(t) /\ top' = top /\ freed' = freed /\ Writes(reg[t].n)
      /\ SameLinks(reg[t].n) /\ SameRest(reg[t].n)
      /\ leaf'[reg[t].n].ver = Unlock(leaf[reg[t].n].ver)
  BY KeepFirstLeafEffect
<1>2. HoldsLeaf(t) /\ ~HoldsOther(t) /\ ~HoldsTop(t)
  BY <1>1 DEF HoldsLeaf, HoldsOther, HoldsTop, Halving, Halved, PutPlaces, DyingPlaces
<1>3. reg[t].n \in LeafIds /\ leaf[reg[t].n].ver \in Version
  BY <1>2, HoldsIsLocked, LeafFacts
<1>4. ~leaf'[reg[t].n].ver.lock /\ Steady(leaf'[reg[t].n].ver)
  BY <1>1, <1>3, UnlockVersion DEF Steady
<1>5. Free(pc'[t], reg'[t])
  BY KeepFirstLeafEffect
<1>6. SoundLinks(reg[t].n)
  BY <1>1, <1>3, SoundLinksNow DEF SameLinks, SameRest
<1>7. leaf'[reg[t].n].hasParent = leaf[reg[t].n].hasParent
  BY <1>1 DEF SameRest
<1> QED
  BY <1>1, <1>2, <1>4, <1>5, <1>6, <1>7, ReleaseKeepsBase
-----------------------------------------------------------------------------
(* The steps that lock and unlock keep Base.                                *)

LEMMA LockLeafBase ==
  ASSUME Base, Concurrent, NEW t \in Threads, LockLeaf(t)
  PROVE  Base' /\ Mine(t)
<1>1. /\ pc[t] = "lock" /\ pc'[t] = "decide" /\ Only(t) /\ top' = top /\ freed' = freed
         /\ reg'[t] = reg[t]
      /\ Writes(reg[t].n) /\ SameKeys(reg[t].n) /\ SameLinks(reg[t].n) /\ SameRest(reg[t].n)
  BY LockLeafEffect
<1>2. /\ LeafIds' = LeafIds /\ OptLeaf' = OptLeaf /\ reg[t].n \in LeafIds
         /\ leaf' \in Seq(LeafRecord) /\ leaf' # <<>>
      /\ \A m \in LeafIds \ {reg[t].n} : leaf'[m] = leaf[m]
  BY <1>1 DEF Writes, OptLeaf
<1>3. Pointing(t) /\ Controlled(t)
  BY DEF Base, Pointers, Control
<1>4. /\ ~leaf[reg[t].n].ver.lock /\ leaf'[reg[t].n].ver.lock /\ Steady(leaf'[reg[t].n].ver)
  <2>1. leaf[reg[t].n].ver \in Version
    BY <1>2, LeafFacts
  <2>2. ~leaf[reg[t].n].ver.lock
    BY DEF LockLeaf, Locked, Here
  <2>3. Steady(leaf[reg[t].n].ver)
    BY <1>2, <2>2 DEF Base, Locking
  <2> QED
    BY <2>1, <2>2, <2>3, LockLeafEffect, LockVersion DEF Steady
<1>5. /\ \A m : ~Holds(t, m)
      /\ \A m : Holds(t, m)' <=> m = reg[t].n
  BY <1>1 DEF Holds, HoldsLeaf, HoldsOther, Halving, Halved, PutPlaces, DyingPlaces
<1>6. Grows /\ Mine(t)
  BY <1>2, <1>4 DEF Grows, Mine
<1>7. Pointing(t)'
  BY <1>1, <1>2, <1>3 DEF Pointing, LeafPlaces, HoldsOther, Halving, Halved, Dying, PutPlaces,
       BothPlaces, DyingPlaces
<1>8. Controlled(t)'
  BY <1>1, <1>3 DEF Controlled, HoldsOther, HoldsTop, Halving, Halved, Puts, Removes, PutPlaces,
       RemovePlaces,
     DyingPlaces, BothPlaces, ScanPlaces
<1>9. Placed(t)'
  BY <1>1 DEF Placed, Inserting, Halving
<1>10. \A u \in Threads : Pointing(u)' /\ Controlled(u)' /\ Placed(u)'
  BY <1>1, <1>6, <1>7, <1>8, <1>9, OthersKept
<1>11. \A m \in LeafIds : SoundLinks(m) /\ leaf'[m].hasParent = leaf[m].hasParent
  <2> SUFFICES ASSUME NEW m \in LeafIds PROVE SoundLinks(m) /\ leaf'[m].hasParent = leaf[m].hasParent
    OBVIOUS
  <2>1. leaf'[m].next = leaf[m].next /\ leaf'[m].prev = leaf[m].prev
        /\ leaf'[m].hasParent = leaf[m].hasParent
    BY <1>1, <1>2 DEF SameLinks, SameRest
  <2> QED
    BY <2>1, SoundLinksNow
<1>12. Types'
  <2>1. freed' \subseteq LeafIds'
    BY <1>1, <1>2 DEF Base, Types
  <2> QED
    BY <1>1, <1>2, <2>1, TypesKept
<1>13. Pointers'
  <2>1. \A l \in LeafIds' : /\ leaf'[l].next \in OptLeaf' \ {1} /\ leaf'[l].prev \in OptLeaf'
                            /\ leaf'[l].prev = Null <=> l = 1
    BY <1>2, <1>11 DEF SoundLinks
  <2>2. \A i \in 1..Len(top'.child) : top'.child[i] \in LeafIds'
    BY <1>1, <1>2 DEF Base, Pointers
  <2> QED
    BY <1>10, <2>1, <2>2 DEF Pointers
<1>14. Locking'
  <2>1. \A m \in LeafIds' : leaf'[m].ver.lock <=>
            Holds(t, m)' \/ (m \in LeafIds /\ leaf[m].ver.lock /\ ~Holds(t, m))
    BY <1>2, <1>4, <1>5
  <2>2. \A m \in LeafIds : Holds(t, m)' => Holds(t, m) \/ ~leaf[m].ver.lock
    BY <1>4, <1>5
  <2>3. \A m \in LeafIds' : ~leaf'[m].ver.lock => Steady(leaf'[m].ver)
    BY <1>2, <1>4 DEF Base, Locking
  <2>4. pc'[t] = "decide" => Steady(leaf'[reg'[t].n].ver)
    BY <1>1, <1>4
  <2> QED
    BY <1>1, <1>6, <2>1, <2>2, <2>3, <2>4, LockingKept
<1>15. TopLocking'
  <2>1. (HoldsTop(t)' <=> HoldsTop(t)) /\ pc'[t] \notin {"addChild", "dropChild"}
    BY <1>1 DEF HoldsTop, Halved
  <2> QED
    BY <1>1, <2>1, TopQuiet
<1>16. Parents'
  <2>1. Topped' = Topped /\ ~Pending(t)
    BY <1>1 DEF Topped, Pending, Halving
  <2>2. \A m \in LeafIds : leaf'[m].hasParent = leaf[m].hasParent
    BY <1>11
  <2> QED
    BY <1>1, <1>2, <2>1, <2>2, ParentsKept
<1> QED
  BY <1>6, <1>10, <1>12, <1>13, <1>14, <1>15, <1>16 DEF Base, Control, Placing

LEMMA UnlockOtherBase ==
  ASSUME Base, Concurrent, NEW t \in Threads, UnlockOther(t)
  PROVE  Base' /\ Own(t)
<1>1. /\ pc[t] = "unlockOther" /\ pc'[t] = (IF reg[t].hasTop THEN "unlockParent" ELSE "store")
      /\ Only(t) /\ top' = top /\ freed' = freed /\ reg'[t] = reg[t]
      /\ Writes(reg[t].nr) /\ SameKeys(reg[t].nr) /\ SameLinks(reg[t].nr) /\ SameRest(reg[t].nr)
  BY UnlockOtherEffect
<1>2. /\ LeafIds' = LeafIds /\ OptLeaf' = OptLeaf /\ reg[t].nr \in LeafIds
         /\ leaf' \in Seq(LeafRecord) /\ leaf' # <<>>
      /\ \A m \in LeafIds \ {reg[t].nr} : leaf'[m] = leaf[m]
  BY <1>1 DEF Writes, OptLeaf
<1>3. Pointing(t) /\ Controlled(t) /\ Placed(t)
  BY DEF Base, Pointers, Control, Placing
<1>4. Puts(t)
  BY <1>1, <1>3 DEF Controlled, PutPlaces
<1>5. HoldsLeaf(t) /\ HoldsOther(t) /\ reg[t].n \in LeafIds /\ reg[t].n # reg[t].nr
  BY <1>1, HoldsIsLocked DEF HoldsLeaf, HoldsOther, Halved, PutPlaces
<1>6. ~leaf'[reg[t].nr].ver.lock /\ Steady(leaf'[reg[t].nr].ver)
  BY <1>2, LeafFacts, UnlockOtherEffect, UnlockVersion DEF Steady
<1>7. HoldsLeaf(t)' /\ ~HoldsOther(t)' /\ (HoldsTop(t)' <=> HoldsTop(t))
  BY <1>1, <1>3, <1>4 DEF HoldsLeaf, HoldsOther, HoldsTop, Halving, Halved, Puts, Removes,
       PutPlaces, DyingPlaces, Controlled
<1>8. /\ \A m : Holds(t, m) <=> m = reg[t].n \/ m = reg[t].nr
      /\ \A m : Holds(t, m)' <=> m = reg[t].n
  BY <1>1, <1>5, <1>7 DEF Holds
<1>9. Own(t)
  BY <1>2, <1>8 DEF Own
<1>10. Grows /\ Mine(t)
  BY <1>2, <1>9 DEF Grows, Own, Mine
<1>11. Pointing(t)'
  BY <1>1, <1>2, <1>3, <1>4, <1>7 DEF Pointing, LeafPlaces, Halving, Dying, Puts, Removes,
       PutPlaces, BothPlaces, DyingPlaces
<1>12. Controlled(t)'
  BY <1>1, <1>3, <1>4 DEF Controlled, HoldsOther, HoldsTop, Halving, Halved, Puts, Removes,
       PutPlaces, RemovePlaces,
     DyingPlaces, BothPlaces, ScanPlaces
<1>13. Placed(t)'
  <2>1. \A m \in LeafIds : leaf'[m].perm = leaf[m].perm
    BY <1>1, <1>2 DEF SameKeys
  <2>2. ~Halving(t)' /\ pc'[t] \notin {"stamp", "unuse"} /\ Inserting(t)
    BY <1>1, <1>4 DEF Halving, Inserting, Puts
  <2> QED
    BY <1>1, <1>2, <1>3, <1>5, <2>1, <2>2, PlacedKept
<1>14. \A u \in Threads : Pointing(u)' /\ Controlled(u)' /\ Placed(u)'
  BY <1>1, <1>10, <1>11, <1>12, <1>13, OthersKept
<1>15. \A m \in LeafIds : SoundLinks(m) /\ leaf'[m].hasParent = leaf[m].hasParent
  <2> SUFFICES ASSUME NEW m \in LeafIds PROVE SoundLinks(m) /\ leaf'[m].hasParent = leaf[m].hasParent
    OBVIOUS
  <2>1. leaf'[m].next = leaf[m].next /\ leaf'[m].prev = leaf[m].prev
        /\ leaf'[m].hasParent = leaf[m].hasParent
    BY <1>1, <1>2 DEF SameLinks, SameRest
  <2> QED
    BY <2>1, SoundLinksNow
<1>16. Types'
  <2>1. freed' \subseteq LeafIds'
    BY <1>1, <1>2 DEF Base, Types
  <2> QED
    BY <1>1, <1>2, <2>1, TypesKept
<1>17. Pointers'
  <2>1. \A l \in LeafIds' : /\ leaf'[l].next \in OptLeaf' \ {1} /\ leaf'[l].prev \in OptLeaf'
                            /\ leaf'[l].prev = Null <=> l = 1
    BY <1>2, <1>15 DEF SoundLinks
  <2>2. \A i \in 1..Len(top'.child) : top'.child[i] \in LeafIds'
    BY <1>1, <1>2 DEF Base, Pointers
  <2> QED
    BY <1>14, <2>1, <2>2 DEF Pointers
<1>18. Locking'
  <2>0. \A m \in LeafIds : Holds(t, m) => leaf[m].ver.lock
    BY DEF Base, Locking
  <2>1. \A m \in LeafIds' : leaf'[m].ver.lock <=>
            Holds(t, m)' \/ (m \in LeafIds /\ leaf[m].ver.lock /\ ~Holds(t, m))
    BY <2>0, <1>2, <1>5, <1>6, <1>8
  <2>2. \A m \in LeafIds : Holds(t, m)' => Holds(t, m) \/ ~leaf[m].ver.lock
    BY <1>8
  <2>3. \A m \in LeafIds' : ~leaf'[m].ver.lock => Steady(leaf'[m].ver)
    BY <1>2, <1>6 DEF Base, Locking
  <2>4. pc'[t] = "decide" => Steady(leaf'[reg'[t].n].ver)
    BY <1>1
  <2> QED
    BY <1>1, <1>10, <2>1, <2>2, <2>3, <2>4, LockingKept
<1>19. TopLocking'
  <2>1. pc'[t] \notin {"addChild", "dropChild"}
    BY <1>1
  <2> QED
    BY <1>1, <1>7, <2>1, TopQuiet
<1>20. Parents'
  <2>1. Topped' = Topped /\ ~Pending(t)
    BY <1>1 DEF Topped, Pending, Halving
  <2>2. \A m \in LeafIds : leaf'[m].hasParent = leaf[m].hasParent
    BY <1>15
  <2> QED
    BY <1>1, <1>2, <2>1, <2>2, ParentsKept
<1> QED
  BY <1>9, <1>14, <1>16, <1>17, <1>18, <1>19, <1>20 DEF Base, Control, Placing

LEMMA UnlockDeletedBase ==
  ASSUME Base, Concurrent, NEW t \in Threads, UnlockDeleted(t)
  PROVE  Base' /\ Own(t)
<1>1. /\ pc[t] = "unlockDeleted" /\ pc'[t] = "markParent"
      /\ Only(t) /\ top' = top /\ freed' = freed /\ reg'[t] = reg[t]
      /\ Writes(reg[t].n) /\ SameKeys(reg[t].n) /\ SameLinks(reg[t].n) /\ SameRest(reg[t].n)
  BY UnlockDeletedEffect
<1>2. /\ LeafIds' = LeafIds /\ OptLeaf' = OptLeaf /\ reg[t].n \in LeafIds
         /\ leaf' \in Seq(LeafRecord) /\ leaf' # <<>>
      /\ \A m \in LeafIds \ {reg[t].n} : leaf'[m] = leaf[m]
  BY <1>1 DEF Writes, OptLeaf
<1>3. Pointing(t) /\ Controlled(t) /\ Placed(t)
  BY DEF Base, Pointers, Control, Placing
<1>4. Removes(t) /\ ~Puts(t)
  BY <1>1, <1>3 DEF Controlled, RemovePlaces, Puts, Removes
<1>5. HoldsLeaf(t) /\ ~HoldsOther(t) /\ ~HoldsLeaf(t)' /\ ~HoldsOther(t)' /\ HoldsTop(t)
      /\ HoldsTop(t)'
  BY <1>1, <1>4 DEF HoldsLeaf, HoldsOther, HoldsTop, Halving, Halved, PutPlaces, DyingPlaces, Puts,
       Removes
<1>6. ~leaf'[reg[t].n].ver.lock /\ Steady(leaf'[reg[t].n].ver)
  BY <1>2, LeafFacts, UnlockDeletedEffect, UnlockVersion DEF Steady
<1>8. /\ \A m : Holds(t, m) <=> m = reg[t].n
      /\ \A m : ~Holds(t, m)'
  BY <1>5 DEF Holds
<1>9. Own(t)
  BY <1>2, <1>8 DEF Own
<1>10. Grows /\ Mine(t)
  BY <1>2, <1>9 DEF Grows, Own, Mine
<1>11. Pointing(t)'
  BY <1>1, <1>2, <1>3, <1>4, <1>5 DEF Pointing, LeafPlaces, Halving, Dying, Puts, Removes,
       PutPlaces, RemovePlaces, BothPlaces, DyingPlaces
<1>12. Controlled(t)'
  <2>1. reg[t].nr = Null
    BY <1>1, <1>3, <1>5 DEF Controlled
  <2>2. reg[t].hasTop
    BY <1>1, <1>3 DEF Controlled
  <2> QED
    BY <1>1, <1>3, <1>4, <1>5, <2>1, <2>2 DEF Controlled, HoldsTop, Puts, Removes, PutPlaces,
         RemovePlaces,
     DyingPlaces, BothPlaces, ScanPlaces
<1>13. Placed(t)'
  BY <1>1, <1>4 DEF Placed, Halving, Inserting, Puts, Removes
<1>14. \A u \in Threads : Pointing(u)' /\ Controlled(u)' /\ Placed(u)'
  BY <1>1, <1>10, <1>11, <1>12, <1>13, OthersKept
<1>15. \A m \in LeafIds : SoundLinks(m) /\ leaf'[m].hasParent = leaf[m].hasParent
  <2> SUFFICES ASSUME NEW m \in LeafIds PROVE SoundLinks(m) /\ leaf'[m].hasParent = leaf[m].hasParent
    OBVIOUS
  <2>1. leaf'[m].next = leaf[m].next /\ leaf'[m].prev = leaf[m].prev
        /\ leaf'[m].hasParent = leaf[m].hasParent
    BY <1>1, <1>2 DEF SameLinks, SameRest
  <2> QED
    BY <2>1, SoundLinksNow
<1>16. Types'
  <2>1. freed' \subseteq LeafIds'
    BY <1>1, <1>2 DEF Base, Types
  <2> QED
    BY <1>1, <1>2, <2>1, TypesKept
<1>17. Pointers'
  <2>1. \A l \in LeafIds' : /\ leaf'[l].next \in OptLeaf' \ {1} /\ leaf'[l].prev \in OptLeaf'
                            /\ leaf'[l].prev = Null <=> l = 1
    BY <1>2, <1>15 DEF SoundLinks
  <2>2. \A i \in 1..Len(top'.child) : top'.child[i] \in LeafIds'
    BY <1>1, <1>2 DEF Base, Pointers
  <2> QED
    BY <1>14, <2>1, <2>2 DEF Pointers
<1>18. Locking'
  <2>0. \A m \in LeafIds : Holds(t, m) => leaf[m].ver.lock
    BY DEF Base, Locking
  <2>1. \A m \in LeafIds' : leaf'[m].ver.lock <=>
            Holds(t, m)' \/ (m \in LeafIds /\ leaf[m].ver.lock /\ ~Holds(t, m))
    BY <2>0, <1>2, <1>6, <1>8
  <2>2. \A m \in LeafIds : Holds(t, m)' => Holds(t, m) \/ ~leaf[m].ver.lock
    BY <1>8
  <2>3. \A m \in LeafIds' : ~leaf'[m].ver.lock => Steady(leaf'[m].ver)
    BY <1>2, <1>6 DEF Base, Locking
  <2>4. pc'[t] = "decide" => Steady(leaf'[reg'[t].n].ver)
    BY <1>1
  <2> QED
    BY <1>1, <1>10, <2>1, <2>2, <2>3, <2>4, LockingKept
<1>19. TopLocking'
  <2>1. pc'[t] \notin {"addChild", "dropChild"}
    BY <1>1
  <2> QED
    BY <1>1, <1>5, <2>1, TopQuiet
<1>20. Parents'
  <2>1. Topped' = Topped /\ ~Pending(t)
    BY <1>1 DEF Topped, Pending, Halving
  <2>2. \A m \in LeafIds : leaf'[m].hasParent = leaf[m].hasParent
    BY <1>15
  <2> QED
    BY <1>1, <1>2, <2>1, <2>2, ParentsKept
<1> QED
  BY <1>9, <1>14, <1>16, <1>17, <1>18, <1>19, <1>20 DEF Base, Control, Placing
-----------------------------------------------------------------------------
(* The steps that change the internode keep Base.                           *)

TopRecord == [ver : Version, ikey : Seq(Int), child : Seq(Nat)]

LEMMA TopStepKeepsBase ==
  ASSUME Base, NEW t \in Threads, Only(t), leaf' = leaf, freed' = freed,
         top' \in TopRecord, Topped', Topped, Len(top'.child) = Len(top'.ikey) + 1,
         \A i \in 1..Len(top'.child) : top'.child[i] \in LeafIds,
         \A m : Holds(t, m)' <=> Holds(t, m), pc'[t] # "decide",
         Pending(t) => Pending(t)' /\ reg'[t].n = reg[t].n /\ reg'[t].nr = reg[t].nr,
         TopLocking', Pointing(t)', Controlled(t)', Placed(t)'
  PROVE  Base' /\ Own(t)
<1>1. leaf' \in Seq(LeafRecord) /\ leaf' # <<>> /\ LeafIds' = LeafIds /\ OptLeaf' = OptLeaf
  BY DEF Base, Types, LeafIds, OptLeaf
<1>2. Own(t)
  BY DEF Own
<1>3. Grows /\ Mine(t)
  BY <1>1 DEF Grows, Mine
<1>4. \A u \in Threads : Pointing(u)' /\ Controlled(u)' /\ Placed(u)'
  BY <1>3, OthersKept
<1>5. Types'
  BY <1>1 DEF Base, Types, Only, TopRecord
<1>6. Pointers'
  BY <1>1, <1>4 DEF Base, Pointers
<1>7. Locking'
  <2>0. \A l \in LeafIds : Holds(t, l) => leaf[l].ver.lock
    BY DEF Base, Locking
  <2>1. \A l \in LeafIds' : leaf'[l].ver.lock <=>
            Holds(t, l)' \/ (l \in LeafIds /\ leaf[l].ver.lock /\ ~Holds(t, l))
    BY <1>1, <2>0
  <2>2. \A l \in LeafIds : Holds(t, l)' => Holds(t, l) \/ ~leaf[l].ver.lock
    OBVIOUS
  <2>3. \A l \in LeafIds' : ~leaf'[l].ver.lock => Steady(leaf'[l].ver)
    BY <1>1 DEF Base, Locking
  <2> QED
    BY <1>3, <2>1, <2>2, <2>3, LockingKept
<1>8. Parents'
  <2>1. Topped' = Topped
    BY DEF Topped
  <2>2. \A l \in LeafIds : leaf'[l].hasParent = leaf[l].hasParent
    OBVIOUS
  <2> QED
    BY <1>1, <2>1, <2>2, ParentsKept
<1> QED
  BY <1>2, <1>4, <1>5, <1>6, <1>7, <1>8 DEF Base, Control, Placing

LEMMA TopLockFacts ==
  ASSUME Base, NEW t \in Threads
  PROVE  /\ HoldsTop(t) => top.ver.lock /\ Topped
         /\ ~top.ver.lock => ~top.ver.ins
         /\ ~top.ver.spl /\ ~top.ver.del /\ top.ver.vsplit = 0
         /\ Topped => top.ver.root
         /\ top.ver \in Version
  BY DEF Base, TopLocking, Types

LEMMA LockParentBase ==
  ASSUME Base, Concurrent, NEW t \in Threads, LockParent(t)
  PROVE  Base' /\ Own(t)
<1>1. /\ pc[t] = "parent"
         /\ pc'[t] = (IF reg[t].kind = "put" THEN "markParent" ELSE "unlockDeleted")
      /\ Only(t) /\ reg'[t].kind = reg[t].kind /\ reg'[t].key = reg[t].key
         /\ reg'[t].val = reg[t].val
      /\ reg'[t].n = reg[t].n /\ reg'[t].nr = reg[t].nr /\ reg'[t].aux = reg[t].aux
      /\ reg'[t].ki = reg[t].ki /\ reg'[t].kp = reg[t].kp /\ reg'[t].toRight = reg[t].toRight
         /\ reg'[t].hasTop
      /\ leaf' = leaf /\ LeafIds' = LeafIds /\ freed' = freed /\ OptLeaf' = OptLeaf
  BY LockParentEffect DEF SameCaller, OptLeaf
<1>2. /\ reg[t].n \in LeafIds /\ leaf[reg[t].n].hasParent /\ ~top.ver.lock
      /\ top'.ver = Lock(top.ver) /\ top'.ikey = top.ikey /\ top'.child = top.child
      /\ top' \in TopRecord
  BY LockParentEffect DEF TopRecord
<1>3. Pointing(t) /\ Controlled(t) /\ Placed(t)
  BY DEF Base, Pointers, Control, Placing
<1>4. (Puts(t) /\ ~Removes(t)) \/ (Removes(t) /\ ~Puts(t))
  BY <1>1, <1>3 DEF Controlled, BothPlaces, Puts, Removes
<1>5. Topped /\ Topped' /\ Len(top.child) = Len(top.ikey) + 1
  BY <1>2 DEF Base, Parents, Types, Topped, NoTop
<1>6. (HoldsLeaf(t)' <=> HoldsLeaf(t)) /\ (HoldsOther(t)' <=> HoldsOther(t)) /\ HoldsTop(t)'
  BY <1>1, <1>4 DEF HoldsLeaf, HoldsOther, HoldsTop, Halving, Halved, PutPlaces, DyingPlaces, Puts,
       Removes
<1>7. \A m : Holds(t, m)' <=> Holds(t, m)
  BY <1>1, <1>6 DEF Holds
<1>8. Pending(t) => Pending(t)' /\ reg'[t].n = reg[t].n /\ reg'[t].nr = reg[t].nr
  BY <1>1, <1>4 DEF Pending, Halving, Puts, Removes
<1>9. TopLocking'
  <2>1. /\ ~top.ver.ins /\ ~top.ver.spl /\ ~top.ver.del /\ top.ver.vsplit = 0 /\ top.ver.root
           /\ top.ver \in Version
    BY <1>2, <1>5, TopLockFacts
  <2>2. top'.ver.lock /\ ~top'.ver.ins /\ ~top'.ver.spl /\ ~top'.ver.del /\ top'.ver.vsplit = 0
        /\ top'.ver.root
    BY <1>2, <2>1, LockVersion
  <2>3. pc'[t] \notin {"addChild", "dropChild"}
    BY <1>1
  <2> QED
    BY <1>1, <1>2, <1>5, <1>6, <2>2, <2>3, TopLockingKept
<1>10. Pointing(t)'
  BY <1>1, <1>3, <1>4, <1>6 DEF Pointing, LeafPlaces, Halving, Dying, Puts, Removes, PutPlaces,
       RemovePlaces, BothPlaces, DyingPlaces
<1>11. Controlled(t)'
  BY <1>1, <1>3, <1>4, <1>6 DEF Controlled, HoldsTop, Puts, Removes, PutPlaces, RemovePlaces,
     DyingPlaces, BothPlaces, ScanPlaces
<1>12. Placed(t)'
  <2>1. (HoldsLeaf(t) => reg[t].n \in LeafIds) /\ (HoldsOther(t) => reg[t].nr \in LeafIds)
    BY HoldsIsLocked
  <2>2. ~Inserting(t)' /\ pc'[t] \notin {"stamp", "unuse"}
    BY <1>1 DEF Inserting
  <2>3. Halving(t)' => Halving(t) /\ HoldsLeaf(t) /\ HoldsOther(t)
    BY <1>1, <1>4 DEF Halving, HoldsLeaf, HoldsOther, Puts, Removes
  <2> QED
    BY <1>1, <1>3, <2>1, <2>2, <2>3, PlacedKept
<1>13. Len(top'.child) = Len(top'.ikey) + 1
       /\ \A i \in 1..Len(top'.child) : top'.child[i] \in LeafIds
  BY <1>2, <1>5 DEF Base, Pointers
<1>14. pc'[t] # "decide"
  BY <1>1
<1> QED
  BY <1>1, <1>2, <1>5, <1>7, <1>8, <1>9, <1>10, <1>11, <1>12, <1>13, <1>14, TopStepKeepsBase

LEMMA MarkParentBase ==
  ASSUME Base, Concurrent, NEW t \in Threads, MarkParent(t)
  PROVE  Base' /\ Own(t)
<1>1. /\ pc[t] = "markParent" /\ pc'[t] = (IF reg[t].kind = "put" THEN "addChild" ELSE "dropChild")
      /\ Only(t) /\ reg'[t] = reg[t]
      /\ leaf' = leaf /\ LeafIds' = LeafIds /\ freed' = freed /\ OptLeaf' = OptLeaf
  BY MarkParentEffect DEF OptLeaf
<1>2. /\ top'.ver = MarkInsert(top.ver) /\ top'.ikey = top.ikey /\ top'.child = top.child
      /\ top' \in TopRecord
  BY MarkParentEffect DEF TopRecord
<1>3. Pointing(t) /\ Controlled(t) /\ Placed(t)
  BY DEF Base, Pointers, Control, Placing
<1>4. (Puts(t) /\ ~Removes(t)) \/ (Removes(t) /\ ~Puts(t))
  BY <1>1, <1>3 DEF Controlled, BothPlaces, Puts, Removes
<1>6. (HoldsLeaf(t)' <=> HoldsLeaf(t)) /\ (HoldsOther(t)' <=> HoldsOther(t)) /\ HoldsTop(t)'
      /\ HoldsTop(t)
  BY <1>1, <1>4 DEF HoldsLeaf, HoldsOther, HoldsTop, Halving, Halved, PutPlaces, DyingPlaces, Puts,
       Removes
<1>5. Topped /\ Topped' /\ Len(top.child) = Len(top.ikey) + 1 /\ top.ver.lock
  BY <1>2, <1>6, TopLockFacts DEF Base, Types, Topped, NoTop
<1>7. \A m : Holds(t, m)' <=> Holds(t, m)
  BY <1>1, <1>6 DEF Holds
<1>8. Pending(t) => Pending(t)' /\ reg'[t].n = reg[t].n /\ reg'[t].nr = reg[t].nr
  BY <1>1, <1>4 DEF Pending, Halving, Puts, Removes
<1>9. TopLocking'
  <2>1. /\ ~top.ver.spl /\ ~top.ver.del /\ top.ver.vsplit = 0 /\ top.ver.root /\ top.ver \in Version
    BY <1>5, TopLockFacts
  <2>2. top'.ver.lock /\ top'.ver.ins /\ ~top'.ver.spl /\ ~top'.ver.del /\ top'.ver.vsplit = 0
        /\ top'.ver.root
    BY <1>2, <1>5, <2>1, MarkInsertVersion
  <2> QED
    BY <1>1, <1>5, <1>6, <2>2, TopLockingKept
<1>10. Pointing(t)'
  BY <1>1, <1>3, <1>4, <1>6 DEF Pointing, LeafPlaces, Halving, Dying, Puts, Removes, PutPlaces,
       RemovePlaces, BothPlaces, DyingPlaces
<1>11. Controlled(t)'
  BY <1>1, <1>3, <1>4, <1>6 DEF Controlled, HoldsTop, Puts, Removes, PutPlaces, RemovePlaces,
     DyingPlaces, BothPlaces, ScanPlaces
<1>12. Placed(t)'
  <2>1. (HoldsLeaf(t) => reg[t].n \in LeafIds) /\ (HoldsOther(t) => reg[t].nr \in LeafIds)
    BY HoldsIsLocked
  <2>2. ~Inserting(t)' /\ pc'[t] \notin {"stamp", "unuse"}
    BY <1>1 DEF Inserting
  <2>3. Halving(t)' => Halving(t) /\ HoldsLeaf(t) /\ HoldsOther(t)
    BY <1>1, <1>4 DEF Halving, HoldsLeaf, HoldsOther, Puts, Removes
  <2> QED
    BY <1>1, <1>3, <2>1, <2>2, <2>3, PlacedKept
<1>13. Len(top'.child) = Len(top'.ikey) + 1
       /\ \A i \in 1..Len(top'.child) : top'.child[i] \in LeafIds
  BY <1>2, <1>5 DEF Base, Pointers
<1>14. pc'[t] # "decide"
  BY <1>1
<1> QED
  BY <1>1, <1>2, <1>5, <1>7, <1>8, <1>9, <1>10, <1>11, <1>12, <1>13, <1>14, TopStepKeepsBase

LEMMA UnlockParentBase ==
  ASSUME Base, Concurrent, NEW t \in Threads, UnlockParent(t)
  PROVE  Base' /\ Own(t)
<1>1. /\ pc[t] = "unlockParent" /\ pc'[t] = (IF reg[t].kind = "put" THEN "store" ELSE "free")
      /\ Only(t) /\ reg'[t] = reg[t]
      /\ leaf' = leaf /\ LeafIds' = LeafIds /\ freed' = freed /\ OptLeaf' = OptLeaf
  BY UnlockParentEffect DEF OptLeaf
<1>2. /\ top'.ver = Unlock(top.ver) /\ top'.ikey = top.ikey /\ top'.child = top.child
      /\ top' \in TopRecord
  BY UnlockParentEffect DEF TopRecord
<1>3. Pointing(t) /\ Controlled(t) /\ Placed(t)
  BY DEF Base, Pointers, Control, Placing
<1>4. (Puts(t) /\ ~Removes(t)) \/ (Removes(t) /\ ~Puts(t))
  BY <1>1, <1>3 DEF Controlled, BothPlaces, Puts, Removes
<1>6. (HoldsLeaf(t)' <=> HoldsLeaf(t)) /\ (HoldsOther(t)' <=> HoldsOther(t)) /\ ~HoldsTop(t)'
      /\ HoldsTop(t)
  BY <1>1, <1>4 DEF HoldsLeaf, HoldsOther, HoldsTop, Halving, Halved, PutPlaces, DyingPlaces, Puts,
       Removes
<1>5. Topped /\ Topped' /\ Len(top.child) = Len(top.ikey) + 1 /\ top.ver.lock
  BY <1>2, <1>6, TopLockFacts DEF Base, Types, Topped, NoTop
<1>7. \A m : Holds(t, m)' <=> Holds(t, m)
  BY <1>1, <1>6 DEF Holds
<1>8. ~Pending(t)
  BY <1>1 DEF Pending, Halving
<1>9. TopLocking'
  <2>1. /\ ~top.ver.spl /\ ~top.ver.del /\ top.ver.vsplit = 0 /\ top.ver.root /\ top.ver \in Version
    BY <1>5, TopLockFacts
  <2>2. ~top'.ver.lock /\ ~top'.ver.ins /\ ~top'.ver.spl /\ ~top'.ver.del /\ top'.ver.vsplit = 0
        /\ top'.ver.root
    <3>1. top'.ver.root = (top.ver.root /\ ~top.ver.spl)
      BY <1>2, <2>1, UnlockVersion
    <3>2. top'.ver.vsplit = IF top.ver.spl THEN top.ver.vsplit + 1 ELSE top.ver.vsplit
      BY <1>2, <2>1, UnlockVersion
    <3>3. ~top'.ver.lock /\ ~top'.ver.ins /\ ~top'.ver.spl /\ top'.ver.del = top.ver.del
      BY <1>2, <2>1, UnlockVersion
    <3> QED
      BY <2>1, <3>1, <3>2, <3>3
  <2>3. pc'[t] \notin {"addChild", "dropChild"}
    BY <1>1
  <2> QED
    BY <1>1, <1>5, <1>6, <2>2, <2>3, TopLockingKept
<1>10. Pointing(t)'
  BY <1>1, <1>3, <1>4, <1>6 DEF Pointing, LeafPlaces, HoldsOther, Halved, Halving, Dying, Puts,
       Removes, PutPlaces, RemovePlaces, BothPlaces, DyingPlaces
<1>11. Controlled(t)'
  BY <1>1, <1>3, <1>4, <1>6 DEF Controlled, HoldsOther, Halving, Halved, HoldsTop, Puts, Removes,
       PutPlaces, RemovePlaces,
     DyingPlaces, BothPlaces, ScanPlaces
<1>12. Placed(t)'
  <2>1. (HoldsLeaf(t) => reg[t].n \in LeafIds) /\ (HoldsOther(t) => reg[t].nr \in LeafIds)
    BY HoldsIsLocked
  <2>2. ~Halving(t)' /\ pc'[t] \notin {"stamp", "unuse"}
    BY <1>1, <1>4 DEF Halving, Puts, Removes
  <2>3. Inserting(t)' => Inserting(t) /\ pc[t] # "slot" /\ HoldsLeaf(t)
    BY <1>1, <1>4 DEF Inserting, HoldsLeaf, Puts, Removes
  <2> QED
    BY <1>1, <1>3, <2>1, <2>2, <2>3, PlacedKept
<1>13. Len(top'.child) = Len(top'.ikey) + 1
       /\ \A i \in 1..Len(top'.child) : top'.child[i] \in LeafIds
  BY <1>2, <1>5 DEF Base, Pointers
<1>14. pc'[t] # "decide"
  BY <1>1
<1> QED
  BY <1>1, <1>2, <1>5, <1>7, <1>8, <1>9, <1>10, <1>11, <1>12, <1>13, <1>14, TopStepKeepsBase

LEMMA DropChildBase ==
  ASSUME Base, Concurrent, NEW t \in Threads, DropChild(t), Upper(Bound(reg[t].n)) >= 1
  PROVE  Base' /\ Own(t)
<1> DEFINE kp == Upper(Bound(reg[t].n))
           len == Len(top.ikey)
<1>1. /\ pc[t] = "dropChild" /\ pc'[t] = "unlockParent" /\ Only(t) /\ reg'[t] = reg[t]
      /\ leaf' = leaf /\ LeafIds' = LeafIds /\ freed' = freed /\ OptLeaf' = OptLeaf
  BY DropChildEffect DEF OptLeaf
<1>2. /\ top'.ver = top.ver /\ top' \in TopRecord /\ kp \in 1..len /\ len \in Nat /\ Topped
      /\ Removed(top'.ikey, top.ikey, kp, len) /\ Removed(top'.child, top.child, kp + 1, len + 1)
  BY DropChildEffect DEF TopRecord
<1> HIDE DEF kp, len
<1>3. Pointing(t) /\ Controlled(t) /\ Placed(t)
  BY DEF Base, Pointers, Control, Placing
<1>4. Removes(t) /\ ~Puts(t)
  BY <1>1, <1>3 DEF Controlled, RemovePlaces, Puts, Removes
<1>6. (HoldsLeaf(t)' <=> HoldsLeaf(t)) /\ (HoldsOther(t)' <=> HoldsOther(t)) /\ HoldsTop(t)'
      /\ HoldsTop(t)
  BY <1>1, <1>4 DEF HoldsLeaf, HoldsOther, HoldsTop, Halving, Halved, PutPlaces, DyingPlaces, Puts,
       Removes
<1>5. Len(top'.child) = len /\ Len(top'.ikey) = len - 1
  BY <1>2 DEF Removed
<1>7. Topped' /\ Len(top'.child) = Len(top'.ikey) + 1
  <2>1. top'.child \in Seq(Nat) /\ Len(top'.child) # 0
    BY <1>2, <1>5 DEF TopRecord
  <2> QED
    BY <1>2, <1>5, <2>1 DEF Topped
<1>8. \A m : Holds(t, m)' <=> Holds(t, m)
  BY <1>1, <1>6 DEF Holds
<1>9. ~Pending(t)
  BY <1>1 DEF Pending, Halving
<1>10. TopLocking'
  <2>1. /\ ~top.ver.spl /\ ~top.ver.del /\ top.ver.vsplit = 0 /\ top.ver.root /\ top.ver.lock
    BY <1>2, <1>6, TopLockFacts
  <2>2. pc'[t] \notin {"addChild", "dropChild"}
    BY <1>1
  <2> QED
    BY <1>1, <1>2, <1>7, <1>6, <2>1, <2>2, TopLockingKept
<1>11. Pointing(t)'
  BY <1>1, <1>3, <1>4, <1>6 DEF Pointing, LeafPlaces, HoldsOther, Halved, Halving, Dying, Puts,
       Removes, PutPlaces, RemovePlaces, BothPlaces, DyingPlaces
<1>12. Controlled(t)'
  BY <1>1, <1>3, <1>4, <1>6 DEF Controlled, HoldsOther, Halving, Halved, HoldsTop, Puts, Removes,
       PutPlaces, RemovePlaces,
     DyingPlaces, BothPlaces, ScanPlaces
<1>13. Placed(t)'
  BY <1>1, <1>4 DEF Placed, Inserting, Halving, Puts, Removes
<1>14. \A i \in 1..Len(top'.child) : top'.child[i] \in LeafIds
  <2>1. \A i \in 1..(len + 1) : top.child[i] \in LeafIds
    <3>1. Len(top.child) = len + 1
      BY <1>2, ToppedFacts DEF len
    <3> QED
      BY <3>1 DEF Base, Pointers
  <2> SUFFICES ASSUME NEW i \in 1..len PROVE top'.child[i] \in LeafIds
    BY <1>5
  <2>2. ASSUME i \in 1..kp PROVE top'.child[i] \in LeafIds
    <3>1. top'.child[i] = top.child[i] /\ i \in 1..(len + 1)
      BY <1>2, <2>2 DEF Removed
    <3> QED
      BY <2>1, <3>1
  <2>3. ASSUME i \in (kp + 1)..len PROVE top'.child[i] \in LeafIds
    <3>1. top'.child[i] = top.child[i + 1] /\ i + 1 \in 1..(len + 1)
      BY <1>2, <2>3 DEF Removed
    <3> QED
      BY <2>1, <3>1
  <2> QED
    BY <1>2, <2>2, <2>3
<1>15. pc'[t] # "decide"
  BY <1>1
<1> QED
  BY <1>1, <1>2, <1>7, <1>8, <1>9, <1>10, <1>11, <1>12, <1>13, <1>14, <1>15, TopStepKeepsBase
-----------------------------------------------------------------------------
(* The steps that free a leaf or make an internode keep Base.               *)

LEMMA FreeLeafBase ==
  ASSUME Base, Concurrent, NEW t \in Threads, FreeLeaf(t)
  PROVE  Base' /\ Own(t) /\ Free(pc'[t], reg'[t])
<1>1. /\ pc[t] = "free" /\ pc'[t] = "done" /\ Only(t) /\ top' = top
         /\ freed' = freed \cup {reg[t].n}
      /\ Free("done", reg'[t]) /\ leaf' = leaf /\ LeafIds' = LeafIds /\ reg[t].n \in LeafIds
         /\ OptLeaf' = OptLeaf
  BY FreeLeafEffect DEF OptLeaf
<1>2. /\ ~HoldsLeaf(t)' /\ ~HoldsOther(t)' /\ ~HoldsTop(t)'
      /\ Pointing(t)' /\ Controlled(t)' /\ Placed(t)'
  BY <1>1, FreeKeeps
<1>3. ~HoldsLeaf(t) /\ ~HoldsOther(t) /\ ~HoldsTop(t) /\ ~Pending(t)
  BY <1>1 DEF HoldsLeaf, HoldsOther, HoldsTop, Pending, Halving, Halved, PutPlaces, DyingPlaces
<1>4. Own(t) /\ Mine(t) /\ Grows
  BY <1>1 DEF Own, Mine, Grows
<1>5. \A u \in Threads : Pointing(u)' /\ Controlled(u)' /\ Placed(u)'
  BY <1>1, <1>2, <1>4, OthersKept
<1>6. Types'
  <2>1. freed' \subseteq LeafIds' /\ leaf' \in Seq(LeafRecord) /\ leaf' # <<>>
    BY <1>1 DEF Base, Types
  <2> QED
    BY <1>1, <2>1, TypesKept
<1>7. Pointers'
  BY <1>1, <1>5 DEF Base, Pointers
<1>8. Locking'
  <2>1. \A m : ~Holds(t, m) /\ ~Holds(t, m)'
    BY <1>2, <1>3 DEF Holds
  <2>2. \A l \in LeafIds : ~leaf[l].ver.lock => Steady(leaf[l].ver)
    BY DEF Base, Locking
  <2> QED
    BY <1>1, <1>4, <2>1, <2>2, LockingKept
<1>9. TopLocking'
  BY <1>1, <1>2, <1>3, TopQuiet
<1>10. Parents'
  <2>1. Topped' = Topped
    BY <1>1 DEF Topped
  <2> QED
    BY <1>1, <1>3, <2>1, ParentsKept
<1> QED
  BY <1>1, <1>4, <1>5, <1>6, <1>7, <1>8, <1>9, <1>10 DEF Base, Control, Placing

LEMMA AddChildBase ==
  ASSUME Base, Concurrent, NEW t \in Threads, AddChild(t)
  PROVE  Base' /\ Own(t)
<1> DEFINE kp == Upper(Bound(reg[t].nr))
           len == Len(top.ikey)
<1>1. /\ pc[t] = "addChild" /\ pc'[t] = "split" /\ Only(t) /\ reg'[t] = reg[t] /\ freed' = freed
      /\ Writes(reg[t].nr) /\ SameVer(reg[t].nr) /\ SameKeys(reg[t].nr) /\ SameLinks(reg[t].nr)
      /\ leaf'[reg[t].nr].prev = leaf[reg[t].nr].prev /\ leaf'[reg[t].nr].hasParent = TRUE
  BY AddChildEffect
<1>2. /\ kp \in 0..len /\ len \in Nat /\ Topped
      /\ top' \in TopRecord /\ top'.ver = top.ver
      /\ Inserted(top'.ikey, top.ikey, kp, Bound(reg[t].nr), len)
      /\ Inserted(top'.child, top.child, kp + 1, reg[t].nr, len + 1)
  BY AddChildEffect DEF TopRecord
<1> HIDE DEF kp, len
<1>3. Pointing(t) /\ Controlled(t) /\ Placed(t)
  BY DEF Base, Pointers, Control, Placing
<1>4. Puts(t) /\ reg[t].hasTop
  BY <1>1, <1>3 DEF Controlled, PutPlaces
<1>5. /\ LeafIds' = LeafIds /\ OptLeaf' = OptLeaf /\ reg[t].nr \in LeafIds
         /\ leaf' \in Seq(LeafRecord) /\ leaf' # <<>>
      /\ \A m \in LeafIds \ {reg[t].nr} : leaf'[m] = leaf[m]
  BY <1>1 DEF Writes, OptLeaf
<1>6. \A m \in LeafIds :
        /\ leaf'[m].ver = leaf[m].ver /\ leaf'[m].perm = leaf[m].perm
           /\ leaf'[m].ikey = leaf[m].ikey
        /\ leaf'[m].hasParent = (leaf[m].hasParent \/ m = reg[t].nr) /\ SoundLinks(m)
  <2> SUFFICES ASSUME NEW m \in LeafIds
               PROVE  /\ leaf'[m].ver = leaf[m].ver /\ leaf'[m].perm = leaf[m].perm
                         /\ leaf'[m].ikey = leaf[m].ikey
                      /\ leaf'[m].hasParent = (leaf[m].hasParent \/ m = reg[t].nr) /\ SoundLinks(m)
    OBVIOUS
  <2>1. leaf'[m].next = leaf[m].next /\ leaf'[m].prev = leaf[m].prev
    BY <1>1, <1>5 DEF SameLinks
  <2>2. SoundLinks(m)
    BY <2>1, SoundLinksNow
  <2>3. leaf'[m].ver = leaf[m].ver /\ leaf'[m].perm = leaf[m].perm /\ leaf'[m].ikey = leaf[m].ikey
    BY <1>1, <1>5 DEF SameVer, SameKeys
  <2>4. leaf[m].hasParent \in BOOLEAN
    BY LeafFacts, LeafType
  <2>5. leaf'[m].hasParent = (leaf[m].hasParent \/ m = reg[t].nr)
    BY <1>1, <1>5, <2>4
  <2> QED
    BY <2>2, <2>3, <2>5
<1>7. Own(t) /\ Mine(t) /\ Grows
  BY <1>5, <1>6 DEF Own, Mine, Grows
<1>8. (HoldsLeaf(t)' <=> HoldsLeaf(t)) /\ (HoldsOther(t)' <=> HoldsOther(t)) /\ HoldsTop(t)'
      /\ HoldsTop(t)
  BY <1>1, <1>4 DEF HoldsLeaf, HoldsOther, HoldsTop, Halving, Halved, PutPlaces, DyingPlaces, Puts
<1>9. \A m : Holds(t, m)' <=> Holds(t, m)
  BY <1>1, <1>8 DEF Holds
<1>10. Pointing(t)'
  BY <1>1, <1>3, <1>4, <1>5, <1>8 DEF Pointing, LeafPlaces, Halving, Dying, Puts, Removes,
       PutPlaces, RemovePlaces, BothPlaces, DyingPlaces
<1>11. Controlled(t)'
  BY <1>1, <1>3, <1>4, <1>8 DEF Controlled, HoldsTop, Puts, Removes, PutPlaces, RemovePlaces,
     DyingPlaces, BothPlaces, ScanPlaces
<1>12. Placed(t)'
  <2>1. (HoldsLeaf(t) => reg[t].n \in LeafIds) /\ (HoldsOther(t) => reg[t].nr \in LeafIds)
    BY HoldsIsLocked
  <2>2. ~Inserting(t)' /\ pc'[t] \notin {"stamp", "unuse"}
    BY <1>1 DEF Inserting
  <2>3. Halving(t)' => Halving(t) /\ HoldsLeaf(t) /\ HoldsOther(t)
    BY <1>1 DEF Halving, HoldsLeaf, HoldsOther, PutPlaces
  <2>4. \A m \in LeafIds : leaf'[m].perm = leaf[m].perm
    BY <1>6
  <2> QED
    BY <1>1, <1>3, <1>5, <2>1, <2>2, <2>3, <2>4, PlacedKept
<1>13. \A u \in Threads : Pointing(u)' /\ Controlled(u)' /\ Placed(u)'
  BY <1>1, <1>7, <1>10, <1>11, <1>12, OthersKept
<1>14. Len(top'.ikey) = len + 1 /\ Len(top'.child) = len + 2 /\ Topped'
  <2>1. Len(top'.ikey) = len + 1 /\ Len(top'.child) = len + 2
    BY <1>2 DEF Inserted
  <2>2. top'.child \in Seq(Nat) /\ Len(top'.child) # 0
    BY <1>2, <2>1 DEF TopRecord
  <2> QED
    BY <2>1, <2>2 DEF Topped
<1>15. Types'
  <2>1. freed' \subseteq LeafIds'
    BY <1>1, <1>5 DEF Base, Types
  <2>2. Len(top'.child) = Len(top'.ikey) + 1
    BY <1>2, <1>14
  <2> QED
    BY <1>1, <1>2, <1>5, <1>14, <2>1, <2>2 DEF Types, Only, TopRecord
<1>16. Pointers'
  <2>1. \A l \in LeafIds' : /\ leaf'[l].next \in OptLeaf' \ {1} /\ leaf'[l].prev \in OptLeaf'
                            /\ leaf'[l].prev = Null <=> l = 1
    BY <1>5, <1>6 DEF SoundLinks
  <2>2. \A i \in 1..(len + 1) : top.child[i] \in LeafIds
    <3>1. Len(top.child) = len + 1
      BY <1>2, ToppedFacts DEF len
    <3> QED
      BY <3>1 DEF Base, Pointers
  <2>3. ASSUME NEW i \in 1..(len + 2) PROVE top'.child[i] \in LeafIds
    <3>1. ASSUME i \in 1..(kp + 1) PROVE top'.child[i] \in LeafIds
      <4>1. top'.child[i] = top.child[i] /\ i \in 1..(len + 1)
        BY <1>2, <3>1 DEF Inserted
      <4> QED
        BY <2>2, <4>1
    <3>2. ASSUME i = kp + 2 PROVE top'.child[i] \in LeafIds
      <4>1. top'.child[kp + 1 + 1] = reg[t].nr /\ kp + 1 + 1 = kp + 2
        BY <1>2 DEF Inserted
      <4> QED
        BY <1>5, <3>2, <4>1
    <3>3. ASSUME i \in (kp + 3)..(len + 2) PROVE top'.child[i] \in LeafIds
      <4>1. top'.child[i] = top.child[i - 1] /\ i - 1 \in 1..(len + 1)
        BY <1>2, <3>3 DEF Inserted
      <4> QED
        BY <2>2, <4>1
    <3> QED
      BY <1>2, <3>1, <3>2, <3>3
  <2>4. \A i \in 1..Len(top'.child) : top'.child[i] \in LeafIds'
    BY <1>5, <1>14, <2>3
  <2> QED
    BY <1>13, <2>1, <2>4 DEF Pointers
<1>17. Locking'
  <2>0. \A l \in LeafIds : Holds(t, l) => leaf[l].ver.lock
    BY DEF Base, Locking
  <2>1. \A l \in LeafIds' : leaf'[l].ver.lock <=>
            Holds(t, l)' \/ (l \in LeafIds /\ leaf[l].ver.lock /\ ~Holds(t, l))
    BY <1>5, <1>6, <1>9, <2>0
  <2>2. \A l \in LeafIds : Holds(t, l)' => Holds(t, l) \/ ~leaf[l].ver.lock
    BY <1>9
  <2>3. \A l \in LeafIds' : ~leaf'[l].ver.lock => Steady(leaf'[l].ver)
    BY <1>5, <1>6 DEF Base, Locking
  <2>4. pc'[t] = "decide" => Steady(leaf'[reg'[t].n].ver)
    BY <1>1
  <2> QED
    BY <1>1, <1>7, <2>1, <2>2, <2>3, <2>4, LockingKept
<1>18. TopLocking'
  <2>1. /\ ~top.ver.spl /\ ~top.ver.del /\ top.ver.vsplit = 0 /\ top.ver.root /\ top.ver.lock
    BY <1>2, <1>8, TopLockFacts
  <2>2. pc'[t] \notin {"addChild", "dropChild"}
    BY <1>1
  <2> QED
    BY <1>1, <1>2, <1>8, <1>14, <2>1, <2>2, TopLockingKept
<1>19. Parents'
  <2>1. \A u \in Threads \ {t} : Pending(u) => Pending(u)' /\ reg'[u].nr = reg[u].nr
    BY <1>1, OthersRoles DEF Only, Pending
  <2>2. \A l \in LeafIds' : leaf'[l].hasParent \/ \E u \in Threads : Pending(u)' /\ reg'[u].nr = l
    <3> SUFFICES ASSUME NEW l \in LeafIds, ~leaf'[l].hasParent
                 PROVE  \E u \in Threads : Pending(u)' /\ reg'[u].nr = l
      BY <1>5
    <3>1. ~leaf[l].hasParent /\ l # reg[t].nr
      BY <1>6
    <3>2. PICK u \in Threads : Pending(u) /\ reg[u].nr = l
      BY <1>2, <3>1 DEF Base, Parents
    <3> QED
      BY <2>1, <3>1, <3>2
  <2> QED
    BY <1>14, <2>2 DEF Parents
<1> QED
  BY <1>7, <1>13, <1>15, <1>16, <1>17, <1>18, <1>19 DEF Base, Control, Placing

\* The first leaf splits while there is no other.
LEMMA OnlyTwo ==
  ASSUME Base, NEW t \in Threads, pc[t] = "parent", ~leaf[reg[t].n].hasParent
  PROVE  /\ ~Topped /\ reg[t].n = 1 /\ Puts(t) /\ Pending(t) /\ LeafIds = {1, reg[t].nr}
<1>1. HoldsLeaf(t) /\ Controlled(t) /\ Pointing(t)
  BY DEF HoldsLeaf, Base, Control, Pointers
<1>2. reg[t].n \in LeafIds /\ Holds(t, reg[t].n)
  BY <1>1, HoldsIsLocked
<1>3. ~\E u \in Threads : Pending(u) /\ reg[u].nr = reg[t].n
  <2> SUFFICES ASSUME NEW u \in Threads, Pending(u), reg[u].nr = reg[t].n PROVE FALSE
    OBVIOUS
  <2>1. HoldsOther(u)
    BY DEF Pending, HoldsOther
  <2>2. Holds(u, reg[t].n) /\ reg[u].n # reg[u].nr
    BY <2>1, HoldsIsLocked
  <2>3. u = t
    BY <1>2, <2>2 DEF Base, Locking
  <2> QED
    BY <2>2, <2>3
<1>4. ~Topped
  BY <1>2, <1>3 DEF Base, Parents
<1>5. \A l \in LeafIds \ {1} : \E u \in Threads : Pending(u) /\ reg[u].n = 1 /\ reg[u].nr = l
  BY <1>4 DEF Base, Parents
<1>6. reg[t].n = 1
  BY <1>2, <1>3, <1>5
<1>7. Puts(t)
  BY <1>1, <1>6 DEF Controlled, BothPlaces, Pointing, Dying
<1>8. Pending(t)
  BY <1>7 DEF Pending, Halving
<1>9. \A l \in LeafIds \ {1} : l = reg[t].nr
  <2> SUFFICES ASSUME NEW l \in LeafIds \ {1} PROVE l = reg[t].nr
    OBVIOUS
  <2>1. PICK u \in Threads : Pending(u) /\ reg[u].n = 1 /\ reg[u].nr = l
    BY <1>5
  <2>2. HoldsLeaf(u)
    BY <2>1 DEF Pending, Halving, HoldsLeaf, PutPlaces
  <2>3. Holds(u, reg[t].n)
    BY <1>6, <2>1, <2>2, HoldsIsLocked
  <2>4. u = t
    BY <1>2, <2>3 DEF Base, Locking
  <2> QED
    BY <2>1, <2>4
<1>10. reg[t].nr \in LeafIds
  BY <1>8, HoldsIsLocked DEF Pending, HoldsOther
<1>11. LeafIds = {1, reg[t].nr}
  BY <1>2, <1>6, <1>9, <1>10
<1> QED
  BY <1>4, <1>6, <1>7, <1>8, <1>11

LEMMA NewTopBase ==
  ASSUME Base, Concurrent, NEW t \in Threads, NewTop(t)
  PROVE  Base' /\ Own(t)
<1>1. /\ pc[t] = "parent" /\ pc'[t] = "split" /\ Only(t) /\ reg'[t] = reg[t] /\ freed' = freed
      /\ reg[t].n \in LeafIds /\ ~leaf[reg[t].n].hasParent
      /\ leaf' \in Seq(LeafRecord) /\ leaf' # <<>> /\ LeafIds' = LeafIds /\ OptLeaf' = OptLeaf
      /\ top' = [ver |-> RootVersion, ikey |-> <<Bound(reg[t].nr)>>, child |-> <<reg[t].n, reg[t].nr>>]
  BY NewTopEffect DEF OptLeaf
<1>2. \A m \in LeafIds :
        /\ leaf'[m].ver = leaf[m].ver /\ leaf'[m].perm = leaf[m].perm
           /\ leaf'[m].ikey = leaf[m].ikey
        /\ leaf'[m].hasParent = (leaf[m].hasParent \/ m = reg[t].n \/ m = reg[t].nr)
           /\ SoundLinks(m)
  <2> SUFFICES ASSUME NEW m \in LeafIds PROVE SoundLinks(m)
    BY NewTopEffect
  <2> QED
    BY SoundLinksNow, NewTopEffect
<1>3. Pointing(t) /\ Controlled(t) /\ Placed(t)
  BY DEF Base, Pointers, Control, Placing
<1>4. ~Topped /\ reg[t].n = 1 /\ Puts(t) /\ Pending(t) /\ LeafIds = {1, reg[t].nr}
  BY <1>1, OnlyTwo
<1>5. ~reg[t].hasTop
  BY <1>1, <1>3 DEF Controlled
<1>7. Own(t) /\ Mine(t) /\ Grows
  BY <1>1, <1>2 DEF Own, Mine, Grows
<1>8. (HoldsLeaf(t)' <=> HoldsLeaf(t)) /\ (HoldsOther(t)' <=> HoldsOther(t)) /\ ~HoldsTop(t)'
      /\ ~HoldsTop(t)
  BY <1>1, <1>4, <1>5 DEF HoldsLeaf, HoldsOther, HoldsTop, Halving, Halved, PutPlaces, DyingPlaces,
       Puts
<1>9. \A m : Holds(t, m)' <=> Holds(t, m)
  BY <1>1, <1>8 DEF Holds
<1>10. Pointing(t)'
  BY <1>1, <1>3, <1>4, <1>8 DEF Pointing, LeafPlaces, Halving, Dying, Puts, Removes, PutPlaces,
       RemovePlaces, BothPlaces, DyingPlaces
<1>11. Controlled(t)'
  BY <1>1, <1>3, <1>4, <1>5, <1>8 DEF Controlled, HoldsTop, HoldsOther, Puts, Removes, PutPlaces,
       RemovePlaces,
     DyingPlaces, BothPlaces, ScanPlaces
<1>12. Placed(t)'
  <2>1. (HoldsLeaf(t) => reg[t].n \in LeafIds) /\ (HoldsOther(t) => reg[t].nr \in LeafIds)
    BY HoldsIsLocked
  <2>2. ~Inserting(t)' /\ pc'[t] \notin {"stamp", "unuse"}
    BY <1>1 DEF Inserting
  <2>3. Halving(t)' => Halving(t) /\ HoldsLeaf(t) /\ HoldsOther(t)
    BY <1>1, <1>4 DEF Halving, HoldsLeaf, HoldsOther, PutPlaces
  <2>4. \A m \in LeafIds : leaf'[m].perm = leaf[m].perm
    BY <1>2
  <2> QED
    BY <1>1, <1>3, <2>1, <2>2, <2>3, <2>4, PlacedKept
<1>13. \A u \in Threads : Pointing(u)' /\ Controlled(u)' /\ Placed(u)'
  BY <1>1, <1>7, <1>10, <1>11, <1>12, OthersKept
<1>14. /\ top'.ver = RootVersion /\ top'.ikey = <<Bound(reg[t].nr)>>
          /\ top'.child = <<1, reg[t].nr>>
       /\ Len(top'.ikey) = 1 /\ Len(top'.child) = 2 /\ Topped' /\ top' \in TopRecord
  <2>1. Bound(reg[t].nr) \in Int /\ 1 \in Nat /\ reg[t].nr \in Nat
    <3>1. reg[t].nr \in LeafIds
      BY <1>4
    <3>2. leaf[reg[t].nr].ikey \in [Slots -> Int] /\ 0 \in Slots
      BY <3>1, LeafFacts, WidthType
    <3> QED
      BY <3>1, <3>2, LeafIdFacts DEF Bound
  <2>2. <<Bound(reg[t].nr)>> \in Seq(Int) /\ <<1, reg[t].nr>> \in Seq(Nat)
        /\ Len(<<Bound(reg[t].nr)>>) = 1
        /\ Len(<<1, reg[t].nr>>) = 2 /\ <<1, reg[t].nr>> # <<>>
    BY <2>1
  <2>3. top'.ver = RootVersion /\ top'.ikey = <<Bound(reg[t].nr)>> /\ top'.child = <<1, reg[t].nr>>
    BY <1>1, <1>4
  <2>4. top' \in TopRecord
    BY <1>1, <1>4, <2>2, RootVersionType DEF TopRecord
  <2> QED
    BY <2>2, <2>3, <2>4 DEF Topped
<1>15. Types'
  <2>1. freed' \subseteq LeafIds'
    BY <1>1 DEF Base, Types
  <2>2. Len(top'.child) = Len(top'.ikey) + 1
    BY <1>14
  <2> QED
    BY <1>1, <1>14, <2>1, <2>2 DEF Types, Only, TopRecord
<1>16. Pointers'
  <2>1. \A l \in LeafIds' : /\ leaf'[l].next \in OptLeaf' \ {1} /\ leaf'[l].prev \in OptLeaf'
                            /\ leaf'[l].prev = Null <=> l = 1
    BY <1>1, <1>2 DEF SoundLinks
  <2>2. \A i \in 1..Len(top'.child) : top'.child[i] \in LeafIds'
    <3>1. 1 \in LeafIds' /\ reg[t].nr \in LeafIds'
      BY <1>1, <1>4
    <3>2. \A i \in 1..2 : i = 1 \/ i = 2
      OBVIOUS
    <3> QED
      BY <1>14, <3>1, <3>2
  <2> QED
    BY <1>13, <2>1, <2>2 DEF Pointers
<1>17. Locking'
  <2>0. \A l \in LeafIds : Holds(t, l) => leaf[l].ver.lock
    BY DEF Base, Locking
  <2>1. \A l \in LeafIds' : leaf'[l].ver.lock <=>
            Holds(t, l)' \/ (l \in LeafIds /\ leaf[l].ver.lock /\ ~Holds(t, l))
    BY <1>1, <1>2, <1>9, <2>0
  <2>2. \A l \in LeafIds : Holds(t, l)' => Holds(t, l) \/ ~leaf[l].ver.lock
    BY <1>9
  <2>3. \A l \in LeafIds' : ~leaf'[l].ver.lock => Steady(leaf'[l].ver)
    BY <1>1, <1>2 DEF Base, Locking
  <2>4. pc'[t] = "decide" => Steady(leaf'[reg'[t].n].ver)
    BY <1>1
  <2> QED
    BY <1>1, <1>7, <2>1, <2>2, <2>3, <2>4, LockingKept
<1>18. TopLocking'
  <2>1. ~top.ver.lock
    BY <1>4 DEF Base, TopLocking
  <2>2. /\ ~top'.ver.lock /\ ~top'.ver.ins /\ ~top'.ver.spl /\ ~top'.ver.del /\ top'.ver.root
           /\ top'.ver.vsplit = 0
    BY <1>14, RootVersionType
  <2>3. pc'[t] \notin {"addChild", "dropChild"}
    BY <1>1
  <2> QED
    BY <1>1, <1>8, <1>14, <2>1, <2>2, <2>3, TopLockingKept
<1>19. Parents'
  <2>1. \A l \in LeafIds' : leaf'[l].hasParent
    BY <1>1, <1>2, <1>4
  <2> QED
    BY <1>14, <2>1 DEF Parents
<1> QED
  BY <1>7, <1>13, <1>15, <1>16, <1>17, <1>18, <1>19 DEF Base, Control, Placing
-----------------------------------------------------------------------------
(* The step that makes a leaf keeps Base.                                   *)

LEMMA SplitPlaced ==
  ASSUME Base, Concurrent, NEW t \in Threads, SplitInto(t)
  PROVE  Placed(t)' /\ leaf'[reg[t].n] = leaf[reg[t].n]
         /\ Keep(t)' = IF reg[t].ki >= Middle(t) THEN Middle(t) ELSE Middle(t) - 1
<1>1. /\ pc'[t] = "lockNext" /\ reg'[t].n = reg[t].n /\ reg'[t].ki = reg[t].ki
         /\ reg'[t].nr = Len(leaf) + 1
      /\ reg'[t].toRight = (reg[t].ki >= Middle(t)) /\ leaf'[Len(leaf) + 1] = RightLeaf(t)
      /\ \A l \in LeafIds : leaf'[l] = leaf[l]
  BY SplitIntoEffect
<1>2. reg[t].n \in LeafIds /\ leaf[reg[t].n].perm.size >= Width - 1
  BY SplitSize
<1>3. PICK l \in LeafIds : l = reg[t].n
  BY <1>2
<1>4. PICK size : size = leaf[l].perm.size
  OBVIOUS
<1>5. PICK mid : mid = Middle(t)
  OBVIOUS
<1>6. PICK ki : ki = reg[t].ki
  OBVIOUS
<1>7. PICK x : x = RightLeaf(t)
  OBVIOUS
<1>8. PICK keep : keep = IF ki >= mid THEN mid ELSE mid - 1
  OBVIOUS
<1>9. /\ size \in 2..Width /\ ki \in 0..size /\ mid \in 1..size /\ x.perm.size = size - keep
      /\ ki >= mid => Back(x.perm) = ki - mid
  BY <1>3, <1>4, <1>5, <1>6, <1>7, <1>8, RightFacts
<1>10. leaf'[l] = leaf[l] /\ leaf'[reg'[t].nr] = x /\ reg'[t].n = l
  BY <1>1, <1>3, <1>7
<1>11. Keep(t)' = size - (size - keep)
  BY <1>4, <1>9, <1>10 DEF Keep
<1>12. keep \in 0..size /\ Keep(t)' = keep /\ size >= Width - 1 /\ Width \in Nat
  BY <1>2, <1>3, <1>4, <1>8, <1>9, <1>11, WidthType
<1> HIDE DEF Keep
<1>13. ~Inserting(t)' /\ pc'[t] \notin {"stamp", "unuse"}
  BY <1>1 DEF Inserting
<1>14. ASSUME ki >= mid PROVE Placed(t)'
  <2>1. reg'[t].toRight /\ keep = mid
    BY <1>1, <1>5, <1>6, <1>8, <1>14
  <2>2. ki - mid \in 0..(size - mid) /\ size - mid < Width
    BY <1>9, <1>12, <1>14
  <2>3. reg'[t].ki - Keep(t)' \in 0..leaf'[reg'[t].nr].perm.size
        /\ leaf'[reg'[t].nr].perm.size < Width
        /\ Back(leaf'[reg'[t].nr].perm) = reg'[t].ki - Keep(t)'
    BY <1>1, <1>6, <1>9, <1>10, <1>12, <1>14, <2>1, <2>2
  <2>4. Keep(t)' \in 0..leaf'[reg'[t].n].perm.size /\ leaf'[reg'[t].n].perm.size >= Width - 1
    BY <1>4, <1>10, <1>12
  <2>5. /\ Keep(t)' \in 0..leaf'[reg'[t].n].perm.size
        /\ leaf'[reg'[t].n].perm.size >= Width - 1
        /\ IF reg'[t].toRight
           THEN reg'[t].ki - Keep(t)' \in 0..leaf'[reg'[t].nr].perm.size
           /\ leaf'[reg'[t].nr].perm.size < Width
                /\ Back(leaf'[reg'[t].nr].perm) = reg'[t].ki - Keep(t)'
           ELSE reg'[t].ki \in 0..Keep(t)' /\ Keep(t)' < leaf'[reg'[t].n].perm.size
    BY <2>1, <2>3, <2>4
  <2> QED
    BY <1>13, <2>5 DEF Placed
<1>15. ASSUME ~(ki >= mid) PROVE Placed(t)'
  <2>1. ~reg'[t].toRight /\ keep = mid - 1
    BY <1>1, <1>5, <1>6, <1>8, <1>15
  <2>2. ki \in 0..keep /\ keep < size
    BY <1>9, <1>12, <1>15, <2>1
  <2>3. reg'[t].ki \in 0..Keep(t)' /\ Keep(t)' < leaf'[reg'[t].n].perm.size
    BY <1>1, <1>4, <1>6, <1>10, <1>12, <2>1, <2>2
  <2>4. Keep(t)' \in 0..leaf'[reg'[t].n].perm.size /\ leaf'[reg'[t].n].perm.size >= Width - 1
    BY <1>4, <1>10, <1>12
  <2>5. /\ Keep(t)' \in 0..leaf'[reg'[t].n].perm.size
        /\ leaf'[reg'[t].n].perm.size >= Width - 1
        /\ IF reg'[t].toRight
           THEN reg'[t].ki - Keep(t)' \in 0..leaf'[reg'[t].nr].perm.size
           /\ leaf'[reg'[t].nr].perm.size < Width
                /\ Back(leaf'[reg'[t].nr].perm) = reg'[t].ki - Keep(t)'
           ELSE reg'[t].ki \in 0..Keep(t)' /\ Keep(t)' < leaf'[reg'[t].n].perm.size
    BY <2>1, <2>3, <2>4
  <2> QED
    BY <1>13, <2>5 DEF Placed
<1> QED
  BY <1>3, <1>5, <1>6, <1>8, <1>10, <1>12, <1>14, <1>15

LEMMA SplitIntoBase ==
  ASSUME Base, Concurrent, NEW t \in Threads, SplitInto(t)
  PROVE  Base' /\ Own(t)
<1>1. /\ pc[t] = "slot" /\ pc'[t] = "lockNext" /\ Only(t) /\ top' = top /\ freed' = freed
      /\ SameCaller(t) /\ reg'[t].n = reg[t].n /\ reg'[t].aux = reg[t].aux
         /\ reg'[t].hasTop = reg[t].hasTop
      /\ reg'[t].ki = reg[t].ki
      /\ leaf' \in Seq(LeafRecord) /\ leaf' # <<>>
      /\ \A l \in LeafIds : leaf'[l] = leaf[l]
  BY SplitIntoEffect
<1>2. PICK nr \in Nat : nr = Len(leaf) + 1
  BY LeafIdFacts
<1>3. reg'[t].nr = nr /\ LeafIds' = LeafIds \cup {nr} /\ nr \notin LeafIds
      /\ leaf'[nr] = RightLeaf(t) /\ nr # 0 /\ nr # 1
  BY <1>2, SplitIntoEffect, LeafIdFacts
<1>4. Pointing(t) /\ Controlled(t) /\ Placed(t)
  BY DEF Base, Pointers, Control, Placing
<1>5. reg[t].n \in LeafIds /\ Puts(t) /\ HoldsLeaf(t) /\ leaf[reg[t].n].ver.lock
      /\ Holds(t, reg[t].n)
  BY <1>1, SplitSize, HoldsIsLocked DEF HoldsLeaf, PutPlaces
<1>6. /\ leaf'[nr].ver = leaf[reg[t].n].ver /\ leaf'[nr].prev = reg[t].n /\ leaf'[nr].next = Null
      /\ ~leaf'[nr].hasParent
  <2>1. PICK l \in LeafIds : l = reg[t].n
    BY <1>5
  <2>2. PICK size : size = leaf[l].perm.size
    OBVIOUS
  <2>3. PICK mid : mid = Middle(t)
    OBVIOUS
  <2>4. PICK ki : ki = reg[t].ki
    OBVIOUS
  <2>5. PICK x : x = RightLeaf(t)
    OBVIOUS
  <2>6. PICK keep : keep = IF ki >= mid THEN mid ELSE mid - 1
    OBVIOUS
  <2>7. x.ver = leaf[l].ver /\ x.prev = l /\ x.next = Null /\ ~x.hasParent
    BY <2>1, <2>2, <2>3, <2>4, <2>5, <2>6, RightFacts
  <2> QED
    BY <1>3, <2>1, <2>5, <2>7
<1>7. Own(t) /\ Mine(t) /\ Grows
  BY <1>1, <1>3 DEF Own, Mine, Grows
<1>8. OptLeaf \subseteq OptLeaf' /\ nr \in OptLeaf'
  BY <1>3 DEF OptLeaf
<1>9. /\ HoldsLeaf(t)' /\ HoldsOther(t)' /\ ~HoldsOther(t) /\ ~HoldsTop(t)' /\ ~HoldsTop(t)
         /\ ~reg[t].hasTop /\ ~Pending(t)
      /\ Pending(t)' /\ Halving(t)'
  BY <1>1, <1>4 DEF HoldsLeaf, HoldsOther, HoldsTop, Halving, Halved, PutPlaces, DyingPlaces,
       Pending, Controlled
<1>10. /\ \A m : Holds(t, m) <=> m = reg[t].n
       /\ \A m : Holds(t, m)' <=> m = reg[t].n \/ m = nr
  BY <1>1, <1>3, <1>5, <1>9 DEF Holds
<1>11. Pointing(t)'
  <2>1. nr # Null /\ reg[t].n # nr /\ reg[t].n \in OptLeaf' /\ reg[t].aux \in OptLeaf'
        /\ reg[t].n # Null
    BY <1>1, <1>3, <1>4, <1>5, <1>8 DEF Pointing, LeafPlaces, PutPlaces, Null
  <2> QED
    BY <1>1, <1>3, <1>5, <1>8, <1>9, <2>1 DEF Pointing, Dying, DyingPlaces, Puts, Removes
<1>12. Controlled(t)'
  BY <1>1, <1>4, <1>5, <1>9 DEF Controlled, SameCaller, Puts, Removes, PutPlaces, RemovePlaces,
     DyingPlaces, BothPlaces, ScanPlaces
<1>13. Placed(t)'
  BY SplitPlaced
<1>14. \A u \in Threads : Pointing(u)' /\ Controlled(u)' /\ Placed(u)'
  BY <1>1, <1>7, <1>11, <1>12, <1>13, OthersKept
<1>15. Types'
  <2>1. freed' \subseteq LeafIds'
    BY <1>1, <1>3 DEF Base, Types
  <2> QED
    BY <1>1, <2>1, TypesKept
<1>16. Pointers'
  <2>1. ASSUME NEW l \in LeafIds'
        PROVE  /\ leaf'[l].next \in OptLeaf' \ {1} /\ leaf'[l].prev \in OptLeaf'
               /\ leaf'[l].prev = Null <=> l = 1
    <3>1. CASE l \in LeafIds
      BY <1>1, <1>8, <3>1 DEF Base, Pointers
    <3>2. CASE l = nr
      <4>1. Null \in OptLeaf' /\ Null # 1
        BY DEF OptLeaf, Null
      <4>2. reg[t].n \in OptLeaf' /\ reg[t].n # Null
        BY <1>5, <1>8, LeafIdFacts
      <4> QED
        BY <1>3, <1>6, <3>2, <4>1, <4>2
    <3> QED
      BY <1>3, <3>1, <3>2
  <2>2. \A i \in 1..Len(top'.child) : top'.child[i] \in LeafIds'
    BY <1>1, <1>3 DEF Base, Pointers
  <2> QED
    BY <1>14, <2>1, <2>2 DEF Pointers
<1>17. Locking'
  <2>1. \A l \in LeafIds' : leaf'[l].ver.lock <=>
            Holds(t, l)' \/ (l \in LeafIds /\ leaf[l].ver.lock /\ ~Holds(t, l))
    BY <1>1, <1>3, <1>5, <1>6, <1>10
  <2>2. \A l \in LeafIds : Holds(t, l)' => Holds(t, l) \/ ~leaf[l].ver.lock
    BY <1>3, <1>10
  <2>3. \A l \in LeafIds' : ~leaf'[l].ver.lock => Steady(leaf'[l].ver)
    BY <1>1, <1>3, <1>5, <1>6 DEF Base, Locking
  <2>4. pc'[t] = "decide" => Steady(leaf'[reg'[t].n].ver)
    BY <1>1
  <2> QED
    BY <1>1, <1>7, <2>1, <2>2, <2>3, <2>4, LockingKept
<1>18. TopLocking'
  <2>1. pc'[t] \notin {"addChild", "dropChild"}
    BY <1>1
  <2> QED
    BY <1>1, <1>9, <2>1, TopQuiet
<1>19. Parents'
  <2>1. \A u \in Threads \ {t} : Pending(u) => Pending(u)' /\ reg'[u].n = reg[u].n
        /\ reg'[u].nr = reg[u].nr
    BY <1>1, OthersRoles DEF Only, Pending
  <2>2. \A u \in Threads : Pending(u) => Pending(u)' /\ reg'[u].n = reg[u].n
        /\ reg'[u].nr = reg[u].nr
    BY <1>9, <2>1
  <2>3. Topped' = Topped
    BY <1>1 DEF Topped
  <2>4. ASSUME ~Topped PROVE reg[t].n = 1
    <3> SUFFICES ASSUME reg[t].n # 1 PROVE FALSE
      OBVIOUS
    <3>1. PICK u \in Threads : Pending(u) /\ reg[u].n = 1 /\ reg[u].nr = reg[t].n
      BY <1>5, <2>4 DEF Base, Parents
    <3>2. HoldsOther(u)
      BY <3>1 DEF Pending, HoldsOther
    <3>3. Holds(u, reg[t].n)
      BY <3>1, <3>2, HoldsIsLocked
    <3>4. u = t
      BY <1>5, <3>3 DEF Base, Locking
    <3> QED
      BY <1>9, <3>1, <3>4
  <2>5. ~Topped' => \A l \in LeafIds' \ {1} : \E u \in Threads : Pending(u)' /\ reg'[u].n = 1
        /\ reg'[u].nr = l
    <3> SUFFICES ASSUME ~Topped, NEW l \in LeafIds' \ {1}
                 PROVE  \E u \in Threads : Pending(u)' /\ reg'[u].n = 1 /\ reg'[u].nr = l
      BY <2>3
    <3>1. CASE l = nr
      BY <1>1, <1>3, <1>9, <2>4, <3>1
    <3>2. CASE l \in LeafIds
      <4>1. PICK u \in Threads : Pending(u) /\ reg[u].n = 1 /\ reg[u].nr = l
        BY <3>2 DEF Base, Parents
      <4> QED
        BY <2>2, <4>1
    <3> QED
      BY <1>3, <3>1, <3>2
  <2>6. \A l \in LeafIds' : leaf'[l].hasParent => Topped'
    BY <1>1, <1>3, <1>6, <2>3 DEF Base, Parents
  <2>7. Topped' => \A l \in LeafIds' : leaf'[l].hasParent \/ \E u \in Threads : Pending(u)'
        /\ reg'[u].nr = l
    <3> SUFFICES ASSUME Topped, NEW l \in LeafIds', ~leaf'[l].hasParent
                 PROVE  \E u \in Threads : Pending(u)' /\ reg'[u].nr = l
      BY <2>3
    <3>1. CASE l = nr
      BY <1>3, <1>9, <3>1
    <3>2. CASE l \in LeafIds
      <4>1. PICK u \in Threads : Pending(u) /\ reg[u].nr = l
        BY <1>1, <3>2 DEF Base, Parents
      <4> QED
        BY <2>2, <4>1
    <3> QED
      BY <1>3, <3>1, <3>2
  <2> QED
    BY <2>5, <2>6, <2>7 DEF Parents
<1> QED
  BY <1>7, <1>14, <1>15, <1>16, <1>17, <1>18, <1>19 DEF Base, Control, Placing
=============================================================================
