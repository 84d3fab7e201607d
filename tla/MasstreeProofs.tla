--------------------------- MODULE MasstreeProofs ---------------------------
(* Every step of MasstreeLeaves and MasstreeScan with concurrent nodes keeps *)
(* the invariant of MasstreeSteps; the theorems about the tree at the end follow. *)
EXTENDS MasstreeSteps

-----------------------------------------------------------------------------
(* What keeps Deletion, Ordered and Fits.                                   *)

BoundsStay == \A l \in LeafIds \ {1} : leaf'[l].ikey[0] = leaf[l].ikey[0]

LEMMA DeletionKept ==
  ASSUME Base, Deletion, NEW t \in Threads, Only(t), Grows, Mine(t), freed' = freed,
         \A l \in LeafIds : leaf[l].ver.del => leaf'[l].ver.del,
         \A l \in LeafIds' : leaf'[l].ver.del => leaf'[l].perm.size = 0,
         Condemned(t)',
         Dying(t)' => \/ Dying(t) /\ reg'[t].n = reg[t].n
                      \/ reg'[t].n \in LeafIds /\ ~leaf[reg'[t].n].ver.del
  PROVE  Deletion'
<1>1. \A u \in Threads \ {t} : pc'[u] = pc[u] /\ reg'[u] = reg[u] /\ (Dying(u)' <=> Dying(u))
  BY OthersRoles DEF Only
<1>2. \A u \in Threads : Dying(u) => reg[u].n \in LeafIds /\ leaf[reg[u].n].ver.del
      /\ reg[u].n \notin freed
  <2> SUFFICES ASSUME NEW u \in Threads, Dying(u)
               PROVE  reg[u].n \in LeafIds /\ leaf[reg[u].n].ver.del /\ reg[u].n \notin freed
    OBVIOUS
  <2>1. pc[u] \in LeafPlaces
    BY DEF Dying, LeafPlaces, RemovePlaces, BothPlaces
  <2> QED
    BY <2>1, AtLeaf DEF Deletion, Condemned
<1>3. ASSUME NEW u \in Threads \ {t} PROVE Condemned(u)'
  <2>1. Condemned(u) /\ pc'[u] = pc[u] /\ reg'[u] = reg[u]
    BY <1>1 DEF Deletion
  <2>2. HoldsLeaf(u) => /\ leaf'[reg[u].n].ver = leaf[reg[u].n].ver
                        /\ leaf'[reg[u].n].perm = leaf[reg[u].n].perm
    BY HoldsIsLocked, OnlyHolder DEF Mine
  <2>3. HoldsOther(u) => leaf'[reg[u].nr].ver = leaf[reg[u].nr].ver
    BY HoldsIsLocked, OnlyHolder DEF Mine
  <2>4. pc[u] = "empty" => HoldsLeaf(u)
    BY DEF HoldsLeaf
  <2>5. Dying(u)' => leaf'[reg'[u].n].ver.del /\ reg'[u].n \notin freed'
    BY <1>1, <1>2, <2>1
  <2>6. HoldsLeaf(u)' /\ ~Dying(u)' /\ pc'[u] # "decide" => ~leaf'[reg'[u].n].ver.del
    BY <2>1, <2>2, OthersRoles DEF Condemned
  <2>7. HoldsOther(u)' => ~leaf'[reg'[u].nr].ver.del
    BY <2>1, <2>3, OthersRoles DEF Condemned
  <2>8. pc'[u] = "empty" => leaf'[reg'[u].n].perm.size = 0
    BY <2>1, <2>2, <2>4 DEF Condemned
  <2> QED
    BY <2>5, <2>6, <2>7, <2>8 DEF Condemned
<1>4. \A u, w \in Threads : Dying(u)' /\ Dying(w)' /\ reg'[u].n = reg'[w].n => u = w
  <2>1. ASSUME NEW u \in Threads \ {t}, Dying(t)', Dying(u)', reg'[t].n = reg'[u].n PROVE FALSE
    <3>1. Dying(u) /\ reg'[u] = reg[u] /\ leaf[reg[u].n].ver.del
      BY <1>1, <1>2, <2>1
    <3>2. Dying(t) /\ reg'[t].n = reg[t].n
      BY <2>1, <3>1
    <3> QED
      BY <2>1, <3>1, <3>2 DEF Deletion
  <2>2. ASSUME NEW u \in Threads \ {t}, NEW w \in Threads \ {t}, Dying(u)', Dying(w)',
               reg'[u].n = reg'[w].n
        PROVE  u = w
    BY <1>1, <2>2 DEF Deletion
  <2> QED
    BY <2>1, <2>2
<1>5. \A l \in freed' : leaf'[l].ver.del
  BY DEF Deletion, Base, Types
<1> QED
  BY <1>3, <1>4, <1>5 DEF Deletion

LEMMA OrderedKept ==
  ASSUME Ordered, NEW l, LeafIds' \subseteq LeafIds \cup {l},
         \A m \in LeafIds \ {l} : leaf'[m].perm = leaf[m].perm /\ leaf'[m].ikey = leaf[m].ikey,
         Sorted(l)', AboveBound(l)'
  PROVE  Ordered'
<1>1. ASSUME NEW m \in LeafIds', m # l PROVE Sorted(m)' /\ AboveBound(m)'
  <2>1. m \in LeafIds /\ leaf'[m].perm = leaf[m].perm /\ leaf'[m].ikey = leaf[m].ikey
    BY <1>1
  <2>2. Sorted(m) /\ AboveBound(m)
    BY <2>1 DEF Ordered
  <2>3. Sorted(m)'
    BY <2>1, <2>2 DEF Sorted, IkeyAt
  <2>4. AboveBound(m)'
    BY <2>1, <2>2 DEF AboveBound, IkeyAt, Bound
  <2> QED
    BY <2>3, <2>4
<1> QED
  BY <1>1 DEF Ordered

LEMMA OrderedAsBefore ==
  ASSUME Base, Ordered, LeafIds' = LeafIds,
         \A m \in LeafIds : leaf'[m].perm = leaf[m].perm /\ leaf'[m].ikey = leaf[m].ikey
  PROVE  Ordered'
<1>1. 1 \in LeafIds /\ Sorted(1) /\ AboveBound(1)
  BY LeafIdFacts DEF Ordered
<1>2. Sorted(1)'
  BY <1>1 DEF Sorted, IkeyAt
<1>3. AboveBound(1)'
  BY DEF AboveBound
<1>4. LeafIds' \subseteq LeafIds \cup {1}
  OBVIOUS
<1> QED
  BY <1>2, <1>3, <1>4, OrderedKept

LEMMA FitsKept ==
  ASSUME Base, Fits, NEW t \in Threads, Only(t), Grows, Mine(t), BoundsStay, Fitting(t)'
  PROVE  Fits'
<1> SUFFICES ASSUME NEW u \in Threads \ {t} PROVE Fitting(u)'
  BY DEF Fits
<1>1. pc'[u] = pc[u] /\ reg'[u] = reg[u] /\ Fitting(u)
  BY DEF Only, Fits
<1>2. HoldsLeaf(u) => /\ leaf'[reg[u].n].perm = leaf[reg[u].n].perm /\ leaf'[reg[u].n].ikey = leaf[reg[u].n].ikey
  BY HoldsIsLocked, OnlyHolder DEF Mine
<1>3. HoldsOther(u) => /\ leaf'[reg[u].nr].perm = leaf[reg[u].nr].perm /\ leaf'[reg[u].nr].ikey = leaf[reg[u].nr].ikey
  BY HoldsIsLocked, OnlyHolder DEF Mine
<1>4. Inserting(u) => HoldsLeaf(u)
  BY DEF Inserting, HoldsLeaf, PutPlaces
<1>5. Halving(u) => HoldsOther(u) /\ HoldsLeaf(u)
  BY DEF HoldsOther, Halving, HoldsLeaf, PutPlaces
<1>6. Halving(u) => Keep(u)' = Keep(u)
  BY <1>1, <1>2, <1>3, <1>5 DEF Keep
<1>7. pc[u] \in {"lock", "rightward", "decide"} => reg[u].n \in LeafIds
  BY AtLeaf DEF LeafPlaces, BothPlaces
<1>8. \A l \in LeafIds : Reaches(u, l) => Reaches(u, l)'
  BY <1>1 DEF Reaches, Bound, BoundsStay
<1>9. HoldsLeaf(u) =>
        /\ \A k : Parts(u, reg[u].n, k) => Parts(u, reg[u].n, k)'
        /\ \A k : Harmless(u, reg[u].n, k) => Harmless(u, reg[u].n, k)'
        /\ Reaches(u, reg[u].n) => Reaches(u, reg[u].n)'
  BY <1>1, <1>2 DEF Parts, Harmless, IkeyAt, Bound, Reaches
<1>10. HoldsOther(u) =>
        /\ \A k : Parts(u, reg[u].nr, k) => Parts(u, reg[u].nr, k)'
        /\ Reaches(u, reg[u].nr) => Reaches(u, reg[u].nr)'
  BY <1>1, <1>3 DEF Parts, IkeyAt, Bound, Reaches
<1>11. Inserting(u)' =>
       /\ Parts(u, reg[u].n, reg[u].ki)' /\ Reaches(u, reg[u].n)'
       /\ pc'[u] \in {"assign", "assignKey"} => Harmless(u, reg[u].n, reg[u].kp)'
       /\ pc'[u] \notin {"slot", "assign", "assignKey"}
          => leaf'[reg'[u].n].ikey[reg'[u].kp] = reg'[u].key
  <2> SUFFICES ASSUME Inserting(u)
               PROVE
       /\ Parts(u, reg[u].n, reg[u].ki)' /\ Reaches(u, reg[u].n)'
       /\ pc'[u] \in {"assign", "assignKey"} => Harmless(u, reg[u].n, reg[u].kp)'
       /\ pc'[u] \notin {"slot", "assign", "assignKey"}
          => leaf'[reg'[u].n].ikey[reg'[u].kp] = reg'[u].key
    BY OthersRoles
  <2>1. /\ Parts(u, reg[u].n, reg[u].ki) /\ Reaches(u, reg[u].n)
        /\ pc[u] \in {"assign", "assignKey"} => Harmless(u, reg[u].n, reg[u].kp)
        /\ pc[u] \notin {"slot", "assign", "assignKey"}
           => leaf[reg[u].n].ikey[reg[u].kp] = reg[u].key
    BY <1>1 DEF Fitting
  <2>2. Parts(u, reg[u].n, reg[u].ki)'
    BY <1>1, <1>4, <1>9, <2>1
  <2>3. Reaches(u, reg[u].n)'
    BY <1>1, <1>4, <1>9, <2>1
  <2>4. pc'[u] \in {"assign", "assignKey"} => Harmless(u, reg[u].n, reg[u].kp)'
    BY <1>1, <1>4, <1>9, <2>1
  <2>5. pc'[u] \notin {"slot", "assign", "assignKey"}
        => leaf'[reg'[u].n].ikey[reg'[u].kp] = reg'[u].key
    BY <1>1, <1>2, <1>4, <2>1
  <2> QED
    BY <2>2, <2>3, <2>4, <2>5
<1>12. Halving(u)' =>
       /\ Reaches(u, reg[u].n)'
       /\ leaf'[reg'[u].n].perm.size = Width \/ Back(leaf'[reg'[u].n].perm) = 0
       /\ IF reg'[u].toRight
          THEN /\ Parts(u, reg[u].nr, reg[u].ki - Keep(u))' /\ Reaches(u, reg[u].nr)'
               /\ leaf'[reg'[u].nr].ikey[reg'[u].ki - Keep(u)'] = reg'[u].key
          ELSE Parts(u, reg[u].n, reg[u].ki)'
  <2> SUFFICES ASSUME Halving(u)
               PROVE
       /\ Reaches(u, reg[u].n)'
       /\ leaf'[reg'[u].n].perm.size = Width \/ Back(leaf'[reg'[u].n].perm) = 0
       /\ IF reg'[u].toRight
          THEN /\ Parts(u, reg[u].nr, reg[u].ki - Keep(u))' /\ Reaches(u, reg[u].nr)'
               /\ leaf'[reg'[u].nr].ikey[reg'[u].ki - Keep(u)'] = reg'[u].key
          ELSE Parts(u, reg[u].n, reg[u].ki)'
    BY OthersRoles
  <2>1. PICK k : k = Keep(u)
    OBVIOUS
  <2>2. PICK d : d = reg[u].ki - k
    OBVIOUS
  <2>3. reg'[u].ki - Keep(u)' = d
    BY <1>1, <1>6, <2>1, <2>2
  <2>4. /\ Reaches(u, reg[u].n)
        /\ leaf[reg[u].n].perm.size = Width \/ Back(leaf[reg[u].n].perm) = 0
        /\ IF reg[u].toRight
           THEN /\ Parts(u, reg[u].nr, d) /\ Reaches(u, reg[u].nr)
                /\ leaf[reg[u].nr].ikey[d] = reg[u].key
           ELSE Parts(u, reg[u].n, reg[u].ki)
    BY <1>1, <2>1, <2>2 DEF Fitting
  <2>5. Reaches(u, reg[u].n)'
        /\ (leaf'[reg'[u].n].perm.size = Width \/ Back(leaf'[reg'[u].n].perm) = 0)
    BY <1>1, <1>2, <1>5, <1>9, <2>4
  <2>6. ASSUME reg'[u].toRight
        PROVE  Parts(u, reg[u].nr, d)' /\ Reaches(u, reg[u].nr)'
               /\ leaf'[reg'[u].nr].ikey[d] = reg'[u].key
    <3>1. Parts(u, reg[u].nr, d) /\ Reaches(u, reg[u].nr) /\ leaf[reg[u].nr].ikey[d] = reg[u].key
      BY <1>1, <2>4, <2>6
    <3>2. leaf'[reg'[u].nr].ikey[d] = reg'[u].key
      BY <1>1, <1>3, <1>5, <3>1
    <3> QED
      BY <1>5, <1>10, <3>1, <3>2
  <2>7. ~reg'[u].toRight => Parts(u, reg[u].n, reg[u].ki)'
    BY <1>1, <1>5, <1>9, <2>4
  <2> QED
    BY <2>3, <2>5, <2>6, <2>7
<1>13. pc'[u] \in {"lock", "rightward", "decide"} => Reaches(u, reg[u].n)'
  BY <1>1, <1>7, <1>8 DEF Fitting
<1> QED
  BY <1>11, <1>12, <1>13 DEF Fitting
-----------------------------------------------------------------------------
(* What keeps Internode and Routing.                                        *)

TopStays == top'.ikey = top.ikey /\ top'.child = top.child

\* Nothing but the locks, the links and the values change.
StillMissing(t) ==
  /\ LeafIds' \ LeafIds \subseteq Unregistered' /\ freed \subseteq freed'
  /\ Pending(t) => reg[t].nr \in Unregistered'
  /\ Parting(t) => reg[t].n \in Unregistered'

LEMMA MissingStay ==
  ASSUME NEW t \in Threads, Only(t), StillMissing(t)
  PROVE  Unregistered \subseteq Unregistered' /\ Registered' \subseteq Registered
<1>1. \A u \in Threads \ {t} : (Pending(u)' <=> Pending(u)) /\ (Parting(u)' <=> Parting(u))
      /\ reg'[u] = reg[u]
  BY OthersRoles DEF Only, Pending, Parting
<1>2. ASSUME NEW u \in Threads, Pending(u) PROVE reg[u].nr \in Unregistered'
  <2>1. CASE u = t
    BY <1>2, <2>1 DEF StillMissing
  <2>2. CASE u # t
    BY <1>1, <1>2, <2>2 DEF Unregistered
  <2> QED
    BY <2>1, <2>2
<1>3. ASSUME NEW u \in Threads, Parting(u) PROVE reg[u].n \in Unregistered'
  <2>1. CASE u = t
    BY <1>3, <2>1 DEF StillMissing
  <2>2. CASE u # t
    BY <1>1, <1>3, <2>2 DEF Unregistered
  <2> QED
    BY <2>1, <2>2
<1>4. 1 \in Unregistered' /\ freed \subseteq Unregistered'
  BY DEF Unregistered, StillMissing
<1>5. Unregistered \subseteq Unregistered'
  BY <1>2, <1>3, <1>4 DEF Unregistered
<1> QED
  BY <1>5 DEF Registered, StillMissing

LEMMA InternodeKept ==
  ASSUME Base, Internode, NEW t \in Threads, Only(t), Grows, BoundsStay, TopStays, StillMissing(t)
  PROVE  Internode'
<1>1. Registered' \subseteq Registered /\ Registered \subseteq LeafIds \ {1}
      /\ Separators' = Separators
      /\ (Topped' <=> Topped)
  BY MissingStay DEF Registered, Unregistered, Separators, TopStays, Topped
<1>2. \A l \in LeafIds \ {1} : Bound(l)' = Bound(l)
  BY DEF Bound, BoundsStay
<1>3. \A i \in Separators : i + 1 \in 1..Len(top.child)
  BY DEF Base, Types, Separators, Topped, NoTop
<1>4. ASSUME NEW i \in Separators'
      PROVE  top'.child[i + 1] # 1 /\ Bound(top.child[i + 1])' = top'.ikey[i]
  <2>1. top.child[i + 1] # 1 /\ Bound(top.child[i + 1]) = top.ikey[i]
    BY <1>1 DEF Internode
  <2>2. top.child[i + 1] \in LeafIds
    BY <1>1, <1>3 DEF Base, Pointers
  <2>3. PICK l \in LeafIds : l = top.child[i + 1]
    BY <2>2
  <2>4. top'.child[i + 1] = l
    BY <2>3 DEF TopStays
  <2>5. Bound(top.child[i + 1])' = leaf'[l].ikey[0]
    BY <2>4 DEF Bound
  <2>6. leaf'[l].ikey[0] = leaf[l].ikey[0] /\ leaf[l].ikey[0] = top.ikey[i]
    BY <2>1, <2>3 DEF Bound, BoundsStay
  <2> QED
    BY <2>1, <2>3, <2>4, <2>5, <2>6 DEF TopStays
<1>5. Topped' => \E h \in [Registered' -> Separators'] : Named(h)'
  <2> SUFFICES ASSUME Topped PROVE \E h \in [Registered' -> Separators'] : Named(h)'
    BY <1>1
  <2>1. PICK h \in [Registered -> Separators] : Named(h)
    BY DEF Internode
  <2>2. PICK g \in [Registered' -> Separators'] : g = [l \in Registered' |-> h[l]]
    BY <1>1
  <2>3. \A l \in Registered' : g[l] = h[l] /\ l \in Registered
    BY <1>1, <2>2
  <2>4. \A l, m \in Registered' : g[l] = g[m] => l = m
    BY <2>1, <2>3 DEF Named
  <2>5. \A l \in Registered' : top'.ikey[g[l]] = Bound(l)'
    BY <1>1, <1>2, <2>1, <2>3 DEF Named, TopStays
  <2> QED
    BY <2>2, <2>4, <2>5 DEF Named
<1>6. Topped' => top'.child[1] = 1
  BY <1>1 DEF Internode, TopStays
<1>7. \A i, j \in Separators' : i < j => top'.ikey[i] <= top'.ikey[j]
  BY <1>1 DEF Internode, TopStays
<1> QED
  BY <1>4, <1>5, <1>6, <1>7 DEF Internode

Onward ==
  /\ top'.ver.vinsert \in Nat /\ top.ver.vinsert <= top'.ver.vinsert
  /\ top.ver.ins => top'.ver.ins \/ top.ver.vinsert < top'.ver.vinsert

LEMMA RoutingKept ==
  ASSUME Base, Routing, NEW t \in Threads, Only(t), Grows, BoundsStay, Onward, Led(t)'
  PROVE  Routing'
<1> SUFFICES ASSUME NEW u \in Threads \ {t} PROVE Led(u)'
  BY DEF Routing
<1>1. pc'[u] = pc[u] /\ reg'[u] = reg[u] /\ Led(u) /\ reg[u].iv \in Version /\ top.ver \in Version
  BY DEF Only, Routing, Base, Types, Local
<1>2. PICK a \in Nat, b \in Nat, c \in Nat : a = reg[u].iv.vinsert /\ b = top.ver.vinsert
                                             /\ c = top'.ver.vinsert
  BY <1>1 DEF Version, Onward
<1>3. pc[u] \in {"descend", "child"} => ~reg[u].iv.ins /\ a <= b
  BY <1>1, <1>2 DEF Led
<1>4. pc'[u] \in {"descend", "child"} => ~reg'[u].iv.ins /\ reg'[u].iv.vinsert <= top'.ver.vinsert
  BY <1>1, <1>2, <1>3 DEF Onward
<1>5. pc[u] = "child" => reg[u].n \in LeafIds
  BY AtLeaf DEF LeafPlaces, ReadPlaces
<1>6. pc[u] = "child" => a < b \/ top.ver.ins \/ Reaches(u, reg[u].n)
  BY <1>1, <1>2 DEF Led
<1>7. ASSUME pc[u] = "child", Reaches(u, reg[u].n) PROVE Reaches(u, reg[u].n)'
  BY <1>1, <1>5, <1>7 DEF Reaches, Bound, BoundsStay
<1>8. ASSUME pc[u] = "child", top.ver.ins PROVE top'.ver.ins \/ a < c
  BY <1>2, <1>3, <1>8 DEF Onward
<1>9. ASSUME pc[u] = "child", a < b PROVE a < c
  BY <1>2, <1>9 DEF Onward
<1>10. pc'[u] = "child"
       => reg'[u].iv.vinsert < top'.ver.vinsert \/ top'.ver.ins \/ Reaches(u, reg[u].n)'
  BY <1>1, <1>2, <1>6, <1>7, <1>8, <1>9
<1> QED
  BY <1>1, <1>4, <1>10 DEF Led
-----------------------------------------------------------------------------
(* Steps that leave the entries and the internode as they are.              *)

SameContents ==
  /\ LeafIds' = LeafIds /\ freed' = freed
  /\ \A l \in LeafIds : /\ leaf'[l].perm = leaf[l].perm /\ leaf'[l].ikey = leaf[l].ikey
                        /\ leaf'[l].ver.del = leaf[l].ver.del

SameAims(t) ==
  /\ Pending(t) => Pending(t)' /\ reg'[t].nr = reg[t].nr
  /\ Parting(t) => Parting(t)' /\ reg'[t].n = reg[t].n
  /\ Dying(t)' => Dying(t) /\ reg'[t].n = reg[t].n

LEMMA SameTop ==
  ASSUME Base, top' = top
  PROVE  TopStays /\ Onward
<1>1. top.ver \in Version
  BY DEF Base, Types
<1>2. PICK v \in Nat : v = top.ver.vinsert
  BY <1>1 DEF Version
<1>3. v <= v
  BY <1>2
<1>4. top.ver.vinsert <= top'.ver.vinsert
  BY <1>2, <1>3
<1> QED
  BY <1>2, <1>4 DEF TopStays, Onward

LEMMA CalmKeeps ==
  ASSUME Inv, Base', NEW t \in Threads, Only(t), Mine(t), SameContents, SameAims(t), TopStays,
         Onward,
         Condemned(t)', Fitting(t)', Led(t)'
  PROVE  Inv'
<1>1. Grows /\ BoundsStay
  BY DEF Grows, BoundsStay, SameContents
<1>2. Deletion'
  <2>1. \A l \in LeafIds' : leaf'[l].ver.del => leaf'[l].perm.size = 0
    BY DEF Inv, Deletion, SameContents
  <2>2. \A l \in LeafIds : leaf[l].ver.del => leaf'[l].ver.del
    BY DEF SameContents
  <2>3. freed' = freed /\ (Dying(t)' => Dying(t) /\ reg'[t].n = reg[t].n)
    BY DEF SameContents, SameAims
  <2> QED
    BY <1>1, <2>1, <2>2, <2>3, DeletionKept DEF Inv
<1>3. Ordered'
  BY OrderedAsBefore DEF Inv, SameContents
<1>4. Fits'
  BY <1>1, FitsKept DEF Inv
<1>5. StillMissing(t)
  <2>1. Pending(t) => reg[t].nr \in Unregistered'
    BY DEF SameAims, Unregistered
  <2>2. Parting(t) => reg[t].n \in Unregistered'
    BY DEF SameAims, Unregistered
  <2> QED
    BY <2>1, <2>2 DEF StillMissing, SameContents
<1>6. Internode'
  BY <1>1, <1>5, InternodeKept DEF Inv
<1>7. Routing'
  BY <1>1, RoutingKept DEF Inv
<1> QED
  BY <1>2, <1>3, <1>4, <1>6, <1>7 DEF Inv

\* t goes on with the leaves and the place it has.
GoesOn(t) ==
  /\ reg'[t].n = reg[t].n /\ reg'[t].nr = reg[t].nr /\ reg'[t].key = reg[t].key
  /\ reg'[t].ki = reg[t].ki /\ reg'[t].kp = reg[t].kp /\ reg'[t].toRight = reg[t].toRight
  /\ HoldsLeaf(t)' /\ ~Dying(t)' => HoldsLeaf(t) /\ ~Dying(t) /\ pc[t] # "decide"
  /\ HoldsOther(t)' => HoldsOther(t)
  /\ Dying(t)' => Dying(t)
  /\ Inserting(t)' => /\ Inserting(t)
                      /\ pc'[t] \in {"assign", "assignKey"} => pc[t] \in {"assign", "assignKey"}
                      /\ pc'[t] \in {"slot", "assign", "assignKey"} \/ pc[t] \notin {"slot", "assign", "assignKey"}
  /\ Halving(t)' => Halving(t)
  /\ Pending(t) => Pending(t)'
  /\ Parting(t) => Parting(t)'
  /\ pc'[t] \notin {"empty", "lock", "rightward", "decide", "descend", "child"}

\* The same, but the leaves may have got a parent, or lost one.
Continues(t) ==
  /\ reg'[t].n = reg[t].n /\ reg'[t].nr = reg[t].nr /\ reg'[t].key = reg[t].key
  /\ reg'[t].ki = reg[t].ki /\ reg'[t].kp = reg[t].kp /\ reg'[t].toRight = reg[t].toRight
  /\ HoldsLeaf(t)' /\ ~Dying(t)' => HoldsLeaf(t) /\ ~Dying(t) /\ pc[t] # "decide"
  /\ HoldsOther(t)' => HoldsOther(t)
  /\ Dying(t)' => Dying(t)
  /\ Inserting(t)' => /\ Inserting(t)
                      /\ pc'[t] \in {"assign", "assignKey"} => pc[t] \in {"assign", "assignKey"}
                      /\ pc'[t] \in {"slot", "assign", "assignKey"} \/ pc[t] \notin {"slot", "assign", "assignKey"}
  /\ Halving(t)' => Halving(t)
  /\ pc'[t] \notin {"empty", "lock", "rightward", "decide", "descend", "child"}

LEMMA ContinuingKeeps ==
  ASSUME Inv, NEW t \in Threads, Only(t), Own(t), SameContents, Continues(t)
  PROVE  Condemned(t)' /\ Fitting(t)' /\ Led(t)'
<1>3. (HoldsLeaf(t) => reg[t].n \in LeafIds) /\ (HoldsOther(t) => reg[t].nr \in LeafIds)
  BY HoldsIsLocked DEF Inv
<1>4. (Dying(t) => reg[t].n \in LeafIds) /\ (Inserting(t) => reg[t].n \in LeafIds)
  <2>1. Dying(t) \/ Inserting(t) => pc[t] \in LeafPlaces
    BY DEF Dying, Inserting, LeafPlaces, PutPlaces, RemovePlaces, DyingPlaces, BothPlaces
  <2> QED
    BY <2>1, AtLeaf DEF Inv
<1>5. Halving(t) => HoldsLeaf(t) /\ HoldsOther(t)
  BY HoldsIsLocked DEF Inv, HoldsOther
<1>6. Condemned(t) /\ Fitting(t)
  BY DEF Inv, Deletion, Fits
<1>7. Condemned(t)'
  <2>1. Dying(t)' => leaf'[reg'[t].n].ver.del /\ reg'[t].n \notin freed'
    BY <1>4, <1>6 DEF Continues, Condemned, SameContents
  <2>2. HoldsLeaf(t)' /\ ~Dying(t)' /\ pc'[t] # "decide" => ~leaf'[reg'[t].n].ver.del
    BY <1>3, <1>6 DEF Continues, Condemned, SameContents
  <2>3. HoldsOther(t)' => ~leaf'[reg'[t].nr].ver.del
    BY <1>3, <1>6 DEF Continues, Condemned, SameContents
  <2>4. pc'[t] # "empty"
    BY DEF Continues
  <2> QED
    BY <2>1, <2>2, <2>3, <2>4 DEF Condemned
<1>8. \A l \in LeafIds : \A k : Parts(t, l, k) => Parts(t, l, k)'
  BY DEF Parts, IkeyAt, Continues, SameContents
<1>9. \A l \in LeafIds : Reaches(t, l) => Reaches(t, l)'
  BY DEF Reaches, Bound, Continues, SameContents
<1>10. \A l \in LeafIds : \A k : Harmless(t, l, k) => Harmless(t, l, k)'
  BY DEF Harmless, Bound, Continues, SameContents
<1>11. Halving(t) => Keep(t)' = Keep(t)
  BY <1>3, <1>5 DEF Keep, Continues, SameContents
<1>12. Inserting(t)' =>
         /\ Parts(t, reg[t].n, reg[t].ki)' /\ Reaches(t, reg[t].n)'
         /\ pc'[t] \in {"assign", "assignKey"} => Harmless(t, reg[t].n, reg[t].kp)'
         /\ pc'[t] \notin {"slot", "assign", "assignKey"}
            => leaf'[reg'[t].n].ikey[reg'[t].kp] = reg'[t].key
  <2> SUFFICES ASSUME Inserting(t)'
               PROVE
         /\ Parts(t, reg[t].n, reg[t].ki)' /\ Reaches(t, reg[t].n)'
         /\ pc'[t] \in {"assign", "assignKey"} => Harmless(t, reg[t].n, reg[t].kp)'
         /\ pc'[t] \notin {"slot", "assign", "assignKey"}
            => leaf'[reg'[t].n].ikey[reg'[t].kp] = reg'[t].key
    OBVIOUS
  <2>1. PICK l, k, e : l \in LeafIds /\ l = reg[t].n /\ k = reg[t].ki /\ e = reg[t].kp
    BY <1>4 DEF Continues
  <2>2. reg'[t].n = l /\ reg'[t].ki = k /\ reg'[t].kp = e /\ reg'[t].key = reg[t].key
    BY <2>1 DEF Continues
  <2>3. /\ Parts(t, l, k) /\ Reaches(t, l)
        /\ pc'[t] \in {"assign", "assignKey"} => Harmless(t, l, e)
        /\ pc'[t] \notin {"slot", "assign", "assignKey"} => leaf[l].ikey[e] = reg[t].key
    BY <1>6, <2>1 DEF Fitting, Continues
  <2>4. Parts(t, l, k)' /\ Reaches(t, l)'
        /\ (pc'[t] \in {"assign", "assignKey"} => Harmless(t, l, e)')
    BY <2>1, <1>8, <1>9, <1>10, <2>3
  <2>5. pc'[t] \notin {"slot", "assign", "assignKey"} => leaf'[l].ikey[e] = reg'[t].key
    BY <2>1, <2>2, <2>3 DEF SameContents
  <2> QED
    BY <2>2, <2>4, <2>5
<1>13. Halving(t)' =>
       /\ Reaches(t, reg[t].n)'
       /\ leaf'[reg'[t].n].perm.size = Width \/ Back(leaf'[reg'[t].n].perm) = 0
       /\ IF reg'[t].toRight
          THEN /\ Parts(t, reg[t].nr, reg[t].ki - Keep(t))' /\ Reaches(t, reg[t].nr)'
               /\ leaf'[reg'[t].nr].ikey[reg'[t].ki - Keep(t)'] = reg'[t].key
          ELSE Parts(t, reg[t].n, reg[t].ki)'
  <2> SUFFICES ASSUME Halving(t)'
               PROVE
       /\ Reaches(t, reg[t].n)'
       /\ leaf'[reg'[t].n].perm.size = Width \/ Back(leaf'[reg'[t].n].perm) = 0
       /\ IF reg'[t].toRight
          THEN /\ Parts(t, reg[t].nr, reg[t].ki - Keep(t))' /\ Reaches(t, reg[t].nr)'
               /\ leaf'[reg'[t].nr].ikey[reg'[t].ki - Keep(t)'] = reg'[t].key
          ELSE Parts(t, reg[t].n, reg[t].ki)'
    OBVIOUS
  <2>0. Halving(t) /\ reg[t].n \in LeafIds /\ reg[t].nr \in LeafIds
    BY <1>3, <1>5 DEF Continues
  <2>1. PICK l, m, k, d : l \in LeafIds /\ m \in LeafIds /\ l = reg[t].n /\ m = reg[t].nr
                          /\ k = reg[t].ki /\ d = reg[t].ki - Keep(t)
    BY <2>0
  <2>2. /\ reg'[t].n = l /\ reg'[t].nr = m /\ reg'[t].ki = k /\ reg'[t].key = reg[t].key
        /\ reg'[t].toRight = reg[t].toRight /\ reg'[t].ki - Keep(t)' = d
    BY <1>11, <2>0, <2>1 DEF Continues
  <2>3. /\ Reaches(t, l)
        /\ leaf[l].perm.size = Width \/ Back(leaf[l].perm) = 0
        /\ IF reg[t].toRight
           THEN Parts(t, m, d) /\ Reaches(t, m) /\ leaf[m].ikey[d] = reg[t].key
           ELSE Parts(t, l, k)
    BY <1>6, <2>0, <2>1 DEF Fitting
  <2>4. Reaches(t, l)' /\ (leaf'[l].perm.size = Width \/ Back(leaf'[l].perm) = 0)
    BY <2>1, <1>9, <2>3 DEF SameContents
  <2>5. ASSUME reg[t].toRight PROVE Parts(t, m, d)' /\ Reaches(t, m)' /\ leaf'[m].ikey[d] = reg'[t].key
    BY <2>1, <1>8, <1>9, <2>2, <2>3, <2>5 DEF SameContents
  <2>6. ASSUME ~reg[t].toRight PROVE Parts(t, l, k)'
    BY <2>1, <1>8, <2>3, <2>6
  <2> QED
    BY <2>2, <2>4, <2>5, <2>6
<1>14. Fitting(t)'
  BY <1>12, <1>13 DEF Fitting, Continues
<1>15. Led(t)'
  BY DEF Led, Continues
<1> QED
  BY <1>7, <1>14, <1>15

LEMMA GoingOnKeeps ==
  ASSUME Inv, Base', NEW t \in Threads, Only(t), Own(t), SameContents, TopStays, Onward, GoesOn(t)
  PROVE  Inv'
<1>1. Mine(t)
  BY DEF Own, Mine
<1>2. SameAims(t)
  BY DEF GoesOn, SameAims
<1>3. Continues(t)
  BY DEF GoesOn, Continues
<1> QED
  BY <1>1, <1>2, <1>3, ContinuingKeeps, CalmKeeps
-----------------------------------------------------------------------------
(* The steps on locks, links and values keep the invariant.                 *)

LEMMA WrittenContents ==
  ASSUME NEW l, Writes(l), freed' = freed, SameKeys(l), leaf'[l].ver.del = leaf[l].ver.del
  PROVE  SameContents
  BY DEF Writes, SameKeys, SameContents

LEMMA UnwrittenContents ==
  ASSUME leaf' = leaf, freed' = freed, LeafIds' = LeafIds
  PROVE  SameContents
  BY DEF SameContents

LEMMA SameDel ==
  ASSUME NEW v \in Version
  PROVE  /\ Lock(v).del = v.del /\ Unlock(v).del = v.del /\ MarkInsert(v).del = v.del
            /\ MarkSplit(v).del = v.del
  BY DEF Version, Lock, Unlock, MarkInsert, MarkSplit, NewVersion

LEMMA KindHere ==
  ASSUME Base, NEW t \in Threads
  PROVE  (pc[t] \in PutPlaces => Puts(t) /\ ~Removes(t))
         /\ (pc[t] \in RemovePlaces => Removes(t) /\ ~Puts(t))
  BY DEF Base, Control, Controlled, Puts, Removes

\* The locals that say where t is working.
SamePlace(t) ==
  /\ reg'[t].n = reg[t].n /\ reg'[t].nr = reg[t].nr /\ reg'[t].key = reg[t].key
  /\ reg'[t].ki = reg[t].ki /\ reg'[t].kp = reg[t].kp /\ reg'[t].toRight = reg[t].toRight
  /\ reg'[t].kind = reg[t].kind

LEMMA AssignKeeps ==
  ASSUME Inv, Concurrent, NEW t \in Threads, Assign(t)
  PROVE  Inv'
<1>1. Base /\ Base' /\ Own(t)
  BY AssignBase DEF Inv
<1>2. Only(t) /\ top' = top /\ freed' = freed /\ pc[t] = "assign" /\ pc'[t] = "assignKey"
  BY <1>1, AssignEffect
<1>3. SamePlace(t)
  BY <1>1, AssignEffect DEF SamePlace
<1>4. SameContents
  <2>1. PICK l : l = reg[t].n
    OBVIOUS
  <2>2. Writes(l) /\ SameKeys(l) /\ leaf'[l].ver.del = leaf[l].ver.del
    BY <1>1, <2>1, AssignEffect DEF SameVer
  <2> QED
    BY <1>2, <2>2, WrittenContents
<1>5. (pc[t] \in PutPlaces => Puts(t) /\ ~Removes(t))
      /\ (pc[t] \in RemovePlaces => Removes(t) /\ ~Puts(t))
  BY <1>1, KindHere
<1>6. GoesOn(t)
  BY <1>2, <1>3, <1>5 DEF GoesOn, SamePlace, HoldsLeaf, HoldsOther, Dying, Halving, Halved,
       Inserting, Pending, Parting, Puts, Removes, PutPlaces, RemovePlaces, DyingPlaces
<1>7. TopStays /\ Onward
  BY <1>1, <1>2, SameTop
<1> QED
  BY <1>1, <1>2, <1>4, <1>6, <1>7, GoingOnKeeps

LEMMA StoreKeeps ==
  ASSUME Inv, Concurrent, NEW t \in Threads, Store(t)
  PROVE  Inv'
<1>1. Base /\ Base' /\ Own(t)
  BY StoreBase DEF Inv
<1>2. Only(t) /\ top' = top /\ freed' = freed /\ pc[t] = "store" /\ pc'[t] = "publish"
  BY <1>1, StoreEffect
<1>3. SamePlace(t)
  BY <1>1, StoreEffect DEF SamePlace
<1>4. SameContents
  <2>1. PICK l : l = reg[t].n
    OBVIOUS
  <2>2. Writes(l) /\ SameKeys(l) /\ leaf'[l].ver.del = leaf[l].ver.del
    BY <1>1, <2>1, StoreEffect DEF SameVer
  <2> QED
    BY <1>2, <2>2, WrittenContents
<1>5. (pc[t] \in PutPlaces => Puts(t) /\ ~Removes(t))
      /\ (pc[t] \in RemovePlaces => Removes(t) /\ ~Puts(t))
  BY <1>1, KindHere
<1>6. GoesOn(t)
  BY <1>2, <1>3, <1>5 DEF GoesOn, SamePlace, HoldsLeaf, HoldsOther, Dying, Halving, Halved,
       Inserting, Pending, Parting, Puts, Removes, PutPlaces, RemovePlaces, DyingPlaces
<1>7. TopStays /\ Onward
  BY <1>1, <1>2, SameTop
<1> QED
  BY <1>1, <1>2, <1>4, <1>6, <1>7, GoingOnKeeps

LEMMA LockNextKeeps ==
  ASSUME Inv, Concurrent, NEW t \in Threads, LockNext(t)
  PROVE  Inv'
<1>1. Base /\ Base' /\ Own(t)
  BY LockNextBase DEF Inv
<1>2. Only(t) /\ top' = top /\ freed' = freed /\ pc[t] = "lockNext" /\ pc'[t] = "linkBack"
  BY <1>1, LockNextEffect
<1>3. SamePlace(t)
  BY <1>1, LockNextEffect DEF SamePlace
<1>4. SameContents
  <2>1. PICK l : l = reg[t].n
    OBVIOUS
  <2>2. Writes(l) /\ SameKeys(l) /\ leaf'[l].ver.del = leaf[l].ver.del
    BY <1>1, <2>1, LockNextEffect DEF SameVer
  <2> QED
    BY <1>2, <2>2, WrittenContents
<1>5. (pc[t] \in PutPlaces => Puts(t) /\ ~Removes(t))
      /\ (pc[t] \in RemovePlaces => Removes(t) /\ ~Puts(t))
  BY <1>1, KindHere
<1>6. GoesOn(t)
  BY <1>2, <1>3, <1>5 DEF GoesOn, SamePlace, HoldsLeaf, HoldsOther, Dying, Halving, Halved,
       Inserting, Pending, Parting, Puts, Removes, PutPlaces, RemovePlaces, DyingPlaces
<1>7. TopStays /\ Onward
  BY <1>1, <1>2, SameTop
<1> QED
  BY <1>1, <1>2, <1>4, <1>6, <1>7, GoingOnKeeps

LEMMA LinkKeeps ==
  ASSUME Inv, Concurrent, NEW t \in Threads, Link(t)
  PROVE  Inv'
<1>1. Base /\ Base' /\ Own(t)
  BY LinkBase DEF Inv
<1>2. Only(t) /\ top' = top /\ freed' = freed /\ pc[t] = "link" /\ pc'[t] = "parent"
  BY <1>1, LinkEffect
<1>3. SamePlace(t)
  BY <1>1, LinkEffect DEF SamePlace
<1>4. SameContents
  <2>1. PICK l : l = reg[t].n
    OBVIOUS
  <2>2. Writes(l) /\ SameKeys(l) /\ leaf'[l].ver.del = leaf[l].ver.del
    BY <1>1, <2>1, LinkEffect DEF SameVer
  <2> QED
    BY <1>2, <2>2, WrittenContents
<1>5. (pc[t] \in PutPlaces => Puts(t) /\ ~Removes(t))
      /\ (pc[t] \in RemovePlaces => Removes(t) /\ ~Puts(t))
  BY <1>1, KindHere
<1>6. GoesOn(t)
  BY <1>2, <1>3, <1>5 DEF GoesOn, SamePlace, HoldsLeaf, HoldsOther, Dying, Halving, Halved,
       Inserting, Pending, Parting, Puts, Removes, PutPlaces, RemovePlaces, DyingPlaces
<1>7. TopStays /\ Onward
  BY <1>1, <1>2, SameTop
<1> QED
  BY <1>1, <1>2, <1>4, <1>6, <1>7, GoingOnKeeps

LEMMA MarkLeafSplitKeeps ==
  ASSUME Inv, Concurrent, NEW t \in Threads, MarkLeafSplit(t)
  PROVE  Inv'
<1>1. Base /\ Base' /\ Own(t)
  BY MarkLeafSplitBase DEF Inv
<1>2. Only(t) /\ top' = top /\ freed' = freed /\ pc[t] = "split" /\ pc'[t] = "shrink"
  BY <1>1, MarkLeafSplitEffect
<1>3. SamePlace(t)
  BY <1>1, MarkLeafSplitEffect DEF SamePlace
<1>4. SameContents
  <2>1. PICK l : l = reg[t].n
    OBVIOUS
  <2>2. Writes(l) /\ SameKeys(l)
    BY <1>1, <2>1, MarkLeafSplitEffect
  <2>3. leaf[l].ver \in Version
    BY <1>1, <2>2, LeafFacts DEF Writes
  <2>4. leaf'[l].ver.del = leaf[l].ver.del
    BY <1>1, <2>1, <2>3, MarkLeafSplitEffect, SameDel
  <2> QED
    BY <1>2, <2>2, <2>4, WrittenContents
<1>5. (pc[t] \in PutPlaces => Puts(t) /\ ~Removes(t))
      /\ (pc[t] \in RemovePlaces => Removes(t) /\ ~Puts(t))
  BY <1>1, KindHere
<1>6. GoesOn(t)
  BY <1>2, <1>3, <1>5 DEF GoesOn, SamePlace, HoldsLeaf, HoldsOther, Dying, Halving, Halved,
       Inserting, Pending, Parting, Puts, Removes, PutPlaces, RemovePlaces, DyingPlaces
<1>7. TopStays /\ Onward
  BY <1>1, <1>2, SameTop
<1> QED
  BY <1>1, <1>2, <1>4, <1>6, <1>7, GoingOnKeeps

LEMMA StampKeeps ==
  ASSUME Inv, Concurrent, NEW t \in Threads, Stamp(t)
  PROVE  Inv'
<1>1. Base /\ Base' /\ Own(t)
  BY StampBase DEF Inv
<1>2. Only(t) /\ top' = top /\ freed' = freed /\ pc[t] = "stamp" /\ pc'[t] = "unuse"
  BY <1>1, StampEffect
<1>3. SamePlace(t)
  BY <1>1, StampEffect DEF SamePlace
<1>4. SameContents
  <2>1. PICK l : l = reg[t].n
    OBVIOUS
  <2>2. Writes(l) /\ SameKeys(l)
    BY <1>1, <2>1, StampEffect
  <2>3. leaf[l].ver \in Version
    BY <1>1, <2>2, LeafFacts DEF Writes
  <2>4. leaf'[l].ver.del = leaf[l].ver.del
    BY <1>1, <2>1, <2>3, StampEffect, SameDel
  <2> QED
    BY <1>2, <2>2, <2>4, WrittenContents
<1>5. (pc[t] \in PutPlaces => Puts(t) /\ ~Removes(t))
      /\ (pc[t] \in RemovePlaces => Removes(t) /\ ~Puts(t))
  BY <1>1, KindHere
<1>6. GoesOn(t)
  BY <1>2, <1>3, <1>5 DEF GoesOn, SamePlace, HoldsLeaf, HoldsOther, Dying, Halving, Halved,
       Inserting, Pending, Parting, Puts, Removes, PutPlaces, RemovePlaces, DyingPlaces
<1>7. TopStays /\ Onward
  BY <1>1, <1>2, SameTop
<1> QED
  BY <1>1, <1>2, <1>4, <1>6, <1>7, GoingOnKeeps

LEMMA RaiseKeeps ==
  ASSUME Inv, Concurrent, NEW t \in Threads, Raise(t)
  PROVE  Inv'
<1>1. Base /\ Base' /\ Own(t)
  BY RaiseBase DEF Inv
<1>2. Only(t) /\ top' = top /\ freed' = freed /\ pc[t] = "raise" /\ pc'[t] = "checkKeeper"
  BY <1>1, RaiseEffect
<1>3. SamePlace(t)
  BY <1>1, RaiseEffect DEF SamePlace
<1>4. SameContents
  <2>1. PICK l : l = reg[t].aux
    OBVIOUS
  <2>2. Writes(l) /\ SameKeys(l) /\ leaf'[l].ver.del = leaf[l].ver.del
    BY <1>1, <2>1, RaiseEffect DEF SameVer
  <2> QED
    BY <1>2, <2>2, WrittenContents
<1>5. (pc[t] \in PutPlaces => Puts(t) /\ ~Removes(t))
      /\ (pc[t] \in RemovePlaces => Removes(t) /\ ~Puts(t))
  BY <1>1, KindHere
<1>6. GoesOn(t)
  BY <1>2, <1>3, <1>5 DEF GoesOn, SamePlace, HoldsLeaf, HoldsOther, Dying, Halving, Halved,
       Inserting, Pending, Parting, Puts, Removes, PutPlaces, RemovePlaces, DyingPlaces
<1>7. TopStays /\ Onward
  BY <1>1, <1>2, SameTop
<1> QED
  BY <1>1, <1>2, <1>4, <1>6, <1>7, GoingOnKeeps

LEMMA CheckKeeperKeeps ==
  ASSUME Inv, Concurrent, NEW t \in Threads, CheckKeeper(t)
  PROVE  Inv'
<1>1. Base /\ Base' /\ Own(t)
  BY CheckKeeperBase DEF Inv
<1>2. Only(t) /\ top' = top /\ freed' = freed /\ pc[t] = "checkKeeper"
      /\ pc'[t] \in {"unlinkNext", "readKeeper"}
  BY <1>1, CheckKeeperEffect
<1>3. SamePlace(t)
  BY <1>1, CheckKeeperEffect DEF SamePlace
<1>4. SameContents
  BY <1>1, CheckKeeperEffect, UnwrittenContents
<1>5. (pc[t] \in PutPlaces => Puts(t) /\ ~Removes(t))
      /\ (pc[t] \in RemovePlaces => Removes(t) /\ ~Puts(t))
  BY <1>1, KindHere
<1>6. GoesOn(t)
  BY <1>2, <1>3, <1>5 DEF GoesOn, SamePlace, HoldsLeaf, HoldsOther, Dying, Halving, Halved,
       Inserting, Pending, Parting, Puts, Removes, PutPlaces, RemovePlaces, DyingPlaces
<1>7. TopStays /\ Onward
  BY <1>1, <1>2, SameTop
<1> QED
  BY <1>1, <1>2, <1>4, <1>6, <1>7, GoingOnKeeps

LEMMA UnlinkNextKeeps ==
  ASSUME Inv, Concurrent, NEW t \in Threads, UnlinkNext(t)
  PROVE  Inv'
<1>1. Base /\ Base' /\ Own(t)
  BY UnlinkNextBase DEF Inv
<1>2. Only(t) /\ top' = top /\ freed' = freed /\ pc[t] = "unlinkNext" /\ pc'[t] = "readPrev"
  BY <1>1, UnlinkNextEffect
<1>3. SamePlace(t)
  BY <1>1, UnlinkNextEffect DEF SamePlace
<1>4. SameContents
  <2>1. PICK l : l = reg[t].n
    OBVIOUS
  <2>2. Writes(l) /\ SameKeys(l) /\ leaf'[l].ver.del = leaf[l].ver.del
    BY <1>1, <2>1, UnlinkNextEffect DEF SameVer
  <2> QED
    BY <1>2, <2>2, WrittenContents
<1>5. (pc[t] \in PutPlaces => Puts(t) /\ ~Removes(t))
      /\ (pc[t] \in RemovePlaces => Removes(t) /\ ~Puts(t))
  BY <1>1, KindHere
<1>6. GoesOn(t)
  BY <1>2, <1>3, <1>5 DEF GoesOn, SamePlace, HoldsLeaf, HoldsOther, Dying, Halving, Halved,
       Inserting, Pending, Parting, Puts, Removes, PutPlaces, RemovePlaces, DyingPlaces
<1>7. TopStays /\ Onward
  BY <1>1, <1>2, SameTop
<1> QED
  BY <1>1, <1>2, <1>4, <1>6, <1>7, GoingOnKeeps

LEMMA ReadKeeperKeeps ==
  ASSUME Inv, Concurrent, NEW t \in Threads, ReadKeeper(t)
  PROVE  Inv'
<1>1. Base /\ Base' /\ Own(t)
  BY ReadKeeperBase DEF Inv
<1>2. Only(t) /\ top' = top /\ freed' = freed /\ pc[t] = "readKeeper" /\ pc'[t] = "raise"
  BY <1>1, ReadKeeperEffect
<1>3. SamePlace(t)
  BY <1>1, ReadKeeperEffect DEF SamePlace
<1>4. SameContents
  BY <1>1, ReadKeeperEffect, UnwrittenContents
<1>5. (pc[t] \in PutPlaces => Puts(t) /\ ~Removes(t))
      /\ (pc[t] \in RemovePlaces => Removes(t) /\ ~Puts(t))
  BY <1>1, KindHere
<1>6. GoesOn(t)
  BY <1>2, <1>3, <1>5 DEF GoesOn, SamePlace, HoldsLeaf, HoldsOther, Dying, Halving, Halved,
       Inserting, Pending, Parting, Puts, Removes, PutPlaces, RemovePlaces, DyingPlaces
<1>7. TopStays /\ Onward
  BY <1>1, <1>2, SameTop
<1> QED
  BY <1>1, <1>2, <1>4, <1>6, <1>7, GoingOnKeeps

LEMMA ReadPrevKeeps ==
  ASSUME Inv, Concurrent, NEW t \in Threads, ReadPrev(t)
  PROVE  Inv'
<1>1. Base /\ Base' /\ Own(t)
  BY ReadPrevBase DEF Inv
<1>2. Only(t) /\ top' = top /\ freed' = freed /\ pc[t] = "readPrev" /\ pc'[t] = "markPrev"
  BY <1>1, ReadPrevEffect
<1>3. SamePlace(t)
  BY <1>1, ReadPrevEffect DEF SamePlace
<1>4. SameContents
  BY <1>1, ReadPrevEffect, UnwrittenContents
<1>5. (pc[t] \in PutPlaces => Puts(t) /\ ~Removes(t))
      /\ (pc[t] \in RemovePlaces => Removes(t) /\ ~Puts(t))
  BY <1>1, KindHere
<1>6. GoesOn(t)
  BY <1>2, <1>3, <1>5 DEF GoesOn, SamePlace, HoldsLeaf, HoldsOther, Dying, Halving, Halved,
       Inserting, Pending, Parting, Puts, Removes, PutPlaces, RemovePlaces, DyingPlaces
<1>7. TopStays /\ Onward
  BY <1>1, <1>2, SameTop
<1> QED
  BY <1>1, <1>2, <1>4, <1>6, <1>7, GoingOnKeeps

LEMMA UnlinkBackKeepsNext ==
  ASSUME Inv, Concurrent, NEW t \in Threads, UnlinkBack(t),
         leaf[reg[t].n].next # Null
  PROVE  Inv'
<1>1. Base /\ Base' /\ Own(t)
  BY UnlinkBackBaseNext DEF Inv
<1>2. Only(t) /\ top' = top /\ freed' = freed /\ pc[t] = "unlinkBack" /\ pc'[t] = "unlink"
  BY <1>1, UnlinkBackEffectNext
<1>3. SamePlace(t)
  BY <1>1, UnlinkBackEffectNext DEF SamePlace
<1>4. SameContents
  <2>1. PICK l : l = leaf[reg[t].n].next
    OBVIOUS
  <2>2. Writes(l) /\ SameKeys(l) /\ leaf'[l].ver.del = leaf[l].ver.del
    BY <1>1, <2>1, UnlinkBackEffectNext DEF SameVer
  <2> QED
    BY <1>2, <2>2, WrittenContents
<1>5. (pc[t] \in PutPlaces => Puts(t) /\ ~Removes(t))
      /\ (pc[t] \in RemovePlaces => Removes(t) /\ ~Puts(t))
  BY <1>1, KindHere
<1>6. GoesOn(t)
  BY <1>2, <1>3, <1>5 DEF GoesOn, SamePlace, HoldsLeaf, HoldsOther, Dying, Halving, Halved,
       Inserting, Pending, Parting, Puts, Removes, PutPlaces, RemovePlaces, DyingPlaces
<1>7. TopStays /\ Onward
  BY <1>1, <1>2, SameTop
<1> QED
  BY <1>1, <1>2, <1>4, <1>6, <1>7, GoingOnKeeps

LEMMA UnlinkBackKeepsLast ==
  ASSUME Inv, Concurrent, NEW t \in Threads, UnlinkBack(t),
         leaf[reg[t].n].next = Null
  PROVE  Inv'
<1>1. Base /\ Base' /\ Own(t)
  BY UnlinkBackBaseLast DEF Inv
<1>2. Only(t) /\ top' = top /\ freed' = freed /\ pc[t] = "unlinkBack" /\ pc'[t] = "unlink"
  BY <1>1, UnlinkBackEffectLast
<1>3. SamePlace(t)
  BY <1>1, UnlinkBackEffectLast DEF SamePlace
<1>4. SameContents
  BY <1>1, UnlinkBackEffectLast, UnwrittenContents
<1>5. (pc[t] \in PutPlaces => Puts(t) /\ ~Removes(t))
      /\ (pc[t] \in RemovePlaces => Removes(t) /\ ~Puts(t))
  BY <1>1, KindHere
<1>6. GoesOn(t)
  BY <1>2, <1>3, <1>5 DEF GoesOn, SamePlace, HoldsLeaf, HoldsOther, Dying, Halving, Halved,
       Inserting, Pending, Parting, Puts, Removes, PutPlaces, RemovePlaces, DyingPlaces
<1>7. TopStays /\ Onward
  BY <1>1, <1>2, SameTop
<1> QED
  BY <1>1, <1>2, <1>4, <1>6, <1>7, GoingOnKeeps

LEMMA MarkPrevKeepsDone ==
  ASSUME Inv, Concurrent, NEW t \in Threads, MarkPrev(t),
         leaf[reg[t].aux].next = reg[t].n /\ ~leaf[reg[t].aux].marked
  PROVE  Inv'
<1>1. Base /\ Base' /\ Own(t)
  BY MarkPrevBaseDone DEF Inv
<1>2. Only(t) /\ top' = top /\ freed' = freed /\ pc[t] = "markPrev" /\ pc'[t] = "unlinkBack"
  BY <1>1, MarkPrevEffectDone
<1>3. SamePlace(t)
  BY <1>1, MarkPrevEffectDone DEF SamePlace
<1>4. SameContents
  <2>1. PICK l : l = reg[t].aux
    OBVIOUS
  <2>2. Writes(l) /\ SameKeys(l) /\ leaf'[l].ver.del = leaf[l].ver.del
    BY <1>1, <2>1, MarkPrevEffectDone DEF SameVer
  <2> QED
    BY <1>2, <2>2, WrittenContents
<1>5. (pc[t] \in PutPlaces => Puts(t) /\ ~Removes(t))
      /\ (pc[t] \in RemovePlaces => Removes(t) /\ ~Puts(t))
  BY <1>1, KindHere
<1>6. GoesOn(t)
  BY <1>2, <1>3, <1>5 DEF GoesOn, SamePlace, HoldsLeaf, HoldsOther, Dying, Halving, Halved,
       Inserting, Pending, Parting, Puts, Removes, PutPlaces, RemovePlaces, DyingPlaces
<1>7. TopStays /\ Onward
  BY <1>1, <1>2, SameTop
<1> QED
  BY <1>1, <1>2, <1>4, <1>6, <1>7, GoingOnKeeps

LEMMA MarkPrevKeepsAgain ==
  ASSUME Inv, Concurrent, NEW t \in Threads, MarkPrev(t),
         ~(leaf[reg[t].aux].next = reg[t].n /\ ~leaf[reg[t].aux].marked)
  PROVE  Inv'
<1>1. Base /\ Base' /\ Own(t)
  BY MarkPrevBaseAgain DEF Inv
<1>2. Only(t) /\ top' = top /\ freed' = freed /\ pc[t] = "markPrev" /\ pc'[t] = "readPrev"
  BY <1>1, MarkPrevEffectAgain
<1>3. SamePlace(t)
  BY <1>1, MarkPrevEffectAgain DEF SamePlace
<1>4. SameContents
  BY <1>1, MarkPrevEffectAgain, UnwrittenContents
<1>5. (pc[t] \in PutPlaces => Puts(t) /\ ~Removes(t))
      /\ (pc[t] \in RemovePlaces => Removes(t) /\ ~Puts(t))
  BY <1>1, KindHere
<1>6. GoesOn(t)
  BY <1>2, <1>3, <1>5 DEF GoesOn, SamePlace, HoldsLeaf, HoldsOther, Dying, Halving, Halved,
       Inserting, Pending, Parting, Puts, Removes, PutPlaces, RemovePlaces, DyingPlaces
<1>7. TopStays /\ Onward
  BY <1>1, <1>2, SameTop
<1> QED
  BY <1>1, <1>2, <1>4, <1>6, <1>7, GoingOnKeeps

LEMMA UnlinkKeeps ==
  ASSUME Inv, Concurrent, NEW t \in Threads, Unlink(t)
  PROVE  Inv'
<1>1. Base /\ Base' /\ Own(t)
  BY UnlinkBase DEF Inv
<1>2. Only(t) /\ top' = top /\ freed' = freed /\ pc[t] = "unlink" /\ pc'[t] = "parent"
  BY <1>1, UnlinkEffect
<1>3. SamePlace(t)
  BY <1>1, UnlinkEffect DEF SamePlace
<1>4. SameContents
  <2>1. PICK l : l = reg[t].aux
    OBVIOUS
  <2>2. Writes(l) /\ SameKeys(l) /\ leaf'[l].ver.del = leaf[l].ver.del
    BY <1>1, <2>1, UnlinkEffect DEF SameVer
  <2> QED
    BY <1>2, <2>2, WrittenContents
<1>5. (pc[t] \in PutPlaces => Puts(t) /\ ~Removes(t))
      /\ (pc[t] \in RemovePlaces => Removes(t) /\ ~Puts(t))
  BY <1>1, KindHere
<1>6. GoesOn(t)
  BY <1>2, <1>3, <1>5 DEF GoesOn, SamePlace, HoldsLeaf, HoldsOther, Dying, Halving, Halved,
       Inserting, Pending, Parting, Puts, Removes, PutPlaces, RemovePlaces, DyingPlaces
<1>7. TopStays /\ Onward
  BY <1>1, <1>2, SameTop
<1> QED
  BY <1>1, <1>2, <1>4, <1>6, <1>7, GoingOnKeeps

LEMMA UnlockOtherKeeps ==
  ASSUME Inv, Concurrent, NEW t \in Threads, UnlockOther(t)
  PROVE  Inv'
<1>1. Base /\ Base' /\ Own(t)
  BY UnlockOtherBase DEF Inv
<1>2. Only(t) /\ top' = top /\ freed' = freed /\ pc[t] = "unlockOther"
      /\ pc'[t] \in {"unlockParent", "store"}
  BY <1>1, UnlockOtherEffect
<1>3. SamePlace(t)
  BY <1>1, UnlockOtherEffect DEF SamePlace
<1>4. SameContents
  <2>1. PICK l : l = reg[t].nr
    OBVIOUS
  <2>2. Writes(l) /\ SameKeys(l)
    BY <1>1, <2>1, UnlockOtherEffect
  <2>3. leaf[l].ver \in Version
    BY <1>1, <2>2, LeafFacts DEF Writes
  <2>4. leaf'[l].ver.del = leaf[l].ver.del
    BY <1>1, <2>1, <2>3, UnlockOtherEffect, SameDel
  <2> QED
    BY <1>2, <2>2, <2>4, WrittenContents
<1>5. (pc[t] \in PutPlaces => Puts(t) /\ ~Removes(t))
      /\ (pc[t] \in RemovePlaces => Removes(t) /\ ~Puts(t))
  BY <1>1, KindHere
<1>6. GoesOn(t)
  BY <1>2, <1>3, <1>5 DEF GoesOn, SamePlace, HoldsLeaf, HoldsOther, Dying, Halving, Halved,
       Inserting, Pending, Parting, Puts, Removes, PutPlaces, RemovePlaces, DyingPlaces
<1>7. TopStays /\ Onward
  BY <1>1, <1>2, SameTop
<1> QED
  BY <1>1, <1>2, <1>4, <1>6, <1>7, GoingOnKeeps

LEMMA UnlockDeletedKeeps ==
  ASSUME Inv, Concurrent, NEW t \in Threads, UnlockDeleted(t)
  PROVE  Inv'
<1>1. Base /\ Base' /\ Own(t)
  BY UnlockDeletedBase DEF Inv
<1>2. Only(t) /\ top' = top /\ freed' = freed /\ pc[t] = "unlockDeleted" /\ pc'[t] = "markParent"
  BY <1>1, UnlockDeletedEffect
<1>3. SamePlace(t)
  BY <1>1, UnlockDeletedEffect DEF SamePlace
<1>4. SameContents
  <2>1. PICK l : l = reg[t].n
    OBVIOUS
  <2>2. Writes(l) /\ SameKeys(l)
    BY <1>1, <2>1, UnlockDeletedEffect
  <2>3. leaf[l].ver \in Version
    BY <1>1, <2>2, LeafFacts DEF Writes
  <2>4. leaf'[l].ver.del = leaf[l].ver.del
    BY <1>1, <2>1, <2>3, UnlockDeletedEffect, SameDel
  <2> QED
    BY <1>2, <2>2, <2>4, WrittenContents
<1>5. (pc[t] \in PutPlaces => Puts(t) /\ ~Removes(t))
      /\ (pc[t] \in RemovePlaces => Removes(t) /\ ~Puts(t))
  BY <1>1, KindHere
<1>6. GoesOn(t)
  BY <1>2, <1>3, <1>5 DEF GoesOn, SamePlace, HoldsLeaf, HoldsOther, Dying, Halving, Halved,
       Inserting, Pending, Parting, Puts, Removes, PutPlaces, RemovePlaces, DyingPlaces
<1>7. TopStays /\ Onward
  BY <1>1, <1>2, SameTop
<1> QED
  BY <1>1, <1>2, <1>4, <1>6, <1>7, GoingOnKeeps

LEMMA LinkBackKeeps ==
  ASSUME Inv, Concurrent, NEW t \in Threads, LinkBack(t)
  PROVE  Inv'
<1>1. Base /\ Base' /\ Own(t)
  BY LinkBackBase DEF Inv
<1>2. Only(t) /\ top' = top /\ freed' = freed /\ pc[t] = "linkBack" /\ pc'[t] = "link"
  BY <1>1, LinkBackEffect
<1>3. SamePlace(t)
  BY <1>1, LinkBackEffect DEF SamePlace
<1>4. SameContents
  BY <1>1, LinkBackEffect DEF SameContents
<1>5. (pc[t] \in PutPlaces => Puts(t) /\ ~Removes(t))
      /\ (pc[t] \in RemovePlaces => Removes(t) /\ ~Puts(t))
  BY <1>1, KindHere
<1>6. GoesOn(t)
  BY <1>2, <1>3, <1>5 DEF GoesOn, SamePlace, HoldsLeaf, HoldsOther, Dying, Halving, Halved,
       Inserting, Pending, Parting, Puts, Removes, PutPlaces, RemovePlaces, DyingPlaces
<1>7. TopStays /\ Onward
  BY <1>1, <1>2, SameTop
<1> QED
  BY <1>1, <1>2, <1>4, <1>6, <1>7, GoingOnKeeps

\* The versions of the internode only grow.
LEMMA TopVersions ==
  ASSUME Base
  PROVE  /\ top'.ver = Lock(top.ver) => Onward
         /\ top'.ver = MarkInsert(top.ver) => Onward
         /\ top'.ver = Unlock(top.ver) /\ Concurrent => Onward
<1>1. top.ver \in Version /\ ~top.ver.spl
  BY DEF Base, Types, TopLocking
<1>2. PICK w \in Version : w = top.ver
  BY <1>1
<1>3. PICK v \in Nat, i \in BOOLEAN : v = w.vinsert /\ i = w.ins
  BY <1>2 DEF Version
<1>4. v <= v /\ v < v + 1 /\ v <= v + 1 /\ v + 1 \in Nat
  BY <1>3
<1>5. Lock(w).vinsert = v /\ Lock(w).ins = i
  BY <1>2, <1>3 DEF Version, Lock
<1>6. MarkInsert(w).vinsert = v /\ (i => MarkInsert(w).ins)
  BY <1>2, <1>3 DEF Version, MarkInsert
<1>7. Concurrent => Unlock(w).vinsert = IF i THEN v + 1 ELSE v
  BY <1>1, <1>2, <1>3 DEF Version, Unlock
<1> QED
  BY <1>2, <1>3, <1>4, <1>5, <1>6, <1>7 DEF Onward

LEMMA LockParentKeeps ==
  ASSUME Inv, Concurrent, NEW t \in Threads, LockParent(t)
  PROVE  Inv'
<1>1. Base /\ Base' /\ Own(t)
  BY LockParentBase DEF Inv
<1>2. Only(t) /\ freed' = freed /\ pc[t] = "parent"
      /\ pc'[t] = (IF reg[t].kind = "put" THEN "markParent" ELSE "unlockDeleted")
  BY <1>1, LockParentEffect
<1>3. SamePlace(t)
  BY <1>1, LockParentEffect DEF SamePlace, SameCaller
<1>4. SameContents
  BY <1>1, LockParentEffect, UnwrittenContents
<1>5. (Puts(t) /\ ~Removes(t)) \/ (Removes(t) /\ ~Puts(t))
  BY <1>1, <1>2 DEF Base, Control, Controlled, BothPlaces, Puts, Removes
<1>6. GoesOn(t)
  BY <1>2, <1>3, <1>5 DEF GoesOn, SamePlace, HoldsLeaf, HoldsOther, Dying, Halving, Halved,
       Inserting, Pending, Parting, Puts, Removes, PutPlaces, RemovePlaces, DyingPlaces
<1>7. TopStays /\ Onward
  BY <1>1, LockParentEffect, TopVersions DEF TopStays
<1> QED
  BY <1>1, <1>2, <1>4, <1>6, <1>7, GoingOnKeeps

LEMMA MarkParentKeeps ==
  ASSUME Inv, Concurrent, NEW t \in Threads, MarkParent(t)
  PROVE  Inv'
<1>1. Base /\ Base' /\ Own(t)
  BY MarkParentBase DEF Inv
<1>2. Only(t) /\ freed' = freed /\ pc[t] = "markParent"
      /\ pc'[t] = (IF reg[t].kind = "put" THEN "addChild" ELSE "dropChild")
  BY <1>1, MarkParentEffect
<1>3. SamePlace(t)
  BY <1>1, MarkParentEffect DEF SamePlace, SameCaller
<1>4. SameContents
  BY <1>1, MarkParentEffect, UnwrittenContents
<1>5. (Puts(t) /\ ~Removes(t)) \/ (Removes(t) /\ ~Puts(t))
  BY <1>1, <1>2 DEF Base, Control, Controlled, BothPlaces, Puts, Removes
<1>6. GoesOn(t)
  BY <1>2, <1>3, <1>5 DEF GoesOn, SamePlace, HoldsLeaf, HoldsOther, Dying, Halving, Halved,
       Inserting, Pending, Parting, Puts, Removes, PutPlaces, RemovePlaces, DyingPlaces
<1>7. TopStays /\ Onward
  BY <1>1, MarkParentEffect, TopVersions DEF TopStays
<1> QED
  BY <1>1, <1>2, <1>4, <1>6, <1>7, GoingOnKeeps

LEMMA UnlockParentKeeps ==
  ASSUME Inv, Concurrent, NEW t \in Threads, UnlockParent(t)
  PROVE  Inv'
<1>1. Base /\ Base' /\ Own(t)
  BY UnlockParentBase DEF Inv
<1>2. Only(t) /\ freed' = freed /\ pc[t] = "unlockParent"
      /\ pc'[t] = (IF reg[t].kind = "put" THEN "store" ELSE "free")
  BY <1>1, UnlockParentEffect
<1>3. SamePlace(t)
  BY <1>1, UnlockParentEffect DEF SamePlace, SameCaller
<1>4. SameContents
  BY <1>1, UnlockParentEffect, UnwrittenContents
<1>5. (Puts(t) /\ ~Removes(t)) \/ (Removes(t) /\ ~Puts(t))
  BY <1>1, <1>2 DEF Base, Control, Controlled, BothPlaces, Puts, Removes
<1>6. GoesOn(t)
  BY <1>2, <1>3, <1>5 DEF GoesOn, SamePlace, HoldsLeaf, HoldsOther, Dying, Halving, Halved,
       Inserting, Pending, Parting, Puts, Removes, PutPlaces, RemovePlaces, DyingPlaces
<1>7. TopStays /\ Onward
  BY <1>1, UnlockParentEffect, TopVersions DEF TopStays
<1> QED
  BY <1>1, <1>2, <1>4, <1>6, <1>7, GoingOnKeeps
-----------------------------------------------------------------------------
(* The steps that read keep the invariant.                                  *)

LEMMA FreeingKeeps ==
  ASSUME Inv, Base', NEW t \in Threads, Only(t), Own(t), SameContents, TopStays, Onward,
         ~Pending(t), ~Parting(t), Free(pc'[t], reg'[t]),
         pc'[t] \in {"lock", "rightward"} => reg'[t].n = 1 \/ leaf[reg'[t].n].ikey[0] <= reg'[t].key,
         Led(t)'
  PROVE  Inv'
<1>1. Mine(t) /\ OptLeaf' = OptLeaf
  BY DEF Own, Mine, SameContents, OptLeaf
<1>2. /\ ~HoldsLeaf(t)' /\ ~HoldsOther(t)' /\ ~Halving(t)' /\ ~Dying(t)' /\ ~Inserting(t)'
      /\ pc'[t] # "decide" /\ pc'[t] # "empty"
  BY <1>1, FreeKeeps DEF Inv
<1>3. SameAims(t)
  BY <1>2 DEF SameAims
<1>4. Condemned(t)'
  BY <1>2 DEF Condemned
<1>5. ASSUME pc'[t] \in {"lock", "rightward"} PROVE Reaches(t, reg[t].n)'
  <2>1. PICK l : l = reg'[t].n
    OBVIOUS
  <2>2. l \in LeafIds
    BY <1>1, <1>5, <2>1 DEF Free, OptLeaf, LeafPlaces, BothPlaces
  <2>3. l = 1 \/ leaf[l].ikey[0] <= reg'[t].key
    BY <1>5, <2>1
  <2>4. leaf'[l].ikey[0] = leaf[l].ikey[0]
    BY <2>2 DEF SameContents
  <2> QED
    BY <2>1, <2>3, <2>4 DEF Reaches, Bound
<1>6. Fitting(t)'
  BY <1>2, <1>5 DEF Fitting
<1> QED
  BY <1>1, <1>3, <1>4, <1>6, CalmKeeps

LEMMA ReadingKeeps ==
  ASSUME Inv, NEW t \in Threads, Reading(t),
         pc'[t] \in {"lock", "rightward"} => reg'[t].n = 1 \/ leaf[reg'[t].n].ikey[0] <= reg'[t].key,
         Led(t)'
  PROVE  Inv'
<1>1. Base /\ Base'
  BY ReadingKeepsBase DEF Inv
<1>2. leaf' = leaf /\ top' = top /\ freed' = freed /\ LeafIds' = LeafIds /\ pc[t] \in FreePlaces
  BY DEF Reading, LeafIds
<1>3. PICK p \in FreePlaces, r \in Local : Free(p, r) /\ Goes(t, p, r)
  BY DEF Reading
<1>4. Only(t) /\ pc'[t] = p /\ reg'[t] = r
  BY <1>1, <1>3, GoesFacts, FreePlaceFacts DEF Base
<1>5. Free(pc'[t], reg'[t])
  BY <1>3, <1>4
<1>6. Own(t) /\ SameContents
  BY <1>2, UnwrittenContents DEF Own
<1>7. TopStays /\ Onward
  BY <1>1, <1>2, SameTop
<1>8. ~Pending(t) /\ ~Parting(t)
  BY <1>2 DEF Pending, Parting, Halving, FreePlaces, ReadPlaces
<1> QED
  BY <1>1, <1>4, <1>5, <1>6, <1>7, <1>8, FreeingKeeps

\* A reading step that neither follows the internode nor looks for the leaf to lock.
Idly(t) == pc'[t] \notin {"lock", "rightward", "descend", "child"}

LEMMA IdlyReadingKeeps ==
  ASSUME Inv, NEW t \in Threads, Reading(t), Idly(t)
  PROVE  Inv'
<1>1. Led(t)'
  BY DEF Led, Idly
<1> QED
  BY <1>1, ReadingKeeps DEF Idly

LEMMA LookupIdly ==
  ASSUME Base, NEW t \in Threads, Lookup(t) \/ Begin(t) \/ BeginOneOf(t, ScanCalls)
  PROVE  Idly(t)
<1>1. pc \in [Threads -> Places]
  BY DEF Base, Types
<1>2. CASE ReadPermutation(t)
  BY <1>1, <1>2 DEF ReadPermutation, Goto, Idly
<1>3. CASE Probe(t)
  BY <1>1, <1>3 DEF Probe, Goto, Idly
<1>4. CASE ReadValue(t)
  BY <1>1, <1>4 DEF ReadValue, Goto, Idly
<1>5. CASE Check(t)
  BY <1>1, <1>5 DEF Check, Return, Goto, Idly
<1>6. CASE Advance(t)
  BY <1>1, <1>6 DEF Advance, Goto, Idly
<1>7. CASE Walk(t)
  BY <1>1, <1>7 DEF Walk, Goto, Idly
<1>8. CASE Walked(t)
  BY <1>1, <1>8 DEF Walked, Goto, Idly
<1>9. CASE Begin(t) \/ BeginOneOf(t, ScanCalls)
  BY <1>1, <1>9 DEF Begin, BeginOneOf, Goto, Idly
<1> QED
  BY <1>2, <1>3, <1>4, <1>5, <1>6, <1>7, <1>8, <1>9 DEF Lookup

ScanOwn == FindInitial \/ Resume \/ Lower \/ LowerEnds
           \/ ReadIkey \/ ReadEntry \/ Emit \/ LeafEnds \/ AdvanceLeaf \/ Stable \/ Hop

LEMMA ScanIdly ==
  ASSUME Base, ScanOwn \/ BeginScan
  PROVE  Idly(Scanner)
<1>1. pc \in [Threads -> Places] /\ Scanner \in Threads
  BY ScannerAssumption DEF Base, Types
<1>2. CASE FindInitial
  BY <1>1, <1>2 DEF FindInitial, ThenAt, Idly
<1>3. CASE Resume
  BY <1>1, <1>3 DEF Resume, ThenAt, Idly
<1>4. CASE Lower
  BY <1>1, <1>4 DEF Lower, ThenAt, At, Idly
<1>5. CASE LowerEnds
  BY <1>1, <1>5 DEF LowerEnds, ThenAt, Idly
<1>6. CASE ReadIkey
  BY <1>1, <1>6 DEF ReadIkey, ThenAt, Idly
<1>7. CASE ReadEntry
  BY <1>1, <1>7 DEF ReadEntry, ThenAt, Idly
<1>8. CASE Emit
  BY <1>1, <1>8 DEF Emit, ThenAt, Idly
<1>9. CASE LeafEnds
  BY <1>1, <1>9 DEF LeafEnds, ThenAt, Idly
<1>10. CASE AdvanceLeaf
  BY <1>1, <1>10 DEF AdvanceLeaf, ThenAt, Return, Goto, Idly
<1>11. CASE Stable
  BY <1>1, <1>11 DEF Stable, ThenAt, Idly
<1>12. CASE Hop
  BY <1>1, <1>12 DEF Hop, ThenAt, At, Idly
<1>13. CASE BeginScan
  BY <1>1, <1>13 DEF BeginScan, ThenAt, Idly
<1> QED
  BY <1>2, <1>3, <1>4, <1>5, <1>6, <1>7, <1>8, <1>9, <1>10, <1>11, <1>12, <1>13 DEF ScanOwn
-----------------------------------------------------------------------------
(* The steps that read the internode keep the invariant.                    *)

LEMMA NotDirtyTop ==
  ASSUME Base, Concurrent
  PROVE  /\ ~Dirty(top.ver) => ~top.ver.ins
         /\ Dirty(top.ver) => top.ver.ins
  BY DEF Base, TopLocking, Dirty

LEMMA AtTopVersion ==
  ASSUME Base, Concurrent, NEW t \in Threads, top' = top, ~Dirty(top.ver), reg'[t].iv = top.ver,
         pc'[t] # "child"
  PROVE  Led(t)'
<1>1. ~top.ver.ins /\ top.ver \in Version
  BY NotDirtyTop DEF Base, Types
<1>2. PICK v \in Nat : v = top.ver.vinsert
  BY <1>1 DEF Version
<1>3. v <= v
  BY <1>2
<1> QED
  BY <1>1, <1>2, <1>3 DEF Led

LEMMA RootKeeps ==
  ASSUME Inv, Concurrent, NEW t \in Threads, Root(t)
  PROVE  Inv'
<1>1. Base /\ Reading(t) /\ top' = top
  BY RootReads DEF Inv, Reading
<1>2. reg \in [Threads -> Local] /\ pc \in [Threads -> Places]
  BY <1>1 DEF Base, Types
<1>3. CASE leaf[1].ver.root
  <2>1. reg' = [reg EXCEPT ![t].n = 1, ![t].v = leaf[1].ver] /\ Found(t)
    BY <1>3 DEF Root
  <2>2. reg'[t].n = 1
    BY <1>2, <2>1 DEF Local
  <2>3. pc'[t] \notin {"descend", "child"}
    BY <1>2, <2>1 DEF Found, Goto
  <2>4. Led(t)'
    BY <2>3 DEF Led
  <2> QED
    BY <1>1, <2>2, <2>4, ReadingKeeps
<1>4. CASE ~leaf[1].ver.root
  <2>1. reg' = [reg EXCEPT ![t].iv = top.ver] /\ Goto(t, "descend") /\ ~Dirty(top.ver)
    BY <1>4 DEF Root
  <2>2. reg'[t].iv = top.ver
    BY <1>2, <2>1 DEF Local
  <2>3. pc'[t] = "descend"
    BY <1>2, <2>1 DEF Goto
  <2>4. Led(t)'
    BY <1>1, <2>1, <2>2, <2>3, AtTopVersion
  <2> QED
    BY <1>1, <2>3, <2>4, ReadingKeeps
<1> QED
  BY <1>3, <1>4

LEMMA AgainKeeps ==
  ASSUME Inv, Concurrent, NEW t \in Threads, Again(t)
  PROVE  Inv'
<1>1. Base /\ Reading(t) /\ top' = top
  BY AgainReads DEF Inv, Reading
<1>2. reg \in [Threads -> Local] /\ pc \in [Threads -> Places]
  BY <1>1 DEF Base, Types
<1>3. reg' = [reg EXCEPT ![t].iv = top.ver] /\ Goto(t, "descend") /\ ~Dirty(top.ver)
  BY DEF Again
<1>4. reg'[t].iv = top.ver
  BY <1>2, <1>3 DEF Local
<1>5. pc'[t] = "descend"
  BY <1>2, <1>3 DEF Goto
<1>6. Led(t)'
  BY <1>1, <1>3, <1>4, <1>5, AtTopVersion
<1> QED
  BY <1>1, <1>5, <1>6, ReadingKeeps

LEMMA DescendKeeps ==
  ASSUME Inv, Concurrent, NEW t \in Threads, Descend(t)
  PROVE  Inv'
<1>1. Base /\ Reading(t) /\ top' = top /\ leaf' = leaf /\ pc[t] = "descend"
  BY DescendReads DEF Inv, Reading, Descend
<1>2. reg \in [Threads -> Local] /\ pc \in [Threads -> Places]
  BY <1>1 DEF Base, Types
<1>3. PICK i \in 1..Len(top.child) : /\ ~Dirty(top.ver) => i = Upper(reg[t].key) + 1
                                     /\ reg' = [reg EXCEPT ![t].n = top.child[i]]
  BY DEF Descend
<1>4. pc'[t] = "child"
  BY <1>2 DEF Descend, Goto
<1>5. reg'[t].n = top.child[i] /\ reg'[t].key = reg[t].key /\ reg'[t].iv = reg[t].iv
  BY <1>2, <1>3 DEF Local
<1>6. reg[t].key \in Int /\ reg[t].iv \in Version
  BY <1>2 DEF Local
<1>7. ~reg[t].iv.ins /\ reg[t].iv.vinsert <= top.ver.vinsert
  BY <1>1 DEF Inv, Routing, Led
<1>8. ASSUME ~Dirty(top.ver) PROVE Reaches(t, reg[t].n)'
  <2>1. PICK k \in Nat, len \in Nat : k = Upper(reg[t].key) /\ len = Len(top.ikey) /\ k \in 0..len
                                      /\ i = k + 1
    BY <1>1, <1>3, <1>6, <1>8, UpperType
  <2>2. CASE k = 0
    <3>1. Topped
      BY <1>3, <2>1, <2>2 DEF Topped
    <3>2. top.child[1] = 1
      BY <3>1 DEF Inv, Internode
    <3> QED
      BY <1>5, <2>1, <2>2, <3>2 DEF Reaches
  <2>3. CASE k # 0
    <3>1. k \in Separators /\ k \in 1..Len(top.ikey)
      BY <2>1, <2>3 DEF Separators
    <3>2. Ascending(top.ikey)
      BY DEF Inv, Internode, Separators, Ascending
    <3>3. top.ikey[k] <= reg[t].key
      <4>1. k <= Upper(reg[t].key)
        BY <2>1
      <4> QED
        BY <1>1, <1>6, <3>1, <3>2, <4>1, UpperFacts
    <3>4. Bound(top.child[k + 1]) = top.ikey[k]
      BY <3>1 DEF Inv, Internode
    <3>5. leaf[top.child[i]].ikey[0] <= reg[t].key
      BY <2>1, <3>3, <3>4 DEF Bound
    <3> QED
      BY <1>1, <1>5, <3>5 DEF Reaches, Bound
  <2> QED
    BY <2>2, <2>3
<1>9. Dirty(top.ver) => top.ver.ins
  BY <1>1, NotDirtyTop
<1>10. Led(t)'
  BY <1>1, <1>4, <1>5, <1>7, <1>8, <1>9 DEF Led
<1> QED
  BY <1>1, <1>4, <1>10, ReadingKeeps

LEMMA ChildKeeps ==
  ASSUME Inv, Concurrent, NEW t \in Threads, Child(t)
  PROVE  Inv'
<1>1. Base /\ Reading(t) /\ top' = top /\ leaf' = leaf /\ pc[t] = "child"
  BY ChildReads DEF Inv, Reading, Child
<1>2. reg \in [Threads -> Local] /\ pc \in [Threads -> Places]
  BY <1>1 DEF Base, Types
<1>3. pc'[t] \notin {"descend", "child", "rightward"}
  BY <1>2 DEF Child, Found, Goto
<1>4. Led(t)'
  BY <1>3 DEF Led
<1>5. ASSUME pc'[t] = "lock" PROVE reg'[t].n = 1 \/ leaf[reg'[t].n].ikey[0] <= reg'[t].key
  <2>1. ~Changed(reg[t].iv, top.ver) /\ reg' = [reg EXCEPT ![t].v = Here(t).ver]
    BY <1>2, <1>5 DEF Child, Goto
  <2>2. reg'[t].n = reg[t].n /\ reg'[t].key = reg[t].key
    BY <1>2, <2>1 DEF Local
  <2>3. reg[t].iv \in Version /\ top.ver \in Version
    BY <1>1, <1>2 DEF Local, Base, Types
  <2>4. PICK a \in Version, b \in Version : a = reg[t].iv /\ b = top.ver
    BY <2>3
  <2>5. [a EXCEPT !.lock = FALSE] = [b EXCEPT !.lock = FALSE]
    BY <2>1, <2>4 DEF Changed
  <2>6. a.vinsert = b.vinsert /\ a.ins = b.ins
    <3>1. [a EXCEPT !.lock = FALSE].vinsert = a.vinsert
          /\ [b EXCEPT !.lock = FALSE].vinsert = b.vinsert
      BY DEF Version
    <3>2. [a EXCEPT !.lock = FALSE].ins = a.ins /\ [b EXCEPT !.lock = FALSE].ins = b.ins
      BY DEF Version
    <3> QED
      BY <2>5, <3>1, <3>2
  <2>7. /\ ~a.ins
        /\ a.vinsert < b.vinsert \/ b.ins \/ Reaches(t, reg[t].n)
    BY <1>1, <2>4 DEF Inv, Routing, Led
  <2>8. a.vinsert \in Nat
    BY DEF Version
  <2>9. Reaches(t, reg[t].n)
    BY <2>6, <2>7, <2>8
  <2> QED
    BY <2>2, <2>9 DEF Reaches, Bound
<1> QED
  BY <1>1, <1>3, <1>4, <1>5, ReadingKeeps

LEMMA RightwardKeeps ==
  ASSUME Inv, Concurrent, NEW t \in Threads, Rightward(t)
  PROVE  Inv'
<1>1. Base /\ Reading(t) /\ pc[t] = "rightward"
  BY RightwardReads DEF Inv, Rightward
<1>2. reg \in [Threads -> Local] /\ pc \in [Threads -> Places]
  BY <1>1 DEF Base, Types
<1>3. Reaches(t, reg[t].n)
  BY <1>1 DEF Inv, Fits, Fitting
<1>4. reg[t].key \in Int
  BY <1>2 DEF Local
<1>5. CASE ~Deleted(Here(t).ver) /\ Beyond(t)
  <2>1. reg' = [reg EXCEPT ![t].v = Here(t).ver, ![t].n = Here(t).next] /\ pc' = pc
    BY <1>5 DEF Rightward
  <2>2. reg'[t].n = leaf[reg[t].n].next /\ reg'[t].key = reg[t].key
    BY <1>2, <2>1 DEF Local, Here
  <2>3. pc'[t] = "rightward"
    BY <1>1, <2>1
  <2>4. Led(t)'
    BY <2>3 DEF Led
  <2>5. reg[t].key >= leaf[leaf[reg[t].n].next].ikey[0] /\ leaf[reg[t].n].next # Null
    BY <1>5 DEF Beyond, Bound, Here
  <2>6. leaf[reg[t].n].next \in LeafIds
    <3>1. reg[t].n \in LeafIds
      BY <1>1, AtLeaf DEF LeafPlaces, BothPlaces
    <3> QED
      BY <1>1, <2>5, <3>1 DEF Base, Pointers, OptLeaf
  <2>7. PICK b \in Int : b = leaf[leaf[reg[t].n].next].ikey[0]
    <3>1. leaf[leaf[reg[t].n].next].ikey \in [Slots -> Int]
      BY <1>1, <2>6, LeafFacts
    <3>2. 0 \in Slots
      BY WidthType
    <3> QED
      BY <3>1, <3>2
  <2>8. leaf[reg'[t].n].ikey[0] <= reg'[t].key
    BY <1>4, <2>2, <2>5, <2>7
  <2> QED
    BY <1>1, <2>4, <2>8, ReadingKeeps
<1>6. CASE ~(~Deleted(Here(t).ver) /\ Beyond(t))
  <2>1. reg' = [reg EXCEPT ![t].v = Here(t).ver] /\ Goto(t, "lock")
    BY <1>6 DEF Rightward
  <2>2. reg'[t].n = reg[t].n /\ reg'[t].key = reg[t].key
    BY <1>2, <2>1 DEF Local
  <2>3. pc'[t] = "lock"
    BY <1>2, <2>1 DEF Goto
  <2>4. Led(t)'
    BY <2>3 DEF Led
  <2>5. reg'[t].n = 1 \/ leaf[reg'[t].n].ikey[0] <= reg'[t].key
    BY <1>3, <2>2 DEF Reaches, Bound
  <2> QED
    BY <1>1, <2>4, <2>5, ReadingKeeps
<1> QED
  BY <1>5, <1>6
-----------------------------------------------------------------------------
(* The decisions under the lock of a leaf keep the invariant.               *)

LEMMA PositionFacts ==
  ASSUME Base, NEW l \in LeafIds, NEW k \in Int, Sorted(l), Find(l, k) = -1
  PROVE  \A i \in 1..leaf[l].perm.size :
           IF i <= Position(l, k) THEN IkeyAt(l, i) < k ELSE k < IkeyAt(l, i)
<1>0. leaf[l].perm \in Permuters /\ leaf[l].ikey \in [Slots -> Int]
  BY LeafFacts
<1>1. PICK z \in Nat : z = leaf[l].perm.size
  BY <1>0, PermType, WidthType
<1>2. \A i \in 1..z : IkeyAt(l, i) \in Int
  <2> SUFFICES ASSUME NEW i \in 1..z PROVE IkeyAt(l, i) \in Int
    OBVIOUS
  <2>1. i \in 1..Width
    BY <1>0, <1>1, PermType, WidthType
  <2>2. leaf[l].perm.order[i] \in Slots
    BY <1>0, <2>1, PermType
  <2> QED
    BY <1>0, <2>2 DEF IkeyAt
<1> DEFINE low == {i \in 1..z : IkeyAt(l, i) < k}
<1>3. Position(l, k) = Cardinality(low)
  BY <1>1 DEF Position
<1>4. low \in SUBSET (1..z)
  OBVIOUS
<1>5. \A i \in low : \A j \in 1..z : j < i => j \in low
  <2> SUFFICES ASSUME NEW i \in low, NEW j \in 1..z, j < i PROVE j \in low
    OBVIOUS
  <2>1. IkeyAt(l, j) < IkeyAt(l, i)
    BY <1>1 DEF Sorted
  <2> QED
    BY <1>2, <2>1
<1>6. \A i \in 1..z : i \in low <=> IkeyAt(l, i) < k
  OBVIOUS
<1> HIDE DEF low
<1>7. Cardinality(low) \in 0..z /\ low = 1..Cardinality(low)
  BY <1>4, <1>5, CountBelow
<1>8. \A i \in 1..z : i <= Cardinality(low) <=> i \in low
  BY <1>7
<1>9. \A i \in 1..z : IkeyAt(l, i) # k
  BY <1>1, FindFacts
<1>10. \A i \in 1..z : ~(IkeyAt(l, i) < k) => k < IkeyAt(l, i)
  BY <1>2, <1>9
<1> QED
  BY <1>1, <1>3, <1>6, <1>8, <1>10

LEMMA DeletedMeanwhileKeeps ==
  ASSUME Inv, Concurrent, NEW t \in Threads, DeletedMeanwhile(t)
  PROVE  Inv'
<1>1. Base /\ Base' /\ Own(t) /\ Free(pc'[t], reg'[t])
  BY DeletedMeanwhileBase DEF Inv
<1>2. Only(t) /\ top' = top /\ freed' = freed /\ pc[t] = "decide" /\ pc'[t] = "root"
  BY <1>1, DeletedMeanwhileEffect
<1>3. SameContents
  <2>1. PICK l : l = reg[t].n
    OBVIOUS
  <2>2. Writes(l) /\ SameKeys(l) /\ leaf'[l].ver = Unlock(leaf[l].ver)
    BY <1>1, <2>1, DeletedMeanwhileEffect
  <2>3. leaf[l].ver \in Version
    BY <1>1, <2>2, LeafFacts DEF Writes
  <2>4. leaf'[l].ver.del = leaf[l].ver.del
    BY <2>2, <2>3, SameDel
  <2> QED
    BY <1>2, <2>2, <2>4, WrittenContents
<1>4. TopStays /\ Onward
  BY <1>1, <1>2, SameTop
<1>5. ~Pending(t) /\ ~Parting(t)
  BY <1>2 DEF Pending, Parting, Halving
<1>6. Led(t)'
  BY <1>2 DEF Led
<1> QED
  BY <1>1, <1>2, <1>3, <1>4, <1>5, <1>6, FreeingKeeps

LEMMA UpdateValueKeeps ==
  ASSUME Inv, Concurrent, NEW t \in Threads, UpdateValue(t)
  PROVE  Inv'
<1>1. Base /\ Base' /\ Own(t) /\ Free(pc'[t], reg'[t])
  BY UpdateValueBase DEF Inv
<1>2. Only(t) /\ top' = top /\ freed' = freed /\ pc[t] = "decide" /\ pc'[t] = "done"
  BY <1>1, UpdateValueEffect
<1>3. SameContents
  <2>1. PICK l : l = reg[t].n
    OBVIOUS
  <2>2. Writes(l) /\ SameKeys(l) /\ leaf'[l].ver = Unlock(leaf[l].ver)
    BY <1>1, <2>1, UpdateValueEffect
  <2>3. leaf[l].ver \in Version
    BY <1>1, <2>2, LeafFacts DEF Writes
  <2>4. leaf'[l].ver.del = leaf[l].ver.del
    BY <2>2, <2>3, SameDel
  <2> QED
    BY <1>2, <2>2, <2>4, WrittenContents
<1>4. TopStays /\ Onward
  BY <1>1, <1>2, SameTop
<1>5. ~Pending(t) /\ ~Parting(t)
  BY <1>2 DEF Pending, Parting, Halving
<1>6. Led(t)'
  BY <1>2 DEF Led
<1> QED
  BY <1>1, <1>2, <1>3, <1>4, <1>5, <1>6, FreeingKeeps

LEMMA RemoveAbsentKeeps ==
  ASSUME Inv, Concurrent, NEW t \in Threads, RemoveAbsent(t)
  PROVE  Inv'
<1>1. Base /\ Base' /\ Own(t) /\ Free(pc'[t], reg'[t])
  BY RemoveAbsentBase DEF Inv
<1>2. Only(t) /\ top' = top /\ freed' = freed /\ pc[t] = "decide" /\ pc'[t] = "done"
  BY <1>1, RemoveAbsentEffect
<1>3. SameContents
  <2>1. PICK l : l = reg[t].n
    OBVIOUS
  <2>2. Writes(l) /\ SameKeys(l) /\ leaf'[l].ver = Unlock(leaf[l].ver)
    BY <1>1, <2>1, RemoveAbsentEffect
  <2>3. leaf[l].ver \in Version
    BY <1>1, <2>2, LeafFacts DEF Writes
  <2>4. leaf'[l].ver.del = leaf[l].ver.del
    BY <2>2, <2>3, SameDel
  <2> QED
    BY <1>2, <2>2, <2>4, WrittenContents
<1>4. TopStays /\ Onward
  BY <1>1, <1>2, SameTop
<1>5. ~Pending(t) /\ ~Parting(t)
  BY <1>2 DEF Pending, Parting, Halving
<1>6. Led(t)'
  BY <1>2 DEF Led
<1> QED
  BY <1>1, <1>2, <1>3, <1>4, <1>5, <1>6, FreeingKeeps

LEMMA KeepFirstLeafKeeps ==
  ASSUME Inv, Concurrent, NEW t \in Threads, KeepFirstLeaf(t)
  PROVE  Inv'
<1>1. Base /\ Base' /\ Own(t) /\ Free(pc'[t], reg'[t])
  BY KeepFirstLeafBase DEF Inv
<1>2. Only(t) /\ top' = top /\ freed' = freed /\ pc[t] = "empty" /\ pc'[t] = "done"
  BY <1>1, KeepFirstLeafEffect
<1>3. SameContents
  <2>1. PICK l : l = reg[t].n
    OBVIOUS
  <2>2. Writes(l) /\ SameKeys(l) /\ leaf'[l].ver = Unlock(leaf[l].ver)
    BY <1>1, <2>1, KeepFirstLeafEffect
  <2>3. leaf[l].ver \in Version
    BY <1>1, <2>2, LeafFacts DEF Writes
  <2>4. leaf'[l].ver.del = leaf[l].ver.del
    BY <2>2, <2>3, SameDel
  <2> QED
    BY <1>2, <2>2, <2>4, WrittenContents
<1>4. TopStays /\ Onward
  BY <1>1, <1>2, SameTop
<1>5. ~Pending(t) /\ ~Parting(t)
  BY <1>2 DEF Pending, Parting, Halving
<1>6. Led(t)'
  BY <1>2 DEF Led
<1> QED
  BY <1>1, <1>2, <1>3, <1>4, <1>5, <1>6, FreeingKeeps

LEMMA WalkRightKeeps ==
  ASSUME Inv, Concurrent, NEW t \in Threads, WalkRight(t)
  PROVE  Inv'
<1>1. Base /\ Base' /\ Own(t) /\ Free(pc'[t], reg'[t])
  BY WalkRightBase DEF Inv
<1>2. Only(t) /\ top' = top /\ freed' = freed /\ pc[t] = "decide" /\ pc'[t] = "rightward"
  BY <1>1, WalkRightEffect
<1>3. SameContents
  <2>1. PICK l : l = reg[t].n
    OBVIOUS
  <2>2. Writes(l) /\ SameKeys(l) /\ leaf'[l].ver = Unlock(leaf[l].ver)
    BY <1>1, <2>1, WalkRightEffect
  <2>3. leaf[l].ver \in Version
    BY <1>1, <2>2, LeafFacts DEF Writes
  <2>4. leaf'[l].ver.del = leaf[l].ver.del
    BY <2>2, <2>3, SameDel
  <2> QED
    BY <1>2, <2>2, <2>4, WrittenContents
<1>4. TopStays /\ Onward
  BY <1>1, <1>2, SameTop
<1>5. ~Pending(t) /\ ~Parting(t)
  BY <1>2 DEF Pending, Parting, Halving
<1>6. Led(t)'
  BY <1>2 DEF Led
<1>7. leaf[reg'[t].n].ikey[0] <= reg'[t].key
  <2>1. reg'[t].n = leaf[reg[t].n].next /\ reg'[t].key = reg[t].key
    BY <1>1, WalkRightEffect
  <2>2. reg[t].key >= leaf[leaf[reg[t].n].next].ikey[0] /\ leaf[reg[t].n].next # Null
    BY DEF WalkRight, MovedRight, Beyond, Bound, Here
  <2>3. leaf[reg[t].n].next \in LeafIds /\ reg[t].key \in Int
    <3>1. reg[t].n \in LeafIds /\ reg[t].key \in Int
      BY <1>1, <1>2, AtLeaf DEF LeafPlaces, BothPlaces, Local
    <3> QED
      BY <1>1, <2>2, <3>1 DEF Base, Pointers, OptLeaf
  <2>4. PICK b \in Int : b = leaf[leaf[reg[t].n].next].ikey[0]
    <3>1. leaf[leaf[reg[t].n].next].ikey \in [Slots -> Int]
      BY <1>1, <2>3, LeafFacts
    <3>2. 0 \in Slots
      BY WidthType
    <3> QED
      BY <3>1, <3>2
  <2> QED
    BY <2>1, <2>2, <2>3, <2>4
<1> QED
  BY <1>1, <1>2, <1>3, <1>4, <1>5, <1>6, <1>7, FreeingKeeps

\* t locks its leaf, or finds its place in it.
LEMMA SettlingKeeps ==
  ASSUME Inv, Base', NEW t \in Threads, Only(t), Mine(t), SameContents, TopStays, Onward,
         pc[t] \in {"lock", "decide", "slot"}, pc'[t] \in {"decide", "slot", "assign", "stamp"},
         pc'[t] # "decide" => ~leaf[reg[t].n].ver.del, reg'[t].n = reg[t].n, reg[t].n \in LeafIds,
         reg'[t].nr = Null, Fitting(t)'
  PROVE  Inv'
<1>1. ~Pending(t) /\ ~Parting(t)
  BY DEF Pending, Parting, Halving
<1>2. ~Dying(t)' /\ ~HoldsOther(t)'
  BY DEF Dying, DyingPlaces, HoldsOther, Halving, Halved
<1>3. SameAims(t)
  BY <1>1, <1>2 DEF SameAims
<1>4. Condemned(t)'
  BY <1>2 DEF Condemned, SameContents
<1>5. Led(t)'
  BY DEF Led
<1> QED
  BY <1>3, <1>4, <1>5, CalmKeeps

LEMMA LockLeafKeeps ==
  ASSUME Inv, Concurrent, NEW t \in Threads, LockLeaf(t)
  PROVE  Inv'
<1>1. Base /\ Base' /\ Mine(t)
  BY LockLeafBase DEF Inv
<1>2. Only(t) /\ top' = top /\ freed' = freed /\ pc[t] = "lock" /\ pc'[t] = "decide"
      /\ reg'[t] = reg[t]
  BY <1>1, LockLeafEffect
<1>3. PICK l \in LeafIds : l = reg[t].n
  BY <1>1, <1>2, AtLeaf DEF LeafPlaces, BothPlaces
<1>4. SameContents
  <2>1. Writes(l) /\ SameKeys(l) /\ leaf'[l].ver = Lock(leaf[l].ver)
    BY <1>1, <1>3, LockLeafEffect
  <2>2. leaf[l].ver \in Version
    BY <1>1, LeafFacts
  <2>3. leaf'[l].ver.del = leaf[l].ver.del
    BY <2>1, <2>2, SameDel
  <2> QED
    BY <1>2, <2>1, <2>3, WrittenContents
<1>5. TopStays /\ Onward
  BY <1>1, <1>2, SameTop
<1>6. reg[t].nr = Null
  BY <1>1, <1>2 DEF Base, Control, Controlled, HoldsOther, Halving, Halved
<1>7. Fitting(t)'
  <2>1. Reaches(t, l)
    BY <1>2, <1>3 DEF Inv, Fits, Fitting
  <2>2. Reaches(t, l)'
    BY <1>2, <1>4, <2>1 DEF Reaches, Bound, SameContents
  <2>3. ~Inserting(t)' /\ ~Halving(t)'
    BY <1>2 DEF Inserting, Halving
  <2> QED
    BY <1>2, <1>3, <2>2, <2>3 DEF Fitting
<1> QED
  BY <1>1, <1>2, <1>3, <1>4, <1>5, <1>6, <1>7, SettlingKeeps

LEMMA BeginInsertKeeps ==
  ASSUME Inv, Concurrent, NEW t \in Threads, BeginInsert(t)
  PROVE  Inv'
<1>1. Base /\ Base' /\ Own(t) /\ Mine(t)
  BY BeginInsertBase DEF Inv, Own, Mine
<1>2. /\ Only(t) /\ top' = top /\ freed' = freed /\ pc[t] = "decide" /\ pc'[t] = "slot"
      /\ reg'[t].n = reg[t].n /\ reg'[t].nr = reg[t].nr /\ reg'[t].key = reg[t].key
      /\ reg'[t].ki = Position(reg[t].n, reg[t].key)
  BY <1>1, BeginInsertEffect
<1>3. PICK l \in LeafIds : l = reg[t].n
  BY <1>1, <1>2, AtLeaf DEF LeafPlaces, BothPlaces
<1>4. SameContents
  <2>1. /\ Writes(l) /\ SameKeys(l)
        /\ leaf'[l].ver = IF leaf[l].mod = "remove" THEN MarkInsert(leaf[l].ver) ELSE leaf[l].ver
    BY <1>1, <1>3, BeginInsertEffect
  <2>2. leaf[l].ver \in Version
    BY <1>1, LeafFacts
  <2>3. leaf'[l].ver.del = leaf[l].ver.del
    BY <2>1, <2>2, SameDel
  <2> QED
    BY <1>2, <2>1, <2>3, WrittenContents
<1>5. TopStays /\ Onward
  BY <1>1, <1>2, SameTop
<1>6. reg[t].nr = Null /\ reg[t].key \in Int
  <2>1. reg[t].nr = Null
    BY <1>1, <1>2, DecidedFree
  <2>2. reg[t] \in Local
    BY <1>1, <1>2, DecidedFree
  <2> QED
    BY <2>1, <2>2 DEF Local
<1>7. ~leaf[reg[t].n].ver.del /\ Find(l, reg[t].key) = -1
  BY <1>3 DEF BeginInsert, Responsible, Deleted, Here
<1>8. Fitting(t)'
  <2>1. Reaches(t, l)
    BY <1>2, <1>3 DEF Inv, Fits, Fitting
  <2>2. Reaches(t, l)'
    BY <1>2, <1>4, <2>1 DEF Reaches, Bound, SameContents
  <2>3. Sorted(l)
    BY DEF Inv, Ordered
  <2>4. PICK k : k = Position(l, reg[t].key)
    OBVIOUS
  <2>5. \A i \in 1..leaf[l].perm.size : IF i <= k THEN IkeyAt(l, i) < reg[t].key ELSE reg[t].key < IkeyAt(l, i)
    BY <1>1, <1>6, <1>7, <2>3, <2>4, PositionFacts
  <2>6. Parts(t, l, k)'
    BY <1>2, <1>4, <2>5 DEF Parts, IkeyAt, SameContents
  <2>7. ~Halving(t)'
    BY <1>2 DEF Halving
  <2>8. reg'[t].n = l /\ reg'[t].ki = k
    BY <1>2, <1>3, <2>4
  <2> QED
    BY <1>2, <2>2, <2>6, <2>7, <2>8 DEF Fitting
<1> QED
  BY <1>1, <1>2, <1>3, <1>4, <1>5, <1>6, <1>7, <1>8, SettlingKeeps

LEMMA BeginRemoveKeeps ==
  ASSUME Inv, Concurrent, NEW t \in Threads, BeginRemove(t)
  PROVE  Inv'
<1>1. Base /\ Base' /\ Own(t) /\ Mine(t)
  BY BeginRemoveBase DEF Inv, Own, Mine
<1>2. /\ Only(t) /\ top' = top /\ freed' = freed /\ pc[t] = "decide" /\ pc'[t] = "stamp"
      /\ reg'[t].n = reg[t].n /\ reg'[t].nr = reg[t].nr /\ reg'[t].kind = reg[t].kind
  BY <1>1, BeginRemoveEffect
<1>3. PICK l \in LeafIds : l = reg[t].n
  BY <1>1, <1>2, AtLeaf DEF LeafPlaces, BothPlaces
<1>4. SameContents
  BY <1>1, BeginRemoveEffect, UnwrittenContents
<1>5. TopStays /\ Onward
  BY <1>1, <1>2, SameTop
<1>6. reg[t].nr = Null
  BY <1>1, <1>2, DecidedFree
<1>7. ~leaf[reg[t].n].ver.del
  BY <1>3 DEF BeginRemove, Responsible, Deleted, Here
<1>8. Fitting(t)'
  BY <1>2 DEF Fitting, Inserting, Halving
<1> QED
  BY <1>1, <1>2, <1>3, <1>4, <1>5, <1>6, <1>7, <1>8, SettlingKeeps

LEMMA InsertHereKeeps ==
  ASSUME Inv, Concurrent, NEW t \in Threads, InsertHere(t)
  PROVE  Inv'
<1>1. Base /\ Base' /\ Own(t) /\ Mine(t)
  BY InsertHereBase DEF Inv, Own, Mine
<1>2. /\ Only(t) /\ top' = top /\ freed' = freed /\ pc[t] = "slot" /\ pc'[t] = "assign"
      /\ reg'[t].n = reg[t].n /\ reg'[t].nr = reg[t].nr /\ reg'[t].key = reg[t].key
         /\ reg'[t].ki = reg[t].ki
      /\ reg'[t].kp = Back(leaf[reg[t].n].perm) /\ leaf' = leaf
  BY <1>1, InsertHereEffect
<1>3. PICK l \in LeafIds : l = reg[t].n
  BY <1>1, <1>2, AtLeaf DEF LeafPlaces, PutPlaces
<1>4. SameContents
  BY <1>1, InsertHereEffect, UnwrittenContents
<1>5. TopStays /\ Onward
  BY <1>1, <1>2, SameTop
<1>6. reg[t].nr = Null
  BY <1>1, <1>2 DEF Base, Control, Controlled, HoldsOther, Halving, Halved
<1>7. ~leaf[reg[t].n].ver.del
  BY <1>2 DEF Inv, Deletion, Condemned, HoldsLeaf, PutPlaces, Dying, DyingPlaces
<1>8. Fitting(t)'
  <2>1. PICK k, e : k = reg[t].ki /\ e = Back(leaf[l].perm)
    OBVIOUS
  <2>2. Parts(t, l, k) /\ Reaches(t, l)
    BY <1>2, <1>3, <2>1 DEF Inv, Fits, Fitting, Inserting
  <2>3. Parts(t, l, k)' /\ Reaches(t, l)'
    BY <1>2, <2>2 DEF Parts, IkeyAt, Reaches, Bound
  <2>4. leaf[l].prev = Null => l = 1
    BY <1>1 DEF Base, Pointers
  <2>5. Harmless(t, l, e)
    BY <1>3, <2>1, <2>4 DEF InsertHere, Usable, Here, Harmless
  <2>6. Harmless(t, l, e)'
    BY <1>2, <2>5 DEF Harmless, Bound
  <2>7. reg'[t].n = l /\ reg'[t].ki = k /\ reg'[t].kp = e /\ ~Halving(t)'
    BY <1>2, <1>3, <2>1 DEF Halving
  <2> QED
    BY <1>2, <2>3, <2>6, <2>7 DEF Fitting
<1> QED
  BY <1>1, <1>2, <1>3, <1>4, <1>5, <1>6, <1>7, <1>8, SettlingKeeps

LEMMA MarkLeafDeletedKeeps ==
  ASSUME Inv, Concurrent, NEW t \in Threads, MarkLeafDeleted(t)
  PROVE  Inv'
<1>1. Base /\ Base' /\ Own(t) /\ Mine(t)
  BY MarkLeafDeletedBase DEF Inv, Own, Mine
<1>2. /\ Only(t) /\ top' = top /\ freed' = freed /\ pc[t] = "empty" /\ pc'[t] = "readKeeper"
         /\ reg'[t] = reg[t]
  BY <1>1, MarkLeafDeletedEffect
<1>3. PICK l \in LeafIds : l = reg[t].n
  BY <1>1, <1>2, AtLeaf DEF LeafPlaces, RemovePlaces
<1>4. /\ Writes(l) /\ SameKeys(l) /\ leaf'[l].ver = MarkDeleted(leaf[l].ver)
  BY <1>1, <1>3, MarkLeafDeletedEffect
<1>5. /\ LeafIds' = LeafIds /\ Grows /\ BoundsStay
      /\ \A m \in LeafIds : leaf'[m].perm = leaf[m].perm /\ leaf'[m].ikey = leaf[m].ikey
      /\ \A m \in LeafIds \ {l} : leaf'[m] = leaf[m]
  BY <1>4 DEF Writes, SameKeys, Grows, BoundsStay
<1>6. TopStays /\ Onward
  BY <1>1, <1>2, SameTop
<1>7. Condemned(t) /\ ~Dying(t) /\ ~Pending(t) /\ ~Parting(t)
  BY <1>2 DEF Inv, Deletion, Dying, DyingPlaces, Pending, Halving, Parting
<1>8. ~leaf[l].ver.del /\ leaf[l].perm.size = 0 /\ l \notin freed
  <2>1. ~leaf[l].ver.del /\ leaf[l].perm.size = 0
    BY <1>2, <1>3, <1>7 DEF Condemned, HoldsLeaf
  <2> QED
    BY <2>1 DEF Inv, Deletion
<1>9. leaf'[l].ver.del
  <2>1. leaf[l].ver \in Version
    BY <1>1, LeafFacts
  <2> QED
    BY <1>4, <2>1 DEF MarkDeleted, Version
<1>10. Condemned(t)'
  BY <1>2, <1>3, <1>8, <1>9 DEF Condemned, HoldsOther, Halving, Halved, Dying, DyingPlaces
<1>11. Deletion'
  <2>1. \A m \in LeafIds : leaf[m].ver.del => leaf'[m].ver.del
    BY <1>5, <1>9
  <2>2. \A m \in LeafIds' : leaf'[m].ver.del => leaf'[m].perm.size = 0
    BY <1>5, <1>8 DEF Inv, Deletion
  <2>3. reg'[t].n \in LeafIds /\ ~leaf[reg'[t].n].ver.del
    BY <1>2, <1>3, <1>8
  <2> QED
    BY <1>1, <1>2, <1>5, <1>10, <2>1, <2>2, <2>3, DeletionKept DEF Inv
<1>12. Ordered'
  BY <1>1, <1>5, OrderedAsBefore DEF Inv
<1>13. Fits'
  <2>1. Fitting(t)'
    BY <1>2 DEF Fitting, Inserting, Halving
  <2> QED
    BY <1>1, <1>2, <1>5, <2>1, FitsKept DEF Inv
<1>14. StillMissing(t)
  BY <1>2, <1>5, <1>7 DEF StillMissing
<1>15. Internode'
  BY <1>1, <1>2, <1>5, <1>6, <1>14, InternodeKept DEF Inv
<1>16. Routing'
  <2>1. Led(t)'
    BY <1>2 DEF Led
  <2> QED
    BY <1>1, <1>2, <1>5, <1>6, <2>1, RoutingKept DEF Inv
<1> QED
  BY <1>1, <1>11, <1>12, <1>13, <1>15, <1>16 DEF Inv
-----------------------------------------------------------------------------
(* The assignment of a key keeps the invariant.                             *)

\* t changes the entries of the leaf l, but not its bound.
LEMMA WorkKeeps ==
  ASSUME Inv, Base', NEW t \in Threads, Only(t), Mine(t), NEW l \in LeafIds, Writes(l),
         top' = top, freed' = freed, BoundsStay, leaf'[l].ver.del = leaf[l].ver.del,
         Sorted(l)', AboveBound(l)', leaf[l].ver.del => leaf'[l].perm.size = 0,
         SameAims(t), Condemned(t)', Fitting(t)', Led(t)'
  PROVE  Inv'
<1>1. /\ LeafIds' = LeafIds /\ Grows
      /\ \A m \in LeafIds \ {l} : leaf'[m] = leaf[m]
  BY DEF Writes, Grows
<1>2. TopStays /\ Onward
  BY SameTop DEF Inv
<1>3. Deletion'
  <2>1. \A m \in LeafIds : leaf[m].ver.del => leaf'[m].ver.del
    BY <1>1
  <2>2. \A m \in LeafIds' : leaf'[m].ver.del => leaf'[m].perm.size = 0
    BY <1>1 DEF Inv, Deletion
  <2>3. Dying(t)' => Dying(t) /\ reg'[t].n = reg[t].n
    BY DEF SameAims
  <2> QED
    BY <1>1, <2>1, <2>2, <2>3, DeletionKept DEF Inv
<1>4. Ordered'
  BY <1>1, OrderedKept DEF Inv
<1>5. Fits'
  BY <1>1, FitsKept DEF Inv
<1>6. StillMissing(t)
  <2>1. Pending(t) => reg[t].nr \in Unregistered'
    BY DEF SameAims, Unregistered
  <2>2. Parting(t) => reg[t].n \in Unregistered'
    BY DEF SameAims, Unregistered
  <2> QED
    BY <1>1, <2>1, <2>2 DEF StillMissing
<1>7. Internode'
  BY <1>1, <1>2, <1>6, InternodeKept DEF Inv
<1>8. Routing'
  BY <1>1, <1>2, RoutingKept DEF Inv
<1> QED
  BY <1>3, <1>4, <1>5, <1>7, <1>8 DEF Inv

LEMMA NotInUse ==
  ASSUME NEW p \in Permuters, p.size < Width, NEW i \in 1..p.size
  PROVE  p.order[i] # Back(p)
<1>1. i \in 1..Width /\ Width \in 1..Width /\ i # Width
  BY PermType, WidthType
<1> QED
  BY <1>1, PermType DEF Back

LEMMA AssignKeyKeeps ==
  ASSUME Inv, Concurrent, NEW t \in Threads, AssignKey(t)
  PROVE  Inv'
<1>1. Base /\ Base' /\ Own(t) /\ Mine(t)
  BY AssignKeyBase DEF Inv, Own, Mine
<1>2. /\ Only(t) /\ top' = top /\ freed' = freed /\ pc[t] = "assignKey"
         /\ pc'[t] \in {"store", "unlockOther"}
      /\ reg'[t] = reg[t] /\ (pc'[t] = "unlockOther" => reg[t].nr # Null)
  BY <1>1, AssignKeyEffect
<1>3. PICK l \in LeafIds : l = reg[t].n
  BY <1>1, <1>2, AtLeaf DEF LeafPlaces, PutPlaces
<1>4. PICK k, e, key : k = reg[t].ki /\ e = reg[t].kp /\ key = reg[t].key
  OBVIOUS
<1>5. /\ Writes(l) /\ SameVer(l) /\ leaf'[l].perm = leaf[l].perm
      /\ leaf'[l].ikey = [leaf[l].ikey EXCEPT ![e] = key]
  BY <1>1, <1>3, <1>4, AssignKeyEffect
<1>6. /\ leaf[l].perm \in Permuters /\ leaf[l].ikey \in [Slots -> Int]
  BY <1>1, LeafFacts
<1>7. leaf[l].perm.size < Width /\ e = Back(leaf[l].perm) /\ e \in Slots
  <2>1. leaf[l].perm.size < Width /\ e = Back(leaf[l].perm)
    BY <1>1, <1>2, <1>3, <1>4 DEF Base, Placing, Placed, Inserting
  <2> QED
    BY <1>6, <2>1, PermType
<1>8. Parts(t, l, k) /\ Reaches(t, l) /\ Harmless(t, l, e)
  BY <1>2, <1>3, <1>4 DEF Inv, Fits, Fitting, Inserting
<1>9. \A i \in 1..leaf[l].perm.size : leaf'[l].ikey[leaf[l].perm.order[i]] = leaf[l].ikey[leaf[l].perm.order[i]]
  <2> SUFFICES ASSUME NEW i \in 1..leaf[l].perm.size
               PROVE  leaf'[l].ikey[leaf[l].perm.order[i]] = leaf[l].ikey[leaf[l].perm.order[i]]
    OBVIOUS
  <2>1. leaf[l].perm.order[i] # e
    BY <1>6, <1>7, NotInUse
  <2>2. i \in 1..Width
    BY <1>6, PermType, WidthType
  <2>3. leaf[l].perm.order[i] \in Slots
    BY <1>6, <2>2, PermType
  <2> QED
    BY <1>5, <1>6, <2>1, <2>3
<1>10. l # 1 => leaf'[l].ikey[0] = leaf[l].ikey[0]
  <2> SUFFICES ASSUME l # 1 PROVE leaf'[l].ikey[0] = leaf[l].ikey[0]
    OBVIOUS
  <2>1. 0 \in Slots
    BY WidthType
  <2>2. e = 0 => leaf[l].ikey[0] = key
    BY <1>4, <1>8 DEF Harmless, Bound
  <2> QED
    BY <1>5, <1>6, <2>1, <2>2
<1>11. BoundsStay
  BY <1>5, <1>10 DEF BoundsStay, Writes
<1>12. Sorted(l)' /\ AboveBound(l)'
  <2>1. Sorted(l) /\ AboveBound(l)
    BY DEF Inv, Ordered
  <2>2. Sorted(l)'
    BY <1>5, <1>9, <2>1 DEF Sorted, IkeyAt
  <2>3. AboveBound(l)'
    BY <1>5, <1>9, <1>10, <2>1 DEF AboveBound, IkeyAt, Bound
  <2> QED
    BY <2>2, <2>3
<1>13. leaf'[l].ver.del = leaf[l].ver.del /\ (leaf[l].ver.del => leaf'[l].perm.size = 0)
  BY <1>5 DEF SameVer, Inv, Deletion
<1>14. SameAims(t)
  BY <1>2 DEF SameAims, Pending, Parting, Halving, Dying, DyingPlaces
<1>15. Condemned(t)'
  <2>1. ~leaf[l].ver.del /\ (HoldsOther(t) => ~leaf[reg[t].nr].ver.del /\ reg[t].nr \in LeafIds)
    <3>1. Condemned(t)
      BY DEF Inv, Deletion
    <3>2. HoldsLeaf(t) /\ ~Dying(t)
      BY <1>2 DEF HoldsLeaf, PutPlaces, Dying, DyingPlaces
    <3>3. HoldsOther(t) => reg[t].nr \in LeafIds
      BY <1>1, HoldsIsLocked
    <3> QED
      BY <1>2, <1>3, <3>1, <3>2, <3>3 DEF Condemned
  <2>2. HoldsOther(t)' => HoldsOther(t)
    BY <1>2 DEF HoldsOther, Halving, Halved
  <2>3. ~Dying(t)'
    BY <1>2 DEF Dying, DyingPlaces
  <2>4. \A m \in LeafIds : leaf'[m].ver.del = leaf[m].ver.del
    BY <1>5, <1>13 DEF Writes
  <2> QED
    BY <1>2, <1>3, <2>1, <2>2, <2>3, <2>4 DEF Condemned
<1>16. Fitting(t)'
  <2>1. Parts(t, l, k)'
    BY <1>2, <1>5, <1>8, <1>9 DEF Parts, IkeyAt
  <2>2. Reaches(t, l)'
    BY <1>2, <1>8, <1>10 DEF Reaches, Bound
  <2>3. leaf'[l].ikey[e] = key
    BY <1>5, <1>6, <1>7
  <2>4. reg'[t].n = l /\ reg'[t].ki = k /\ reg'[t].kp = e /\ reg'[t].key = key /\ ~Halving(t)'
    BY <1>2, <1>3, <1>4 DEF Halving
  <2> QED
    BY <1>2, <2>1, <2>2, <2>3, <2>4 DEF Fitting
<1>17. Led(t)'
  BY <1>2 DEF Led
<1> QED
  BY <1>1, <1>2, <1>5, <1>11, <1>12, <1>13, <1>14, <1>15, <1>16, <1>17, WorkKeeps

LEMMA InsertExchangedKeeps ==
  ASSUME Inv, Concurrent, NEW t \in Threads, InsertExchanged(t)
  PROVE  Inv'
<1>1. Base /\ Base' /\ Own(t) /\ Mine(t)
  BY InsertExchangedBase DEF Inv, Own, Mine
<1>2. /\ Only(t) /\ top' = top /\ freed' = freed /\ pc[t] = "slot" /\ pc'[t] = "assign"
      /\ reg'[t].n = reg[t].n /\ reg'[t].nr = reg[t].nr /\ reg'[t].key = reg[t].key
         /\ reg'[t].ki = reg[t].ki
      /\ reg'[t].kp = Back(OtherBack(leaf[reg[t].n].perm))
  BY <1>1, InsertExchangedEffect
<1>3. PICK l \in LeafIds : l = reg[t].n
  BY <1>1, <1>2, AtLeaf DEF LeafPlaces, PutPlaces
<1>4. PICK k, e : k = reg[t].ki /\ e = Back(OtherBack(leaf[l].perm))
  OBVIOUS
<1>5. /\ Writes(l) /\ SameVer(l) /\ leaf'[l].perm = OtherBack(leaf[l].perm)
         /\ leaf'[l].ikey = leaf[l].ikey
  BY <1>1, <1>3, <1>4, InsertExchangedEffect
<1>6. /\ leaf[l].perm \in Permuters /\ leaf[l].perm.size < Width /\ e # 0
  BY <1>1, <1>3, <1>4, LeafFacts DEF InsertExchanged, Here
<1>7. /\ leaf'[l].perm.size = leaf[l].perm.size
      /\ \A i \in 1..leaf[l].perm.size : leaf'[l].perm.order[i] = leaf[l].perm.order[i]
  BY <1>5, <1>6, OtherBackFacts
<1>8. Parts(t, l, k) /\ Reaches(t, l)
  BY <1>2, <1>3, <1>4 DEF Inv, Fits, Fitting, Inserting
<1>9. BoundsStay
  BY <1>5 DEF BoundsStay, Writes
<1>10. Sorted(l)' /\ AboveBound(l)'
  <2>1. Sorted(l) /\ AboveBound(l)
    BY DEF Inv, Ordered
  <2>2. Sorted(l)'
    BY <1>5, <1>7, <2>1 DEF Sorted, IkeyAt
  <2>3. AboveBound(l)'
    BY <1>5, <1>7, <2>1 DEF AboveBound, IkeyAt, Bound
  <2> QED
    BY <2>2, <2>3
<1>11. leaf'[l].ver.del = leaf[l].ver.del /\ (leaf[l].ver.del => leaf'[l].perm.size = 0)
  BY <1>5, <1>7 DEF SameVer, Inv, Deletion
<1>12. SameAims(t)
  BY <1>2 DEF SameAims, Pending, Parting, Halving, Dying, DyingPlaces
<1>13. Condemned(t)'
  <2>1. ~leaf[l].ver.del
    BY <1>2, <1>3 DEF Inv, Deletion, Condemned, HoldsLeaf, PutPlaces, Dying, DyingPlaces
  <2>2. ~HoldsOther(t)'
    <3>1. reg[t].nr = Null
      BY <1>1, <1>2 DEF Base, Control, Controlled, HoldsOther, Halving, Halved
    <3> QED
      BY <1>2, <3>1 DEF HoldsOther, Halving, Halved
  <2>3. ~Dying(t)'
    BY <1>2 DEF Dying, DyingPlaces
  <2> QED
    BY <1>2, <1>3, <1>11, <2>1, <2>2, <2>3 DEF Condemned
<1>14. Fitting(t)'
  <2>1. Parts(t, l, k)'
    BY <1>2, <1>5, <1>7, <1>8 DEF Parts, IkeyAt
  <2>2. Reaches(t, l)' /\ Harmless(t, l, e)'
    BY <1>2, <1>5, <1>6, <1>8 DEF Reaches, Bound, Harmless
  <2>3. reg'[t].n = l /\ reg'[t].ki = k /\ reg'[t].kp = e /\ ~Halving(t)'
    BY <1>2, <1>3, <1>4 DEF Halving
  <2> QED
    BY <1>2, <2>1, <2>2, <2>3 DEF Fitting
<1>15. Led(t)'
  BY <1>2 DEF Led
<1> QED
  BY <1>1, <1>2, <1>5, <1>9, <1>10, <1>11, <1>12, <1>13, <1>14, <1>15, WorkKeeps
-----------------------------------------------------------------------------
(* The insertion and the removal of an entry keep the invariant.            *)

SortedKeys(keys, p) == \A i, j \in 1..p.size : i < j => keys[p.order[i]] < keys[p.order[j]]
From(keys, p, b) == \A i \in 1..p.size : b <= keys[p.order[i]]

LEMMA SortedIs ==
  ASSUME NEW l, Sorted(l), AboveBound(l)
  PROVE  /\ SortedKeys(leaf[l].ikey, leaf[l].perm)
         /\ l # 1 => From(leaf[l].ikey, leaf[l].perm, leaf[l].ikey[0])
  BY DEF Sorted, AboveBound, SortedKeys, From, IkeyAt, Bound

LEMMA IsSortedNow ==
  ASSUME NEW l, SortedKeys(leaf'[l].ikey, leaf'[l].perm),
         l # 1 => From(leaf'[l].ikey, leaf'[l].perm, leaf'[l].ikey[0])
  PROVE  Sorted(l)' /\ AboveBound(l)'
<1>1. Sorted(l)'
  BY DEF Sorted, SortedKeys, IkeyAt
<1>2. AboveBound(l)'
  BY DEF AboveBound, From, IkeyAt, Bound
<1> QED
  BY <1>1, <1>2

LEMMA KeyTypes ==
  ASSUME NEW p \in Permuters, NEW keys \in [Slots -> Int]
  PROVE  \A i \in 1..Width : keys[p.order[i]] \in Int
  BY PermType

LEMMA InsertedSorted ==
  ASSUME NEW p \in Permuters, NEW size \in 0..Width, size = p.size, size < Width, NEW k \in 0..size,
         NEW keys \in [Slots -> Int],
         NEW key \in Int, keys[Back(p)] = key, SortedKeys(keys, p),
         \A i \in 1..size : IF i <= k THEN keys[p.order[i]] < key ELSE key < keys[p.order[i]],
         NEW q, q = InsertFromBack(p, k)
  PROVE  SortedKeys(keys, q) /\ \A b \in Int : From(keys, p, b) /\ b <= key => From(keys, q, b)
<1>0. size \in Nat /\ k \in Nat /\ Width \in Nat
  BY WidthType
<1>1. /\ q.size = size + 1
      /\ \A j \in 1..k : q.order[j] = p.order[j]
      /\ q.order[k + 1] = Back(p)
      /\ \A j \in (k + 2)..Width : q.order[j] = p.order[j - 1]
  BY InsertFromBackFacts
<1> DEFINE at(i) == keys[p.order[i]]
<1>2. \A i \in 1..size : at(i) \in Int
  <2>1. \A i \in 1..Width : keys[p.order[i]] \in Int
    BY KeyTypes
  <2>2. \A i \in 1..size : i \in 1..Width
    BY <1>0
  <2> QED
    BY <2>1, <2>2
<1>3. /\ \A i \in 1..k : keys[q.order[i]] = at(i)
      /\ keys[q.order[k + 1]] = key
      /\ \A i \in (k + 2)..(size + 1) : keys[q.order[i]] = at(i - 1)
  BY <1>0, <1>1
<1>4. \A i, j \in 1..size : i < j => at(i) < at(j)
  BY DEF SortedKeys
<1>5. \A i \in 1..size : IF i <= k THEN at(i) < key ELSE key < at(i)
  OBVIOUS
<1> HIDE DEF at
<1>6. SortedKeys(keys, q)
  <2> SUFFICES ASSUME NEW i \in 1..(size + 1), NEW j \in 1..(size + 1), i < j
               PROVE  keys[q.order[i]] < keys[q.order[j]]
    BY <1>1 DEF SortedKeys
  <2>1. CASE j <= k
    BY <1>0, <1>3, <1>4, <2>1
  <2>2. CASE j = k + 1
    BY <1>0, <1>3, <1>5, <2>2
  <2>3. CASE j > k + 1 /\ i <= k
    <3>1. keys[q.order[i]] = at(i) /\ keys[q.order[j]] = at(j - 1) /\ j - 1 \in 1..size
          /\ i \in 1..size /\ i < j - 1
      BY <1>0, <1>3, <2>3
    <3> QED
      BY <1>4, <3>1
  <2>4. CASE j > k + 1 /\ i = k + 1
    <3>1. keys[q.order[i]] = key /\ keys[q.order[j]] = at(j - 1) /\ j - 1 \in 1..size
          /\ ~(j - 1 <= k)
      BY <1>0, <1>3, <2>4
    <3> QED
      BY <1>5, <3>1
  <2>5. CASE j > k + 1 /\ i > k + 1
    <3>1. keys[q.order[i]] = at(i - 1) /\ keys[q.order[j]] = at(j - 1) /\ j - 1 \in 1..size
          /\ i - 1 \in 1..size /\ i - 1 < j - 1
      BY <1>0, <1>3, <2>5
    <3> QED
      BY <1>4, <3>1
  <2> QED
    BY <1>0, <2>1, <2>2, <2>3, <2>4, <2>5
<1>7. ASSUME NEW b \in Int, From(keys, p, b), b <= key PROVE From(keys, q, b)
  <2>1. \A i \in 1..size : b <= at(i)
    BY <1>7 DEF From, at
  <2> SUFFICES ASSUME NEW i \in 1..(size + 1) PROVE b <= keys[q.order[i]]
    BY <1>1 DEF From
  <2>2. CASE i <= k
    BY <1>0, <1>3, <2>1, <2>2
  <2>3. CASE i = k + 1
    BY <1>3, <1>7, <2>3
  <2>4. CASE i > k + 1
    <3>1. keys[q.order[i]] = at(i - 1) /\ i - 1 \in 1..size
      BY <1>0, <1>3, <2>4
    <3> QED
      BY <2>1, <3>1
  <2> QED
    BY <1>0, <2>2, <2>3, <2>4
<1> QED
  BY <1>6, <1>7

LEMMA RemovedSorted ==
  ASSUME NEW p \in Permuters, NEW size \in 0..Width, size = p.size, NEW k \in 0..(size - 1),
         NEW keys \in [Slots -> Int], SortedKeys(keys, p), NEW q, q = RemoveSlot(p, k)
  PROVE  SortedKeys(keys, q) /\ \A b \in Int : From(keys, p, b) => From(keys, q, b)
<1>0. size \in Nat /\ k \in Nat /\ Width \in Nat
  BY WidthType
<1>1. /\ q.size = size - 1
      /\ \A j \in 1..k : q.order[j] = p.order[j]
      /\ \A j \in (k + 1)..(size - 1) : q.order[j] = p.order[j + 1]
  BY RemoveSlotFacts
<1> DEFINE at(i) == keys[p.order[i]]
<1>2. \A i \in 1..(size - 1) : \E j \in 1..size : /\ keys[q.order[i]] = at(j) /\ j = IF i <= k THEN i ELSE i + 1
  <2> SUFFICES ASSUME NEW i \in 1..(size - 1)
               PROVE  \E j \in 1..size : keys[q.order[i]] = at(j) /\ j = IF i <= k THEN i ELSE i + 1
    OBVIOUS
  <2>1. CASE i <= k
    BY <1>0, <1>1, <2>1
  <2>2. CASE ~(i <= k)
    <3>1. q.order[i] = p.order[i + 1] /\ i + 1 \in 1..size
      BY <1>0, <1>1, <2>2
    <3> QED
      BY <2>2, <3>1
  <2> QED
    BY <2>1, <2>2
<1>3. \A i, j \in 1..size : i < j => at(i) < at(j)
  BY DEF SortedKeys
<1>4. \A b : From(keys, p, b) => \A i \in 1..size : b <= at(i)
  BY DEF From
<1> HIDE DEF at
<1>5. SortedKeys(keys, q)
  <2> SUFFICES ASSUME NEW i \in 1..(size - 1), NEW j \in 1..(size - 1), i < j
               PROVE  keys[q.order[i]] < keys[q.order[j]]
    BY <1>1 DEF SortedKeys
  <2>1. PICK a \in 1..size : keys[q.order[i]] = at(a) /\ a = IF i <= k THEN i ELSE i + 1
    BY <1>2
  <2>2. PICK c \in 1..size : keys[q.order[j]] = at(c) /\ c = IF j <= k THEN j ELSE j + 1
    BY <1>2
  <2>3. a < c
    BY <1>0, <2>1, <2>2
  <2> QED
    BY <1>3, <2>1, <2>2, <2>3
<1>6. ASSUME NEW b \in Int, From(keys, p, b) PROVE From(keys, q, b)
  <2> SUFFICES ASSUME NEW i \in 1..(size - 1) PROVE b <= keys[q.order[i]]
    BY <1>1 DEF From
  <2>1. PICK a \in 1..size : keys[q.order[i]] = at(a)
    BY <1>2
  <2> QED
    BY <1>4, <1>6, <2>1
<1> QED
  BY <1>5, <1>6

LEMMA FinishInsertKeeps ==
  ASSUME Inv, Concurrent, NEW t \in Threads, FinishInsert(t)
  PROVE  Inv'
<1>1. Base /\ Base' /\ Own(t) /\ Mine(t) /\ Free(pc'[t], reg'[t])
  BY FinishInsertBase DEF Inv, Own, Mine
<1>2. /\ Only(t) /\ top' = top /\ freed' = freed /\ pc[t] = "publish" /\ pc'[t] = "done"
  BY <1>1, FinishInsertEffect
<1>3. PICK l \in LeafIds : l = reg[t].n
  BY <1>1, <1>2, AtLeaf DEF LeafPlaces, PutPlaces
<1>4. PICK k, key : k = reg[t].ki /\ key = reg[t].key
  OBVIOUS
<1>5. /\ Writes(l) /\ leaf'[l].ver = Unlock(leaf[l].ver)
      /\ leaf'[l].perm = InsertFromBack(leaf[l].perm, k) /\ leaf'[l].ikey = leaf[l].ikey
  BY <1>1, <1>3, <1>4, FinishInsertEffect
<1>6. PICK p \in Permuters, keys \in [Slots -> Int], size \in 0..Width :
        p = leaf[l].perm /\ keys = leaf[l].ikey /\ size = p.size
  BY <1>1, LeafFacts, PermType
<1>7. size < Width /\ k \in 0..size /\ reg[t].kp = Back(p)
  BY <1>1, <1>2, <1>3, <1>4, <1>6 DEF Base, Placing, Placed, Inserting
<1>8. Parts(t, l, k) /\ Reaches(t, l) /\ keys[Back(p)] = key
  BY <1>2, <1>3, <1>4, <1>6, <1>7 DEF Inv, Fits, Fitting, Inserting
<1>9. key \in Int
  <2>1. reg[t] \in Local
    BY <1>1 DEF Base, Types
  <2> QED
    BY <1>4, <2>1 DEF Local
<1>10. Sorted(l)' /\ AboveBound(l)'
  <2>1. SortedKeys(keys, p) /\ (l # 1 => From(keys, p, keys[0]))
    BY <1>6, SortedIs DEF Inv, Ordered
  <2>2. \A i \in 1..size : IF i <= k THEN keys[p.order[i]] < key ELSE key < keys[p.order[i]]
    BY <1>4, <1>6, <1>8 DEF Parts, IkeyAt
  <2>3. PICK q : q = InsertFromBack(p, k)
    OBVIOUS
  <2>4. SortedKeys(keys, q) /\ \A b \in Int : From(keys, p, b) /\ b <= key => From(keys, q, b)
    BY <1>6, <1>7, <1>8, <1>9, <2>1, <2>2, <2>3, InsertedSorted
  <2>5. keys[0] \in Int /\ (l # 1 => keys[0] <= key)
    <3>1. 0 \in Slots
      BY WidthType
    <3> QED
      BY <1>4, <1>6, <1>8, <3>1 DEF Reaches, Bound
  <2> QED
    BY <1>5, <1>6, <2>1, <2>3, <2>4, <2>5, IsSortedNow
<1>11. BoundsStay
  BY <1>5 DEF BoundsStay, Writes
<1>12. ~leaf[l].ver.del
  BY <1>2, <1>3 DEF Inv, Deletion, Condemned, HoldsLeaf, PutPlaces, Dying, DyingPlaces
<1>13. leaf'[l].ver.del = leaf[l].ver.del
  BY <1>1, <1>5, LeafFacts, SameDel
<1>14. /\ ~HoldsLeaf(t)' /\ ~HoldsOther(t)' /\ ~Halving(t)' /\ ~Dying(t)' /\ ~Inserting(t)'
  BY <1>1, <1>2, <1>5, FreeKeeps DEF Writes, OptLeaf
<1>15. SameAims(t)
  BY <1>2, <1>14 DEF SameAims, Pending, Parting, Halving
<1>16. Condemned(t)' /\ Fitting(t)' /\ Led(t)'
  <2>1. Condemned(t)'
    BY <1>2, <1>14 DEF Condemned
  <2>2. Fitting(t)'
    BY <1>2, <1>14 DEF Fitting
  <2>3. Led(t)'
    BY <1>2 DEF Led
  <2> QED
    BY <2>1, <2>2, <2>3
<1> QED
  BY <1>1, <1>2, <1>5, <1>10, <1>11, <1>12, <1>13, <1>15, <1>16, WorkKeeps

\* What both cases of RemoveEntry do to the leaf.
LEMMA EntryRemoved ==
  ASSUME Inv, NEW t \in Threads, pc[t] = "unuse", NEW l \in LeafIds, l = reg[t].n,
         NEW k, k = reg[t].ki, leaf'[l].perm = RemoveSlot(leaf[l].perm, k), leaf'[l].ikey = leaf[l].ikey
  PROVE  /\ Sorted(l)' /\ AboveBound(l)' /\ ~leaf[l].ver.del
         /\ leaf'[l].perm.size = leaf[l].perm.size - 1 /\ leaf[l].perm.size \in Nat
<1>1. PICK p \in Permuters, keys \in [Slots -> Int], size \in 0..Width :
        p = leaf[l].perm /\ keys = leaf[l].ikey /\ size = p.size
  BY LeafFacts, PermType DEF Inv
<1>2. k \in 0..(size - 1)
  BY <1>1 DEF Inv, Base, Placing, Placed
<1>3. SortedKeys(keys, p) /\ (l # 1 => From(keys, p, keys[0]))
  BY <1>1, SortedIs DEF Inv, Ordered
<1>4. PICK q : q = RemoveSlot(p, k)
  OBVIOUS
<1>5. SortedKeys(keys, q) /\ \A b \in Int : From(keys, p, b) => From(keys, q, b)
  BY <1>1, <1>2, <1>3, <1>4, RemovedSorted
<1>6. keys[0] \in Int
  BY WidthType
<1>7. Sorted(l)' /\ AboveBound(l)'
  BY <1>1, <1>3, <1>4, <1>5, <1>6, IsSortedNow
<1>8. ~leaf[l].ver.del
  BY DEF Inv, Deletion, Condemned, HoldsLeaf, Dying, DyingPlaces
<1>9. q.size = size - 1
  BY <1>1, <1>2, <1>4, RemoveSlotFacts
<1> QED
  BY <1>1, <1>4, <1>7, <1>8, <1>9, WidthType

LEMMA RemoveEntryKeepsSome ==
  ASSUME Inv, Concurrent, NEW t \in Threads, RemoveEntry(t),
         RemoveSlot(leaf[reg[t].n].perm, reg[t].ki).size > 0
  PROVE  Inv'
<1>1. Base /\ Base' /\ Own(t) /\ Mine(t) /\ Free(pc'[t], reg'[t])
  BY RemoveEntryBaseSome DEF Inv, Own, Mine
<1>2. /\ Only(t) /\ top' = top /\ freed' = freed /\ pc[t] = "unuse" /\ pc'[t] = "done"
  BY <1>1, RemoveEntryEffectSome
<1>3. PICK l \in LeafIds : l = reg[t].n
  BY <1>1, <1>2, AtLeaf DEF LeafPlaces, RemovePlaces
<1>4. PICK k : k = reg[t].ki
  OBVIOUS
<1>5. /\ Writes(l) /\ leaf'[l].ver = Unlock(leaf[l].ver)
      /\ leaf'[l].perm = RemoveSlot(leaf[l].perm, k) /\ leaf'[l].ikey = leaf[l].ikey
  BY <1>1, <1>3, <1>4, RemoveEntryEffectSome
<1>6. Sorted(l)' /\ AboveBound(l)' /\ ~leaf[l].ver.del
  BY <1>2, <1>3, <1>4, <1>5, EntryRemoved
<1>7. BoundsStay
  BY <1>5 DEF BoundsStay, Writes
<1>8. leaf'[l].ver.del = leaf[l].ver.del
  BY <1>1, <1>5, LeafFacts, SameDel
<1>9. /\ ~HoldsLeaf(t)' /\ ~HoldsOther(t)' /\ ~Halving(t)' /\ ~Dying(t)' /\ ~Inserting(t)'
  BY <1>1, <1>2, <1>5, FreeKeeps DEF Writes, OptLeaf
<1>10. SameAims(t)
  BY <1>2, <1>9 DEF SameAims, Pending, Parting, Halving
<1>11. Condemned(t)' /\ Fitting(t)' /\ Led(t)'
  <2>1. Condemned(t)'
    BY <1>2, <1>9 DEF Condemned
  <2>2. Fitting(t)'
    BY <1>2, <1>9 DEF Fitting
  <2>3. Led(t)'
    BY <1>2 DEF Led
  <2> QED
    BY <2>1, <2>2, <2>3
<1> QED
  BY <1>1, <1>2, <1>5, <1>6, <1>7, <1>8, <1>10, <1>11, WorkKeeps

LEMMA RemoveEntryKeepsLast ==
  ASSUME Inv, Concurrent, NEW t \in Threads, RemoveEntry(t),
         ~(RemoveSlot(leaf[reg[t].n].perm, reg[t].ki).size > 0)
  PROVE  Inv'
<1>1. Base /\ Base' /\ Own(t) /\ Mine(t)
  BY RemoveEntryBaseLast DEF Inv, Own, Mine
<1>2. /\ Only(t) /\ top' = top /\ freed' = freed /\ pc[t] = "unuse" /\ pc'[t] = "empty"
         /\ reg'[t] = reg[t]
  BY <1>1, RemoveEntryEffectLast
<1>3. PICK l \in LeafIds : l = reg[t].n
  BY <1>1, <1>2, AtLeaf DEF LeafPlaces, RemovePlaces
<1>4. PICK k : k = reg[t].ki
  OBVIOUS
<1>5. /\ Writes(l) /\ SameVer(l) /\ leaf'[l].perm = RemoveSlot(leaf[l].perm, k)
         /\ leaf'[l].ikey = leaf[l].ikey
  BY <1>1, <1>3, <1>4, RemoveEntryEffectLast
<1>6. /\ Sorted(l)' /\ AboveBound(l)' /\ ~leaf[l].ver.del
      /\ leaf'[l].perm.size = leaf[l].perm.size - 1 /\ leaf[l].perm.size \in Nat
  BY <1>2, <1>3, <1>4, <1>5, EntryRemoved
<1>7. BoundsStay
  BY <1>5 DEF BoundsStay, Writes
<1>8. leaf'[l].ver.del = leaf[l].ver.del
  BY <1>5 DEF SameVer
<1>9. leaf'[l].perm.size = 0
  <2>1. ~(leaf'[l].perm.size > 0)
    BY <1>3, <1>4, <1>5
  <2>2. leaf'[l].perm \in Permuters
    <3>1. leaf' \in Seq(LeafRecord) /\ LeafIds' = LeafIds
      BY <1>1, <1>5 DEF Base, Types, Writes
    <3>2. leaf'[l] \in LeafRecord
      BY <3>1 DEF LeafIds
    <3> QED
      BY <3>2 DEF LeafRecord
  <2>3. PICK z \in Nat : z = leaf'[l].perm.size
    BY <2>2, PermType, WidthType
  <2> QED
    BY <2>1, <2>3
<1>10. ~HoldsOther(t)' /\ ~Halving(t)' /\ ~Dying(t)' /\ ~Inserting(t)'
  BY <1>2 DEF HoldsOther, Halving, Halved, Dying, DyingPlaces, Inserting
<1>11. SameAims(t)
  BY <1>2, <1>10 DEF SameAims, Pending, Parting, Halving
<1>12. Condemned(t)' /\ Fitting(t)' /\ Led(t)'
  <2>1. Condemned(t)'
    BY <1>2, <1>3, <1>6, <1>8, <1>9, <1>10 DEF Condemned
  <2>2. Fitting(t)'
    BY <1>2, <1>10 DEF Fitting
  <2>3. Led(t)'
    BY <1>2 DEF Led
  <2> QED
    BY <2>1, <2>2, <2>3
<1> QED
  BY <1>1, <1>2, <1>5, <1>6, <1>7, <1>8, <1>11, <1>12, WorkKeeps
-----------------------------------------------------------------------------
(* The step that shrinks a split leaf keeps the invariant.                  *)

LEMMA PrefixSorted ==
  ASSUME NEW p, NEW q, NEW size \in Nat, size = p.size, NEW keep \in 0..size, q.size = keep,
         \A i \in 1..keep : q.order[i] = p.order[i], NEW keys, SortedKeys(keys, p)
  PROVE  SortedKeys(keys, q) /\ \A b : From(keys, p, b) => From(keys, q, b)
<1>1. \A i \in 1..keep : i \in 1..size
  OBVIOUS
<1>2. SortedKeys(keys, q)
  BY <1>1 DEF SortedKeys
<1>3. \A b : From(keys, p, b) => From(keys, q, b)
  BY <1>1 DEF From
<1> QED
  BY <1>2, <1>3

LEMMA NotTheBound ==
  ASSUME NEW p \in Permuters, NEW keys \in [Slots -> Int], NEW size \in 0..Width, size = p.size,
         size >= Width - 1, NEW keep \in 0..size, keep < size, SortedKeys(keys, p),
         From(keys, p, keys[0]),
         size = Width \/ Back(p) = 0, NEW e, size = Width => e = Back(p), size # Width
         => e = p.order[keep + 1]
  PROVE  e # 0
<1> SUFFICES ASSUME e = 0 PROVE FALSE
  OBVIOUS
<1>0. Width \in Nat /\ Width >= 3 /\ keep \in Nat /\ size \in Nat /\ 1 \in 1..Width
      /\ Width \in 1..Width
  BY WidthType
<1>1. CASE size = Width
  <2>1. p.order[Width] = 0
    BY <1>1 DEF Back
  <2>2. keys[p.order[1]] < keys[0]
    BY <1>0, <1>1, <2>1 DEF SortedKeys
  <2>3. keys[0] <= keys[p.order[1]]
    BY <1>0, <1>1 DEF From
  <2>4. keys[0] \in Int /\ keys[p.order[1]] \in Int
    BY <1>0, KeyTypes, WidthType
  <2> QED
    BY <2>2, <2>3, <2>4
<1>2. CASE size # Width
  <2>1. p.order[Width] = 0 /\ p.order[keep + 1] = 0
    BY <1>2 DEF Back
  <2>2. keep + 1 \in 1..Width /\ keep + 1 # Width
    BY <1>0, <1>2
  <2> QED
    BY <1>0, <2>1, <2>2, PermType
<1> QED
  BY <1>1, <1>2

\* What both cases of Shrink do to the leaf l.
LEMMA ShrunkLeaf ==
  ASSUME Inv, Concurrent, NEW t \in Threads, Shrink(t), NEW l, l = reg[t].n
  PROVE  /\ Writes(l) /\ SameVer(l) /\ BoundsStay /\ SameAims(t) /\ Led(t)'
         /\ Sorted(l)' /\ AboveBound(l)'
         /\ reg[t].n \in LeafIds /\ reg[t].nr \in LeafIds /\ reg[t].n # reg[t].nr
         /\ ~leaf[reg[t].n].ver.del /\ ~leaf[reg[t].nr].ver.del
         /\ Condemned(t)' /\ ~Halving(t)'
<1>1. Base
  BY DEF Inv
<1>2. /\ pc[t] = "shrink" /\ Halving(t) /\ pc'[t] \in {"unlockOther", "assign"}
      /\ Writes(reg[t].n) /\ SameVer(reg[t].n) /\ leaf'[reg[t].n].perm = Shrunk(t)
      /\ leaf'[reg[t].n].ikey = leaf[reg[t].n].ikey
      /\ \/ reg'[t].n = reg[t].n /\ reg'[t].nr = reg[t].nr
         \/ reg'[t].n = reg[t].nr /\ reg'[t].nr = reg[t].n
  BY <1>1, ShrinkEffect
<1>3. l \in LeafIds
  BY <1>1, <1>2, HoldsIsLocked DEF HoldsOther
<1>3a. PICK m \in LeafIds : m = reg[t].nr /\ l # m
  BY <1>1, <1>2, HoldsIsLocked DEF HoldsOther
<1>4. PICK p \in Permuters, keys \in [Slots -> Int], size \in 0..Width :
        p = leaf[l].perm /\ keys = leaf[l].ikey /\ size = p.size
  BY <1>1, <1>3, LeafFacts, PermType
<1>5. PICK q : q = Shrunk(t)
  OBVIOUS
<1>6. PICK keep \in 0..size : q.size = keep /\ \A i \in 1..keep : q.order[i] = p.order[i]
  BY <1>1, <1>2, <1>4, <1>5, ShrunkFacts
<1>7. SortedKeys(keys, p) /\ (l # 1 => From(keys, p, keys[0]))
  BY <1>3, <1>4, SortedIs DEF Inv, Ordered
<1>8. SortedKeys(keys, q) /\ \A b : From(keys, p, b) => From(keys, q, b)
  <2>1. size \in Nat
    BY WidthType
  <2> QED
    BY <1>4, <1>6, <1>7, <2>1, PrefixSorted
<1>9. Sorted(l)' /\ AboveBound(l)'
  BY <1>2, <1>4, <1>5, <1>7, <1>8, IsSortedNow
<1>10. BoundsStay
  BY <1>2 DEF BoundsStay, Writes
<1>11. ~leaf[l].ver.del /\ ~leaf[m].ver.del
  BY <1>2, <1>3a DEF Inv, Deletion, Condemned, HoldsLeaf, HoldsOther, PutPlaces, Dying, DyingPlaces
<1>12. ~leaf'[l].ver.del /\ ~leaf'[m].ver.del
  BY <1>2, <1>3a, <1>11 DEF Writes, SameVer
<1>13. SameAims(t)
  BY <1>2 DEF SameAims, Pending, Parting, Halving, Dying, DyingPlaces
<1>14. Condemned(t)'
  BY <1>2, <1>3a, <1>12 DEF Condemned, Dying, DyingPlaces
<1>15. Led(t)' /\ ~Halving(t)'
  BY <1>2 DEF Led, Halving
<1> QED
  BY <1>2, <1>3, <1>3a, <1>9, <1>10, <1>11, <1>13, <1>14, <1>15

LEMMA ShrinkKeepsRight ==
  ASSUME Inv, Concurrent, NEW t \in Threads, Shrink(t), reg[t].toRight
  PROVE  Inv'
<1>1. Base /\ Base' /\ Own(t) /\ Mine(t)
  BY ShrinkBase DEF Inv, Own, Mine
<1>2. /\ pc[t] = "shrink" /\ Halving(t) /\ Only(t) /\ top' = top /\ freed' = freed
      /\ SameCaller(t) /\ pc'[t] = "unlockOther"
      /\ reg'[t].n = reg[t].nr /\ reg'[t].ki = reg[t].ki - Keep(t)
         /\ reg'[t].kp = reg[t].ki - Keep(t)
  BY <1>1, ShrinkEffect
<1>a. PICK l : l = reg[t].n
  OBVIOUS
<1>3. /\ Writes(l) /\ SameVer(l) /\ BoundsStay /\ SameAims(t) /\ Led(t)'
      /\ Sorted(l)' /\ AboveBound(l)'
      /\ l \in LeafIds /\ reg[t].nr \in LeafIds /\ l # reg[t].nr
      /\ ~leaf[l].ver.del /\ Condemned(t)' /\ ~Halving(t)'
  BY <1>a, ShrunkLeaf
<1>4. PICK m, k : m \in LeafIds /\ m = reg[t].nr /\ l # m /\ k = reg[t].ki - Keep(t)
  BY <1>3
<1>5. Parts(t, m, k) /\ Reaches(t, m) /\ leaf[m].ikey[k] = reg[t].key
  BY <1>2, <1>a, <1>4 DEF Inv, Fits, Fitting
<1>6. leaf'[m] = leaf[m] /\ reg'[t].n = m /\ reg'[t].ki = k /\ reg'[t].kp = k
      /\ reg'[t].key = reg[t].key
  BY <1>2, <1>3, <1>a, <1>4 DEF Writes, SameCaller
<1>7. Parts(t, m, k)' /\ Reaches(t, m)' /\ leaf'[m].ikey[k] = reg'[t].key
  BY <1>5, <1>6 DEF Parts, Reaches, Bound, IkeyAt
<1>8. Fitting(t)'
  BY <1>2, <1>3, <1>6, <1>7 DEF Fitting
<1> QED
  BY <1>1, <1>2, <1>3, <1>8, WorkKeeps DEF SameVer

LEMMA ShrinkKeepsLeft ==
  ASSUME Inv, Concurrent, NEW t \in Threads, Shrink(t), ~reg[t].toRight
  PROVE  Inv'
<1>1. Base /\ Base' /\ Own(t) /\ Mine(t)
  BY ShrinkBase DEF Inv, Own, Mine
<1>2. /\ pc[t] = "shrink" /\ Halving(t) /\ Only(t) /\ top' = top /\ freed' = freed
      /\ SameCaller(t) /\ pc'[t] = "assign"
      /\ reg'[t].n = reg[t].n /\ reg'[t].ki = reg[t].ki /\ reg'[t].kp = Back(Shrunk(t))
      /\ leaf'[reg[t].n].perm = Shrunk(t) /\ leaf'[reg[t].n].ikey = leaf[reg[t].n].ikey
  BY <1>1, ShrinkEffect
<1>a. PICK l : l = reg[t].n
  OBVIOUS
<1>3. /\ Writes(l) /\ SameVer(l) /\ BoundsStay /\ SameAims(t) /\ Led(t)'
      /\ Sorted(l)' /\ AboveBound(l)'
      /\ l \in LeafIds /\ ~leaf[l].ver.del /\ Condemned(t)' /\ ~Halving(t)'
  BY <1>a, ShrunkLeaf
<1>4. PICK k, q, e, key :
        k = reg[t].ki /\ q = Shrunk(t) /\ e = Back(q) /\ key = reg[t].key
  BY <1>3
<1>5. PICK p \in Permuters, keys \in [Slots -> Int], size \in 0..Width :
        p = leaf[l].perm /\ keys = leaf[l].ikey /\ size = p.size
  BY <1>1, <1>3, LeafFacts, PermType
<1>6. PICK keep \in 0..size : keep = Keep(t)
  BY <1>1, <1>2, <1>a, <1>4, <1>5, ShrunkFacts
<1>7. /\ q.size = keep /\ \A i \in 1..keep : q.order[i] = p.order[i]
      /\ size = Width => e = Back(p)
      /\ size # Width => e = p.order[keep + 1]
  BY <1>1, <1>2, <1>a, <1>4, <1>5, <1>6, ShrunkFacts
<1>8. size >= Width - 1 /\ keep < size
  BY <1>1, <1>2, <1>a, <1>4, <1>5, <1>6 DEF Base, Placing, Placed
<1>9. Parts(t, l, k) /\ Reaches(t, l) /\ (size = Width \/ Back(p) = 0)
  BY <1>2, <1>a, <1>4, <1>5 DEF Inv, Fits, Fitting
<1>10. SortedKeys(keys, p) /\ (l # 1 => From(keys, p, keys[0]))
  BY <1>5, <1>3, SortedIs DEF Inv, Ordered
<1>11. l # 1 => e # 0
  BY <1>5, <1>6, <1>7, <1>8, <1>9, <1>10, NotTheBound
<1>12. reg'[t].n = l /\ reg'[t].ki = k /\ reg'[t].kp = e /\ reg'[t].key = key
       /\ leaf'[l].perm = q /\ leaf'[l].ikey = keys
  BY <1>2, <1>a, <1>4, <1>5 DEF SameCaller
<1>13. Parts(t, l, k)'
  <2>1. \A i \in 1..size : IF i <= k THEN keys[p.order[i]] < key ELSE key < keys[p.order[i]]
    BY <1>a, <1>4, <1>5, <1>9 DEF Parts, IkeyAt
  <2>2. \A i \in 1..keep : i \in 1..size
    BY WidthType
  <2>3. \A i \in 1..keep : IF i <= k THEN keys[q.order[i]] < key ELSE key < keys[q.order[i]]
    BY <1>7, <2>1, <2>2
  <2> QED
    BY <1>7, <1>12, <2>3 DEF Parts, IkeyAt
<1>14. Reaches(t, l)' /\ Harmless(t, l, e)'
  BY <1>a, <1>4, <1>5, <1>9, <1>11, <1>12 DEF Reaches, Harmless, Bound
<1>15. Fitting(t)'
  BY <1>2, <1>3, <1>12, <1>13, <1>14 DEF Fitting
<1> QED
  BY <1>1, <1>2, <1>3, <1>15, WorkKeeps DEF SameVer
-----------------------------------------------------------------------------
(* The step that makes a leaf keeps the invariant.                          *)

\* The entries of the new leaf of a split are those of the old one behind keep.
TailOf(keys, p, size, keep, new, x) ==
  x.size = size - keep /\ \A j \in 1..(size - keep) : new[x.order[j]] = keys[p.order[keep + j]]

\* key parts the entries behind the k-th.
Divides(keys, p, size, k, key) ==
  \A i \in 1..size : IF i <= k THEN keys[p.order[i]] < key ELSE key < keys[p.order[i]]

TailIs(new, x, b, size, ki, mid, key) ==
  /\ SortedKeys(new, x) /\ From(new, x, b)
  /\ ki >= mid => b <= key /\ Divides(new, x, size - mid, ki - mid, key)

LEMMA TailSorted ==
  ASSUME NEW p \in Permuters, NEW keys \in [Slots -> Int], NEW size \in 0..Width, size = p.size,
         NEW ki \in 0..size,
         NEW mid \in 1..size, NEW keep, keep = IF ki >= mid THEN mid ELSE mid - 1, NEW key \in Int,
         SortedKeys(keys, p), Divides(keys, p, size, ki, key),
         NEW new, NEW x, TailOf(keys, p, size, keep, new, x),
         NEW b, b = IF ki = mid THEN key ELSE keys[p.order[keep + 1]]
  PROVE  TailIs(new, x, b, size, ki, mid, key)
<1>0. Width \in Nat /\ size \in Nat /\ ki \in Nat /\ mid \in Nat /\ keep \in 0..size
  BY WidthType
<1> DEFINE at(i) == keys[p.order[i]]
<1>1. \A i, j \in 1..size : i < j => at(i) < at(j)
  BY DEF SortedKeys
<1>2. \A i \in 1..size : IF i <= ki THEN at(i) < key ELSE key < at(i)
  BY DEF Divides
<1>3. x.size = size - keep /\ \A j \in 1..(size - keep) : new[x.order[j]] = at(keep + j)
  BY DEF TailOf
<1>4. b = IF ki = mid THEN key ELSE at(keep + 1)
  OBVIOUS
<1>5. \A i \in 1..size : at(i) \in Int
  <2>1. \A i \in 1..size : i \in 1..Width
    BY <1>0
  <2> QED
    BY <2>1, KeyTypes
<1> HIDE DEF at
<1>6. \A j \in 1..(size - keep) : keep + j \in 1..size
  BY <1>0
<1>7. SortedKeys(new, x)
  <2> SUFFICES ASSUME NEW i \in 1..(size - keep), NEW j \in 1..(size - keep), i < j
               PROVE  new[x.order[i]] < new[x.order[j]]
    BY <1>3 DEF SortedKeys
  <2>1. keep + i < keep + j
    BY <1>0
  <2> QED
    BY <1>1, <1>3, <1>6, <2>1
<1>8. From(new, x, b)
  <2> SUFFICES ASSUME NEW j \in 1..(size - keep) PROVE b <= at(keep + j)
    BY <1>3 DEF From
  <2>1. CASE ki = mid
    BY <1>0, <1>2, <1>4, <1>5, <1>6, <2>1
  <2>2. CASE ki # mid
    <3>1. keep + 1 \in 1..size /\ (keep + 1 = keep + j \/ keep + 1 < keep + j)
      BY <1>0, <1>6
    <3> QED
      BY <1>1, <1>4, <1>5, <1>6, <2>2, <3>1
  <2> QED
    BY <2>1, <2>2
<1>9. ASSUME ki >= mid PROVE b <= key
  <2>1. CASE ki = mid
    BY <1>4, <2>1
  <2>2. CASE ki # mid
    <3>1. keep + 1 \in 1..size /\ keep + 1 <= ki
      BY <1>0, <1>9, <2>2
    <3> QED
      BY <1>2, <1>4, <1>5, <2>2, <3>1
  <2> QED
    BY <2>1, <2>2
<1>10. ASSUME ki >= mid, NEW j \in 1..(size - mid)
       PROVE  IF j <= ki - mid THEN new[x.order[j]] < key ELSE key < new[x.order[j]]
  <2>1. keep = mid /\ new[x.order[j]] = at(mid + j) /\ mid + j \in 1..size
    BY <1>0, <1>3, <1>6, <1>10
  <2>2. j <= ki - mid <=> mid + j <= ki
    BY <1>0
  <2> QED
    BY <1>2, <2>1, <2>2
<1> QED
  BY <1>7, <1>8, <1>9, <1>10 DEF TailIs, Divides

LEMMA SplitIntoKeeps ==
  ASSUME Inv, Concurrent, NEW t \in Threads, SplitInto(t)
  PROVE  Inv'
<1>1. Base /\ Base' /\ Own(t) /\ Mine(t)
  BY SplitIntoBase DEF Inv, Own, Mine
<1>2. PICK l, w, mid, x, ki, key : l \in LeafIds /\ l = reg[t].n /\ w = Len(leaf) + 1
                                   /\ mid = Middle(t) /\ x = RightLeaf(t)
             /\ ki = reg[t].ki /\ key = reg[t].key
  BY <1>1, SplitSize
<1>3. /\ pc[t] = "slot" /\ pc'[t] = "lockNext" /\ Only(t) /\ top' = top /\ freed' = freed
      /\ reg'[t].n = l /\ reg'[t].ki = ki /\ reg'[t].nr = w /\ reg'[t].key = key
      /\ reg'[t].toRight = (ki >= mid)
      /\ LeafIds' = LeafIds \cup {w} /\ w \notin LeafIds /\ leaf'[w] = x
      /\ \A m \in LeafIds : leaf'[m] = leaf[m]
  BY <1>1, <1>2, SplitIntoEffect DEF SameCaller
<1>4. PICK p \in Permuters, keys \in [Slots -> Int], size \in 0..Width :
        p = leaf[l].perm /\ keys = leaf[l].ikey /\ size = p.size
  BY <1>1, <1>2, LeafFacts, PermType
<1>5. PICK keep : keep = IF ki >= mid THEN mid ELSE mid - 1
  OBVIOUS
<1>6. /\ x.ver = leaf[l].ver /\ ki \in 0..size /\ mid \in 1..size
      /\ x.perm.size = size - keep
      /\ \A j \in 1..(size - keep) : x.ikey[x.perm.order[j]] = IkeyAt(l, keep + j)
      /\ ki >= mid => x.ikey[ki - mid] = key
      /\ x.ikey[0] = IF ki = mid THEN key ELSE IkeyAt(l, keep + 1)
  <2>1. l = reg[t].n /\ mid = Middle(t) /\ x = RightLeaf(t) /\ ki = reg[t].ki
        /\ size = leaf[l].perm.size
    BY <1>2, <1>4
  <2>2. /\ x.ver = leaf[l].ver /\ ki \in 0..size /\ mid \in 1..size
        /\ x.perm.size = size - keep
        /\ \A j \in 1..(size - keep) : x.ikey[x.perm.order[j]] = IkeyAt(l, keep + j)
        /\ ki >= mid => Back(x.perm) = ki - mid /\ x.ikey[ki - mid] = reg[t].key
        /\ x.ikey[0] = IF ki = mid THEN reg[t].key ELSE IkeyAt(l, keep + 1)
    BY <1>1, <1>5, <2>1, RightFacts
  <2> QED
    BY <1>2, <2>2
<1>7. key \in Int
  <2>1. reg[t] \in Local
    BY <1>1 DEF Base, Types
  <2> QED
    BY <1>2, <2>1 DEF Local
<1>8. Parts(t, l, ki) /\ Reaches(t, l)
  BY <1>2, <1>3 DEF Inv, Fits, Fitting, Inserting
<1>9. SortedKeys(keys, p) /\ (l # 1 => From(keys, p, keys[0]))
  BY <1>2, <1>4, SortedIs DEF Inv, Ordered
<1>10. TailIs(x.ikey, x.perm, x.ikey[0], size, ki, mid, key)
  <2>1. Divides(keys, p, size, ki, key)
    BY <1>2, <1>4, <1>8 DEF Parts, IkeyAt, Divides
  <2>2. PICK new, r, b : new = x.ikey /\ r = x.perm /\ b = x.ikey[0]
    OBVIOUS
  <2>3. TailOf(keys, p, size, keep, new, r)
    BY <1>4, <1>6, <2>2 DEF TailOf, IkeyAt
  <2>4. b = IF ki = mid THEN key ELSE keys[p.order[keep + 1]]
    BY <1>4, <1>6, <2>2 DEF IkeyAt
  <2>5. TailIs(new, r, b, size, ki, mid, key)
    <3>1. ki \in 0..size /\ mid \in 1..size
      BY <1>6
    <3>2. size = p.size /\ SortedKeys(keys, p)
      BY <1>4, <1>9
    <3> QED
      BY <1>5, <1>7, <2>1, <2>3, <2>4, <3>1, <3>2, TailSorted
  <2> QED
    BY <2>2, <2>5
<1>11. Sorted(w)' /\ AboveBound(w)'
  BY <1>3, <1>10, IsSortedNow DEF TailIs
<1>12. Grows /\ BoundsStay
  BY <1>3 DEF Grows, BoundsStay
<1>13. ~leaf[l].ver.del
  BY <1>2, <1>3 DEF Inv, Deletion, Condemned, HoldsLeaf, PutPlaces, Dying, DyingPlaces
<1>14. Condemned(t)' /\ ~Dying(t)' /\ Led(t)'
  BY <1>2, <1>3, <1>6, <1>13 DEF Condemned, Dying, DyingPlaces, Led
<1>15. Deletion'
  <2>1. \A m \in LeafIds : leaf[m].ver.del => leaf'[m].ver.del
    BY <1>3
  <2>2. \A m \in LeafIds' : leaf'[m].ver.del => leaf'[m].perm.size = 0
    BY <1>3, <1>6, <1>13 DEF Inv, Deletion
  <2> QED
    BY <1>1, <1>3, <1>12, <1>14, <2>1, <2>2, DeletionKept DEF Inv
<1>16. Ordered'
  BY <1>3, <1>11, OrderedKept DEF Inv
<1>17. Fitting(t)'
  <2>1. Reaches(t, l)' /\ Parts(t, l, ki)'
    BY <1>2, <1>3, <1>8 DEF Reaches, Parts, Bound, IkeyAt
  <2>2. leaf'[l].perm.size = Width \/ Back(leaf'[l].perm) = 0
    BY <1>1, <1>2, <1>3, SplitSize
  <2>3. PICK d : d = ki - mid
    OBVIOUS
  <2>4. ki >= mid => Keep(t)' = mid
    BY <1>1, <1>2, SplitPlaced
  <2>5. ASSUME ki >= mid PROVE Parts(t, w, d)' /\ Reaches(t, w)' /\ leaf'[w].ikey[d] = key
    <3>1. x.perm.size = size - mid
      BY <1>5, <1>6, <2>5
    <3>2. Parts(t, w, d)'
      BY <1>3, <1>10, <2>3, <2>5, <3>1 DEF Parts, IkeyAt, TailIs, Divides
    <3>3. Reaches(t, w)'
      BY <1>3, <1>10, <2>5 DEF Reaches, Bound, TailIs
    <3> QED
      BY <1>3, <1>6, <2>3, <2>5, <3>2, <3>3
  <2>6. reg'[t].toRight => reg'[t].ki - Keep(t)' = d /\ ki >= mid
    BY <1>3, <2>3, <2>4
  <2>7. IF reg'[t].toRight
        THEN /\ Parts(t, reg[t].nr, reg[t].ki - Keep(t))' /\ Reaches(t, reg[t].nr)'
             /\ leaf'[reg'[t].nr].ikey[reg'[t].ki - Keep(t)'] = reg'[t].key
        ELSE Parts(t, reg[t].n, reg[t].ki)'
    BY <1>3, <2>1, <2>5, <2>6
  <2> QED
    BY <1>3, <2>1, <2>2, <2>7 DEF Fitting, Inserting
<1>18. Fits'
  BY <1>1, <1>3, <1>12, <1>17, FitsKept DEF Inv
<1>19. StillMissing(t)
  <2>1. ~Pending(t) /\ ~Parting(t) /\ Pending(t)'
    BY <1>3 DEF Pending, Halving, Parting
  <2>2. w \in Unregistered'
    BY <1>3, <2>1 DEF Unregistered
  <2> QED
    BY <1>3, <2>1, <2>2 DEF StillMissing
<1>20. TopStays /\ Onward
  BY <1>1, <1>3, SameTop
<1>21. Internode'
  BY <1>1, <1>3, <1>12, <1>19, <1>20, InternodeKept DEF Inv
<1>22. Routing'
  BY <1>1, <1>3, <1>12, <1>14, <1>20, RoutingKept DEF Inv
<1> QED
  BY <1>1, <1>15, <1>16, <1>18, <1>21, <1>22 DEF Inv
-----------------------------------------------------------------------------
(* The step that makes an internode keeps the invariant.                    *)

\* t goes on with its leaves, and only the internode changes.
LEMMA TopStepKeeps ==
  ASSUME Inv, Base', NEW t \in Threads, Only(t), Own(t), SameContents, Continues(t), Onward,
         Internode'
  PROVE  Inv'
<1>1. Mine(t) /\ Grows /\ BoundsStay
  BY DEF Own, Mine, Grows, BoundsStay, SameContents
<1>2. Condemned(t)' /\ Fitting(t)' /\ Led(t)'
  BY ContinuingKeeps
<1>3. Deletion'
  <2>1. \A l \in LeafIds' : leaf'[l].ver.del => leaf'[l].perm.size = 0
    BY DEF Inv, Deletion, SameContents
  <2>2. \A l \in LeafIds : leaf[l].ver.del => leaf'[l].ver.del
    BY DEF SameContents
  <2>3. freed' = freed /\ (Dying(t)' => Dying(t) /\ reg'[t].n = reg[t].n)
    BY DEF SameContents, Continues
  <2> QED
    BY <1>1, <1>2, <2>1, <2>2, <2>3, DeletionKept DEF Inv
<1>4. Ordered'
  BY OrderedAsBefore DEF Inv, SameContents
<1>5. Fits'
  BY <1>1, <1>2, FitsKept DEF Inv
<1>6. Routing'
  BY <1>1, <1>2, RoutingKept DEF Inv
<1> QED
  BY <1>3, <1>4, <1>5, <1>6 DEF Inv

LEMMA NewTopKeeps ==
  ASSUME Inv, Concurrent, NEW t \in Threads, NewTop(t)
  PROVE  Inv'
<1>1. Base /\ Base' /\ Own(t)
  BY NewTopBase DEF Inv
<1>2. /\ pc[t] = "parent" /\ pc'[t] = "split" /\ Only(t) /\ reg'[t] = reg[t] /\ freed' = freed
      /\ LeafIds' = LeafIds /\ reg[t].n \in LeafIds /\ ~leaf[reg[t].n].hasParent
      /\ \A l \in LeafIds :
           leaf'[l].ver = leaf[l].ver /\ leaf'[l].perm = leaf[l].perm
           /\ leaf'[l].ikey = leaf[l].ikey
      /\ top' = [ver |-> RootVersion, ikey |-> <<Bound(reg[t].nr)>>, child |-> <<reg[t].n, reg[t].nr>>]
  BY <1>1, NewTopEffect
<1>3. ~Topped /\ reg[t].n = 1 /\ Puts(t) /\ Pending(t) /\ LeafIds = {1, reg[t].nr}
  BY <1>1, <1>2, OnlyTwo
<1>4. PICK m \in LeafIds : m = reg[t].nr /\ m # 1
  BY <1>1, <1>3, HoldsIsLocked DEF Pending, HoldsOther, Base, Pointers, Pointing
<1>5. SameContents
  BY <1>2 DEF SameContents
<1>6. Continues(t)
  <2>1. Halving(t) /\ HoldsLeaf(t) /\ ~Dying(t) /\ HoldsOther(t)
    BY <1>2, <1>3, KindHere, <1>1 DEF Halving, HoldsLeaf, Dying, DyingPlaces, HoldsOther, Puts,
         Removes
  <2>2. ~Inserting(t)' /\ ~Dying(t)'
    BY <1>2 DEF Inserting, Dying, DyingPlaces
  <2> QED
    BY <1>2, <2>1, <2>2 DEF Continues
<1>7. Onward
  <2>1. top = NoTop
    BY <1>1, <1>3 DEF Base, Types
  <2>2. top.ver.vinsert = 0 /\ ~top.ver.ins
    BY <2>1, NewVersionType DEF NoTop
  <2>3. top'.ver.vinsert = 0
    BY <1>2, RootVersionType
  <2> QED
    BY <2>2, <2>3 DEF Onward
<1>8. /\ top'.child[1] = 1 /\ top'.child[2] = m /\ top'.ikey[1] = leaf'[m].ikey[0]
      /\ Len(top'.ikey) = 1
  <2>1. leaf'[m].ikey = leaf[m].ikey
    BY <1>2
  <2>2. Bound(reg[t].nr) = leaf[m].ikey[0]
    BY <1>4 DEF Bound
  <2> QED
    BY <1>2, <1>3, <1>4, <2>1, <2>2
<1>9. Internode'
  <2>1. Separators' = {1} /\ Topped'
    BY <1>2, <1>8 DEF Separators, Topped
  <2>2. \A i \in Separators' : top'.child[i + 1] # 1 /\ Bound(top.child[i + 1])' = top'.ikey[i]
    BY <1>4, <1>8, <2>1 DEF Bound
  <2>3. \A i, j \in Separators' : i < j => top'.ikey[i] <= top'.ikey[j]
    BY <2>1
  <2>4. Registered' \subseteq {m}
    BY <1>2, <1>3, <1>4 DEF Registered, Unregistered
  <2>5. PICK h \in [Registered' -> Separators'] : h = [l \in Registered' |-> 1]
    BY <2>1
  <2>6. Named(h)'
    BY <1>8, <2>1, <2>4, <2>5 DEF Named, Bound
  <2> QED
    BY <1>8, <2>2, <2>3, <2>6 DEF Internode
<1> QED
  BY <1>1, <1>2, <1>5, <1>6, <1>7, <1>9, TopStepKeeps

LEMMA InsertedAscending ==
  ASSUME NEW q \in Seq(Int), Ascending(q), NEW len \in Nat, len = Len(q), NEW kp \in 0..len,
         NEW e \in Int,
         \A i \in 1..len : i <= kp <=> q[i] <= e, NEW r, Inserted(r, q, kp, e, len)
  PROVE  Ascending(r)
<1>1. \A i \in 1..len : q[i] \in Int
  OBVIOUS
<1>2. \A i, j \in 1..len : i < j => q[i] <= q[j]
  BY DEF Ascending
<1> SUFFICES ASSUME NEW i \in 1..(len + 1), NEW j \in 1..(len + 1), i < j
             PROVE  r[i] <= r[j]
  BY DEF Ascending, Inserted
<1>3. \A x \in 1..(len + 1) : /\ x <= kp => r[x] = q[x] /\ x \in 1..len
                              /\ x = kp + 1 => r[x] = e
                              /\ x > kp + 1 => r[x] = q[x - 1] /\ x - 1 \in 1..len /\ ~(x - 1 <= kp)
  BY DEF Inserted
<1>4. CASE j <= kp
  <2>1. i <= kp
    BY <1>4
  <2> QED
    BY <1>2, <1>3, <1>4, <2>1
<1>5. CASE j = kp + 1
  <2>1. i <= kp
    BY <1>5
  <2> QED
    BY <1>3, <1>5, <2>1
<1>6. CASE j > kp + 1 /\ i <= kp
  <2>1. i < j - 1 /\ r[i] = q[i] /\ i \in 1..len /\ r[j] = q[j - 1] /\ j - 1 \in 1..len
    BY <1>3, <1>6
  <2> QED
    BY <1>2, <2>1
<1>7. CASE j > kp + 1 /\ i = kp + 1
  <2>1. r[i] = e /\ r[j] = q[j - 1] /\ ~(q[j - 1] <= e) /\ q[j - 1] \in Int
    BY <1>1, <1>3, <1>7
  <2> QED
    BY <2>1
<1>8. CASE j > kp + 1 /\ i > kp + 1
  <2>1. i - 1 < j - 1 /\ r[i] = q[i - 1] /\ i - 1 \in 1..len /\ r[j] = q[j - 1] /\ j - 1 \in 1..len
    BY <1>3, <1>8
  <2> QED
    BY <1>2, <2>1
<1> QED
  BY <1>4, <1>5, <1>6, <1>7, <1>8
-----------------------------------------------------------------------------
(* The step that adds a child to the internode keeps the invariant.         *)

LEMMA MissingBut ==
  ASSUME NEW t \in Threads, Only(t), LeafIds' = LeafIds, freed' = freed, NEW w,
         Pending(t) => reg[t].nr = w, ~Parting(t)
  PROVE  Registered' \subseteq Registered \cup {w}
<1>1. \A u \in Threads \ {t} : (Pending(u)' <=> Pending(u)) /\ (Parting(u)' <=> Parting(u))
      /\ reg'[u] = reg[u]
  BY OthersRoles DEF Only, Pending, Parting
<1>2. ASSUME NEW u \in Threads, Pending(u) PROVE reg[u].nr \in Unregistered' \cup {w}
  <2>1. CASE u = t
    BY <1>2, <2>1
  <2>2. CASE u # t
    BY <1>1, <1>2, <2>2 DEF Unregistered
  <2> QED
    BY <2>1, <2>2
<1>3. ASSUME NEW u \in Threads, Parting(u) PROVE reg[u].n \in Unregistered'
  <2>1. u # t
    BY <1>3
  <2> QED
    BY <1>1, <1>3, <2>1 DEF Unregistered
<1>4. 1 \in Unregistered' /\ freed \subseteq Unregistered'
  BY DEF Unregistered
<1>5. Unregistered \subseteq Unregistered' \cup {w}
  BY <1>2, <1>3, <1>4 DEF Unregistered
<1> QED
  BY <1>5 DEF Registered

LEMMA AddChildInternode ==
  ASSUME Inv, Concurrent, NEW t \in Threads, AddChild(t)
  PROVE  Internode'
<1>0. Base
  BY DEF Inv
<1>1. PICK m, kp, len, b : m = reg[t].nr /\ b = Bound(m) /\ kp = Upper(b) /\ len = Len(top.ikey)
  OBVIOUS
<1>2. /\ pc[t] = "addChild" /\ pc'[t] = "split" /\ Only(t) /\ reg'[t] = reg[t] /\ freed' = freed
      /\ Writes(m) /\ SameKeys(m) /\ kp \in 0..len /\ len \in Nat /\ Topped
      /\ Inserted(top'.ikey, top.ikey, kp, b, len)
      /\ Inserted(top'.child, top.child, kp + 1, m, len + 1)
  BY <1>0, <1>1, AddChildEffect
<1>3. m \in LeafIds /\ m # 1 /\ Pending(t)
  <2>1. Pending(t) /\ Halving(t) /\ HoldsOther(t)
    BY <1>2 DEF Pending, Halving, HoldsOther
  <2> QED
    BY <1>0, <1>1, <2>1, HoldsIsLocked DEF Base, Pointers, Pointing
<1>4. LeafIds' = LeafIds /\ \A l \in LeafIds : leaf'[l].ikey = leaf[l].ikey
  BY <1>2 DEF Writes, SameKeys
<1>5. /\ top.ikey \in Seq(Int) /\ Ascending(top.ikey) /\ b \in Int
      /\ \A i \in 1..len : i <= kp <=> top.ikey[i] <= b
  <2>1. top.ikey \in Seq(Int)
    BY <1>0, <1>2, ToppedFacts
  <2>2. Ascending(top.ikey)
    BY DEF Inv, Internode, Ascending, Separators
  <2>3. b \in Int
    BY <1>0, <1>1, <1>3, LeafFacts, WidthType DEF Bound
  <2> QED
    BY <1>0, <1>1, <2>1, <2>2, <2>3, UpperFacts
<1>6. Separators' = 1..(len + 1) /\ Separators = 1..len
  BY <1>1, <1>2 DEF Separators, Inserted
<1>7. /\ \A j \in 1..kp : top'.ikey[j] = top.ikey[j]
      /\ top'.ikey[kp + 1] = b
      /\ \A j \in (kp + 2)..(len + 1) : top'.ikey[j] = top.ikey[j - 1]
  BY <1>2 DEF Inserted
<1>8. /\ Len(top'.child) = len + 2
      /\ \A j \in 1..(kp + 1) : top'.child[j] = top.child[j]
      /\ top'.child[kp + 2] = m
      /\ \A j \in (kp + 3)..(len + 2) : top'.child[j] = top.child[j - 1]
  <2>1. /\ Len(top'.child) = len + 1 + 1
        /\ \A j \in 1..(kp + 1) : top'.child[j] = top.child[j]
        /\ top'.child[kp + 1 + 1] = m
        /\ \A j \in (kp + 1 + 2)..(len + 1 + 1) : top'.child[j] = top.child[j - 1]
    BY <1>2 DEF Inserted
  <2>2. len + 1 + 1 = len + 2 /\ kp + 1 + 1 = kp + 2 /\ kp + 1 + 2 = kp + 3
    BY <1>2
  <2> QED
    BY <2>1, <2>2
<1>9. Topped' => top'.child[1] = 1
  BY <1>2, <1>8 DEF Inv, Internode
<1>10. \A i, j \in Separators' : i < j => top'.ikey[i] <= top'.ikey[j]
  <2>1. Ascending(top'.ikey)
    BY <1>1, <1>2, <1>5, InsertedAscending
  <2> QED
    BY <2>1 DEF Ascending, Separators
<1>11. ASSUME NEW j \in 1..len
       PROVE  top.child[j + 1] \in LeafIds \ {1} /\ leaf'[top.child[j + 1]].ikey[0] = top.ikey[j]
  <2>1. Len(top.child) = len + 1
    BY <1>0, <1>1, <1>2, ToppedFacts
  <2>2. j + 1 \in 1..Len(top.child)
    BY <1>2, <2>1
  <2>3. top.child[j + 1] \in LeafIds
    BY <1>0, <2>2 DEF Base, Pointers
  <2>4. top.child[j + 1] # 1 /\ Bound(top.child[j + 1]) = top.ikey[j]
    BY <1>6 DEF Inv, Internode
  <2> QED
    BY <1>4, <2>3, <2>4 DEF Bound
<1>12. \A i \in Separators' : top'.child[i + 1] # 1 /\ Bound(top.child[i + 1])' = top'.ikey[i]
  <2> SUFFICES ASSUME NEW i \in 1..(len + 1)
               PROVE  top'.child[i + 1] # 1 /\ leaf'[top'.child[i + 1]].ikey[0] = top'.ikey[i]
    BY <1>6 DEF Bound
  <2>1. CASE i <= kp
    <3>1. i \in 1..len /\ i + 1 \in 1..(kp + 1) /\ i \in 1..kp
      BY <1>2, <2>1
    <3> QED
      BY <1>7, <1>8, <1>11, <3>1
  <2>2. CASE i = kp + 1
    <3>1. i + 1 = kp + 2
      BY <1>2, <2>2
    <3>2. leaf'[m].ikey[0] = b
      BY <1>1, <1>3, <1>4 DEF Bound
    <3> QED
      BY <1>3, <1>7, <1>8, <2>2, <3>1, <3>2
  <2>3. CASE i > kp + 1
    <3>1. i + 1 \in (kp + 3)..(len + 2) /\ i \in (kp + 2)..(len + 1) /\ i - 1 \in 1..len
          /\ i + 1 - 1 = i - 1 + 1
      BY <1>2, <2>3
    <3>2. PICK j \in 1..len : j = i - 1
      BY <3>1
    <3>3. top'.child[i + 1] = top.child[j + 1] /\ top'.ikey[i] = top.ikey[j]
      BY <1>7, <1>8, <3>1, <3>2
    <3> QED
      BY <1>11, <3>3
  <2> QED
    BY <1>2, <2>1, <2>2, <2>3
<1>13. \E h \in [Registered' -> Separators'] : Named(h)'
  <2>1. PICK h \in [Registered -> Separators] : Named(h)
    BY <1>2 DEF Inv, Internode
  <2>2. Registered' \subseteq Registered \cup {m}
    <3>1. ~Parting(t)
      BY <1>2 DEF Parting
    <3> QED
      BY <1>1, <1>2, <1>4, <3>1, MissingBut
  <2>3. m \notin Registered /\ Registered \subseteq LeafIds
    BY <1>1, <1>3 DEF Registered, Unregistered
  <2> DEFINE at(l) == IF l = m THEN kp + 1 ELSE IF h[l] <= kp THEN h[l] ELSE h[l] + 1
  <2>4. \A l \in Registered : h[l] \in 1..len /\ top.ikey[h[l]] = Bound(l)
    BY <1>6, <2>1 DEF Named
  <2>5. \A l \in Registered' : at(l) \in 1..(len + 1)
    BY <1>2, <2>2, <2>4
  <2>6. PICK g \in [Registered' -> 1..(len + 1)] : g = [l \in Registered' |-> at(l)]
    BY <2>5
  <2>7. \A l \in Registered' : g[l] = at(l)
    BY <2>6
  <2>8. \A l, k \in Registered' : g[l] = g[k] => l = k
    <3> SUFFICES ASSUME NEW l \in Registered', NEW k \in Registered', at(l) = at(k) PROVE l = k
      BY <2>7
    <3>1. CASE l = m /\ k = m
      BY <3>1
    <3>2. CASE l = m /\ k # m
      BY <1>2, <2>2, <2>4, <3>2
    <3>3. CASE l # m /\ k = m
      BY <1>2, <2>2, <2>4, <3>3
    <3>4. CASE l # m /\ k # m
      <4>1. l \in Registered /\ k \in Registered
        BY <2>2, <3>4
      <4>2. h[l] = h[k]
        BY <1>2, <2>4, <3>4, <4>1
      <4> QED
        BY <2>1, <4>1, <4>2 DEF Named
    <3> QED
      BY <3>1, <3>2, <3>3, <3>4
  <2>9. ASSUME NEW l \in Registered' PROVE top'.ikey[g[l]] = Bound(l)'
    <3>1. CASE l = m
      <4>1. g[l] = kp + 1
        BY <2>7, <3>1
      <4>2. leaf'[m].ikey[0] = b
        BY <1>1, <1>3, <1>4 DEF Bound
      <4> QED
        BY <1>7, <3>1, <4>1, <4>2 DEF Bound
    <3>2. CASE l # m
      <4>1. l \in Registered /\ l \in LeafIds
        BY <2>2, <2>3, <3>2
      <4>2. leaf'[l].ikey[0] = top.ikey[h[l]]
        BY <1>4, <2>4, <4>1 DEF Bound
      <4>3. CASE h[l] <= kp
        <5>1. g[l] = h[l] /\ h[l] \in 1..kp
          BY <1>2, <2>4, <2>7, <3>2, <4>1, <4>3
        <5> QED
          BY <1>7, <4>2, <5>1 DEF Bound
      <4>4. CASE ~(h[l] <= kp)
        <5>1. PICK j : j = g[l]
          OBVIOUS
        <5>2. j = h[l] + 1
          BY <2>7, <3>2, <4>4, <5>1
        <5>3. j \in (kp + 2)..(len + 1) /\ j - 1 = h[l]
          BY <1>2, <2>4, <4>1, <4>4, <5>2
        <5>4. top'.ikey[j] = top.ikey[h[l]]
          BY <1>7, <5>3
        <5> QED
          BY <4>2, <5>1, <5>4 DEF Bound
      <4> QED
        BY <4>3, <4>4
    <3> QED
      BY <3>1, <3>2
  <2> HIDE DEF at
  <2>10. Named(g)'
    BY <1>6, <2>6, <2>8, <2>9 DEF Named
  <2> QED
    BY <1>6, <2>10
<1> QED
  BY <1>9, <1>10, <1>12, <1>13 DEF Internode

LEMMA AddChildKeeps ==
  ASSUME Inv, Concurrent, NEW t \in Threads, AddChild(t)
  PROVE  Inv'
<1>1. Base /\ Base' /\ Own(t)
  BY AddChildBase DEF Inv
<1>2. PICK m : m = reg[t].nr
  OBVIOUS
<1>3. /\ pc[t] = "addChild" /\ pc'[t] = "split" /\ Only(t) /\ reg'[t] = reg[t] /\ freed' = freed
      /\ Writes(m) /\ SameVer(m) /\ SameKeys(m) /\ top'.ver = top.ver
  BY <1>1, <1>2, AddChildEffect
<1>4. SameContents
  BY <1>3 DEF SameContents, Writes, SameVer, SameKeys
<1>5. Continues(t)
  <2>1. Halving(t) /\ HoldsLeaf(t) /\ ~Dying(t) /\ HoldsOther(t)
    BY <1>3 DEF Halving, HoldsLeaf, Dying, DyingPlaces, HoldsOther, PutPlaces
  <2>2. ~Inserting(t)' /\ ~Dying(t)'
    BY <1>3 DEF Inserting, Dying, DyingPlaces
  <2> QED
    BY <1>3, <2>1, <2>2 DEF Continues
<1>6. Onward
  <2>1. top.ver \in Version
    BY <1>1 DEF Base, Types
  <2>2. PICK v \in Nat : v = top.ver.vinsert
    BY <2>1 DEF Version
  <2>3. v <= v
    BY <2>2
  <2> QED
    BY <1>3, <2>2, <2>3 DEF Onward
<1>7. Internode'
  BY AddChildInternode
<1> QED
  BY <1>1, <1>3, <1>4, <1>5, <1>6, <1>7, TopStepKeeps
-----------------------------------------------------------------------------
(* The steps that drop a child and free a leaf keep the invariant.          *)

LEMMA RemovedAscending ==
  ASSUME NEW q, Ascending(q), NEW len \in Nat, len = Len(q), NEW kp \in 1..len, NEW r,
         Removed(r, q, kp, len)
  PROVE  Ascending(r)
<1>1. \A i, j \in 1..len : i < j => q[i] <= q[j]
  BY DEF Ascending
<1> SUFFICES ASSUME NEW i \in 1..(len - 1), NEW j \in 1..(len - 1), i < j
             PROVE  r[i] <= r[j]
  BY DEF Ascending, Removed
<1>2. \A x \in 1..(len - 1) : \E y \in 1..len : r[x] = q[y] /\ y = IF x < kp THEN x ELSE x + 1
  <2> SUFFICES ASSUME NEW x \in 1..(len - 1)
               PROVE  \E y \in 1..len : r[x] = q[y] /\ y = IF x < kp THEN x ELSE x + 1
    OBVIOUS
  <2>1. CASE x < kp
    <3>1. r[x] = q[x] /\ x \in 1..len
      BY <2>1 DEF Removed
    <3> QED
      BY <2>1, <3>1
  <2>2. CASE ~(x < kp)
    <3>0. x \in kp..(len - 1) /\ x + 1 \in 1..len
      BY <2>2
    <3>1. r[x] = q[x + 1] /\ x + 1 \in 1..len
      BY <3>0 DEF Removed
    <3>2. PICK y \in 1..len : y = x + 1
      BY <3>1
    <3>3. r[x] = q[y]
      BY <3>1, <3>2
    <3>4. y = IF x < kp THEN x ELSE x + 1
      BY <2>2, <3>2
    <3> QED
      BY <3>3, <3>4
  <2> QED
    BY <2>1, <2>2
<1>3. PICK a \in 1..len : r[i] = q[a] /\ a = IF i < kp THEN i ELSE i + 1
  BY <1>2
<1>4. PICK c \in 1..len : r[j] = q[c] /\ c = IF j < kp THEN j ELSE j + 1
  BY <1>2
<1>5. a < c
  BY <1>3, <1>4
<1> QED
  BY <1>1, <1>3, <1>4, <1>5

\* A leaf that is being removed has a separator until dropChild takes it out.
LEMMA DyingRegistered ==
  ASSUME Inv, NEW t \in Threads, Dying(t), ~Parting(t)
  PROVE  reg[t].n \in Registered
<1>1. reg[t].n # 1 /\ reg[t].n \notin freed /\ leaf[reg[t].n].ver.del
  BY DEF Inv, Base, Pointers, Pointing, Deletion, Condemned
<1>2. reg[t].n \in LeafIds
  <2>1. pc[t] \in LeafPlaces
    BY DEF Dying, LeafPlaces, RemovePlaces, BothPlaces
  <2> QED
    BY <2>1, AtLeaf DEF Inv
<1>3. ASSUME NEW u \in Threads, Pending(u) PROVE reg[u].nr # reg[t].n
  <2>1. ~leaf[reg[u].nr].ver.del
    BY <1>3 DEF Pending, HoldsOther, Inv, Deletion, Condemned
  <2> QED
    BY <1>1, <2>1
<1>4. ASSUME NEW u \in Threads, Parting(u) PROVE reg[u].n # reg[t].n
  <2>1. Dying(u) /\ u # t
    BY <1>4 DEF Parting, Dying
  <2> QED
    BY <2>1 DEF Inv, Deletion
<1> QED
  BY <1>1, <1>2, <1>3, <1>4 DEF Registered, Unregistered

LEMMA DropChildPlace ==
  ASSUME Inv, NEW t \in Threads, pc[t] = "dropChild", NEW l, l = reg[t].n, NEW kp,
         kp = Upper(Bound(l)),
         NEW len, len = Len(top.ikey)
  PROVE  /\ l \in Registered /\ l \in LeafIds /\ Topped
         /\ top.ikey \in Seq(Int) /\ Ascending(top.ikey) /\ len \in Nat /\ Len(top.child) = len + 1
         /\ kp \in 1..len /\ top.ikey[kp] = Bound(l)
<1>0. Base
  BY DEF Inv
<1>1. l \in Registered
  <2>1. Dying(t) /\ ~Parting(t)
    BY DEF Dying, Parting
  <2> QED
    BY <2>1, DyingRegistered
<1>2. l \in LeafIds
  BY <1>1 DEF Registered
<1>3. Topped
  BY DEF Inv, Base, TopLocking, HoldsTop
<1>4. top.ikey \in Seq(Int) /\ len \in Nat /\ Len(top.child) = len + 1
  BY <1>0, <1>3, ToppedFacts
<1>5. Ascending(top.ikey)
  BY DEF Inv, Internode, Ascending, Separators
<1>6. PICK h \in [Registered -> Separators] : Named(h)
  BY <1>3 DEF Inv, Internode
<1>7. PICK i \in 1..len : i = h[l] /\ top.ikey[i] = Bound(l)
  BY <1>1, <1>6 DEF Named, Separators
<1>8. PICK b \in Int : b = Bound(l)
  BY <1>0, <1>2, LeafFacts, WidthType DEF Bound
<1>9. kp \in 0..len /\ \A j \in 1..len : j <= kp <=> top.ikey[j] <= b
  BY <1>0, <1>5, <1>8, UpperFacts, UpperType
<1>10. \A j \in 1..len : top.ikey[j] \in Int
  BY <1>4
<1>11. b <= b
  BY <1>8
<1>12. i <= kp
  BY <1>7, <1>8, <1>9, <1>11
<1>13. kp \in 1..len
  BY <1>9, <1>12
<1>14. top.ikey[kp] <= b
  BY <1>9, <1>13
<1>15. b <= top.ikey[kp]
  <2>1. CASE i = kp
    BY <1>7, <1>8, <1>11, <2>1
  <2>2. CASE i < kp
    BY <1>5, <1>7, <1>8, <1>13, <2>2 DEF Ascending
  <2> QED
    BY <1>12, <1>13, <2>1, <2>2
<1>16. top.ikey[kp] = b
  BY <1>8, <1>10, <1>13, <1>14, <1>15
<1> QED
  BY <1>1, <1>2, <1>3, <1>4, <1>5, <1>8, <1>13, <1>16

LEMMA DropChildInternode ==
  ASSUME Inv, Concurrent, NEW t \in Threads, DropChild(t)
  PROVE  Internode'
<1>0. Base /\ pc[t] = "dropChild"
  BY DEF Inv, DropChild
<1>1. PICK l, kp, len : l = reg[t].n /\ kp = Upper(Bound(l)) /\ len = Len(top.ikey)
  OBVIOUS
<1>2. /\ l \in Registered /\ l \in LeafIds /\ Topped
      /\ top.ikey \in Seq(Int) /\ Ascending(top.ikey) /\ len \in Nat /\ Len(top.child) = len + 1
      /\ kp \in 1..len /\ top.ikey[kp] = Bound(l)
  BY <1>0, <1>1, DropChildPlace
<1>3. /\ pc'[t] = "unlockParent" /\ Only(t) /\ reg'[t] = reg[t] /\ freed' = freed
      /\ leaf' = leaf /\ LeafIds' = LeafIds
      /\ Removed(top'.ikey, top.ikey, kp, len)
      /\ Removed(top'.child, top.child, kp + 1, len + 1)
  <2>1. kp >= 1
    BY <1>2
  <2> QED
    BY <1>0, <1>1, <2>1, DropChildEffect
<1>4. Separators' = 1..(len - 1) /\ Separators = 1..len
  BY <1>1, <1>3 DEF Separators, Removed
<1>5. /\ \A j \in 1..(kp - 1) : top'.ikey[j] = top.ikey[j]
      /\ \A j \in kp..(len - 1) : top'.ikey[j] = top.ikey[j + 1]
  BY <1>3 DEF Removed
<1>6. /\ \A j \in 1..kp : top'.child[j] = top.child[j]
      /\ \A j \in (kp + 1)..len : top'.child[j] = top.child[j + 1]
  <2>1. PICK a, c : a = kp + 1 /\ c = len + 1
    OBVIOUS
  <2>3. Removed(top'.child, top.child, a, c)
    BY <1>3, <2>1
  <2>4. /\ \A j \in 1..(a - 1) : top'.child[j] = top.child[j]
        /\ \A j \in a..(c - 1) : top'.child[j] = top.child[j + 1]
    BY <2>3 DEF Removed
  <2>2. a - 1 = kp /\ c - 1 = len
    BY <1>2, <2>1
  <2> QED
    BY <2>1, <2>2, <2>4
<1>7. Topped' => top'.child[1] = 1
  BY <1>2, <1>6 DEF Inv, Internode
<1>8. \A i, j \in Separators' : i < j => top'.ikey[i] <= top'.ikey[j]
  <2>1. Ascending(top'.ikey)
    BY <1>1, <1>2, <1>3, RemovedAscending
  <2> QED
    BY <2>1 DEF Ascending, Separators
<1>9. ASSUME NEW j \in 1..len
      PROVE  top.child[j + 1] # 1 /\ leaf'[top.child[j + 1]].ikey[0] = top.ikey[j]
  <2>1. j \in Separators
    BY <1>4
  <2>2. top.child[j + 1] # 1 /\ Bound(top.child[j + 1]) = top.ikey[j]
    BY <2>1 DEF Inv, Internode
  <2> QED
    BY <1>3, <2>2 DEF Bound
<1>10. \A i \in Separators' : top'.child[i + 1] # 1 /\ Bound(top.child[i + 1])' = top'.ikey[i]
  <2> SUFFICES ASSUME NEW i \in 1..(len - 1)
               PROVE  top'.child[i + 1] # 1 /\ leaf'[top'.child[i + 1]].ikey[0] = top'.ikey[i]
    BY <1>4 DEF Bound
  <2>1. CASE i < kp
    <3>1. i \in 1..len /\ i + 1 \in 1..kp /\ i \in 1..(kp - 1)
      BY <1>2, <2>1
    <3> QED
      BY <1>5, <1>6, <1>9, <3>1
  <2>2. CASE ~(i < kp)
    <3>1. i + 1 \in (kp + 1)..len /\ i \in kp..(len - 1) /\ i + 1 \in 1..len
      BY <1>2, <2>2
    <3>2. PICK j \in 1..len : j = i + 1
      BY <3>1
    <3>3. top'.child[j] = top.child[j + 1] /\ top'.ikey[i] = top.ikey[j]
      BY <1>5, <1>6, <3>1, <3>2
    <3> QED
      BY <1>9, <3>2, <3>3
  <2> QED
    BY <2>1, <2>2
<1>11. \E h \in [Registered' -> Separators'] : Named(h)'
  <2>1. PICK h \in [Registered -> Separators] : Named(h)
    BY <1>2 DEF Inv, Internode
  <2>2. Registered' \subseteq Registered \ {l}
    <3>1. ~Pending(t) /\ ~Parting(t) /\ Parting(t)'
      <4>1. Removes(t)
        BY <1>0, KindHere DEF RemovePlaces
      <4> QED
        BY <1>0, <1>3, <4>1 DEF Pending, Halving, Parting, Removes
    <3>2. l \in Unregistered'
      BY <1>1, <1>3, <3>1 DEF Unregistered
    <3>3. StillMissing(t)
      BY <1>3, <3>1 DEF StillMissing
    <3> QED
      BY <1>3, <3>2, <3>3, MissingStay DEF Registered
  <2>4. \A m \in Registered : h[m] \in 1..len /\ top.ikey[h[m]] = Bound(m)
    BY <1>4, <2>1 DEF Named
  \* l takes the place kp, and what was there takes that of l.
  <2> DEFINE at(m) == IF h[m] = kp THEN h[l] ELSE h[m]
             to(m) == IF at(m) < kp THEN at(m) ELSE at(m) - 1
  <2>5. ASSUME NEW m \in Registered \ {l} PROVE at(m) \in 1..len /\ at(m) # kp /\ top.ikey[at(m)] = Bound(m)
    <3>1. h[m] # h[l]
      BY <1>2, <2>1 DEF Named
    <3> QED
      BY <1>2, <2>4, <3>1
  <2>6. ASSUME NEW m \in Registered \ {l}, NEW k \in Registered \ {l}, at(m) = at(k) PROVE m = k
    <3>1. h[m] # h[l] /\ h[k] # h[l]
      BY <1>2, <2>1 DEF Named
    <3>2. h[m] = h[k]
      BY <2>6, <3>1
    <3> QED
      BY <2>1, <3>2 DEF Named
  <2> HIDE DEF at
  <2>7. \A m \in Registered' : to(m) \in 1..(len - 1)
    BY <1>2, <2>2, <2>5
  <2>8. PICK g \in [Registered' -> 1..(len - 1)] : g = [m \in Registered' |-> to(m)]
    BY <2>7
  <2>9. \A m \in Registered' : g[m] = to(m)
    BY <2>8
  <2>10. \A m, k \in Registered' : g[m] = g[k] => m = k
    <3> SUFFICES ASSUME NEW m \in Registered', NEW k \in Registered', to(m) = to(k) PROVE m = k
      BY <2>9
    <3>1. m \in Registered \ {l} /\ k \in Registered \ {l}
      BY <2>2
    <3>2. at(m) \in 1..len /\ at(m) # kp /\ at(k) \in 1..len /\ at(k) # kp
      BY <2>5, <3>1
    <3>3. at(m) = at(k)
      BY <1>2, <3>2
    <3> QED
      BY <2>6, <3>1, <3>3
  <2>11. ASSUME NEW m \in Registered' PROVE top'.ikey[g[m]] = Bound(m)'
    <3>1. m \in Registered \ {l}
      BY <2>2
    <3>2. PICK a \in 1..len : a = at(m) /\ a # kp /\ top.ikey[a] = Bound(m)
      BY <2>5, <3>1
    <3>3. PICK c : c = g[m]
      OBVIOUS
    <3>4. c = IF a < kp THEN a ELSE a - 1
      BY <2>9, <3>2, <3>3
    <3>5. top'.ikey[c] = top.ikey[a]
      <4>1. CASE a < kp
        <5>1. c = a /\ a \in 1..(kp - 1)
          BY <1>2, <3>4, <4>1
        <5> QED
          BY <1>5, <5>1
      <4>2. CASE ~(a < kp)
        <5>1. c \in kp..(len - 1) /\ c + 1 = a
          BY <1>2, <3>2, <3>4, <4>2
        <5> QED
          BY <1>5, <5>1
      <4> QED
        BY <4>1, <4>2
    <3> QED
      BY <1>3, <3>2, <3>3, <3>5 DEF Bound
  <2> HIDE DEF to
  <2>12. Named(g)'
    BY <1>4, <2>8, <2>10, <2>11 DEF Named
  <2> QED
    BY <1>4, <2>12, <2>8
<1> QED
  BY <1>7, <1>8, <1>10, <1>11 DEF Internode

LEMMA DropChildKeeps ==
  ASSUME Inv, Concurrent, NEW t \in Threads, DropChild(t)
  PROVE  Inv'
<1>0. Base /\ pc[t] = "dropChild"
  BY DEF Inv, DropChild
<1>1. PICK kp, len : kp = Upper(Bound(reg[t].n)) /\ len = Len(top.ikey)
  OBVIOUS
<1>2. kp >= 1
  <2>1. kp \in 1..len /\ len \in Nat
    BY <1>0, <1>1, DropChildPlace
  <2> QED
    BY <2>1
<1>3. Base' /\ Own(t)
  BY <1>0, <1>1, <1>2, DropChildBase
<1>4. /\ pc'[t] = "unlockParent" /\ Only(t) /\ reg'[t] = reg[t] /\ freed' = freed
      /\ leaf' = leaf /\ LeafIds' = LeafIds /\ top'.ver = top.ver
  BY <1>0, <1>1, <1>2, DropChildEffect
<1>5. SameContents
  BY <1>4, UnwrittenContents
<1>6. Removes(t) /\ ~Puts(t)
  BY <1>0, KindHere DEF RemovePlaces
<1>7. Continues(t)
  <2>1. Dying(t) /\ ~Inserting(t)' /\ ~Halving(t)' /\ Dying(t)' /\ ~HoldsOther(t)'
    BY <1>0, <1>4, <1>6 DEF Dying, Inserting, Halving, Puts, Removes, HoldsOther, Halved
  <2> QED
    BY <1>4, <2>1 DEF Continues
<1>8. Onward
  <2>1. top.ver \in Version
    BY <1>0 DEF Base, Types
  <2>2. PICK v \in Nat : v = top.ver.vinsert
    BY <2>1 DEF Version
  <2>3. v <= v
    BY <2>2
  <2> QED
    BY <1>4, <2>2, <2>3 DEF Onward
<1>9. Internode'
  BY DropChildInternode
<1> QED
  BY <1>3, <1>4, <1>5, <1>7, <1>8, <1>9, TopStepKeeps

LEMMA FreeLeafKeeps ==
  ASSUME Inv, Concurrent, NEW t \in Threads, FreeLeaf(t)
  PROVE  Inv'
<1>1. Base /\ Base' /\ Own(t) /\ Mine(t) /\ Free(pc'[t], reg'[t])
  BY FreeLeafBase DEF Inv, Own, Mine
<1>2. PICK l : l = reg[t].n
  OBVIOUS
<1>3. /\ pc[t] = "free" /\ pc'[t] = "done" /\ Only(t) /\ top' = top /\ freed' = freed \cup {l}
      /\ leaf' = leaf /\ LeafIds' = LeafIds /\ l \in LeafIds
  BY <1>1, <1>2, FreeLeafEffect
<1>4. Dying(t) /\ leaf[l].ver.del
  BY <1>2, <1>3 DEF Dying, Inv, Deletion, Condemned
<1>5. /\ ~HoldsLeaf(t)' /\ ~HoldsOther(t)' /\ ~Halving(t)' /\ ~Dying(t)' /\ ~Inserting(t)'
  BY <1>1, <1>3, FreeKeeps DEF OptLeaf
<1>6. Condemned(t)' /\ Fitting(t)' /\ Led(t)'
  <2>1. Condemned(t)'
    BY <1>3, <1>5 DEF Condemned
  <2>2. Fitting(t)'
    BY <1>3, <1>5 DEF Fitting
  <2>3. Led(t)'
    BY <1>3 DEF Led
  <2> QED
    BY <2>1, <2>2, <2>3
<1>7. \A u \in Threads \ {t} : pc'[u] = pc[u] /\ reg'[u] = reg[u] /\ (Dying(u)' <=> Dying(u))
  BY <1>3, OthersRoles DEF Only
<1>8. ASSUME NEW u \in Threads \ {t} PROVE Condemned(u)'
  <2>1. Condemned(u) /\ (Dying(u) => reg[u].n # l)
    BY <1>2, <1>4 DEF Inv, Deletion
  <2>2. (HoldsLeaf(u)' <=> HoldsLeaf(u)) /\ (HoldsOther(u)' <=> HoldsOther(u))
    BY <1>3, OthersRoles
  <2> QED
    BY <1>3, <1>7, <2>1, <2>2 DEF Condemned
<1>9. Deletion'
  <2>1. \A u, w \in Threads : Dying(u)' /\ Dying(w)' /\ reg'[u].n = reg'[w].n => u = w
    BY <1>5, <1>7 DEF Inv, Deletion
  <2>2. \A m \in freed' : leaf'[m].ver.del
    BY <1>3, <1>4 DEF Inv, Deletion
  <2>3. \A m \in LeafIds' : leaf'[m].ver.del => leaf'[m].perm.size = 0
    BY <1>3 DEF Inv, Deletion
  <2> QED
    BY <1>6, <1>8, <2>1, <2>2, <2>3 DEF Deletion
<1>10. Ordered'
  BY <1>1, <1>3, OrderedAsBefore DEF Inv
<1>11. Grows /\ BoundsStay
  BY <1>3 DEF Grows, BoundsStay
<1>12. Fits'
  BY <1>1, <1>3, <1>6, <1>11, FitsKept DEF Inv
<1>13. TopStays /\ Onward
  BY <1>1, <1>3, SameTop
<1>14. StillMissing(t)
  <2>1. ~Pending(t) /\ l \in Unregistered' /\ freed \subseteq freed'
    BY <1>3 DEF Pending, Halving, Unregistered
  <2> QED
    BY <1>2, <1>3, <2>1 DEF StillMissing
<1>15. Internode'
  BY <1>1, <1>3, <1>11, <1>13, <1>14, InternodeKept DEF Inv
<1>16. Routing'
  BY <1>1, <1>3, <1>6, <1>11, <1>13, RoutingKept DEF Inv
<1> QED
  BY <1>1, <1>9, <1>10, <1>12, <1>15, <1>16 DEF Inv
-----------------------------------------------------------------------------
(* Every step of a thread keeps the invariant.                              *)

LEMMA LockedLeafKeeps ==
  ASSUME Inv, Concurrent, NEW t \in Threads, LockedLeaf(t)
  PROVE  Inv'
<1>1. CASE LockLeaf(t)
  BY <1>1, LockLeafKeeps
<1>2. CASE DeletedMeanwhile(t)
  BY <1>2, DeletedMeanwhileKeeps
<1>3. CASE WalkRight(t)
  BY <1>3, WalkRightKeeps
<1>4. CASE Rightward(t)
  BY <1>4, RightwardKeeps
<1>5. CASE UpdateValue(t)
  BY <1>5, UpdateValueKeeps
<1>6. CASE RemoveAbsent(t)
  BY <1>6, RemoveAbsentKeeps
<1> QED
  BY <1>1, <1>2, <1>3, <1>4, <1>5, <1>6 DEF LockedLeaf

LEMMA InsertionKeeps ==
  ASSUME Inv, Concurrent, NEW t \in Threads, Insertion(t)
  PROVE  Inv'
<1>1. CASE BeginInsert(t)
  BY <1>1, BeginInsertKeeps
<1>2. CASE InsertHere(t)
  BY <1>2, InsertHereKeeps
<1>3. CASE InsertExchanged(t)
  BY <1>3, InsertExchangedKeeps
<1>4. CASE Assign(t)
  BY <1>4, AssignKeeps
<1>5. CASE AssignKey(t)
  BY <1>5, AssignKeyKeeps
<1>6. CASE Store(t)
  BY <1>6, StoreKeeps
<1>7. CASE FinishInsert(t)
  BY <1>7, FinishInsertKeeps
<1> QED
  BY <1>1, <1>2, <1>3, <1>4, <1>5, <1>6, <1>7 DEF Insertion

LEMMA SplitKeeps ==
  ASSUME Inv, Concurrent, NEW t \in Threads, Split(t)
  PROVE  Inv'
<1>1. CASE SplitInto(t)
  BY <1>1, SplitIntoKeeps
<1>2. CASE LockNext(t)
  BY <1>2, LockNextKeeps
<1>3. CASE LinkBack(t)
  BY <1>3, LinkBackKeeps
<1>4. CASE Link(t)
  BY <1>4, LinkKeeps
<1>5. CASE NewTop(t)
  BY <1>5, NewTopKeeps
<1>6. CASE LockParent(t)
  BY <1>6, LockParentKeeps
<1>7. CASE MarkParent(t)
  BY <1>7, MarkParentKeeps
<1>8. CASE AddChild(t)
  BY <1>8, AddChildKeeps
<1>9. CASE MarkLeafSplit(t)
  BY <1>9, MarkLeafSplitKeeps
<1>10. CASE Shrink(t)
  BY <1>10, ShrinkKeepsRight, ShrinkKeepsLeft
<1>11. CASE UnlockOther(t)
  BY <1>11, UnlockOtherKeeps
<1>12. CASE UnlockParent(t)
  BY <1>12, UnlockParentKeeps
<1> QED
  BY <1>1, <1>2, <1>3, <1>4, <1>5, <1>6, <1>7, <1>8, <1>9, <1>10, <1>11, <1>12 DEF Split

LEMMA RemovalKeeps ==
  ASSUME Inv, Concurrent, NEW t \in Threads, Removal(t)
  PROVE  Inv'
<1>1. CASE BeginRemove(t)
  BY <1>1, BeginRemoveKeeps
<1>2. CASE Stamp(t)
  BY <1>2, StampKeeps
<1>3. CASE RemoveEntry(t)
  BY <1>3, RemoveEntryKeepsSome, RemoveEntryKeepsLast
<1>4. CASE KeepFirstLeaf(t)
  BY <1>4, KeepFirstLeafKeeps
<1>5. CASE MarkLeafDeleted(t)
  BY <1>5, MarkLeafDeletedKeeps
<1>6. CASE ReadKeeper(t)
  BY <1>6, ReadKeeperKeeps
<1>7. CASE Raise(t)
  BY <1>7, RaiseKeeps
<1>8. CASE CheckKeeper(t)
  BY <1>8, CheckKeeperKeeps
<1>9. CASE UnlinkNext(t)
  BY <1>9, UnlinkNextKeeps
<1>10. CASE ReadPrev(t)
  BY <1>10, ReadPrevKeeps
<1>11. CASE MarkPrev(t)
  BY <1>11, MarkPrevKeepsDone, MarkPrevKeepsAgain
<1>12. CASE UnlinkBack(t)
  BY <1>12, UnlinkBackKeepsNext, UnlinkBackKeepsLast
<1>13. CASE Unlink(t)
  BY <1>13, UnlinkKeeps
<1>14. CASE UnlockDeleted(t)
  BY <1>14, UnlockDeletedKeeps
<1>15. CASE DropChild(t)
  BY <1>15, DropChildKeeps
<1>16. CASE FreeLeaf(t)
  BY <1>16, FreeLeafKeeps
<1> QED
  BY <1>1, <1>2, <1>3, <1>4, <1>5, <1>6, <1>7, <1>8, <1>9, <1>10, <1>11, <1>12, <1>13, <1>14, <1>15,
       <1>16 DEF Removal

LEMMA LookupKeeps ==
  ASSUME Inv, Concurrent, NEW t \in Threads, Lookup(t)
  PROVE  Inv'
<1>0. Base
  BY DEF Inv
<1>1. ASSUME ReadPermutation(t) PROVE Reading(t)
  BY <1>0, <1>1, PermReads
<1>2. ASSUME Probe(t) PROVE Reading(t)
  BY <1>0, <1>2, ProbeReads
<1>3. ASSUME ReadValue(t) PROVE Reading(t)
  BY <1>0, <1>3, ValueReads
<1>4. ASSUME Check(t) PROVE Reading(t)
  BY <1>0, <1>4, CheckReads
<1>5. ASSUME Advance(t) PROVE Reading(t)
  BY <1>0, <1>5, AdvanceReads
<1>6. ASSUME Walk(t) PROVE Reading(t)
  BY <1>0, <1>6, WalkReads
<1>7. ASSUME Walked(t) PROVE Reading(t)
  BY <1>0, <1>7, WalkedReads
<1>8. Reading(t)
  BY <1>1, <1>2, <1>3, <1>4, <1>5, <1>6, <1>7 DEF Lookup
<1>9. Idly(t)
  BY <1>0, LookupIdly
<1> QED
  BY <1>8, <1>9, IdlyReadingKeeps

LEMMA BeginKeeps ==
  ASSUME Inv, Concurrent, NEW t \in Threads, Begin(t) \/ BeginOneOf(t, ScanCalls)
  PROVE  Inv'
<1>0. Base
  BY DEF Inv
<1>1. CASE Begin(t)
  BY <1>0, <1>1, CallsAssumption, BeginReads, LookupIdly, IdlyReadingKeeps DEF Begin
<1>2. CASE BeginOneOf(t, ScanCalls)
  BY <1>0, <1>2, ScanCallsAssumption, BeginReads, LookupIdly, IdlyReadingKeeps
<1> QED
  BY <1>1, <1>2

LEMMA StepKeeps ==
  ASSUME Inv, Concurrent, NEW t \in Threads, Step(t)
  PROVE  Inv'
<1>1. CASE Root(t) \/ Descend(t) \/ Child(t) \/ Again(t)
  BY <1>1, RootKeeps, DescendKeeps, ChildKeeps, AgainKeeps
<1>2. CASE Lookup(t) \/ LockedLeaf(t)
  BY <1>2, LookupKeeps, LockedLeafKeeps
<1>3. CASE Insertion(t) \/ Split(t) \/ Removal(t)
  BY <1>3, InsertionKeeps, SplitKeeps, RemovalKeeps
<1> QED
  BY <1>1, <1>2, <1>3 DEF Step

LEMMA ScanOwnKeeps ==
  ASSUME Inv, Concurrent, ikey \in Int, ScanOwn \/ BeginScan
  PROVE  Inv'
<1>0. Base /\ Scanner \in Threads
  BY ScannerAssumption DEF Inv
<1>1. ASSUME FindInitial PROVE Reading(Scanner)
  BY <1>0, <1>1, FindInitialReads
<1>2. ASSUME Resume PROVE Reading(Scanner)
  BY <1>0, <1>2, ResumeReads
<1>3. ASSUME Lower PROVE Reading(Scanner)
  BY <1>0, <1>3, LowerReads
<1>4. ASSUME LowerEnds PROVE Reading(Scanner)
  BY <1>0, <1>4, LowerEndsReads
<1>5. ASSUME ReadIkey PROVE Reading(Scanner)
  BY <1>0, <1>5, ReadIkeyReads
<1>6. ASSUME ReadEntry PROVE Reading(Scanner)
  BY <1>0, <1>6, ReadEntryReads
<1>7. ASSUME Emit PROVE Reading(Scanner)
  BY <1>0, <1>7, EmitReads
<1>8. ASSUME LeafEnds PROVE Reading(Scanner)
  BY <1>0, <1>8, LeafEndsReads
<1>9. ASSUME AdvanceLeaf PROVE Reading(Scanner)
  BY <1>0, <1>9, AdvanceLeafReads
<1>10. ASSUME Stable PROVE Reading(Scanner)
  BY <1>0, <1>10, StableReads
<1>11. ASSUME Hop PROVE Reading(Scanner)
  BY <1>0, <1>11, HopReads
<1>12. ASSUME BeginScan PROVE Reading(Scanner)
  BY <1>0, <1>12, BeginScanReads
<1>13. Reading(Scanner)
  BY <1>1, <1>2, <1>3, <1>4, <1>5, <1>6, <1>7, <1>8, <1>9, <1>10, <1>11, <1>12 DEF ScanOwn
<1> QED
  BY <1>0, <1>13, ScanIdly, IdlyReadingKeeps
-----------------------------------------------------------------------------
(* Every step keeps the invariant.                                          *)

LEMMA StutterKeeps ==
  ASSUME Inv, UNCHANGED svars
  PROVE  Inv'
<1>1. /\ leaf' = leaf /\ top' = top /\ pc' = pc /\ reg' = reg /\ freed' = freed
  BY DEF svars, vars
<1>2. LeafIds' = LeafIds /\ Topped' = Topped /\ OptLeaf' = OptLeaf
  BY <1>1 DEF LeafIds, Topped, OptLeaf
<1>3. ASSUME NEW t \in Threads
      PROVE  /\ Dying(t)' = Dying(t) /\ Halving(t)' = Halving(t) /\ Halved(t)' = Halved(t)
             /\ HoldsLeaf(t)' = HoldsLeaf(t) /\ HoldsOther(t)' = HoldsOther(t)
                /\ HoldsTop(t)' = HoldsTop(t)
             /\ Pending(t)' = Pending(t) /\ Parting(t)' = Parting(t) /\ Inserting(t)' = Inserting(t)
             /\ Puts(t)' = Puts(t) /\ Removes(t)' = Removes(t)
  BY <1>1 DEF Dying, Halving, Halved, HoldsLeaf, HoldsOther, HoldsTop, Pending, Parting, Inserting,
       Puts, Removes
<1>4. Types'
  BY <1>1, <1>2 DEF Types, Inv, Base
<1>5. Pointers'
  BY <1>1, <1>2, <1>3 DEF Pointers, Pointing, Inv, Base
<1>6. Control'
  BY <1>1, <1>2, <1>3 DEF Control, Controlled, Inv, Base
<1>7. Locking'
  BY <1>1, <1>2, <1>3 DEF Locking, Holds, Inv, Base
<1>8. TopLocking'
  BY <1>1, <1>2, <1>3 DEF TopLocking, Inv, Base
<1>9. Parents'
  BY <1>1, <1>2, <1>3 DEF Parents, Inv, Base
<1>10. Placing'
  BY <1>1, <1>2, <1>3 DEF Placing, Placed, Keep, Inv, Base
<1>11. Deletion'
  BY <1>1, <1>2, <1>3 DEF Deletion, Condemned, Inv
<1>12. Ordered'
  BY <1>1, <1>2 DEF Ordered, Sorted, AboveBound, IkeyAt, Bound, Inv
<1>13. Fits'
  BY <1>1, <1>2, <1>3 DEF Fits, Fitting, Parts, Reaches, Harmless, Keep, IkeyAt, Bound, Inv
<1>14. Internode'
  <2>1. Registered' = Registered /\ Separators' = Separators
    BY <1>1, <1>2, <1>3 DEF Registered, Unregistered, Separators
  <2>2. \A l : Bound(l)' = Bound(l)
    BY <1>1 DEF Bound
  <2> QED
    BY <1>1, <1>2, <2>1, <2>2 DEF Internode, Named, Inv
<1>15. Routing'
  BY <1>1 DEF Routing, Led, Reaches, Bound, Inv
<1> QED
  BY <1>4, <1>5, <1>6, <1>7, <1>8, <1>9, <1>10, <1>11, <1>12, <1>13, <1>14, <1>15 DEF Inv, Base

LEMMA NextKeeps ==
  ASSUME Inv, Concurrent, ikey \in Int, [ScanNext]_svars
  PROVE  Inv'
<1>1. CASE BeginScan \/ ScanStep
  BY <1>1, ScannerAssumption, ScanOwnKeeps, StepKeeps DEF ScanStep, ScanOwn
<1>2. CASE \E t \in Threads : Begin(t) \/ BeginOneOf(t, ScanCalls) \/ Step(t)
  BY <1>2, BeginKeeps, StepKeeps
<1>3. CASE UNCHANGED svars
  BY <1>3, StutterKeeps
<1> QED
  BY <1>1, <1>2, <1>3 DEF ScanNext
-----------------------------------------------------------------------------
(* A leaf of the tree at the start.                                         *)

LEMMA ViewType ==
  ASSUME NEW lf \in Seq(LeafRecord), NEW k
  PROVE  View(lf, k) \in Values \cup {Blank}
<1> DEFINE at == {l \in 1..Len(lf) : \E e \in Used(lf[l].perm) : lf[l].ikey[e] = k}
           here == CHOOSE l \in at : TRUE
           slot == CHOOSE e \in Used(lf[here].perm) : lf[here].ikey[e] = k
<1>1. CASE at = {}
  BY <1>1 DEF View
<1>2. CASE at # {}
  <2>1. here \in at
    BY <1>2
  <2>2. here \in 1..Len(lf) /\ \E e \in Used(lf[here].perm) : lf[here].ikey[e] = k
    BY <2>1
  <2>3. slot \in Used(lf[here].perm)
    BY <2>2
  <2>4. View(lf, k) = lf[here].lv[slot]
    BY <1>2 DEF View
  <2> HIDE DEF at, here, slot
  <2>5. PICK x \in LeafRecord : x = lf[here]
    BY <2>2
  <2>6. x.perm \in Permuters /\ x.lv \in [Slots -> Values \cup {Blank}]
    BY LeafType
  <2>7. PICK p \in Permuters : p = x.perm
    BY <2>6
  <2>8. p.order \in [1..Width -> Slots] /\ p.size \in 0..Width
    BY PermType
  <2>9. slot \in Slots
    BY <2>3, <2>5, <2>7, <2>8, WidthType DEF Used
  <2> QED
    BY <2>4, <2>5, <2>6, <2>9
<1> QED
  BY <1>1, <1>2

\* x is the leaf i of count ones that were loaded; its keys are in order.
FreshLeaf(x, p, keys, count, i) ==
  /\ x \in LeafRecord /\ x.perm = p /\ x.next = (IF i = count THEN Null ELSE i + 1)
  /\ x.prev = i - 1 /\ x.hasParent = (count > 1) /\ x.marked = FALSE
  /\ ~x.ver.lock /\ ~x.ver.ins /\ ~x.ver.spl /\ ~x.ver.del
  /\ Len(keys) \in 1..Width /\ keys \in Seq(Keys)
  /\ \A e \in 0..(Len(keys) - 1) : x.ikey[e] = keys[e + 1]

LEMMA LoadedLeafFacts ==
  ASSUME NEW load, IsLoad(load), NEW i \in DOMAIN load.keys, NEW p \in Permuters
  PROVE  FreshLeaf(LoadedLeaf(load, p, i), p, load.keys[i], Len(load.keys), i)
<1> SUFFICES ASSUME NEW x, x = LoadedLeaf(load, p, i), NEW keys, keys = load.keys[i], NEW count,
                    count = Len(load.keys)
             PROVE  FreshLeaf(x, p, keys, count, i)
  OBVIOUS
<1>1. /\ load.keys \in Seq(Seq(Keys)) /\ Len(keys) \in 1..Width /\ load.gone \subseteq Keys
  BY DEF IsLoad
<1>2. count \in Nat /\ i \in 1..count /\ keys \in Seq(Keys) /\ DOMAIN load.keys = 1..count
  BY <1>1
<1> DEFINE last == i = Len(load.keys)
           gone == load.gone \cap ToSet(load.keys[i])
           v == [NewVersion EXCEPT !.root = last, !.vsplit = IF last THEN 0 ELSE 1,
                                   !.vinsert = IF gone = {} THEN 0 ELSE 1]
           mod == IF gone = {} THEN "insert" ELSE "remove"
           ik == [e \in Slots |-> IF e < Len(load.keys[i]) THEN load.keys[i][e + 1] ELSE 0]
           lv == [e \in Slots |-> IF e < Len(load.keys[i]) THEN CHOOSE w \in Values : TRUE ELSE Blank]
           to == IF last THEN Null ELSE i + 1
           h == Len(load.keys) > 1
<1>3. x = [ver |-> v, mod |-> mod, ts |-> gone, perm |-> p, ikey |-> ik, lv |-> lv, next |-> to,
           marked |-> FALSE, prev |-> i - 1, hasParent |-> h]
  BY DEF LoadedLeaf
<1>4. /\ last = (i = count) /\ last \in BOOLEAN /\ h = (count > 1) /\ h \in BOOLEAN
      /\ gone \in SUBSET Keys /\ mod \in {"insert", "remove"}
  BY <1>1
<1>5. to = IF i = count THEN Null ELSE i + 1
  OBVIOUS
<1>6. v \in Version /\ ~v.lock /\ ~v.ins /\ ~v.spl /\ ~v.del
  <2>1. PICK b \in BOOLEAN : b = last
    BY <1>4
  <2>4. (IF last THEN 0 ELSE 1) \in Nat /\ (IF gone = {} THEN 0 ELSE 1) \in Nat
    OBVIOUS
  <2>2. PICK x1, x2 \in Nat : x1 = (IF last THEN 0 ELSE 1) /\ x2 = (IF gone = {} THEN 0 ELSE 1)
    BY <2>4
  <2>3. v = [NewVersion EXCEPT !.root = b, !.vsplit = x1, !.vinsert = x2]
    BY <2>1, <2>2
  <2> HIDE DEF v
  <2> QED
    BY <2>3, NewVersionType DEF Version
<1>7. ik \in [Slots -> Int]
  <2> SUFFICES ASSUME NEW e \in Slots, e < Len(keys) PROVE keys[e + 1] \in Int
    OBVIOUS
  <2>1. PICK m \in 1..Len(keys) : m = e + 1
    BY <1>1, WidthType
  <2>2. keys[m] \in Keys
    BY <1>2
  <2> QED
    BY <2>1, <2>2, KeysAssumption
<1>8. \A e \in 0..(Len(keys) - 1) : ik[e] = keys[e + 1]
  BY <1>1, WidthType
<1>9. lv \in [Slots -> Values \cup {Blank}]
  BY ValuesAssumption
<1> HIDE DEF last, gone, v, mod, ik, lv, to, h
<1>10. to \in Nat /\ i - 1 \in Nat
  BY <1>2, <1>5 DEF Null
<1>11. x \in LeafRecord
  BY <1>3, <1>4, <1>6, <1>7, <1>9, <1>10 DEF LeafRecord
<1>12. /\ x.perm = p /\ x.next = to /\ x.prev = i - 1 /\ x.hasParent = h /\ x.marked = FALSE
       /\ x.ver = v /\ x.ikey = ik
  BY <1>3
<1> QED
  BY <1>1, <1>2, <1>4, <1>5, <1>6, <1>8, <1>11, <1>12 DEF FreshLeaf
-----------------------------------------------------------------------------
(* The invariant holds at the start.                                        *)

LoadedAs(load, perms, count, made) ==
  /\ IsLoad(load) /\ Load(load, made) /\ count = Len(load.keys) /\ count >= 1
  /\ DOMAIN load.keys = 1..count /\ LeafIds = 1..count /\ leaf \in Seq(LeafRecord)
  /\ perms \in [1..count -> Permuters]
  /\ \A i \in 1..count :
       /\ leaf[i] = LoadedLeaf(load, perms[i], i)
       /\ IsLoaded(perms[i], load.keys[i], load.gone)

LEMMA LoadedFacts ==
  ASSUME NEW loads, \A load \in loads : IsLoad(load), NEW made, InitWith(loads, made)
  PROVE  \E load, perms : \E count \in Nat : LoadedAs(load, perms, count, made)
<1>1. PICK load \in loads : Load(load, made)
  BY DEF InitWith
<1>2. IsLoad(load)
  OBVIOUS
<1>3. PICK perms \in [DOMAIN load.keys -> Permuters] :
        /\ \A i \in DOMAIN load.keys : IsLoaded(perms[i], load.keys[i], load.gone)
        /\ leaf = [i \in DOMAIN load.keys |-> LoadedLeaf(load, perms[i], i)]
  BY <1>1 DEF Load
<1>4. PICK count \in Nat : count = Len(load.keys) /\ DOMAIN load.keys = 1..count /\ count >= 1
  BY <1>2 DEF IsLoad
<1>5. ASSUME NEW i \in 1..count
      PROVE  leaf[i] = LoadedLeaf(load, perms[i], i) /\ leaf[i] \in LeafRecord
  <2>1. perms[i] \in Permuters /\ i \in DOMAIN load.keys
    BY <1>3, <1>4
  <2>2. leaf[i] = LoadedLeaf(load, perms[i], i)
    BY <1>3, <2>1
  <2>3. FreshLeaf(leaf[i], perms[i], load.keys[i], Len(load.keys), i)
    BY <1>2, <2>1, <2>2, LoadedLeafFacts
  <2> QED
    BY <2>2, <2>3 DEF FreshLeaf
<1>6. leaf \in [1..count -> LeafRecord]
  <2>1. leaf = [i \in 1..count |-> LoadedLeaf(load, perms[i], i)]
    BY <1>3, <1>4
  <2>2. leaf = [i \in 1..count |-> leaf[i]]
    BY <2>1
  <2> QED
    BY <1>5, <2>2
<1>7. leaf \in Seq(LeafRecord) /\ LeafIds = 1..count
  BY <1>6 DEF LeafIds
<1>8. LoadedAs(load, perms, count, made)
  BY <1>1, <1>2, <1>3, <1>4, <1>5, <1>7 DEF LoadedAs
<1> QED
  BY <1>8

LEMMA LoadedInv ==
  ASSUME NEW loads, \A load \in loads : IsLoad(load), NEW made, InitWith(loads, made)
  PROVE  Inv
<1>0. PICK load, perms : \E count \in Nat : LoadedAs(load, perms, count, made)
  BY LoadedFacts
<1>20. PICK count \in Nat : LoadedAs(load, perms, count, made)
  BY <1>0
<1>1. /\ IsLoad(load) /\ Load(load, made) /\ count = Len(load.keys) /\ count >= 1 /\ count \in Nat
      /\ DOMAIN load.keys = 1..count /\ LeafIds = 1..count /\ leaf \in Seq(LeafRecord)
      /\ perms \in [1..count -> Permuters]
      /\ \A i \in 1..count :
           /\ leaf[i] = LoadedLeaf(load, perms[i], i)
           /\ IsLoaded(perms[i], load.keys[i], load.gone)
  BY <1>20 DEF LoadedAs
<1>21. count >= 1 /\ count \in Nat
  BY <1>1
<1>6. count = 1 \/ count > 1
  BY <1>21
<1>2. ASSUME NEW i \in 1..count
      PROVE  /\ leaf[i].next = (IF i = count THEN Null ELSE i + 1)
             /\ leaf[i].prev = i - 1 /\ leaf[i].hasParent = (count > 1) /\ leaf[i].marked = FALSE
             /\ ~leaf[i].ver.lock /\ ~leaf[i].ver.ins /\ ~leaf[i].ver.spl /\ ~leaf[i].ver.del
             /\ leaf[i].perm = perms[i] /\ perms[i] \in Permuters /\ i \in DOMAIN load.keys
             /\ Len(load.keys[i]) \in 1..Width /\ load.keys[i] \in Seq(Keys)
             /\ \A e \in 0..(Len(load.keys[i]) - 1) : leaf[i].ikey[e] = load.keys[i][e + 1]
  <2>1. perms[i] \in Permuters /\ i \in DOMAIN load.keys /\ leaf[i] = LoadedLeaf(load, perms[i], i)
    BY <1>1
  <2>2. FreshLeaf(leaf[i], perms[i], load.keys[i], count, i)
    BY <1>1, <2>1, LoadedLeafFacts
  <2> QED
    BY <2>1, <2>2 DEF FreshLeaf
<1>3. \A t \in Threads : pc[t] = "idle" /\ reg[t] = NoLocals
  BY DEF InitWith
<1>4. ASSUME NEW t \in Threads
      PROVE  /\ ~Dying(t) /\ ~Halving(t) /\ ~Halved(t) /\ ~HoldsLeaf(t) /\ ~HoldsOther(t)
                /\ ~HoldsTop(t)
             /\ ~Pending(t) /\ ~Parting(t) /\ ~Inserting(t) /\ ~Puts(t) /\ ~Removes(t)
             /\ \A l : ~Holds(t, l)
  <2>1. reg[t].kind = "none" /\ reg[t].hasTop = FALSE /\ reg[t].nr = Null /\ pc[t] = "idle"
    BY <1>3, NoLocalsType
  <2>2. ~Puts(t) /\ ~Removes(t)
    BY <2>1 DEF Puts, Removes
  <2>3. ~Halving(t) /\ ~Halved(t) /\ ~Dying(t)
    BY <2>1, <2>2 DEF Halving, Halved, Dying, DyingPlaces
  <2>4. ~HoldsOther(t) /\ ~HoldsLeaf(t)
    BY <2>1, <2>2, <2>3 DEF HoldsOther, HoldsLeaf, PutPlaces, DyingPlaces
  <2>5. ~HoldsTop(t) /\ ~Pending(t) /\ ~Parting(t) /\ ~Inserting(t)
    BY <2>1, <2>2, <2>3 DEF HoldsTop, Pending, Parting, Inserting
  <2> QED
    BY <2>2, <2>3, <2>4, <2>5 DEF Holds
<1>5. /\ top.ver \in Version /\ ~top.ver.lock /\ ~top.ver.ins /\ ~top.ver.spl /\ ~top.ver.del
         /\ top.ver.vsplit = 0
      /\ count = 1 => top = NoTop /\ ~Topped
      /\ count > 1 => /\ Topped /\ top.ver.root /\ Len(top.ikey) = count - 1 /\ Len(top.child) = count
                      /\ \A i \in 1..(count - 1) : top.ikey[i] = load.keys[i + 1][1]
                      /\ \A i \in 1..count : top.child[i] = i
      /\ top \in [ver : Version, ikey : Seq(Int), child : Seq(Nat)]
  <2>1. top = LoadedTop(load.keys)
    BY <1>1 DEF Load
  <2>2. CASE count = 1
    <3>1. top = NoTop
      BY <1>1, <2>1, <2>2 DEF LoadedTop
    <3>2. top = [ver |-> NewVersion, ikey |-> <<>>, child |-> <<>>]
      BY <3>1 DEF NoTop
    <3>3. ~Topped
      BY <3>2 DEF Topped
    <3> HIDE DEF NewVersion
    <3> QED
      BY <2>2, <3>1, <3>2, <3>3, NewVersionType
  <2>3. CASE count > 1
    <3> DEFINE ik == [i \in 1..(Len(load.keys) - 1) |-> load.keys[i + 1][1]]
               ch == [i \in 1..Len(load.keys) |-> i]
    <3>1. top = [ver |-> [NewVersion EXCEPT !.root = TRUE], ikey |-> ik, child |-> ch]
      BY <1>1, <2>1, <2>3 DEF LoadedTop
    <3>2. ik \in [1..(count - 1) -> Int] /\ \A i \in 1..(count - 1) : ik[i] = load.keys[i + 1][1]
      <4> SUFFICES ASSUME NEW i \in 1..(count - 1) PROVE load.keys[i + 1][1] \in Int
        BY <1>1
      <4>1. PICK m \in 1..count : m = i + 1
        BY <1>1
      <4>2. load.keys[m] \in Seq(Keys) /\ Len(load.keys[m]) \in 1..Width
        BY <1>2
      <4>3. 1 \in 1..Len(load.keys[m])
        BY <4>2, WidthType
      <4>4. load.keys[m][1] \in Keys
        BY <4>2, <4>3
      <4> QED
        BY <4>1, <4>4, KeysAssumption
    <3>3. ch \in [1..count -> Nat] /\ \A i \in 1..count : ch[i] = i
      BY <1>1
    <3> HIDE DEF ik, ch
    <3>4. ik \in Seq(Int) /\ Len(ik) = count - 1 /\ ch \in Seq(Nat) /\ Len(ch) = count
      BY <2>3, <3>2, <3>3
    <3>5. top.ver = RootVersion /\ top.ikey = ik /\ top.child = ch
      BY <3>1 DEF RootVersion
    <3>6. top \in [ver : Version, ikey : Seq(Int), child : Seq(Nat)]
      BY <3>1, <3>4, RootVersionType DEF RootVersion
    <3>7. Topped
      BY <2>3, <3>4, <3>5 DEF Topped
    <3> QED
      BY <2>3, <3>2, <3>3, <3>4, <3>5, <3>6, <3>7, RootVersionType
  <2> QED
    BY <1>6, <2>2, <2>3
<1>7. QED
  <2>1. Types
    <3>1. leaf # <<>>
      BY <1>1 DEF LeafIds
    <3>2. pc \in [Threads -> Places] /\ reg \in [Threads -> Local] /\ freed \subseteq LeafIds
      BY NoLocalsType DEF InitWith, Places
    <3>3. top = NoTop \/ (Topped /\ Len(top.child) = Len(top.ikey) + 1)
      BY <1>5, <1>6
    <3> QED
      BY <1>1, <1>5, <3>1, <3>2, <3>3 DEF Types
  <2>2. Pointers
    <3>1. ASSUME NEW l \in LeafIds
          PROVE  /\ leaf[l].next \in OptLeaf \ {1} /\ leaf[l].prev \in OptLeaf
                 /\ leaf[l].prev = Null <=> l = 1
      <4>1. l \in 1..count
        BY <1>1
      <4>2. leaf[l].next = (IF l = count THEN Null ELSE l + 1) /\ leaf[l].prev = l - 1
        BY <1>2, <4>1
      <4> QED
        BY <1>1, <4>1, <4>2 DEF OptLeaf, Null
    <3>2. \A i \in 1..Len(top.child) : top.child[i] \in LeafIds
      <4>1. CASE count = 1
        BY <1>5, <4>1 DEF NoTop
      <4>2. CASE count > 1
        BY <1>1, <1>5, <4>2
      <4> QED
        BY <1>6, <4>1, <4>2
    <3>3. ASSUME NEW t \in Threads PROVE Pointing(t)
      BY <1>3, <1>4, NoLocalsType DEF Pointing, OptLeaf, LeafPlaces, ReadPlaces, PutPlaces,
           RemovePlaces, BothPlaces, DyingPlaces
    <3> QED
      BY <3>1, <3>2, <3>3 DEF Pointers
  <2>3. Control
    BY <1>3, <1>4, NoLocalsType DEF Control, Controlled, PutPlaces, RemovePlaces, BothPlaces,
         DyingPlaces, ScanPlaces
  <2>4. Locking
    BY <1>1, <1>2, <1>3, <1>4 DEF Locking, Steady
  <2>5. TopLocking
    BY <1>3, <1>4, <1>5, <1>6 DEF TopLocking
  <2>6. Parents
    <3>1. \A l \in LeafIds : leaf[l].hasParent = (count > 1)
      BY <1>1, <1>2
    <3>2. CASE count = 1
      <4>1. ~Topped /\ LeafIds \ {1} = {}
        BY <1>1, <1>5, <3>2
      <4>2. (count > 1) = FALSE
        BY <3>2
      <4>3. \A l \in LeafIds : ~leaf[l].hasParent
        BY <3>1, <4>2
      <4> QED
        BY <4>1, <4>3 DEF Parents
    <3>3. CASE count > 1
      BY <1>5, <3>1, <3>3 DEF Parents
    <3> QED
      BY <1>6, <3>2, <3>3
  <2>7. Placing
    BY <1>3, <1>4 DEF Placing, Placed
  <2>8. Deletion
    <3>1. \A t \in Threads : Condemned(t)
      BY <1>3, <1>4 DEF Condemned
    <3>2. freed = {}
      BY DEF InitWith
    <3> QED
      BY <1>1, <1>2, <1>4, <3>1, <3>2 DEF Deletion
  <2>9. Ordered
    <3> SUFFICES ASSUME NEW l \in 1..count PROVE Sorted(l) /\ AboveBound(l)
      BY <1>1 DEF Ordered
    <3>1. PICK p \in Permuters : p = leaf[l].perm /\ IsLoaded(p, load.keys[l], load.gone)
      BY <1>1, <1>2
    <3>2. PICK keys \in Seq(Keys), len \in 1..Width :
            keys = load.keys[l] /\ len = Len(keys)
            /\ \A e \in 0..(len - 1) : leaf[l].ikey[e] = keys[e + 1]
      BY <1>2
    <3>3. \A j, k \in 1..len : j < k => keys[j] < keys[k]
      <4>1. l \in DOMAIN load.keys /\ DOMAIN keys = 1..len
        BY <1>1, <3>2
      <4>2. \A j, k \in DOMAIN load.keys[l] : l < l \/ (l = l /\ j < k)
            => load.keys[l][j] < load.keys[l][k]
        BY <1>1, <4>1 DEF IsLoad
      <4>3. \A j, k \in DOMAIN load.keys[l] : j < k => load.keys[l][j] < load.keys[l][k]
        BY <4>2
      <4>4. \A j, k \in DOMAIN keys : j < k => keys[j] < keys[k]
        BY <3>2, <4>3
      <4>5. DOMAIN keys = 1..len
        BY <4>1
      <4> SUFFICES ASSUME NEW j \in 1..len, NEW k \in 1..len, j < k PROVE keys[j] < keys[k]
        OBVIOUS
      <4>6. j \in DOMAIN keys /\ k \in DOMAIN keys
        BY <4>5
      <4> QED
        BY <4>4, <4>6
    <3>4. ASSUME NEW j \in 1..len PROVE keys[j] \in Int
      <4>1. keys[j] \in Keys
        BY <3>2
      <4> QED
        BY <4>1, KeysAssumption
    <3>5. p.size \in 0..Width /\ \A i, j \in 1..p.size : i < j => p.order[i] < p.order[j]
      BY <3>1, PermType DEF IsLoaded
    <3>6. ASSUME NEW i \in 1..p.size
          PROVE  p.order[i] \in 0..(len - 1)
      <4>1. p.order[i] \in Used(p)
        BY DEF Used
      <4> QED
        BY <3>1, <3>2, <4>1 DEF IsLoaded
    <3>7. \A i \in 1..p.size : IkeyAt(l, i) = leaf[l].ikey[p.order[i]]
      BY <3>1 DEF IkeyAt
    <3>8. \A d, e \in 0..(len - 1) : d < e => leaf[l].ikey[d] < leaf[l].ikey[e]
      <4> SUFFICES ASSUME NEW d \in 0..(len - 1), NEW e \in 0..(len - 1), d < e
                   PROVE  leaf[l].ikey[d] < leaf[l].ikey[e]
        OBVIOUS
      <4>1. PICK j, k \in 1..len : j = d + 1 /\ k = e + 1 /\ j < k
        <5>1. d + 1 \in 1..len /\ e + 1 \in 1..len /\ d + 1 < e + 1
          BY <3>2, WidthType
        <5> QED
          BY <5>1
      <4> QED
        BY <3>2, <3>3, <4>1
    <3>9. Sorted(l)
      <4> SUFFICES ASSUME NEW i \in 1..p.size, NEW j \in 1..p.size, i < j
                   PROVE  IkeyAt(l, i) < IkeyAt(l, j)
        BY <3>1 DEF Sorted
      <4> QED
        BY <3>5, <3>6, <3>7, <3>8
    <3>10. AboveBound(l)
      <4> SUFFICES ASSUME NEW i \in 1..p.size PROVE Bound(l) <= IkeyAt(l, i)
        BY <3>1 DEF AboveBound
      <4>1. PICK d \in 0..(len - 1) : d = p.order[i] /\ IkeyAt(l, i) = leaf[l].ikey[d]
        BY <3>6, <3>7
      <4>2. 0 \in 0..(len - 1)
        BY <3>2, WidthType
      <4>3. PICK x : x = leaf[l].ikey[0]
        OBVIOUS
      <4>4. x \in Int
        <5>1. l \in LeafIds
          BY <1>1
        <5>2. x = keys[0 + 1]
          BY <3>2, <4>2, <4>3
        <5>3. 0 + 1 = 1 /\ 1 \in 1..len
          BY <3>2, WidthType
        <5> QED
          BY <3>4, <5>2, <5>3
      <4>5. CASE d = 0
        BY <4>1, <4>3, <4>4, <4>5 DEF Bound
      <4>6. CASE 0 < d
        <5>1. x < leaf[l].ikey[d]
          BY <3>8, <4>1, <4>2, <4>3, <4>6
        <5>2. leaf[l].ikey[d] \in Int
          <6>1. PICK j \in 1..len : j = d + 1
            BY <3>2, WidthType
          <6> QED
            BY <3>2, <3>4, <6>1
        <5> QED
          BY <4>1, <4>3, <4>4, <5>1, <5>2 DEF Bound
      <4> QED
        BY <4>1, <4>5, <4>6
    <3> QED
      BY <3>9, <3>10
  <2>10. Fits
    BY <1>3, <1>4 DEF Fits, Fitting
  <2>11. Internode
    <3>1. \A i \in 1..count : Bound(i) = load.keys[i][1]
      <4> SUFFICES ASSUME NEW i \in 1..count PROVE leaf[i].ikey[0] = load.keys[i][1]
        BY DEF Bound
      <4>0. PICK len \in 1..Width : len = Len(load.keys[i])
        BY <1>2
      <4>1. 0 \in 0..(Len(load.keys[i]) - 1) /\ 0 + 1 = 1
        BY <4>0, WidthType
      <4>2. leaf[i].ikey[0] = load.keys[i][0 + 1]
        BY <1>2, <4>1
      <4> QED
        BY <4>1, <4>2
    <3>2. CASE count = 1
      BY <1>5, <3>2 DEF Internode, Separators, NoTop, Topped
    <3>3. CASE count > 1
      <4>1. Separators = 1..(count - 1) /\ Topped
        BY <1>5, <3>3 DEF Separators
      <4>2. top.child[1] = 1
        BY <1>5, <3>3
      <4>3. ASSUME NEW i \in 1..(count - 1)
            PROVE  top.child[i + 1] = i + 1 /\ i + 1 # 1 /\ Bound(i + 1) = top.ikey[i]
                   /\ i + 1 \in 1..count
        <5>1. PICK m \in 1..count : m = i + 1 /\ m # 1
          BY <1>1
        <5>2. top.child[m] = m /\ Bound(m) = load.keys[m][1] /\ top.ikey[i] = load.keys[m][1]
          BY <1>5, <3>1, <3>3, <5>1
        <5> QED
          BY <5>1, <5>2
      <4>4. ASSUME NEW i \in 1..(count - 1), NEW j \in 1..(count - 1), i < j
            PROVE  top.ikey[i] <= top.ikey[j]
        <5>1. PICK h, k \in 1..count : h = i + 1 /\ k = j + 1 /\ h < k
          <6>1. i + 1 \in 1..count /\ j + 1 \in 1..count /\ i + 1 < j + 1
            BY <1>1, <4>4
          <6> QED
            BY <6>1
        <5>2. top.ikey[i] = load.keys[h][1] /\ top.ikey[j] = load.keys[k][1]
          BY <1>5, <3>3, <5>1
        <5>3. h \in DOMAIN load.keys /\ k \in DOMAIN load.keys /\ 1 \in DOMAIN load.keys[h]
              /\ 1 \in DOMAIN load.keys[k]
          <6> SUFFICES ASSUME NEW l \in 1..count PROVE l \in DOMAIN load.keys /\ 1 \in DOMAIN load.keys[l]
            BY <5>1
          <6>1. PICK q \in Seq(Keys), len \in 1..Width : q = load.keys[l] /\ len = Len(q)
            BY <1>2
          <6>2. DOMAIN q = 1..len /\ 1 \in 1..len
            BY <6>1, WidthType
          <6> QED
            BY <1>1, <6>1, <6>2
        <5>4. load.keys[h][1] < load.keys[k][1]
          BY <1>1, <5>1, <5>3 DEF IsLoad
        <5>5. top.ikey[i] \in Int /\ top.ikey[j] \in Int
          BY <1>5, <3>3
        <5> QED
          BY <5>2, <5>4, <5>5
      <4>5. \E h \in [Registered -> Separators] : Named(h)
        <5>1. Registered = 2..count
          <6>1. freed = {}
            BY DEF InitWith
          <6>2. Unregistered = {1}
            BY <1>4, <6>1 DEF Unregistered
          <6> QED
            BY <1>1, <6>2 DEF Registered
        <5>2. PICK h : h = [l \in Registered |-> l - 1]
          OBVIOUS
        <5>3. h \in [Registered -> Separators]
          BY <1>1, <4>1, <5>1, <5>2
        <5>4. ASSUME NEW l \in Registered PROVE top.ikey[h[l]] = Bound(l)
          <6>1. PICK i \in 1..(count - 1) : i + 1 = l /\ h[l] = i
            <7>1. l - 1 \in 1..(count - 1) /\ (l - 1) + 1 = l
              BY <1>1, <5>1
            <7> QED
              BY <5>2, <7>1
          <6> QED
            BY <4>3, <6>1
        <5>5. \A l, m \in Registered : h[l] = h[m] => l = m
          BY <5>1, <5>2
        <5> QED
          BY <5>3, <5>4, <5>5 DEF Named
      <4> QED
        BY <4>1, <4>2, <4>3, <4>4, <4>5 DEF Internode
    <3> QED
      BY <1>6, <3>2, <3>3
  <2>12. Routing
    BY <1>3 DEF Routing, Led
  <2> QED
    BY <2>1, <2>2, <2>3, <2>4, <2>5, <2>6, <2>7, <2>8, <2>9, <2>10, <2>11, <2>12 DEF Inv, Base
-----------------------------------------------------------------------------
(* The invariant.                                                           *)

LEMMA SeenKept ==
  ASSUME NEW t \in Threads, leaf' \in Seq(LeafRecord),
         seen[t] \subseteq Values \cup {Blank}, Observe
  PROVE  seen'[t] \subseteq Values \cup {Blank}
<1>1. View(leaf', reg'[t].key) \in Values \cup {Blank}
  BY ViewType
<1>2. seen'[t] = {} \/ seen'[t] = {View(leaf', reg'[t].key)} \/ seen'[t] = seen[t]
         \/ seen'[t] = seen[t] \cup {View(leaf', reg'[t].key)}
  <2> DEFINE x == IF reg'[t].kind \notin CallKinds THEN {}
                ELSE IF pc[t] \in {"idle", "done"} /\ pc'[t] = "root"
                THEN {View(leaf', reg'[t].key)}
                ELSE IF pc[t] = "done" \/ leaf' = leaf THEN seen[t]
                ELSE seen[t] \cup {View(leaf', reg'[t].key)}
  <2>1. seen'[t] = x
    BY DEF Observe
  <2>2. x = {} \/ x = {View(leaf', reg'[t].key)} \/ x = seen[t] \/ x = seen[t] \cup {View(leaf', reg'[t].key)}
    OBVIOUS
  <2> QED
    BY <2>1, <2>2
<1> QED
  BY <1>1, <1>2

LEMMA CallsKept ==
  ASSUME NEW t \in Threads, Step(t)
  PROVE  calls' = calls
<1>1. CASE Root(t) \/ Descend(t) \/ Child(t) \/ Again(t)
  BY <1>1 DEF Root, Descend, Child, Again
<1>2. CASE Lookup(t)
  BY <1>2 DEF Lookup, ReadPermutation, Probe, ReadValue, Check, Advance, Walk, Walked
<1>3. CASE LockedLeaf(t)
  BY <1>3 DEF LockedLeaf, LockLeaf, DeletedMeanwhile, WalkRight, Rightward, UpdateValue,
       RemoveAbsent
<1>4. CASE Insertion(t)
  BY <1>4 DEF Insertion, BeginInsert, InsertHere, InsertExchanged, Assign, AssignKey, Store,
       FinishInsert
<1>5. CASE Split(t)
  BY <1>5 DEF Split, SplitInto, LockNext, LinkBack, Link, NewTop, LockParent, MarkParent, AddChild,
              MarkLeafSplit, Shrink, UnlockOther, UnlockParent
<1>6. CASE Removal(t)
  BY <1>6 DEF Removal, BeginRemove, Stamp, RemoveEntry, KeepFirstLeaf, MarkLeafDeleted, ReadKeeper,
       Raise,
              CheckKeeper, UnlinkNext, ReadPrev, MarkPrev, UnlinkBack, Unlink, UnlockDeleted, DropChild, FreeLeaf
<1> QED
  BY <1>1, <1>2, <1>3, <1>4, <1>5, <1>6 DEF Step

\* Emit compares with ikey, which is a key of a leaf that has been read.
LEMMA ScanReads ==
  ASSUME Base, ikey \in Int, ScanOwn \/ BeginScan
  PROVE  ikey' \in Int /\ calls' = calls
<1>1. CASE ReadIkey
  <2>1. ikey' = leaf[reg[Scanner].n].ikey[Slot] /\ calls' = calls /\ pc[Scanner] = "next" /\ InRange
    BY <1>1 DEF ReadIkey, n, s, At
  <2>2. reg[Scanner] \in Local /\ reg[Scanner].n \in LeafIds
    <3>1. pc[Scanner] \in LeafPlaces
      BY <2>1 DEF LeafPlaces, ReadPlaces
    <3> QED
      BY <3>1, ScannerAssumption, AtLeaf DEF Base, Types
  <2>3. PICK p \in Permuters : p = reg[Scanner].perm
    BY <2>2, LocalType
  <2>4. p.order \in [1..Width -> Slots] /\ p.size \in 0..Width
    BY PermType
  <2>5. reg[Scanner].ki \in Int /\ reg[Scanner].ki >= 0 /\ reg[Scanner].ki < p.size
    BY <2>1, <2>2, <2>3, LocalType DEF InRange, s
  <2>6. PICK i \in 1..Width : i = reg[Scanner].ki + 1
    BY <2>4, <2>5, WidthType
  <2>7. Slot \in Slots
    BY <2>3, <2>4, <2>6 DEF Slot, s
  <2>8. leaf[reg[Scanner].n].ikey \in [Slots -> Int]
    BY <2>2, LeafFacts
  <2> QED
    BY <2>1, <2>7, <2>8
<1>2. CASE ScanOwn /\ ~ReadIkey
  BY <1>2 DEF ScanOwn, kept, FindInitial, Resume, Lower, LowerEnds, ReadEntry, Emit, LeafEnds,
       AdvanceLeaf, Stable, Hop
<1>3. CASE BeginScan
  BY <1>3 DEF BeginScan
<1> QED
  BY <1>1, <1>2, <1>3

LEMMA HistoryKept ==
  ASSUME Inv, History, [ScanNext]_svars, Inv'
  PROVE  History'
<1>0. Base /\ leaf' \in Seq(LeafRecord)
  BY DEF Inv, Base, Types
<1>1. CASE UNCHANGED svars
  BY <1>1 DEF svars, vars, kept, History
<1>2. CASE ScanNext
  <2>1. Observe
    BY <1>2 DEF ScanNext
  <2>2. ikey' \in Int /\ calls' \in Nat
    <3>0. ikey \in Int /\ calls \in Nat
      BY DEF History
    <3>1. CASE BeginScan \/ ScanOwn
      BY <1>0, <3>0, <3>1, ScanReads
    <3>2. CASE \E t \in Threads : Step(t) /\ UNCHANGED kept
      BY <3>0, <3>2, CallsKept DEF kept
    <3>3. CASE \E t \in Threads : (Begin(t) \/ BeginOneOf(t, ScanCalls)) /\ UNCHANGED kept
      <4>1. calls' = calls + 1 /\ ikey' = ikey
        BY <3>3 DEF kept, Begin, BeginOneOf
      <4> QED
        BY <3>0, <4>1
    <3> QED
      BY <1>2, <3>1, <3>2, <3>3, ScannerAssumption DEF ScanNext, ScanStep, ScanOwn
  <2>3. stale' \in BOOLEAN /\ twins' \in BOOLEAN /\ overlap' \in BOOLEAN
    BY <2>1 DEF Observe
  <2>4. removed' \subseteq Keys
    <3>1. ASSUME NEW t \in Threads, pc[t] = "unuse" PROVE reg[t].key \in Keys
      BY <1>0, <3>1, KindHere DEF RemovePlaces, Base, Control, Controlled
    <3>2. removed' = removed \cup {reg[t].key : t \in {u \in Threads : pc[u] = "unuse" /\ pc'[u] # "unuse"}}
      BY <2>1 DEF Observe
    <3> QED
      BY <3>1, <3>2 DEF History
  <2>5. \A t \in Threads : seen'[t] \subseteq Values \cup {Blank}
    BY <1>0, <2>1, SeenKept DEF History
  <2> QED
    BY <2>2, <2>3, <2>4, <2>5 DEF History
<1> QED
  BY <1>1, <1>2

LEMMA InitSound ==
  ASSUME ScanInit
  PROVE  Inv /\ History
<1>1. \E load \in Loads \cup ScanLoads : \E made \in {0, 1} : InitWith({load}, made)
  BY DEF ScanInit, Init, InitWith
<1>2. PICK load \in Loads \cup ScanLoads, made \in {0, 1} : InitWith({load}, made)
  BY <1>1
<1>3. IsLoad(load)
  BY LoadsAssumption, ScanLoadsAssumption
<1>4. Inv
  BY <1>2, <1>3, LoadedInv
<1>5. Load(load, made)
  BY <1>2 DEF InitWith
<1>6. calls \in Nat /\ removed \subseteq Keys
  BY <1>3, <1>5 DEF Load, IsLoad
<1>7. ikey \in Int
  BY DEF ScanInit
<1>8. stale = FALSE /\ twins = FALSE /\ overlap = FALSE /\ seen = [t \in Threads |-> {}]
  BY <1>2 DEF InitWith
<1>9. History
  BY <1>6, <1>7, <1>8 DEF History
<1> QED
  BY <1>4, <1>9

\* Every step of every thread keeps the inductive invariant: types, locks, deleted
\* leaves, the order of the entries, the places that the threads have found for
\* their entries, and the internode.
THEOREM Invariant ==
  ASSUME Concurrent
  PROVE  ScanSpec => [](Inv /\ History)
<1>1. ScanInit => Inv /\ History
  BY InitSound
<1>2. Inv /\ History /\ [ScanNext]_svars => (Inv /\ History)'
  <2> SUFFICES ASSUME Inv, History, [ScanNext]_svars PROVE Inv' /\ History'
    OBVIOUS
  <2>1. ikey \in Int
    BY DEF History
  <2>2. Inv'
    BY <2>1, NextKeeps
  <2> QED
    BY <2>2, HistoryKept
<1> QED
  BY <1>1, <1>2, PTL DEF ScanSpec
-----------------------------------------------------------------------------
(* The theorems.                                                            *)

\* A permutation lists every slot.
LEMMA PermSlots ==
  ASSUME NEW p \in Permuters
  PROVE  p.size \in 0..Width /\ Len(p.order) = Width /\ ToSet(p.order) = Slots
<1>1. /\ p.size \in 0..Width /\ p.order \in [1..Width -> Slots]
      /\ \A i, j \in 1..Width : i # j => p.order[i] # p.order[j]
  BY DEF Permuters
<1>2. Width \in Nat
  BY WidthAssumption
<1>3. p.order \in Seq(Slots) /\ Len(p.order) = Width
  BY <1>1, <1>2, Z3
<1>4. ToSet(p.order) \subseteq Slots
  BY <1>1, <1>3 DEF ToSet
<1>5. IsFiniteSet(Slots) /\ Cardinality(Slots) = Width
  BY <1>2, FS_Interval DEF Slots
<1>6. IsFiniteSet(ToSet(p.order)) /\ Cardinality(ToSet(p.order)) = Width
  <2>1. p.order \in Bijection(1..Width, ToSet(p.order))
    <3>1. p.order \in [1..Width -> ToSet(p.order)]
      BY <1>1, <1>3 DEF ToSet
    <3>2. \A x \in ToSet(p.order) : \E i \in 1..Width : p.order[i] = x
      BY <1>1, <1>3 DEF ToSet
    <3>3. IsInjective(p.order)
      BY <1>1 DEF IsInjective
    <3> QED
      BY <3>1, <3>2, <3>3 DEF Bijection, Injection, Surjection
  <2>2. ExistsBijection(1..Width, ToSet(p.order))
    BY <2>1 DEF ExistsBijection
  <2>3. IsFiniteSet(ToSet(p.order))
    BY <1>4, <1>5, FS_Subset
  <2> QED
    BY <1>2, <2>2, <2>3, FS_CountingElements
<1>7. ToSet(p.order) = Slots
  BY <1>4, <1>5, <1>6, FS_Subset
<1> QED
  BY <1>1, <1>3, <1>7

\* Whatever the threads do, each leaf has one permutation of its slots and links to
\* leaves, the children of the internode are leaves, and each thread is at a place
\* of the code: the first part of KeysStayInBounds.
THEOREM TypeCorrect ==
  ASSUME Concurrent
  PROVE  ScanSpec => []TypeOK
<1>1. Inv /\ History => TypeOK
  <2> SUFFICES ASSUME Inv, History PROVE TypeOK
    OBVIOUS
  <2>1. Types /\ Pointers
    BY DEF Inv, Base
  <2>2. \A l \in LeafIds : leaf[l] \in LeafRecord
    BY <2>1 DEF Types, LeafIds
  <2>3. \A l \in LeafIds : /\ leaf[l].perm.size \in 0..Width
                           /\ Len(leaf[l].perm.order) = Width /\ ToSet(leaf[l].perm.order) = Slots
                           /\ leaf[l].lv \in [Slots -> Values \cup {Blank}]
    <3> TAKE l \in LeafIds
    <3>1. leaf[l].perm \in Permuters /\ leaf[l].lv \in [Slots -> Values \cup {Blank}]
      BY <2>2 DEF LeafRecord
    <3> QED
      BY <3>1, PermSlots
  <2>4. \A l \in LeafIds : leaf[l].next \in LeafIds \cup {Null}
        /\ leaf[l].prev \in LeafIds \cup {Null}
    BY <2>1 DEF Pointers, OptLeaf
  <2>5. ToSet(top.child) \subseteq LeafIds
    BY <2>1 DEF Types, Pointers, ToSet, NoTop, Topped
  <2>6. pc \in [Threads -> Places] /\ freed \subseteq LeafIds
    BY <2>1 DEF Types
  <2>7. calls \in Nat /\ {stale, twins, overlap} \subseteq BOOLEAN
        /\ \A t \in Threads : seen[t] \subseteq Values \cup {Blank}
    BY DEF History
  <2> QED
    BY <2>3, <2>4, <2>5, <2>6, <2>7 DEF TypeOK
<1> QED
  BY <1>1, Invariant, PTL

\* The lock bit of the version of a leaf, or of the internode, is set exactly while
\* a thread holds it, and one thread does: lock and unlock, nodeversion.hh:87-130.
OneHolder ==
  /\ \A l \in LeafIds : /\ leaf[l].ver.lock <=> \E t \in Threads : Holds(t, l)
                        /\ \A t, u \in Threads : Holds(t, l) /\ Holds(u, l) => t = u
  /\ top.ver.lock <=> \E t \in Threads : HoldsTop(t)
  /\ \A t, u \in Threads : HoldsTop(t) /\ HoldsTop(u) => t = u

\* No two threads hold the lock of one leaf, or that of the internode, and no lock
\* is lost or left behind: the hand-over-hand locks of splits and removals.
THEOREM LocksExclude ==
  ASSUME Concurrent
  PROVE  ScanSpec => []OneHolder
<1>1. Inv /\ History => OneHolder
  BY DEF Inv, Base, Locking, TopLocking, OneHolder
<1> QED
  BY <1>1, Invariant, PTL

\* The permutation of each leaf lists its entries by ascending keys, and none is
\* below ikey_bound() of its leaf.
EntriesInOrder ==
  \A l \in LeafIds :
    /\ \A i, j \in 1..leaf[l].perm.size : i < j => IkeyAt(l, i) < IkeyAt(l, j)
    /\ \A e \in Used(leaf[l].perm) : leaf[l].prev # Null => leaf[l].ikey[e] >= Bound(l)

\* Insertions, removals, the reuse of slots and splits keep the entries of each leaf
\* in order and above the bound of the leaf, at every step and even after a thread
\* has used a freed leaf.
THEOREM LeavesAreSorted ==
  ASSUME Concurrent
  PROVE  ScanSpec => []EntriesInOrder
<1>1. Inv /\ History => EntriesInOrder
  <2> SUFFICES ASSUME Inv, NEW l \in LeafIds
               PROVE  /\ Sorted(l)
                      /\ \A e \in Used(leaf[l].perm) : leaf[l].prev # Null
                         => leaf[l].ikey[e] >= Bound(l)
    BY DEF EntriesInOrder, Sorted
  <2>1. Sorted(l) /\ AboveBound(l)
    BY DEF Inv, Ordered
  <2>2. ASSUME NEW e \in Used(leaf[l].perm), leaf[l].prev # Null PROVE leaf[l].ikey[e] >= Bound(l)
    <3>1. PICK i \in 1..leaf[l].perm.size : e = leaf[l].perm.order[i]
      BY <2>2 DEF Used
    <3>2. l # 1
      BY <2>2 DEF Inv, Base, Pointers
    <3>3. Bound(l) <= IkeyAt(l, i)
      BY <2>1, <3>1, <3>2 DEF AboveBound
    <3>4. leaf[l].ikey \in [Slots -> Int] /\ leaf[l].perm \in Permuters
      <4>1. leaf \in Seq(LeafRecord) /\ l \in 1..Len(leaf)
        BY DEF Inv, Base, Types, LeafIds
      <4>2. leaf[l] \in LeafRecord
        BY <4>1
      <4> QED
        BY <4>2 DEF LeafRecord
    <3>5. leaf[l].perm.order[i] \in Slots /\ 0 \in Slots
      <4>1. PICK p \in Permuters : p = leaf[l].perm
        BY <3>4
      <4>2. p.size \in 0..Width /\ p.order \in [1..Width -> Slots] /\ Width \in Nat /\ Width >= 3
        BY WidthAssumption DEF Permuters
      <4>3. i \in 1..Width
        BY <3>1, <4>1, <4>2
      <4>4. 0 \in Slots
        BY <4>2 DEF Slots
      <4> QED
        BY <4>1, <4>2, <4>3, <4>4
    <3>6. leaf[l].ikey[e] \in Int /\ Bound(l) \in Int /\ IkeyAt(l, i) = leaf[l].ikey[e]
      BY <3>1, <3>4, <3>5 DEF Bound, IkeyAt
    <3> QED
      BY <3>3, <3>6
  <2> QED
    BY <2>1, <2>2
<1> QED
  BY <1>1, Invariant, PTL

\* At every step the separators of the internode ascend and are the bounds of the
\* children behind them, and each leaf has a place there unless it is the first, is
\* being made, or is freed or about to be: split_node and the removal of a child.
THEOREM SeparatorsAreBounds ==
  ASSUME Concurrent
  PROVE  ScanSpec => []Internode
<1>1. Inv /\ History => Internode
  BY DEF Inv
<1> QED
  BY <1>1, Invariant, PTL

\* A leaf that is marked deleted has no entries, a freed leaf is marked so, and a
\* thread on the way to free its leaf has not freed it.
RemovedLeavesAreEmpty ==
  /\ freed \subseteq {l \in LeafIds : leaf[l].ver.del}
  /\ \A l \in LeafIds : leaf[l].ver.del => leaf[l].perm.size = 0
  /\ \A t \in Threads : Dying(t) => leaf[reg[t].n].ver.del /\ reg[t].n \notin freed

\* No entry is lost with a removed leaf, and no leaf is freed twice: remove_leaf.
THEOREM RemovalIsSafe ==
  ASSUME Concurrent
  PROVE  ScanSpec => []RemovedLeavesAreEmpty
<1>1. Inv /\ History => RemovedLeavesAreEmpty
  BY DEF Inv, Base, Types, Deletion, Condemned, RemovedLeavesAreEmpty
<1> QED
  BY <1>1, Invariant, PTL
=============================================================================
