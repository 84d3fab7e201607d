------------------------------ MODULE RcuProofs ------------------------------
(* Theorems about Rcu, for every set of threads, of writers and of rows,    *)
(* every capacity of a limbo group and every bound of the model.            *)
EXTENDS Rcu, SequenceTheorems, CountingTheorems

InOperation == {"active", "unlinked", "recorded"}
Reclaiming == {"scanning", "freeing", "freed"}

-----------------------------------------------------------------------------
(* The inductive invariant, in three layers.                               *)

\* The lists.  b follows a in a limbo list: it is not older, and it takes the
\* next slot of a's group or the first slot of a new group.
Follows(a, b) ==
  /\ a.epoch <= b.epoch
  /\ IF b.slot = 1 THEN a.slot = Capacity ELSE b.slot = a.slot + 1

\* The elements up to index i belong to the group of the first one.
SameGroup(q, i) == \A j \in 2..i : q[j].slot # 1

\* A list with its fill counter, at a moment with the given global epoch.
Chain(q, full, now) ==
  /\ Len(q) <= MaxLimbo
  /\ \A i \in 1..Len(q) : /\ q[i].slot \in 1..Capacity
                          /\ 0 < q[i].epoch /\ q[i].epoch <= now
  /\ \A i \in 1..(Len(q) - 1) : Follows(q[i], q[i + 1])
  /\ q # <<>> => full = q[Len(q)].slot

\* The freeing loop is about to free the first of n elements of the group it has
\* read.  What was registered in that group since is a callback.
Unread(q, n) ==
  /\ n \in 1..Len(q)
  /\ SameGroup(q, n)
  /\ \A i \in (n + 1)..Len(q) : SameGroup(q, i) => q[i].obj = Cleanup

\* The same after the first of them has been freed and taken off.
Unfinished(q, n) ==
  /\ n \in 1..(Len(q) + 1)
  /\ \A i \in 1..(n - 1) : q[i].slot # 1
  /\ \A i \in n..Len(q) : (\A j \in 1..i : q[j].slot # 1) => q[i].obj = Cleanup

Oldest(q) == IF q = <<>> THEN 0 ELSE q[1].epoch

ListOf(t) ==
  /\ Chain(limbo[t], fill[t], globalepoch)
  /\ pc[t] = "unlinked" => Len(limbo[t]) < MaxLimbo
  /\ pc[t] = "freeing" => Unread(limbo[t], left[t])
  /\ pc[t] = "freed" => Unfinished(limbo[t], left[t])
  /\ ~stuck[t] /\ pc[t] \notin {"freeing", "freed"}
       => limboEpoch[t] = Oldest(limbo[t])

Lists == TypeOK /\ globalepoch > 0 /\ \A t \in Threads : ListOf(t)

\* The rows.  A row is allocatable or in the tree, not both.
Apart == linked \cap pool = {}

\* At most one thread takes a row out of the tree at a time.
Leaving ==
  /\ \A t \in Threads :
       /\ retiring[t] \in Objects <=> pc[t] \in {"unlinked", "recorded"}
       /\ pc[t] = "unlinked" => retiring[t] \notin linked \cup pool
       /\ pc[t] = "recorded" => retiring[t] \in linked
  /\ \A t, u \in Threads : retiring[t] = retiring[u] /\ retiring[t] \in Objects => t = u

Index(t) == 1..Len(limbo[t])

\* A waiting row is out of the tree, unless its owner is about to unlink it.
Gone ==
  \A t \in Threads :
    /\ \A i \in Index(t) :
         /\ limbo[t][i].obj \notin pool
         /\ limbo[t][i].obj \in linked => /\ limbo[t][i].how = "remove"
                                          /\ pc[t] = "recorded"
                                          /\ retiring[t] = limbo[t][i].obj
    /\ pc[t] = "recorded" => \E i \in Index(t) : limbo[t][i].obj = retiring[t]
    /\ pc[t] = "unlinked" =>
         \A u \in Threads : \A i \in Index(u) : limbo[u][i].obj # retiring[t]

\* A row waits at one place.
Once ==
  \A t, u \in Threads : \A i \in Index(t), j \in Index(u) :
    limbo[t][i].obj = limbo[u][j].obj /\ limbo[t][i].obj \in Objects => t = u /\ i = j

\* A row that is neither in the tree nor allocatable is on its way.
NoneLost ==
  \A o \in Objects \ (linked \cup pool) : \E t \in Threads :
    \/ pc[t] = "unlinked" /\ retiring[t] = o
    \/ \E i \in Index(t) : limbo[t][i].obj = o

Places == Apart /\ Leaving /\ Gone /\ Once /\ NoneLost

\* The epochs of the threads, and what they hold.
Epochs ==
  \A t \in Threads :
    /\ gcEpoch[t] <= globalepoch /\ loaded[t] <= globalepoch
    /\ pc[t] \in {"starting", "restarting"} => loaded[t] > 0
    /\ pc[t] \in InOperation \cup Reclaiming => gcEpoch[t] > 0
    /\ pc[t] \notin InOperation => held[t] = {}

\* A thread that has been asked for its epoch holds nothing that is still in
\* danger, although the minimum may go on falling.
Scanned ==
  \A t, r \in Threads : pc[t] \in Reclaiming /\ r \notin scan[t] =>
    \A e \in Waiting(t) :
      e.how = "update" /\ e.epoch < minEpoch[t] => e.obj \notin held[r]

\* The callbacks.
\* Their places in the list q.
CallbacksIn(q) == {i \in 1..Len(q) : q[i].obj = Cleanup}

\* The elements of q from index first to m are in the group that the loop is
\* freeing, and no others.
GroupEnds(q, first, m) ==
  /\ m \in 0..Len(q)
  /\ \A i \in first..m : q[i].slot # 1
  /\ m < Len(q) => q[m + 1].slot = 1

\* What the loop has not read of the group it is freeing is late.
LateOf(t) ==
  /\ pc[t] \notin {"freeing", "freed"} => late[t] = 0
  /\ pc[t] = "freeing" => GroupEnds(limbo[t], 2, left[t] + late[t])
  /\ pc[t] = "freed" => GroupEnds(limbo[t], 1, (left[t] - 1) + late[t])

LedgerOf(t) == LateOf(t) /\ owed[t] = Cardinality(CallbacksIn(limbo[t]))

Ledger == \A t \in Threads : LedgerOf(t)

IInv == Lists /\ Places /\ Epochs /\ Scanned /\ Pinned /\ Ledger

-----------------------------------------------------------------------------
(* What the operations do to one limbo list.                               *)

\* push_back keeps the list a chain: the new element is the youngest and takes
\* the slot behind the last one.
LEMMA ChainAppend ==
  ASSUME NEW q \in Seq(Element), NEW full \in 0..Capacity, NEW now \in Nat, now > 0,
         Chain(q, full, now), Len(q) < MaxLimbo,
         NEW o \in Objects \cup {Cleanup}, NEW how \in Ways
  PROVE  LET slot == IF full = Capacity THEN 1 ELSE full + 1
             e == [obj |-> o, how |-> how, epoch |-> now, slot |-> slot]
             p == Append(q, e)
         IN  /\ slot \in 1..Capacity
             /\ p \in Seq(Element) /\ p # <<>> /\ Len(p) = Len(q) + 1
             /\ \A i \in 1..Len(q) : p[i] = q[i]
             /\ p[Len(q) + 1] = e
             /\ Chain(p, slot, now)
<1> DEFINE slot == IF full = Capacity THEN 1 ELSE full + 1
           e == [obj |-> o, how |-> how, epoch |-> now, slot |-> slot]
           p == Append(q, e)
<1>1. slot \in 1..Capacity
  BY CapacityAssumption
<1>2. e \in Element
  BY <1>1 DEF Element
<1>3. /\ p \in Seq(Element) /\ p # <<>>
      /\ Len(p) = Len(q) + 1
      /\ \A i \in 1..Len(q) : p[i] = q[i]
      /\ p[Len(q) + 1] = e
  BY <1>2, AppendProperties
<1>4. Len(q) \in Nat /\ \A i \in 1..Len(q) : q[i] \in Element
  BY ElementOfSeq, LenProperties
<1> HIDE DEF p
<1>5. \A i \in 1..Len(p) : /\ p[i].slot \in 1..Capacity
                           /\ 0 < p[i].epoch /\ p[i].epoch <= now
  BY <1>1, <1>3, <1>4 DEF Chain, e
<1>6. \A i \in 1..(Len(p) - 1) : Follows(p[i], p[i + 1])
  <2> SUFFICES ASSUME NEW i \in 1..(Len(p) - 1) PROVE Follows(p[i], p[i + 1])
    OBVIOUS
  <2>1. CASE i < Len(q)
    BY <2>1, <1>3, <1>4 DEF Chain
  <2>2. CASE i = Len(q)
    <3>1. q # <<>> /\ full = q[Len(q)].slot /\ p[i] = q[Len(q)] /\ p[i + 1] = e
      BY <2>2, <1>3, <1>4, EmptySeq DEF Chain
    <3> QED
      BY <3>1, <2>2, <1>3, <1>4, CapacityAssumption DEF Chain, Follows
  <2> QED
    BY <2>1, <2>2, <1>3, <1>4
<1>7. p[Len(p)].slot = slot
  BY <1>3, <1>4
<1>8. Chain(p, slot, now)
  BY <1>3, <1>4, <1>5, <1>6, <1>7, BoundsAssumption DEF Chain
<1> QED
  BY <1>1, <1>2, <1>3, <1>8 DEF p

\* The elements from index k on are a chain of their own.
LEMMA ChainSuffix ==
  ASSUME NEW q \in Seq(Element), NEW full, NEW now, Chain(q, full, now),
         NEW k \in 1..(Len(q) + 1), NEW p, p = SubSeq(q, k, Len(q))
  PROVE  /\ p \in Seq(Element)
         /\ Len(p) = Len(q) + 1 - k
         /\ \A i \in 1..Len(p) : p[i] = q[k + i - 1]
         /\ Chain(p, full, now)
<1>1. Len(q) \in Nat /\ \A i \in 1..Len(q) : q[i] \in Element
  BY ElementOfSeq, LenProperties
<1>2. /\ p \in Seq(Element)
      /\ Len(p) = Len(q) + 1 - k
      /\ \A i \in 1..Len(p) : p[i] = q[k + i - 1]
  BY <1>1, SubSeqProperties
<1>3. \A i \in 1..(Len(p) - 1) : Follows(p[i], p[i + 1])
  <2> SUFFICES ASSUME NEW i \in 1..(Len(p) - 1) PROVE Follows(p[i], p[i + 1])
    OBVIOUS
  <2>1. k + i - 1 \in 1..(Len(q) - 1) /\ p[i] = q[k + i - 1] /\ p[i + 1] = q[(k + i - 1) + 1]
    BY SMTT(30), <1>1, <1>2
  <2> QED
    BY <2>1 DEF Chain
<1>4. p # <<>> => full = p[Len(p)].slot
  <2> SUFFICES ASSUME p # <<>> PROVE full = p[Len(p)].slot
    OBVIOUS
  <2>1. Len(p) > 0
    BY <1>2, EmptySeq
  <2>2. p[Len(p)] = q[Len(q)] /\ q # <<>>
    BY <2>1, <1>1, <1>2, EmptySeq
  <2> QED
    BY <2>2 DEF Chain
<1>5. Chain(p, full, now)
  BY <1>1, <1>2, <1>3, <1>4, BoundsAssumption DEF Chain
<1> QED
  BY <1>2, <1>5

\* Freeing the oldest element.
LEMMA ChainTail ==
  ASSUME NEW q \in Seq(Element), q # <<>>, NEW full, NEW now, Chain(q, full, now)
  PROVE  /\ Tail(q) \in Seq(Element)
         /\ Len(Tail(q)) = Len(q) - 1
         /\ \A i \in 1..Len(Tail(q)) : Tail(q)[i] = q[i + 1]
         /\ Chain(Tail(q), full, now)
<1>1. Len(q) \in Nat \ {0}
  BY EmptySeq
<1>2. Tail(q) = SubSeq(q, 2, Len(q))
  BY TailIsSubSeq
<1>3. \A k \in 1..(Len(q) + 1) :
        /\ SubSeq(q, k, Len(q)) \in Seq(Element)
        /\ Len(SubSeq(q, k, Len(q))) = Len(q) + 1 - k
        /\ \A i \in 1..Len(SubSeq(q, k, Len(q))) : SubSeq(q, k, Len(q))[i] = q[k + i - 1]
        /\ Chain(SubSeq(q, k, Len(q)), full, now)
  BY ChainSuffix
<1>4. 2 \in 1..(Len(q) + 1) /\ Len(q) + 1 - 2 = Len(q) - 1
  BY <1>1
<1>5. /\ Tail(q) \in Seq(Element)
      /\ Len(Tail(q)) = Len(q) + 1 - 2
      /\ \A i \in 1..Len(Tail(q)) : Tail(q)[i] = q[2 + i - 1]
      /\ Chain(Tail(q), full, now)
  BY <1>2, <1>3, <1>4, Zenon
<1>6. \A i \in 1..Len(Tail(q)) : 2 + i - 1 = i + 1
  BY <1>5
<1> QED
  BY <1>4, <1>5, <1>6

\* A chain stays one as time goes on.
LEMMA ChainLater ==
  ASSUME NEW q \in Seq(Element), NEW full, NEW now \in Nat, NEW later \in Nat,
         now <= later, Chain(q, full, now)
  PROVE  Chain(q, full, later)
<1>1. \A i \in 1..Len(q) : q[i] \in Element
  BY ElementOfSeq
<1>2. \A i \in 1..Len(q) : q[i].epoch \in Nat
  BY <1>1 DEF Element
<1> QED
  BY <1>2 DEF Chain

\* The elements that the freeing loop reads as the first group are exactly those
\* before the next slot 1.
LEMMA GroupSizeRead ==
  ASSUME NEW q \in Seq(Element), q # <<>>
  PROVE  Unread(q, GroupSize(q))
<1> DEFINE group == {i \in 1..Len(q) : SameGroup(q, i)}
           later == {i \in 2..Len(q) : q[i].slot = 1}
<1>1. Len(q) \in Nat /\ Len(q) >= 1
  BY EmptySeq
<1>2. PICK n \in 1..Len(q) : \A i \in 1..Len(q) : SameGroup(q, i) <=> i <= n
  <2>1. CASE later = {}
    <3>1. Len(q) \in 1..Len(q) /\ \A i \in 1..Len(q) : SameGroup(q, i) <=> i <= Len(q)
      BY <2>1, <1>1 DEF SameGroup
    <3> QED
      BY <3>1
  <2>2. CASE later # {}
    <3>1. later \in SUBSET Nat
      BY <1>1
    <3>2. PICK m \in later : \A y \in later : m <= y
      BY <2>2, <3>1, LeastNatural
    <3>3. m - 1 \in 1..Len(q) /\ \A i \in 1..Len(q) : SameGroup(q, i) <=> i <= m - 1
      BY <3>2, <1>1 DEF SameGroup
    <3> QED
      BY <3>3
  <2> QED
    BY <2>1, <2>2
<1>3. group = 1..n
  BY <1>1, <1>2
<1>4. GroupSize(q) = n
  <2>1. Cardinality(1..n) = n
    BY <1>1, FS_Interval
  <2>2. Cardinality(group) = n
    BY <1>3, <2>1
  <2> QED
    BY <2>2 DEF GroupSize, SameGroup
<1> QED
  BY <1>1, <1>2, <1>4 DEF Unread

\* Freeing the first element leaves the others of its group.
LEMMA UnreadTail ==
  ASSUME NEW q \in Seq(Element), NEW n, Unread(q, n),
         NEW p \in Seq(Element), Len(p) = Len(q) - 1,
         \A i \in 1..Len(p) : p[i] = q[i + 1]
  PROVE  Unfinished(p, n)
<1>1. Len(q) \in Nat /\ n \in 1..Len(q)
  BY LenProperties DEF Unread
<1>2. \A i \in 1..(n - 1) : p[i].slot # 1
  BY <1>1 DEF Unread, SameGroup
<1>3. ASSUME NEW i \in n..Len(p), \A j \in 1..i : p[j].slot # 1
      PROVE  p[i].obj = Cleanup
  <2>1. SameGroup(q, i + 1)
    <3> SUFFICES ASSUME NEW j \in 2..(i + 1) PROVE q[j].slot # 1
      BY DEF SameGroup
    <3>1. j - 1 \in 1..i /\ p[j - 1] = q[j]
      BY <1>1
    <3> QED
      BY <3>1, <1>3
  <2>2. i + 1 \in (n + 1)..Len(q) /\ p[i] = q[i + 1]
    BY <1>1
  <2> QED
    BY <2>1, <2>2 DEF Unread
<1> QED
  BY <1>1, <1>2, <1>3 DEF Unfinished

\* A callback registered meanwhile lands behind what the loop has read.
LEMMA UnfinishedAppend ==
  ASSUME NEW q \in Seq(Element), NEW n, Unfinished(q, n),
         NEW p \in Seq(Element), Len(p) = Len(q) + 1,
         \A i \in 1..Len(q) : p[i] = q[i],
         p[Len(q) + 1].obj = Cleanup
  PROVE  Unfinished(p, n)
<1>1. Len(q) \in Nat
  BY LenProperties
<1> QED
  BY <1>1 DEF Unfinished

\* Going on to the next element of the group.
LEMMA UnfinishedNext ==
  ASSUME NEW q \in Seq(Element), NEW n, Unfinished(q, n), n - 1 > 0
  PROVE  Unread(q, n - 1)
<1>1. Len(q) \in Nat
  BY LenProperties
<1> QED
  BY <1>1 DEF Unfinished, Unread, SameGroup
-----------------------------------------------------------------------------
(* The lists stay intact.                                                  *)

\* What a push on the list q does to the variables.
LEMMA PushEffect ==
  ASSUME TypeOK, globalepoch > 0, NEW t \in Threads, NEW q \in Seq(Element),
         Chain(q, fill[t], globalepoch), Len(q) < MaxLimbo,
         NEW o \in Objects \cup {Cleanup}, NEW how \in Ways,
         Push(t, q, o, how)
  PROVE  /\ limbo' \in [Threads -> Seq(Element)] /\ fill' \in [Threads -> 0..Capacity]
         /\ spare' \in [Threads -> Nat] /\ stuck' \in [Threads -> BOOLEAN]
         /\ \A u \in Threads \ {t} : limbo'[u] = limbo[u] /\ fill'[u] = fill[u] /\ stuck'[u] = stuck[u]
         /\ stuck[t] => stuck'[t]
         /\ limbo'[t] # <<>>
         /\ Len(limbo'[t]) = Len(q) + 1
         /\ \A i \in 1..Len(q) : limbo'[t][i] = q[i]
         /\ LET e == limbo'[t][Len(q) + 1]
            IN  e.obj = o /\ e.how = how /\ e.epoch = globalepoch
         /\ Chain(limbo'[t], fill'[t], globalepoch)
<1> DEFINE slot == IF fill[t] = Capacity THEN 1 ELSE fill[t] + 1
           e == [obj |-> o, how |-> how, epoch |-> globalepoch, slot |-> slot]
           p == Append(q, e)
<1>1. fill[t] \in 0..Capacity /\ globalepoch \in Nat
  BY DEF TypeOK
<1>2. /\ slot \in 1..Capacity
      /\ p \in Seq(Element) /\ p # <<>> /\ Len(p) = Len(q) + 1
      /\ \A i \in 1..Len(q) : p[i] = q[i]
      /\ p[Len(q) + 1] = e
      /\ Chain(p, slot, globalepoch)
  BY <1>1, ChainAppend
<1>3. /\ limbo' = [limbo EXCEPT ![t] = p] /\ fill' = [fill EXCEPT ![t] = slot]
      /\ \E b \in BOOLEAN : stuck' = [stuck EXCEPT ![t] = @ \/ b]
      /\ spare' = [spare EXCEPT ![t] = IF fill[t] = Capacity /\ @ > 0 THEN @ - 1 ELSE @]
  BY DEF Push
<1>4. e.obj = o /\ e.how = how /\ e.epoch = globalepoch
  OBVIOUS
<1> HIDE DEF p, e, slot
<1>5. /\ limbo' \in [Threads -> Seq(Element)] /\ limbo'[t] = p
      /\ fill' \in [Threads -> 0..Capacity] /\ fill'[t] = slot
      /\ spare' \in [Threads -> Nat]
      /\ \A u \in Threads \ {t} : limbo'[u] = limbo[u] /\ fill'[u] = fill[u]
  BY <1>2, <1>3 DEF TypeOK
<1>6. /\ stuck' \in [Threads -> BOOLEAN] /\ (stuck[t] => stuck'[t])
      /\ \A u \in Threads \ {t} : stuck'[u] = stuck[u]
  BY <1>3 DEF TypeOK
<1> QED
  BY <1>2, <1>4, <1>5, <1>6

\* record_rcu keeps the list intact and limbo_epoch_ exact.
LEMMA RecordEffect ==
  ASSUME Lists, NEW t \in Threads, Len(limbo[t]) < MaxLimbo,
         pc[t] \notin {"freeing", "freed"}, pc'[t] \notin {"unlinked", "freeing", "freed"},
         NEW o \in Objects \cup {Cleanup}, NEW how \in Ways,
         RecordRcu(t, o, how), globalepoch' = globalepoch
  PROVE  /\ limbo' \in [Threads -> Seq(Element)] /\ fill' \in [Threads -> 0..Capacity]
         /\ spare' \in [Threads -> Nat] /\ stuck' \in [Threads -> BOOLEAN]
         /\ limboEpoch' \in [Threads -> Nat] /\ owed' \in [Threads -> Int]
         /\ owed'[t] = owed[t] + Callback(o)
         /\ \A u \in Threads \ {t} : /\ limbo'[u] = limbo[u] /\ fill'[u] = fill[u]
                                     /\ stuck'[u] = stuck[u] /\ limboEpoch'[u] = limboEpoch[u]
                                     /\ owed'[u] = owed[u]
         /\ Len(limbo'[t]) = Len(limbo[t]) + 1
         /\ \A i \in 1..Len(limbo[t]) : limbo'[t][i] = limbo[t][i]
         /\ LET e == limbo'[t][Len(limbo[t]) + 1]
            IN  e.obj = o /\ e.how = how /\ e.epoch = globalepoch
         /\ ListOf(t)'
<1>1. /\ TypeOK /\ globalepoch > 0 /\ ListOf(t) /\ limbo[t] \in Seq(Element)
      /\ Chain(limbo[t], fill[t], globalepoch)
  BY DEF Lists, ListOf, TypeOK
<1>2. Push(t, limbo[t], o, how)
  BY DEF RecordRcu
<1>3. /\ limbo' \in [Threads -> Seq(Element)] /\ fill' \in [Threads -> 0..Capacity]
      /\ spare' \in [Threads -> Nat] /\ stuck' \in [Threads -> BOOLEAN]
      /\ \A u \in Threads \ {t} : limbo'[u] = limbo[u] /\ fill'[u] = fill[u] /\ stuck'[u] = stuck[u]
      /\ stuck[t] => stuck'[t]
      /\ limbo'[t] # <<>>
      /\ Len(limbo'[t]) = Len(limbo[t]) + 1
      /\ \A i \in 1..Len(limbo[t]) : limbo'[t][i] = limbo[t][i]
      /\ LET e == limbo'[t][Len(limbo[t]) + 1]
         IN  e.obj = o /\ e.how = how /\ e.epoch = globalepoch
      /\ Chain(limbo'[t], fill'[t], globalepoch)
  BY <1>1, <1>2, PushEffect
<1>4. /\ limboEpoch' \in [Threads -> Nat]
      /\ \A u \in Threads \ {t} : limboEpoch'[u] = limboEpoch[u]
      /\ limboEpoch'[t] = IF limboEpoch[t] = 0 THEN globalepoch ELSE limboEpoch[t]
  BY <1>1 DEF RecordRcu, TypeOK
<1>5. ~stuck'[t] => limboEpoch'[t] = Oldest(limbo'[t])
  <2> SUFFICES ASSUME ~stuck'[t] PROVE limboEpoch'[t] = limbo'[t][1].epoch
    BY <1>3 DEF Oldest
  <2>1. limboEpoch[t] = Oldest(limbo[t])
    BY <1>1, <1>3 DEF ListOf
  <2>2. CASE limbo[t] = <<>>
    BY <2>1, <2>2, <1>3, <1>4, EmptySeq DEF Oldest
  <2>3. CASE limbo[t] # <<>>
    <3>1. 1 \in 1..Len(limbo[t])
      BY <2>3, <1>1, EmptySeq
    <3>2. limbo[t][1].epoch > 0 /\ limbo'[t][1] = limbo[t][1]
      BY <3>1, <1>1, <1>3 DEF Chain
    <3> QED
      BY <3>2, <2>1, <2>3, <1>4 DEF Oldest
  <2> QED
    BY <2>2, <2>3
<1>6. ListOf(t)'
  BY <1>3, <1>5 DEF ListOf
<1>7. /\ owed' \in [Threads -> Int] /\ owed'[t] = owed[t] + Callback(o)
      /\ \A u \in Threads \ {t} : owed'[u] = owed[u]
  BY <1>1 DEF RecordRcu, TypeOK, Callback
<1> QED
  BY <1>3, <1>4, <1>6, <1>7

\* A list that a step does not touch stays intact, whatever its thread does
\* outside the freeing loop.
LEMMA ListFrame ==
  ASSUME Lists, TypeOK', globalepoch <= globalepoch', NEW u \in Threads,
         limbo'[u] = limbo[u], fill'[u] = fill[u], stuck'[u] = stuck[u],
         limboEpoch'[u] = limboEpoch[u],
         \/ pc'[u] = pc[u] /\ left'[u] = left[u]
         \/ /\ pc[u] \notin {"freeing", "freed"} /\ pc'[u] \notin {"freeing", "freed"}
            /\ pc'[u] = "unlinked" => Len(limbo[u]) < MaxLimbo
  PROVE  ListOf(u)'
<1>1. Chain(limbo[u], fill[u], globalepoch')
  BY ChainLater DEF Lists, ListOf, TypeOK
<1> QED
  BY <1>1 DEF Lists, ListOf

\* Leaving hard_rcu_quiesce.
LEMMA ReturnEffect ==
  ASSUME TypeOK, NEW t \in Threads, NEW epoch \in Nat, Return(t, epoch)
  PROVE  /\ limboEpoch' \in [Threads -> Nat] /\ limboEpoch'[t] = epoch
         /\ gcEpoch' \in [Threads -> Nat] /\ minEpoch' \in [Threads -> Nat]
         /\ left' \in [Threads -> Nat] /\ passed' \in [Threads -> Nat]
         /\ goal' \in [Threads -> {"stop", "quiesce"}]
         /\ late' \in [Threads -> Nat] /\ late'[t] = 0
         /\ pc' \in [Threads -> Labels] /\ pc'[t] \in {"idle", "active"}
         /\ \A u \in Threads \ {t} : /\ limboEpoch'[u] = limboEpoch[u]
                                     /\ pc'[u] = pc[u] /\ left'[u] = left[u]
                                     /\ late'[u] = late[u]
BY DEF TypeOK, Return, Goto, Labels
\* Entering it.
LEMMA EnterEffect ==
  ASSUME TypeOK, NEW t \in Threads, NEW epoch \in Nat, NEW to \in {"stop", "quiesce"},
         EnterHardQuiesce(t, epoch, to)
  PROVE  /\ scan' \in [Threads -> SUBSET Threads] /\ minEpoch' \in [Threads -> Nat]
         /\ goal' \in [Threads -> {"stop", "quiesce"}] /\ pc' \in [Threads -> Labels]
         /\ left' = left /\ passed' = passed /\ late' = late
BY DEF TypeOK, EnterHardQuiesce, Goto, Labels

\* What freeing an element does to the counts of callbacks.
LEMMA FreeCounts ==
  ASSUME TypeOK, NEW t \in Threads, FreeRcu(t)
  PROVE  /\ owed' \in [Threads -> Int] /\ late' \in [Threads -> Nat]
         /\ \A u \in Threads \ {t} : owed'[u] = owed[u] /\ late'[u] = late[u]
         /\ \/ /\ limbo' = [limbo EXCEPT ![t] = Tail(limbo[t])]
               /\ owed'[t] = owed[t] - Callback(limbo[t][1].obj) /\ late'[t] = late[t]
            \/ /\ owed'[t] = (owed[t] - Callback(limbo[t][1].obj)) + 1
               /\ Push(t, Tail(limbo[t]), Cleanup, "outer")
               /\ late'[t] = IF LaterGroups(Tail(limbo[t])) = {} /\ fill'[t] # 1
                             THEN late[t] + 1 ELSE late[t]
<1>0. TypeOK /\ FreeRcu(t)
  OBVIOUS
<1> DEFINE A == /\ limbo' = [limbo EXCEPT ![t] = Tail(@)]
                /\ owed' = [owed EXCEPT ![t] = @ - Callback(limbo[t][1].obj)]
                /\ UNCHANGED late
           B == /\ Push(t, Tail(limbo[t]), Cleanup, "outer")
                /\ late' = [late EXCEPT ![t] =
                              IF LaterGroups(Tail(limbo[t])) = {} /\ fill'[t] # 1
                              THEN @ + 1 ELSE @]
                /\ owed' = [owed EXCEPT ![t] = (@ - Callback(limbo[t][1].obj)) + Callback(Cleanup)]
<1>1. CASE A
  BY <1>0, <1>1 DEF Callback, TypeOK
<1>2. CASE B
  BY <1>0, <1>2 DEF Callback, TypeOK
<1>3. A \/ B
  BY <1>0 DEF FreeRcu
<1> HIDE DEF A, B
<1> QED
  BY <1>1, <1>2, <1>3

\* What going on or ending does to them.
LEMMA AdvanceCounts ==
  ASSUME TypeOK, NEW t \in Threads, Advance(t)
  PROVE  /\ owed' \in [Threads -> Int] /\ late' \in [Threads -> Nat]
         /\ \A u \in Threads \ {t} : owed'[u] = owed[u] /\ late'[u] = late[u]
         /\ \/ /\ UNCHANGED <<limbo, owed>> /\ left[t] - 1 > 0
               /\ \/ pc'[t] \in {"idle", "active"} /\ late'[t] = 0
                  \/ pc'[t] = "freeing" /\ left'[t] = left[t] - 1 /\ UNCHANGED late
            \/ /\ left[t] - 1 = 0 /\ late'[t] = 0 /\ owed'[t] = owed[t] - late[t]
               /\ \/ /\ pc'[t] = "freeing"
                     /\ \E i \in FirstOf(LaterGroups(limbo[t])) :
                          /\ limbo' = [limbo EXCEPT ![t] = SubSeq(@, i, Len(@))]
                          /\ left'[t] = GroupSize(SubSeq(limbo[t], i, Len(limbo[t])))
                  \/ /\ pc'[t] \in {"idle", "active"}
                     /\ LaterGroups(limbo[t]) = {}
                     /\ limbo' = [limbo EXCEPT ![t] = <<>>]
<1> USE DEF TypeOK
<1>1. ASSUME NEW epoch, Return(t, epoch)
      PROVE  /\ late' \in [Threads -> Nat] /\ late'[t] = 0
             /\ \A u \in Threads \ {t} : late'[u] = late[u]
             /\ pc'[t] \in {"idle", "active"}
  BY <1>1 DEF Return, Goto
<1>2. CASE /\ left[t] - 1 > 0 /\ \E epoch : Return(t, epoch)
           /\ UNCHANGED <<limbo, owed>>
  BY <1>1, <1>2
<1>3. CASE /\ left[t] - 1 > 0
           /\ left' = [left EXCEPT ![t] = left[t] - 1]
           /\ Goto(t, "freeing")
           /\ UNCHANGED <<limbo, owed, late>>
  BY <1>3 DEF Goto
<1>4. CASE /\ left[t] - 1 = 0
           /\ \E i \in FirstOf(LaterGroups(limbo[t])) :
                /\ limbo' = [limbo EXCEPT ![t] = SubSeq(@, i, Len(@))]
                /\ left' = [left EXCEPT ![t] = GroupSize(SubSeq(limbo[t], i, Len(limbo[t])))]
           /\ owed' = [owed EXCEPT ![t] = @ - late[t]]
           /\ late' = [late EXCEPT ![t] = 0]
           /\ Goto(t, "freeing")
  <2>1. PICK i \in FirstOf(LaterGroups(limbo[t])) :
          /\ limbo' = [limbo EXCEPT ![t] = SubSeq(@, i, Len(@))]
          /\ left' = [left EXCEPT ![t] = GroupSize(SubSeq(limbo[t], i, Len(limbo[t])))]
    BY <1>4
  <2>2. left'[t] = GroupSize(SubSeq(limbo[t], i, Len(limbo[t])))
    BY <2>1
  <2>3. /\ owed' \in [Threads -> Int] /\ owed'[t] = owed[t] - late[t]
        /\ \A u \in Threads \ {t} : owed'[u] = owed[u]
    BY <1>4
  <2>4. /\ late' \in [Threads -> Nat] /\ late'[t] = 0 /\ pc'[t] = "freeing"
        /\ \A u \in Threads \ {t} : late'[u] = late[u]
    BY <1>4 DEF Goto
  <2> QED
    BY <1>4, <2>1, <2>2, <2>3, <2>4
<1>5. CASE /\ left[t] - 1 = 0 /\ LaterGroups(limbo[t]) = {}
           /\ limbo' = [limbo EXCEPT ![t] = <<>>]
           /\ owed' = [owed EXCEPT ![t] = @ - late[t]]
           /\ \E epoch : Return(t, epoch)
  BY <1>1, <1>5
<1> QED
  BY <1>2, <1>3, <1>4, <1>5 DEF Advance

LEMMA ListsInit == Init => Lists
<1> SUFFICES ASSUME Init PROVE Lists
  OBVIOUS
<1>1. TypeOK
  <2>1. <<>> \in Seq(Element)
    BY EmptySeq
  <2> QED
    BY <2>1, CapacityAssumption DEF Init, TypeOK, Labels
<1>2. ASSUME NEW t \in Threads PROVE ListOf(t)
  <2>1. limbo[t] = <<>> /\ Len(limbo[t]) = 0 /\ pc[t] = "idle" /\ limboEpoch[t] = 0
    BY DEF Init
  <2> QED
    BY <2>1, BoundsAssumption DEF ListOf, Chain, Oldest
<1> QED
  BY <1>1, <1>2 DEF Lists, Init

\* Thread t may move outside the freeing loop; the other threads stay.
Moves(t) ==
  /\ \A u \in Threads \ {t} : pc'[u] = pc[u]
  /\ \/ pc'[t] = pc[t]
     \/ /\ pc[t] \notin {"freeing", "freed"} /\ pc'[t] \notin {"freeing", "freed"}
        /\ pc'[t] = "unlinked" => Len(limbo[t]) < MaxLimbo

\* The steps that leave the lists alone.
LEMMA ListsKept ==
  ASSUME Lists, UNCHANGED queue, globalepoch <= globalepoch', globalepoch' \in Nat,
         TypeOK',
         \A u \in Threads :
            \/ pc'[u] = pc[u] /\ left'[u] = left[u]
            \/ /\ pc[u] \notin {"freeing", "freed"} /\ pc'[u] \notin {"freeing", "freed"}
               /\ pc'[u] = "unlinked" => Len(limbo[u]) < MaxLimbo
  PROVE  Lists'
<1>1. ASSUME NEW u \in Threads PROVE ListOf(u)'
  BY ListFrame DEF queue
<1>2. globalepoch \in Nat /\ globalepoch > 0
  BY DEF Lists, TypeOK
<1> QED
  BY <1>1, <1>2 DEF Lists

LEMMA ListsNext == Lists /\ [Next]_vars => Lists'
<1> SUFFICES ASSUME Lists, [Next]_vars PROVE Lists'
  OBVIOUS
<1>t. TypeOK /\ globalepoch > 0 /\ globalepoch \in Nat
  BY DEF Lists, TypeOK
<1>1. CASE UNCHANGED vars
  <2>1. TypeOK'
    BY <1>1, <1>t DEF TypeOK, vars, queue, tree, quiesce
  <2> QED
    BY <1>1, <2>1, ListsKept DEF vars, queue, quiesce, TypeOK
<1>2. CASE Epochinc
  <2>1. TypeOK' /\ globalepoch <= globalepoch'
    BY <1>2, <1>t DEF TypeOK, Epochinc, queue, tree, quiesce
  <2> QED
    BY <1>2, <2>1, ListsKept DEF Epochinc, quiesce, TypeOK
<1>3. ASSUME NEW t \in Threads,
             \/ BeginStart(t) \/ EndStart(t) \/ BeginQuiesce(t) \/ UnlinkRemoved(t)
             \/ RcuStop(t) \/ RcuQuiesce(t)
             \/ \E r \in Threads : Scan(t, r)
             \/ \E o \in Objects : Acquire(t, o) \/ Link(t, o) \/ UnlinkUpdated(t, o)
      PROVE  Lists'
  <2>1. CASE BeginStart(t)
    <3>1. TypeOK'
      BY <2>1, <1>t DEF TypeOK, BeginStart, Goto, queue, tree, quiesce, Labels
    <3>2. UNCHANGED <<queue, globalepoch, left>> /\ Moves(t)
      BY <2>1, <1>t DEF BeginStart, Goto, quiesce, Moves, TypeOK
    <3> QED
      BY <3>1, <3>2, <1>t, ListsKept DEF Moves
  <2>2. CASE EndStart(t)
    <3>1. TypeOK'
      BY <2>2, <1>t DEF TypeOK, EndStart, Goto, queue, tree, quiesce, Labels
    <3>2. UNCHANGED <<queue, globalepoch, left>> /\ Moves(t)
      BY <2>2, <1>t DEF EndStart, Goto, quiesce, Moves, TypeOK
    <3> QED
      BY <3>1, <3>2, <1>t, ListsKept DEF Moves
  <2>3. CASE BeginQuiesce(t)
    <3>1. TypeOK'
      BY <2>3, <1>t DEF TypeOK, BeginQuiesce, Goto, queue, tree, quiesce, Labels
    <3>2. UNCHANGED <<queue, globalepoch, left>> /\ Moves(t)
      BY <2>3, <1>t DEF BeginQuiesce, Goto, quiesce, Moves, TypeOK
    <3> QED
      BY <3>1, <3>2, <1>t, ListsKept DEF Moves
  <2>4. CASE UnlinkRemoved(t)
    <3>1. TypeOK'
      BY <2>4, <1>t DEF TypeOK, UnlinkRemoved, Goto, queue, quiesce, Labels
    <3>2. UNCHANGED <<queue, globalepoch, left>> /\ Moves(t)
      BY <2>4, <1>t DEF UnlinkRemoved, Goto, quiesce, Moves, TypeOK
    <3> QED
      BY <3>1, <3>2, <1>t, ListsKept DEF Moves
  <2>5. CASE RcuStop(t)
    <3>1. TypeOK'
      <4>1. UNCHANGED <<globalepoch, queue, tree, loaded, retiring, left, passed, late>>
        BY <2>5 DEF RcuStop, EnterHardQuiesce, quiesce
      <4>2. gcEpoch' \in [Threads -> Nat] /\ held' \in [Threads -> SUBSET Objects]
        <5>1. gcEpoch' \in [Threads -> Nat]
          <6>1. CASE gcEpoch' = gcEpoch
            BY <6>1, <1>t DEF TypeOK
          <6>2. CASE gcEpoch' = [gcEpoch EXCEPT ![t] = 0]
            BY <6>2, <1>t DEF TypeOK
          <6> QED
            BY <6>1, <6>2, <2>5 DEF RcuStop
        <5>2. held' = [held EXCEPT ![t] = {}]
          BY <2>5 DEF RcuStop
        <5> QED
          BY <5>1, <5>2, <1>t DEF TypeOK
      <4>3. /\ scan' \in [Threads -> SUBSET Threads] /\ minEpoch' \in [Threads -> Nat]
            /\ goal' \in [Threads -> {"stop", "quiesce"}] /\ pc' \in [Threads -> Labels]
        <5>1. CASE Overdue(t, gcEpoch[t], 1)
          <6>1. EnterHardQuiesce(t, gcEpoch[t], "stop") /\ gcEpoch[t] \in Nat
            BY <5>1, <2>5, <1>t DEF RcuStop, TypeOK
          <6> QED
            BY <6>1, <1>t, EnterEffect
        <5>2. CASE ~Overdue(t, gcEpoch[t], 1)
          BY <5>2, <2>5, <1>t DEF TypeOK, RcuStop, Goto, quiesce, Labels
        <5> QED
          BY <5>1, <5>2
      <4> QED
        BY <4>1, <4>2, <4>3, <1>t DEF TypeOK, queue, tree
    <3>2. UNCHANGED <<queue, globalepoch, left>> /\ Moves(t)
      BY <2>5, <1>t DEF RcuStop, EnterHardQuiesce, Goto, quiesce, Moves, TypeOK
    <3> QED
      BY <3>1, <3>2, <1>t, ListsKept DEF Moves
  <2>6. CASE RcuQuiesce(t)
    <3>1. TypeOK'
      <4>1. UNCHANGED <<globalepoch, queue, tree, held, retiring, left, passed, late>>
        BY <2>6 DEF RcuQuiesce, EnterHardQuiesce, quiesce
      <4>2. gcEpoch' \in [Threads -> Nat] /\ loaded' \in [Threads -> Nat]
        BY <2>6, <1>t DEF TypeOK, RcuQuiesce
      <4>3. /\ scan' \in [Threads -> SUBSET Threads] /\ minEpoch' \in [Threads -> Nat]
            /\ goal' \in [Threads -> {"stop", "quiesce"}] /\ pc' \in [Threads -> Labels]
        <5>1. CASE Overdue(t, loaded[t], 2)
          <6>1. EnterHardQuiesce(t, loaded[t], "quiesce") /\ loaded[t] \in Nat
            BY <5>1, <2>6, <1>t DEF RcuQuiesce, TypeOK
          <6> QED
            BY <6>1, <1>t, EnterEffect
        <5>2. CASE ~Overdue(t, loaded[t], 2)
          BY <5>2, <2>6, <1>t DEF TypeOK, RcuQuiesce, Goto, quiesce, Labels
        <5> QED
          BY <5>1, <5>2
      <4> QED
        BY <4>1, <4>2, <4>3, <1>t DEF TypeOK, queue, tree
    <3>2. UNCHANGED <<queue, globalepoch, left>> /\ Moves(t)
      BY <2>6, <1>t DEF RcuQuiesce, EnterHardQuiesce, Goto, quiesce, Moves, TypeOK
    <3> QED
      BY <3>1, <3>2, <1>t, ListsKept DEF Moves
  <2>7. ASSUME NEW r \in Threads, Scan(t, r) PROVE Lists'
    <3>1. TypeOK'
      BY <2>7, <1>t DEF TypeOK, Scan, queue, tree
    <3>2. UNCHANGED <<queue, globalepoch, left>> /\ Moves(t)
      BY <2>7, <1>t DEF Scan, Moves, TypeOK
    <3> QED
      BY <3>1, <3>2, <1>t, ListsKept DEF Moves
  <2>8. ASSUME NEW o \in Objects, Acquire(t, o) PROVE Lists'
    <3>1. TypeOK'
      BY <2>8, <1>t DEF TypeOK, Acquire, queue, tree, quiesce
    <3>2. UNCHANGED <<queue, globalepoch, left>> /\ Moves(t)
      BY <2>8, <1>t DEF Acquire, quiesce, Moves, TypeOK
    <3> QED
      BY <3>1, <3>2, <1>t, ListsKept DEF Moves
  <2>9. ASSUME NEW o \in Objects, Link(t, o) PROVE Lists'
    <3>1. TypeOK'
      BY <2>9, <1>t DEF TypeOK, Link, queue, quiesce
    <3>2. UNCHANGED <<queue, globalepoch, left>> /\ Moves(t)
      BY <2>9, <1>t DEF Link, quiesce, Moves, TypeOK
    <3> QED
      BY <3>1, <3>2, <1>t, ListsKept DEF Moves
  <2>10. ASSUME NEW o \in Objects, UnlinkUpdated(t, o) PROVE Lists'
    <3>1. TypeOK'
      BY <2>10, <1>t DEF TypeOK, UnlinkUpdated, Goto, queue, quiesce, Labels
    <3>2. UNCHANGED <<queue, globalepoch, left>> /\ Moves(t)
      BY <2>10, <1>t DEF UnlinkUpdated, MayRetire, Goto, quiesce, Moves, TypeOK
    <3> QED
      BY <3>1, <3>2, <1>t, ListsKept DEF Moves
  <2> QED
    BY <1>3, <2>1, <2>2, <2>3, <2>4, <2>5, <2>6, <2>7, <2>8, <2>9, <2>10
<1>4. ASSUME NEW t \in Threads,
             RecordUpdated(t) \/ RcuRegister(t) \/ \E o \in Objects : RecordRemoved(t, o)
      PROVE  Lists'
  <2>1. /\ \E o \in Objects \cup {Cleanup}, how \in Ways : RecordRcu(t, o, how)
        /\ Len(limbo[t]) < MaxLimbo
        /\ pc[t] \notin {"freeing", "freed"} /\ pc'[t] \notin {"unlinked", "freeing", "freed"}
        /\ \A u \in Threads \ {t} : pc'[u] = pc[u]
        /\ UNCHANGED <<globalepoch, gcEpoch, tree, held, loaded, quiesce>>
        /\ retiring' \in [Threads -> Objects \cup {Cleanup}] /\ pc' \in [Threads -> Labels]
    <3>1. CASE RecordUpdated(t)
      BY <3>1, <1>t DEF RecordUpdated, Goto, Lists, ListOf, TypeOK, Ways, Labels
    <3>2. CASE RcuRegister(t)
      BY <3>2, <1>t DEF RcuRegister, MayRetire, TypeOK, Ways
    <3>3. ASSUME NEW o \in Objects, RecordRemoved(t, o)
          PROVE  <2>1!1 /\ <2>1!2 /\ <2>1!3 /\ <2>1!4 /\ <2>1!5 /\ <2>1!6
      BY <3>3, <1>t DEF RecordRemoved, MayRetire, Goto, TypeOK, Ways, Labels
    <3> QED
      BY <1>4, <3>1, <3>2, <3>3
  <2>2. PICK o \in Objects \cup {Cleanup}, how \in Ways : RecordRcu(t, o, how)
    BY <2>1
  <2>3. /\ limbo' \in [Threads -> Seq(Element)] /\ fill' \in [Threads -> 0..Capacity]
        /\ spare' \in [Threads -> Nat] /\ stuck' \in [Threads -> BOOLEAN]
        /\ limboEpoch' \in [Threads -> Nat] /\ owed' \in [Threads -> Int]
        /\ \A u \in Threads \ {t} : /\ limbo'[u] = limbo[u] /\ fill'[u] = fill[u]
                                    /\ stuck'[u] = stuck[u] /\ limboEpoch'[u] = limboEpoch[u]
        /\ ListOf(t)'
    BY <2>1, <2>2, RecordEffect
  <2>4. TypeOK'
    BY <2>1, <2>3, <1>t DEF TypeOK, tree, quiesce
  <2>5. ASSUME NEW u \in Threads \ {t} PROVE ListOf(u)'
    <3>1. globalepoch <= globalepoch' /\ pc'[u] = pc[u] /\ left'[u] = left[u]
      BY <2>1, <1>t DEF quiesce
    <3> QED
      BY <3>1, <2>3, <2>4, ListFrame
  <2> QED
    BY <2>1, <2>3, <2>4, <2>5, <1>t DEF Lists
<1>5. ASSUME NEW t \in Threads, EndScan(t) PROVE Lists'
  <2>1. /\ UNCHANGED <<globalepoch, limbo, fill, spare, stuck, owed, tree, held, loaded,
                       retiring, scan>>
        /\ pc[t] = "scanning"
    BY <1>5 DEF EndScan
  <2>2. ListOf(t) /\ limbo[t] \in Seq(Element)
    BY <1>t DEF Lists, TypeOK
  <2>3. CASE \E epoch \in Nat : /\ Return(t, epoch)
                                /\ ~stuck[t] => epoch = Oldest(limbo[t])
    <3>1. PICK epoch \in Nat : Return(t, epoch) /\ (~stuck[t] => epoch = Oldest(limbo[t]))
      BY <2>3
    <3>2. /\ limboEpoch' \in [Threads -> Nat] /\ limboEpoch'[t] = epoch
          /\ gcEpoch' \in [Threads -> Nat] /\ minEpoch' \in [Threads -> Nat]
          /\ left' \in [Threads -> Nat] /\ passed' \in [Threads -> Nat]
          /\ goal' \in [Threads -> {"stop", "quiesce"}] /\ late' \in [Threads -> Nat]
          /\ pc' \in [Threads -> Labels] /\ pc'[t] \in {"idle", "active"}
          /\ \A u \in Threads \ {t} : /\ limboEpoch'[u] = limboEpoch[u]
                                      /\ pc'[u] = pc[u] /\ left'[u] = left[u]
      BY <3>1, <1>t, ReturnEffect
    <3>3. TypeOK'
      BY <2>1, <3>2, <1>t DEF TypeOK, tree
    <3>4. ListOf(t)'
      BY <2>1, <2>2, <3>1, <3>2 DEF ListOf
    <3>5. ASSUME NEW u \in Threads \ {t} PROVE ListOf(u)'
      BY <2>1, <3>2, <3>3, <1>t, ListFrame
    <3> QED
      BY <2>1, <3>3, <3>4, <3>5, <1>t DEF Lists
  <2>4. CASE /\ limbo[t] # <<>>
             /\ left' = [left EXCEPT ![t] = GroupSize(limbo[t])]
             /\ Goto(t, "freeing")
             /\ UNCHANGED <<limboEpoch, gcEpoch, minEpoch, passed, goal, late>>
    <3>1. Unread(limbo[t], GroupSize(limbo[t]))
      BY <2>2, <2>4, GroupSizeRead
    <3>2. GroupSize(limbo[t]) \in Nat
      BY <3>1, <2>2, LenProperties DEF Unread
    <3>3. /\ left' \in [Threads -> Nat] /\ left'[t] = GroupSize(limbo[t])
          /\ pc' \in [Threads -> Labels] /\ pc'[t] = "freeing"
          /\ \A u \in Threads \ {t} : pc'[u] = pc[u] /\ left'[u] = left[u]
      BY <2>4, <3>2, <1>t DEF TypeOK, Goto, Labels
    <3>4. TypeOK'
      BY <2>1, <2>4, <3>3, <1>t DEF TypeOK, tree
    <3>5. ListOf(t)'
      BY <2>1, <2>2, <3>1, <3>3 DEF ListOf
    <3>6. ASSUME NEW u \in Threads \ {t} PROVE ListOf(u)'
      BY <2>1, <2>4, <3>3, <3>4, <1>t, ListFrame
    <3> QED
      BY <2>1, <3>4, <3>5, <3>6, <1>t DEF Lists
  <2>5. limbo[t] # <<>> => limbo[t][1].epoch \in Nat
    <3> SUFFICES ASSUME limbo[t] # <<>> PROVE limbo[t][1].epoch \in Nat
      OBVIOUS
    <3>1. limbo[t][1] \in Element
      BY <2>2, EmptySeq, ElementOfSeq
    <3> QED
      BY <3>1 DEF Element
  <2> QED
    BY <1>5, <2>3, <2>4, <2>5 DEF EndScan, Oldest
<1>6. ASSUME NEW t \in Threads, FreeRcu(t) PROVE Lists'
  <2> DEFINE q == Tail(limbo[t])
  <2>1. /\ UNCHANGED <<globalepoch, gcEpoch, limboEpoch, linked, held, loaded, retiring,
                       scan, minEpoch, left, passed, goal>>
        /\ pc[t] = "freeing" /\ Goto(t, "freed")
        /\ pool' = pool \cup ({limbo[t][1].obj} \ {Cleanup})
    BY <1>6 DEF FreeRcu
  <2>2. /\ limbo[t] \in Seq(Element) /\ Len(limbo[t]) \in Nat
        /\ Chain(limbo[t], fill[t], globalepoch)
        /\ Unread(limbo[t], left[t])
    BY <2>1, <1>t, LenProperties DEF Lists, ListOf, TypeOK
  <2>3. limbo[t] # <<>> /\ Len(limbo[t]) <= MaxLimbo
    BY <2>2, EmptySeq DEF Unread, Chain
  <2>4. /\ q \in Seq(Element) /\ Len(q) = Len(limbo[t]) - 1
        /\ \A i \in 1..Len(q) : q[i] = limbo[t][i + 1]
        /\ Chain(q, fill[t], globalepoch)
    BY <2>2, <2>3, ChainTail
  <2> HIDE DEF q
  <2>5. Unfinished(q, left[t]) /\ Len(q) < MaxLimbo
    <3>1. Unfinished(q, left[t])
      BY <2>2, <2>4, UnreadTail
    <3> QED
      BY <3>1, <2>2, <2>3, <2>4, BoundsAssumption
  <2>6. /\ limbo' \in [Threads -> Seq(Element)] /\ fill' \in [Threads -> 0..Capacity]
        /\ spare' \in [Threads -> Nat] /\ stuck' \in [Threads -> BOOLEAN]
        /\ \A u \in Threads \ {t} : limbo'[u] = limbo[u] /\ fill'[u] = fill[u] /\ stuck'[u] = stuck[u]
        /\ Chain(limbo'[t], fill'[t], globalepoch)
        /\ Unfinished(limbo'[t], left[t])
    <3>1. CASE limbo' = [limbo EXCEPT ![t] = q] /\ UNCHANGED <<fill, spare, stuck>>
      BY <3>1, <2>4, <2>5, <1>t DEF TypeOK
    <3>2. CASE Push(t, q, Cleanup, "outer")
      <4>1. /\ limbo' \in [Threads -> Seq(Element)] /\ fill' \in [Threads -> 0..Capacity]
            /\ spare' \in [Threads -> Nat] /\ stuck' \in [Threads -> BOOLEAN]
            /\ \A u \in Threads \ {t} : limbo'[u] = limbo[u] /\ fill'[u] = fill[u] /\ stuck'[u] = stuck[u]
            /\ Len(limbo'[t]) = Len(q) + 1
            /\ \A i \in 1..Len(q) : limbo'[t][i] = q[i]
            /\ limbo'[t][Len(q) + 1].obj = Cleanup
            /\ Chain(limbo'[t], fill'[t], globalepoch)
        BY <3>2, <2>4, <2>5, <1>t, PushEffect DEF Ways
      <4>2. limbo'[t] \in Seq(Element)
        BY <4>1
      <4>3. Unfinished(limbo'[t], left[t])
        BY <4>1, <4>2, <2>4, <2>5, UnfinishedAppend
      <4> QED
        BY <4>1, <4>3
    <3> QED
      BY <1>6, <3>1, <3>2 DEF FreeRcu, q
  <2>7. limbo[t][1].obj \in Objects \cup {Cleanup}
    <3>1. limbo[t][1] \in Element
      BY <2>2, <2>3, EmptySeq, ElementOfSeq
    <3> QED
      BY <3>1 DEF Element
  <2>8. /\ pc' \in [Threads -> Labels] /\ pc'[t] = "freed"
        /\ \A u \in Threads \ {t} : pc'[u] = pc[u]
    BY <2>1, <1>t DEF Goto, TypeOK, Labels
  <2>9. TypeOK'
    <3>1. owed' \in [Threads -> Int] /\ late' \in [Threads -> Nat]
      BY <1>6, <1>t, FreeCounts
    <3> QED
      BY <2>1, <2>6, <2>7, <2>8, <3>1, <1>t DEF TypeOK
  <2>10. ListOf(t)'
    BY <2>1, <2>6, <2>8 DEF ListOf
  <2>11. ASSUME NEW u \in Threads \ {t} PROVE ListOf(u)'
    <3>1. globalepoch <= globalepoch' /\ left'[u] = left[u] /\ limboEpoch'[u] = limboEpoch[u]
      BY <2>1, <1>t
    <3> QED
      BY <3>1, <2>6, <2>8, <2>9, <1>t, ListFrame
  <2> QED
    BY <2>1, <2>9, <2>10, <2>11, <1>t DEF Lists
<1>7. ASSUME NEW t \in Threads, Advance(t) PROVE Lists'
  <2> DEFINE rest == limbo[t]
  <2>1. /\ UNCHANGED <<globalepoch, fill, stuck, tree, held, loaded, retiring, scan>>
        /\ pc[t] = "freed"
    BY <1>7 DEF Advance
  <2>2. /\ rest \in Seq(Element) /\ Len(rest) \in Nat
        /\ Chain(rest, fill[t], globalepoch)
        /\ Unfinished(rest, left[t]) /\ left[t] \in Nat /\ passed[t] \in Nat
    BY <2>1, <1>t, LenProperties DEF Lists, ListOf, TypeOK
  \* The loop ends.
  <2> DEFINE Ends(epoch, q) == /\ limbo' = [limbo EXCEPT ![t] = q]
                               /\ Chain(q, fill[t], globalepoch)
                               /\ Return(t, epoch) /\ epoch = Oldest(q)
                               /\ spare' = [spare EXCEPT ![t] = @ + passed[t]]
  <2>a. owed' \in [Threads -> Int] /\ late' \in [Threads -> Nat]
    BY <1>7, <1>t, AdvanceCounts
  <2>3. CASE \E epoch \in Nat, q \in Seq(Element) : Ends(epoch, q)
    <3>1. PICK epoch \in Nat, q \in Seq(Element) : Ends(epoch, q)
      BY <2>3
    <3>2. /\ limboEpoch' \in [Threads -> Nat] /\ limboEpoch'[t] = epoch
          /\ gcEpoch' \in [Threads -> Nat] /\ minEpoch' \in [Threads -> Nat]
          /\ left' \in [Threads -> Nat] /\ passed' \in [Threads -> Nat]
          /\ goal' \in [Threads -> {"stop", "quiesce"}] /\ late' \in [Threads -> Nat]
          /\ pc' \in [Threads -> Labels] /\ pc'[t] \in {"idle", "active"}
          /\ \A u \in Threads \ {t} : /\ limboEpoch'[u] = limboEpoch[u]
                                      /\ pc'[u] = pc[u] /\ left'[u] = left[u]
      BY <3>1, <1>t, ReturnEffect
    <3>3. /\ limbo' \in [Threads -> Seq(Element)] /\ limbo'[t] = q
          /\ spare' \in [Threads -> Nat]
          /\ \A u \in Threads \ {t} : limbo'[u] = limbo[u]
      BY <3>1, <2>2, <1>t DEF TypeOK
    <3>4. TypeOK'
      BY <2>1, <2>a, <3>2, <3>3, <1>t DEF TypeOK, tree
    <3>5. ListOf(t)'
      BY <2>1, <3>1, <3>2, <3>3 DEF ListOf
    <3>6. ASSUME NEW u \in Threads \ {t} PROVE ListOf(u)'
      BY <2>1, <3>2, <3>3, <3>4, <1>t, ListFrame
    <3> QED
      BY <2>1, <3>4, <3>5, <3>6, <1>t DEF Lists
  \* The loop goes on, with the list from some index on.
  <2> DEFINE GoesOn(n, q, k) == /\ limbo' = [limbo EXCEPT ![t] = q]
                                /\ Chain(q, fill[t], globalepoch) /\ Unread(q, n)
                                /\ left' = [left EXCEPT ![t] = n]
                                /\ passed' = [passed EXCEPT ![t] = k]
                                /\ Goto(t, "freeing")
                                /\ UNCHANGED <<limboEpoch, gcEpoch, spare, minEpoch, goal>>
  <2>4. CASE \E n \in Nat, q \in Seq(Element), k \in Nat : GoesOn(n, q, k)
    <3>1. PICK n \in Nat, q \in Seq(Element), k \in Nat : GoesOn(n, q, k)
      BY <2>4
    <3>2. /\ limbo' \in [Threads -> Seq(Element)] /\ limbo'[t] = q
          /\ left' \in [Threads -> Nat] /\ left'[t] = n
          /\ passed' \in [Threads -> Nat]
          /\ pc' \in [Threads -> Labels] /\ pc'[t] = "freeing"
          /\ \A u \in Threads \ {t} : limbo'[u] = limbo[u] /\ pc'[u] = pc[u] /\ left'[u] = left[u]
      BY <3>1, <1>t DEF TypeOK, Goto, Labels
    <3>3. TypeOK'
      BY <2>1, <2>a, <3>1, <3>2, <1>t DEF TypeOK, tree
    <3>4. ListOf(t)'
      BY <2>1, <3>1, <3>2 DEF ListOf
    <3>5. ASSUME NEW u \in Threads \ {t} PROVE ListOf(u)'
      BY <2>1, <3>1, <3>2, <3>3, <1>t, ListFrame
    <3> QED
      BY <2>1, <3>3, <3>4, <3>5, <1>t DEF Lists
  <2>5. left[t] - 1 > 0 => /\ rest # <<>> /\ rest[1].epoch \in Nat
                           /\ Unread(rest, left[t] - 1) /\ left[t] - 1 \in Nat
    <3> SUFFICES ASSUME left[t] - 1 > 0
                 PROVE  rest # <<>> /\ rest[1].epoch \in Nat /\ Unread(rest, left[t] - 1)
      BY <2>2
    <3>1. Unread(rest, left[t] - 1)
      BY <2>2, UnfinishedNext
    <3>2. rest # <<>>
      BY <2>2, <3>1, EmptySeq DEF Unread
    <3>3. rest[1] \in Element
      BY <2>2, <3>2, EmptySeq, ElementOfSeq
    <3> QED
      BY <3>1, <3>2, <3>3 DEF Element
  <2>6. limbo = [limbo EXCEPT ![t] = rest] /\ passed = [passed EXCEPT ![t] = passed[t]]
    BY <1>t DEF TypeOK
  <2>7. CASE /\ left[t] - 1 > 0 /\ rest[1].epoch < minEpoch[t]
             /\ Return(t, rest[1].epoch)
             /\ spare' = [spare EXCEPT ![t] = @ + passed[t]]
             /\ UNCHANGED limbo
    <3>1. rest[1].epoch = Oldest(rest)
      BY <2>5, <2>7 DEF Oldest
    <3> QED
      BY <2>2, <2>3, <2>5, <2>6, <2>7, <3>1
  <2>8. CASE /\ left[t] - 1 > 0
             /\ left' = [left EXCEPT ![t] = left[t] - 1]
             /\ Goto(t, "freeing")
             /\ UNCHANGED <<limbo, limboEpoch, gcEpoch, spare, minEpoch, passed, goal>>
    BY <2>2, <2>4, <2>5, <2>6, <2>8
  <2>9. CASE /\ \E i \in FirstOf(LaterGroups(rest)) :
                  /\ limbo' = [limbo EXCEPT ![t] = SubSeq(@, i, Len(@))]
                  /\ left' = [left EXCEPT ![t] = GroupSize(SubSeq(rest, i, Len(rest)))]
             /\ passed' = [passed EXCEPT ![t] = @ + 1]
             /\ Goto(t, "freeing")
             /\ UNCHANGED <<limboEpoch, gcEpoch, spare, minEpoch, goal>>
    <3>1. PICK i \in FirstOf(LaterGroups(rest)) :
            /\ limbo' = [limbo EXCEPT ![t] = SubSeq(rest, i, Len(rest))]
            /\ left' = [left EXCEPT ![t] = GroupSize(SubSeq(rest, i, Len(rest)))]
      BY <2>9
    <3>2. i \in 1..Len(rest) /\ i \in 1..(Len(rest) + 1)
      BY <2>2 DEF FirstOf, LaterGroups
    <3> DEFINE q == SubSeq(rest, i, Len(rest))
    <3>3. q \in Seq(Element) /\ Len(q) = Len(rest) + 1 - i /\ Chain(q, fill[t], globalepoch)
      <4>1. \A k \in 1..(Len(rest) + 1) :
              /\ SubSeq(rest, k, Len(rest)) \in Seq(Element)
              /\ Len(SubSeq(rest, k, Len(rest))) = Len(rest) + 1 - k
              /\ Chain(SubSeq(rest, k, Len(rest)), fill[t], globalepoch)
        <5> HIDE DEF rest
        <5>1. rest \in Seq(Element) /\ Chain(rest, fill[t], globalepoch)
          BY <2>2
        <5> QED
          BY <5>1, ChainSuffix
      <4> QED
        BY <4>1, <3>2
    <3> HIDE DEF q
    <3>4. q # <<>>
      BY <2>2, <3>2, <3>3, EmptySeq
    <3>5. Unread(q, GroupSize(q)) /\ GroupSize(q) \in Nat
      BY <3>3, <3>4, GroupSizeRead, LenProperties DEF Unread
    <3>6. limbo' = [limbo EXCEPT ![t] = q] /\ left' = [left EXCEPT ![t] = GroupSize(q)]
      BY <3>1 DEF q
    <3>7. passed[t] + 1 \in Nat /\ passed' = [passed EXCEPT ![t] = passed[t] + 1]
      BY <2>2, <2>9
    <3>8. GoesOn(GroupSize(q), q, passed[t] + 1)
      BY <2>9, <3>3, <3>5, <3>6, <3>7
    <3> QED
      BY <2>4, <3>3, <3>5, <3>7, <3>8
  <2>10. CASE /\ limbo' = [limbo EXCEPT ![t] = <<>>]
              /\ Return(t, 0)
              /\ spare' = [spare EXCEPT ![t] = @ + passed[t]]
    <3>1. <<>> \in Seq(Element) /\ Oldest(<<>>) = 0 /\ Chain(<<>>, fill[t], globalepoch)
      BY EmptySeq, BoundsAssumption DEF Oldest, Chain
    <3>2. Ends(0, <<>>)
      BY <2>10, <3>1
    <3> QED
      BY <2>3, <3>1, <3>2
  <2> QED
    BY <1>7, <2>7, <2>8, <2>9, <2>10 DEF Advance
<1> QED
  BY <1>1, <1>2, <1>3, <1>4, <1>5, <1>6, <1>7 DEF Next
-----------------------------------------------------------------------------
(* Each row stays in one place.                                            *)

\* The objects that wait.
LEMMA WaitingTypes ==
  ASSUME TypeOK
  PROVE  \A t \in Threads : /\ Len(limbo[t]) \in Nat
                            /\ \A i \in Index(t) : /\ limbo[t][i].obj \in Objects \cup {Cleanup}
                                                   /\ limbo[t][i].epoch \in Nat
<1> SUFFICES ASSUME NEW t \in Threads
             PROVE  /\ Len(limbo[t]) \in Nat
                    /\ \A i \in Index(t) : /\ limbo[t][i].obj \in Objects \cup {Cleanup}
                                           /\ limbo[t][i].epoch \in Nat
  OBVIOUS
<1>1. limbo[t] \in Seq(Element)
  BY DEF TypeOK
<1>2. Len(limbo[t]) \in Nat /\ \A i \in Index(t) : limbo[t][i] \in Element
  BY <1>1, LenProperties, ElementOfSeq DEF Index
<1> QED
  BY <1>2 DEF Element

LEMMA PlacesInit == Init => Places
<1> SUFFICES ASSUME Init PROVE Places
  OBVIOUS
<1>1. \A t \in Threads : Index(t) = {} /\ pc[t] = "idle" /\ retiring[t] = Cleanup
  <2> SUFFICES ASSUME NEW t \in Threads
               PROVE  Index(t) = {} /\ pc[t] = "idle" /\ retiring[t] = Cleanup
    OBVIOUS
  <2>1. limbo[t] = <<>>
    BY DEF Init
  <2> QED
    BY <2>1 DEF Init, Index
<1>2. linked = {} /\ pool = Objects
  BY DEF Init
<1> QED
  BY <1>1, <1>2, CleanupAssumption DEF Places, Apart, Leaving, Gone, Once, NoneLost

\* The steps that move no row.
LEMMA PlacesKept ==
  ASSUME Places, UNCHANGED <<linked, pool, limbo, retiring>>,
         \A u \in Threads : \/ pc'[u] = pc[u]
                            \/ /\ pc[u] \notin {"unlinked", "recorded"}
                               /\ pc'[u] \notin {"unlinked", "recorded"}
  PROVE  Places'
<1>1. \A u \in Threads : Index(u)' = Index(u)
  BY DEF Index
<1>2. Apart' /\ Once'
  BY <1>1 DEF Places, Apart, Once
<1>3. Leaving' /\ NoneLost'
  BY <1>1 DEF Places, Leaving, NoneLost
<1>4. Gone'
  BY <1>1 DEF Places, Gone
<1> QED
  BY <1>2, <1>3, <1>4 DEF Places

\* The steps of the freeing loop that take k elements off the list of t.  A row
\* among them is freed.
LEMMA PlacesDrop ==
  ASSUME TypeOK, Places, NEW t \in Threads, NEW k \in Nat,
         UNCHANGED <<linked, retiring>>,
         pc[t] \notin {"unlinked", "recorded"}, pc'[t] \notin {"unlinked", "recorded"},
         \A u \in Threads \ {t} : limbo'[u] = limbo[u] /\ pc'[u] = pc[u],
         pool' = pool \cup ({limbo[t][i].obj : i \in {j \in Index(t) : j <= k}} \ {Cleanup}),
         \A i \in Index(t)' : \/ limbo'[t][i].obj = Cleanup
                              \/ i + k \in Index(t) /\ limbo'[t][i] = limbo[t][i + k],
         \A i \in Index(t) : \/ i <= k
                             \/ limbo[t][i].obj = Cleanup
                             \/ i - k \in Index(t)' /\ limbo'[t][i - k] = limbo[t][i]
  PROVE  Places'
<1>t. /\ \A u \in Threads : \A i \in Index(u) : limbo[u][i].obj \in Objects \cup {Cleanup}
      /\ linked \subseteq Objects /\ pool \subseteq Objects
  BY WaitingTypes DEF TypeOK
<1>m. Index(t) \subseteq Int
  BY DEF Index
<1>n. \A i \in Index(t)' : i \in Int /\ i > 0
  BY DEF Index
<1>1. \A u \in Threads \ {t} : Index(u)' = Index(u)
  BY DEF Index
<1>2. \A o \in pool' \ pool : o \in Objects /\ \E i \in Index(t) : i <= k /\ limbo[t][i].obj = o
  BY <1>t
<1>3. \A o \in pool' \ pool : o \notin linked
  BY <1>2 DEF Places, Gone
<1>4. Apart'
  BY <1>3 DEF Places, Apart
<1>5. Leaving'
  BY <1>2 DEF Places, Leaving, Gone
<1>6. Once'
  <2> SUFFICES ASSUME NEW u \in Threads, NEW v \in Threads,
                      NEW i \in Index(u)', NEW j \in Index(v)',
                      limbo'[u][i].obj = limbo'[v][j].obj, limbo'[u][i].obj \in Objects
               PROVE  u = v /\ i = j
    BY DEF Once
  <2> QED
    BY <1>1, <1>m, <1>n, <1>t, CleanupAssumption DEF Places, Once
<1>7. Gone'
  <2>1. ASSUME NEW u \in Threads, NEW i \in Index(u)'
        PROVE  /\ limbo'[u][i].obj \notin pool'
               /\ limbo'[u][i].obj \in linked => /\ limbo'[u][i].how = "remove"
                                                 /\ pc'[u] = "recorded"
                                                 /\ retiring[u] = limbo'[u][i].obj
    <3>1. limbo'[u][i].obj = Cleanup \/ \E j \in Index(u) : /\ limbo'[u][i] = limbo[u][j]
                                                            /\ u = t => j > k
      <4>1. CASE u = t
        BY <4>1, <1>n
      <4>2. CASE u # t
        BY <4>2, <1>1
      <4> QED
        BY <4>1, <4>2
    <3>2. limbo'[u][i].obj \notin pool'
      BY <3>1, <1>2, <1>m, <1>t, CleanupAssumption DEF Places, Gone, Once
    <3> QED
      BY <3>1, <3>2, <1>t, CleanupAssumption DEF Places, Gone
  <2>2. ASSUME NEW u \in Threads, pc'[u] = "recorded"
        PROVE  \E i \in Index(u)' : limbo'[u][i].obj = retiring[u]
    BY <2>2, <1>1 DEF Places, Gone
  <2>3. ASSUME NEW u \in Threads, pc'[u] = "unlinked",
               NEW v \in Threads, NEW i \in Index(v)'
        PROVE  limbo'[v][i].obj # retiring[u]
    <3>1. retiring[u] # Cleanup
      BY <2>3, CleanupAssumption DEF Places, Leaving
    <3> QED
      BY <2>3, <3>1, <1>1 DEF Places, Gone
  <2> QED
    BY <2>1, <2>2, <2>3 DEF Gone
<1>8. NoneLost'
  <2> SUFFICES ASSUME NEW o \in Objects \ (linked \cup pool')
               PROVE  \E u \in Threads : \/ pc'[u] = "unlinked" /\ retiring[u] = o
                                         \/ \E i \in Index(u)' : limbo'[u][i].obj = o
    BY DEF NoneLost
  <2>1. PICK u \in Threads : \/ pc[u] = "unlinked" /\ retiring[u] = o
                             \/ \E i \in Index(u) : limbo[u][i].obj = o
    BY DEF Places, NoneLost
  <2>2. CASE pc[u] = "unlinked" /\ retiring[u] = o
    BY <2>2
  <2>3. ASSUME NEW i \in Index(u), limbo[u][i].obj = o
        PROVE  \E j \in Index(u)' : limbo'[u][j].obj = o
    BY <2>3, <1>1, <1>m, CleanupAssumption
  <2> QED
    BY <2>1, <2>2, <2>3
<1> QED
  BY <1>4, <1>5, <1>6, <1>7, <1>8 DEF Places
\* What record_rcu adds to the list of t.
LEMMA IndexPush ==
  ASSUME Lists, NEW t \in Threads, Len(limbo[t]) < MaxLimbo,
         pc[t] \notin {"freeing", "freed"}, pc'[t] \notin {"unlinked", "freeing", "freed"},
         NEW o \in Objects \cup {Cleanup}, NEW how \in Ways,
         RecordRcu(t, o, how), globalepoch' = globalepoch
  PROVE  \E n \in Nat \ Index(t) :
           /\ Index(t)' = Index(t) \cup {n}
           /\ limbo'[t][n].obj = o /\ limbo'[t][n].how = how
           /\ limbo'[t][n].epoch = globalepoch
           /\ \A i \in Index(t) : limbo'[t][i] = limbo[t][i]
           /\ \A u \in Threads \ {t} : limbo'[u] = limbo[u] /\ Index(u)' = Index(u)
<1> DEFINE n == Len(limbo[t]) + 1
<1>1. Len(limbo[t]) \in Nat
  BY WaitingTypes DEF Lists
<1>2. /\ \A u \in Threads \ {t} : limbo'[u] = limbo[u]
      /\ Len(limbo'[t]) = n
      /\ \A i \in Index(t) : limbo'[t][i] = limbo[t][i]
      /\ limbo'[t][n].obj = o /\ limbo'[t][n].how = how /\ limbo'[t][n].epoch = globalepoch
  BY RecordEffect DEF Index
<1>3. n \in Nat \ Index(t) /\ Index(t)' = Index(t) \cup {n}
  BY <1>1, <1>2 DEF Index
<1> HIDE DEF n
<1> QED
  BY <1>2, <1>3 DEF Index

\* What the freeing loop takes from the list of t, and what a callback adds to it.
LEMMA FreeEffect ==
  ASSUME Lists, NEW t \in Threads, FreeRcu(t)
  PROVE  /\ UNCHANGED <<globalepoch, gcEpoch, linked, held, retiring>>
         /\ pool' = pool \cup ({limbo[t][1].obj} \ {Cleanup})
         /\ pc[t] = "freeing" /\ pc'[t] = "freed"
         /\ \A u \in Threads \ {t} : limbo'[u] = limbo[u] /\ pc'[u] = pc[u]
         /\ 1 \in Index(t)
         /\ \A i \in Index(t)' :
              \/ /\ limbo'[t][i].obj = Cleanup
                 /\ limbo'[t][i].how = "outer" /\ limbo'[t][i].epoch = globalepoch
              \/ i + 1 \in Index(t) /\ limbo'[t][i] = limbo[t][i + 1]
         /\ \A i \in Index(t) : i <= 1 \/ (i - 1 \in Index(t)' /\ limbo'[t][i - 1] = limbo[t][i])
<1> DEFINE Appended(e) == e.obj = Cleanup /\ e.how = "outer" /\ e.epoch = globalepoch
<1>0. FreeRcu(t)
  OBVIOUS
<1>t. TypeOK
  BY DEF Lists
<1>1. /\ UNCHANGED <<globalepoch, gcEpoch, linked, held, retiring>>
      /\ pc[t] = "freeing" /\ pc' = [pc EXCEPT ![t] = "freed"]
      /\ pool' = pool \cup ({limbo[t][1].obj} \ {Cleanup})
  BY <1>0 DEF FreeRcu, Goto
<1>2. limbo[t] \in Seq(Element) /\ limbo[t] # <<>> /\ Len(limbo[t]) \in Nat /\ 1 \in Index(t)
  <2>1. limbo[t] \in Seq(Element) /\ Unread(limbo[t], left[t])
    BY <1>1, <1>t DEF TypeOK, Lists, ListOf
  <2> QED
    BY <2>1, EmptySeq, LenProperties DEF Unread, Index
<1>3. /\ Tail(limbo[t]) \in Seq(Element)
      /\ Len(Tail(limbo[t])) = Len(limbo[t]) - 1
      /\ \A i \in 1..Len(Tail(limbo[t])) : Tail(limbo[t])[i] = limbo[t][i + 1]
      /\ Chain(Tail(limbo[t]), fill[t], globalepoch)
      /\ Len(Tail(limbo[t])) < MaxLimbo
  <2>1. Chain(limbo[t], fill[t], globalepoch) /\ Len(limbo[t]) <= MaxLimbo
    BY DEF Lists, ListOf, Chain
  <2> QED
    BY <1>2, <2>1, ChainTail, BoundsAssumption
<1> DEFINE q == Tail(limbo[t])
<1> HIDE DEF q
<1>4. /\ \A u \in Threads \ {t} : limbo'[u] = limbo[u]
      /\ \A i \in 1..Len(q) : limbo'[t][i] = q[i]
      /\ \/ Len(limbo'[t]) = Len(q)
         \/ Len(limbo'[t]) = Len(q) + 1 /\ Appended(limbo'[t][Len(q) + 1])
  <2>1. CASE limbo' = [limbo EXCEPT ![t] = q]
    BY <2>1, <1>t DEF TypeOK
  <2>2. CASE Push(t, q, Cleanup, "outer")
    <3>1. globalepoch > 0 /\ "outer" \in Ways
      BY DEF Lists, Ways
    <3>2. q \in Seq(Element) /\ Chain(q, fill[t], globalepoch) /\ Len(q) < MaxLimbo
      BY <1>3 DEF q
    <3>3. /\ \A u \in Threads \ {t} : limbo'[u] = limbo[u]
          /\ Len(limbo'[t]) = Len(q) + 1
          /\ \A i \in 1..Len(q) : limbo'[t][i] = q[i]
          /\ LET e == limbo'[t][Len(q) + 1]
             IN  e.obj = Cleanup /\ e.how = "outer" /\ e.epoch = globalepoch
      <4>1. TypeOK
        BY <1>t
      <4>2. Cleanup \in Objects \cup {Cleanup}
        OBVIOUS
      <4>3. /\ limbo' \in [Threads -> Seq(Element)] /\ fill' \in [Threads -> 0..Capacity]
            /\ spare' \in [Threads -> Nat] /\ stuck' \in [Threads -> BOOLEAN]
            /\ \A u \in Threads \ {t} :
                 limbo'[u] = limbo[u] /\ fill'[u] = fill[u] /\ stuck'[u] = stuck[u]
            /\ stuck[t] => stuck'[t]
            /\ limbo'[t] # <<>>
            /\ Len(limbo'[t]) = Len(q) + 1
            /\ \A i \in 1..Len(q) : limbo'[t][i] = q[i]
            /\ LET e == limbo'[t][Len(q) + 1]
               IN  e.obj = Cleanup /\ e.how = "outer" /\ e.epoch = globalepoch
            /\ Chain(limbo'[t], fill'[t], globalepoch)
        BY <2>2, <3>1, <3>2, <4>1, <4>2, PushEffect
      <4> QED
        BY <4>3
    <3> QED
      BY <3>3
  <2> QED
    BY <1>0, <2>1, <2>2 DEF FreeRcu, q
<1>5. \A i \in Index(t)' : \/ Appended(limbo'[t][i])
                           \/ i + 1 \in Index(t) /\ limbo'[t][i] = limbo[t][i + 1]
  BY <1>2, <1>3, <1>4 DEF Index, q
<1>6. \A i \in Index(t) : i <= 1 \/ (i - 1 \in Index(t)' /\ limbo'[t][i - 1] = limbo[t][i])
  <2> SUFFICES ASSUME NEW i \in Index(t), i > 1
               PROVE  i - 1 \in Index(t)' /\ limbo'[t][i - 1] = limbo[t][i]
    BY DEF Index
  <2>1. i - 1 \in 1..Len(q) /\ (i - 1) + 1 = i
    BY <1>2, <1>3 DEF Index, q
  <2>2. q[i - 1] = limbo[t][i]
    BY <2>1, <1>3 DEF q
  <2> QED
    BY <2>1, <2>2, <1>3, <1>4 DEF Index, q
<1>8. pc'[t] = "freed" /\ \A u \in Threads \ {t} : pc'[u] = pc[u]
  BY <1>1, <1>t DEF TypeOK
<1> QED
  BY <1>1, <1>2, <1>4, <1>5, <1>6, <1>8

\* What it leaves behind when it changes groups or ends: callbacks only.
LEMMA AdvanceEffect ==
  ASSUME Lists, NEW t \in Threads, Advance(t)
  PROVE  /\ UNCHANGED <<linked, pool, retiring>> /\ pc[t] = "freed"
         /\ pc'[t] \in {"freeing", "idle", "active"}
         /\ \A u \in Threads \ {t} : pc'[u] = pc[u]
         /\ \E k \in Nat :
              /\ \A u \in Threads \ {t} : limbo'[u] = limbo[u]
              /\ \A i \in Index(t)' : i + k \in Index(t) /\ limbo'[t][i] = limbo[t][i + k]
              /\ \A i \in Index(t) : \/ i <= k /\ limbo[t][i].obj = Cleanup
                                     \/ i - k \in Index(t)' /\ limbo'[t][i - k] = limbo[t][i]
<1>t. TypeOK
  BY DEF Lists
<1>1. UNCHANGED <<linked, pool, retiring>> /\ pc[t] = "freed"
  BY DEF Advance, tree
<1>2. /\ pc'[t] \in {"freeing", "idle", "active"}
      /\ \A u \in Threads \ {t} : pc'[u] = pc[u]
  BY <1>t DEF Advance, Return, Goto, TypeOK
<1>3. limbo[t] \in Seq(Element) /\ Len(limbo[t]) \in Nat /\ Unfinished(limbo[t], left[t])
  BY <1>1, <1>t, LenProperties DEF TypeOK, Lists, ListOf
<1> DEFINE Left(k) ==
             /\ \A u \in Threads \ {t} : limbo'[u] = limbo[u]
             /\ \A i \in Index(t)' : i + k \in Index(t) /\ limbo'[t][i] = limbo[t][i + k]
             /\ \A i \in Index(t) : \/ i <= k /\ limbo[t][i].obj = Cleanup
                                    \/ i - k \in Index(t)' /\ limbo'[t][i - k] = limbo[t][i]
<1>4. ASSUME UNCHANGED limbo PROVE \E k \in Nat : Left(k)
  <2>1. Index(t)' = Index(t) /\ \A i \in Index(t) : i + 0 = i /\ i - 0 = i
    BY <1>4 DEF Index
  <2>2. Left(0)
    BY <1>4, <2>1
  <2> QED
    BY <2>2
\* Whole groups are left behind; they hold nothing but callbacks.
<1>5. ASSUME NEW d \in 0..Len(limbo[t]), left[t] = 1,
             \A i \in 1..d : limbo[t][i].slot # 1,
             limbo' = [limbo EXCEPT ![t] = SubSeq(limbo[t], d + 1, Len(limbo[t]))]
      PROVE  \E k \in Nat : Left(k)
  <2>1. \A i \in 1..d : limbo[t][i].obj = Cleanup
    <3> SUFFICES ASSUME NEW i \in 1..d PROVE limbo[t][i].obj = Cleanup
      OBVIOUS
    <3>1. i \in left[t]..Len(limbo[t]) /\ \A j \in 1..i : limbo[t][j].slot # 1
      BY <1>3, <1>5
    <3> QED
      BY <3>1, <1>3 DEF Unfinished
  <2>2. \A j \in 1..(Len(limbo[t]) + 1) :
          /\ Len(SubSeq(limbo[t], j, Len(limbo[t]))) = Len(limbo[t]) + 1 - j
          /\ \A i \in 1..Len(SubSeq(limbo[t], j, Len(limbo[t]))) :
               SubSeq(limbo[t], j, Len(limbo[t]))[i] = limbo[t][j + i - 1]
    <3> SUFFICES ASSUME NEW j \in 1..(Len(limbo[t]) + 1)
                 PROVE  /\ Len(SubSeq(limbo[t], j, Len(limbo[t]))) = Len(limbo[t]) + 1 - j
                        /\ \A i \in 1..Len(SubSeq(limbo[t], j, Len(limbo[t]))) :
                             SubSeq(limbo[t], j, Len(limbo[t]))[i] = limbo[t][j + i - 1]
      OBVIOUS
    <3>1. \A i \in j..Len(limbo[t]) : limbo[t][i] \in Element
      BY <1>3, ElementOfSeq
    <3> QED
      BY <3>1, <1>3, SubSeqProperties
  <2>3. limbo'[t] = SubSeq(limbo[t], d + 1, Len(limbo[t]))
        /\ \A u \in Threads \ {t} : limbo'[u] = limbo[u]
    BY <1>5, <1>t DEF TypeOK
  <2>4. /\ d \in Nat /\ Len(limbo'[t]) = Len(limbo[t]) - d
        /\ \A i \in 1..Len(limbo'[t]) : limbo'[t][i] = limbo[t][i + d]
    <3>1. d + 1 \in 1..(Len(limbo[t]) + 1) /\ d \in Nat
      BY <1>3
    <3>2. /\ Len(limbo'[t]) = Len(limbo[t]) + 1 - (d + 1)
          /\ \A i \in 1..Len(limbo'[t]) : limbo'[t][i] = limbo[t][(d + 1) + i - 1]
      BY <2>2, <2>3, <3>1
    <3>3. \A n \in Nat : n + 1 - (d + 1) = n - d
      BY <3>1
    <3>4. \A i \in 1..Len(limbo'[t]) : (d + 1) + i - 1 = i + d
      <4> SUFFICES ASSUME NEW i \in Int PROVE (d + 1) + i - 1 = i + d
        OBVIOUS
      <4> QED
        BY <3>1
    <3> QED
      BY <1>3, <3>1, <3>2, <3>3, <3>4
  <2>5. \A i \in Index(t)' : i + d \in Index(t) /\ limbo'[t][i] = limbo[t][i + d]
    BY <2>4, <1>3 DEF Index
  <2>6. \A i \in Index(t) : i <= d \/ (i - d \in Index(t)' /\ limbo'[t][i - d] = limbo[t][i])
    <3> SUFFICES ASSUME NEW i \in Index(t), i > d
                 PROVE  i - d \in Index(t)' /\ limbo'[t][i - d] = limbo[t][i]
      BY <2>4 DEF Index
    <3>1. i - d \in 1..Len(limbo'[t]) /\ (i - d) + d = i
      BY <2>4, <1>3 DEF Index
    <3> QED
      BY <3>1, <2>4 DEF Index
  <2>7. Left(d) /\ d \in Nat
    <3>1. \A i \in Index(t) : i <= d => i \in 1..d
      BY <2>4 DEF Index
    <3> QED
      BY <2>1, <2>3, <2>4, <2>5, <2>6, <3>1
  <2> QED
    BY <2>7
<1>6. ASSUME NEW i \in FirstOf(LaterGroups(limbo[t])), left[t] - 1 = 0,
             limbo' = [limbo EXCEPT ![t] = SubSeq(limbo[t], i, Len(limbo[t]))]
      PROVE  \E k \in Nat : Left(k)
  <2>1. /\ i \in 1..Len(limbo[t])
        /\ \A j \in 1..(i - 1) : limbo[t][j].slot # 1
    BY <1>3 DEF FirstOf, LaterGroups
  <2>2. i - 1 \in 0..Len(limbo[t]) /\ (i - 1) + 1 = i /\ left[t] = 1
    BY <2>1, <1>3, <1>6 DEF Unfinished
  <2> QED
    BY <2>1, <2>2, <1>5, <1>6
<1>7. ASSUME LaterGroups(limbo[t]) = {}, left[t] - 1 = 0, limbo' = [limbo EXCEPT ![t] = <<>>]
      PROVE  \E k \in Nat : Left(k)
  <2>1. SubSeq(limbo[t], Len(limbo[t]) + 1, Len(limbo[t])) = <<>>
    BY <1>3, SubSeqEmpty
  <2>2. \A i \in 1..Len(limbo[t]) : limbo[t][i].slot # 1
    BY <1>7 DEF LaterGroups
  <2>3. Len(limbo[t]) \in 0..Len(limbo[t]) /\ left[t] = 1
    BY <1>3, <1>7 DEF Unfinished
  <2> QED
    BY <2>1, <2>2, <2>3, <1>5, <1>7
<1>8. \E k \in Nat : Left(k)
  BY <1>4, <1>6, <1>7 DEF Advance
<1> QED
  BY <1>1, <1>2, <1>8

LEMMA PlacesNext == Lists /\ Places /\ [Next]_vars => Places'
<1> SUFFICES ASSUME Lists, Places, [Next]_vars PROVE Places'
  OBVIOUS
<1>t. /\ TypeOK
      /\ \A u \in Threads : \A i \in Index(u) : limbo[u][i].obj \in Objects \cup {Cleanup}
      /\ linked \subseteq Objects /\ pool \subseteq Objects
  BY WaitingTypes DEF Lists, TypeOK
<1>p. Apart /\ Leaving /\ Gone /\ Once /\ NoneLost
  BY DEF Places
<1>1. CASE UNCHANGED vars
  BY <1>1, PlacesKept DEF vars, queue, tree
<1>2. CASE Epochinc
  BY <1>2, PlacesKept DEF Epochinc, queue, tree
<1>3. ASSUME NEW t \in Threads,
             \/ BeginStart(t) \/ EndStart(t) \/ BeginQuiesce(t)
             \/ RcuStop(t) \/ RcuQuiesce(t) \/ EndScan(t)
             \/ \E r \in Threads : Scan(t, r)
             \/ \E o \in Objects : Acquire(t, o)
      PROVE  Places'
  <2>1. /\ UNCHANGED <<linked, pool, limbo, retiring>>
        /\ \A u \in Threads : \/ pc'[u] = pc[u]
                              \/ /\ pc[u] \notin {"unlinked", "recorded"}
                                 /\ pc'[u] \notin {"unlinked", "recorded"}
    <3>1. UNCHANGED <<linked, pool, limbo, retiring>>
      BY <1>3 DEF BeginStart, EndStart, BeginQuiesce, RcuStop, RcuQuiesce, EndScan, Scan,
                  Acquire, queue, tree
    <3>2. /\ \A u \in Threads \ {t} : pc'[u] = pc[u]
          /\ \/ pc'[t] = pc[t]
             \/ /\ pc[t] \notin {"unlinked", "recorded"}
                /\ pc'[t] \notin {"unlinked", "recorded"}
      <4>1. CASE \/ BeginStart(t) \/ EndStart(t) \/ BeginQuiesce(t)
                 \/ \E r \in Threads : Scan(t, r)
                 \/ \E o \in Objects : Acquire(t, o)
        BY <4>1, <1>t DEF BeginStart, EndStart, BeginQuiesce, Scan, Acquire, Goto, TypeOK
      <4>2. CASE RcuStop(t)
        BY <4>2, <1>t DEF RcuStop, EnterHardQuiesce, Goto, TypeOK
      <4>3. CASE RcuQuiesce(t)
        BY <4>3, <1>t DEF RcuQuiesce, EnterHardQuiesce, Goto, TypeOK
      <4>4. CASE EndScan(t)
        <5>1. pc[t] = "scanning" /\ \E to \in {"freeing", "idle", "active"} : Goto(t, to)
          BY <4>4 DEF EndScan, Return
        <5> QED
          BY <5>1, <1>t DEF Goto, TypeOK
      <4> QED
        BY <1>3, <4>1, <4>2, <4>3, <4>4
    <3> QED
      BY <3>1, <3>2
  <2> QED
    BY <2>1, PlacesKept
<1>4. ASSUME NEW t \in Threads, NEW o \in Objects, Link(t, o) PROVE Places'
  <2>1. /\ UNCHANGED <<limbo, retiring, pc>>
        /\ o \in pool /\ pool' = pool \ {o} /\ linked' = linked \cup {o}
    BY <1>4 DEF Link, queue
  <2>2. \A u \in Threads : Index(u)' = Index(u) /\ \A i \in Index(u) : limbo[u][i].obj # o
    BY <2>1, <1>p DEF Index, Gone
  <2>3. Apart' /\ Once'
    BY <2>1, <2>2, <1>p DEF Apart, Once
  <2>4. Leaving'
    BY <2>1, <1>p DEF Leaving
  <2>5. Gone'
    BY <2>1, <2>2, <1>p DEF Gone
  <2>6. NoneLost'
    BY <2>1, <2>2, <1>p DEF NoneLost
  <2> QED
    BY <2>3, <2>4, <2>5, <2>6 DEF Places
<1>5. ASSUME NEW t \in Threads, NEW o \in Objects, UnlinkUpdated(t, o) PROVE Places'
  <2>1. /\ UNCHANGED <<limbo, pool>> /\ linked' = linked \ {o}
        /\ retiring' = [retiring EXCEPT ![t] = o] /\ pc' = [pc EXCEPT ![t] = "unlinked"]
        /\ pc[t] = "active" /\ o \in linked /\ \A u \in Threads : retiring[u] # o
    BY <1>5 DEF UnlinkUpdated, MayRetire, Retirable, Goto, queue
  <2>2. \A u \in Threads : Index(u)' = Index(u) /\ \A i \in Index(u) : limbo[u][i].obj # o
    BY <2>1, <1>p DEF Index, Gone
  <2>3. /\ retiring'[t] = o /\ pc'[t] = "unlinked"
        /\ \A u \in Threads \ {t} : retiring'[u] = retiring[u] /\ pc'[u] = pc[u]
    BY <2>1, <1>t DEF TypeOK
  <2>4. Apart' /\ Once'
    BY <2>1, <2>2, <1>p DEF Apart, Once
  <2>5. Leaving'
    BY <2>1, <2>3, <1>p DEF Leaving, Apart
  <2>6. Gone'
    BY <2>1, <2>2, <2>3, <1>p DEF Gone
  <2>7. NoneLost'
    BY <2>1, <2>2, <2>3, <1>p DEF NoneLost
  <2> QED
    BY <2>4, <2>5, <2>6, <2>7 DEF Places
<1>6. ASSUME NEW t \in Threads, UnlinkRemoved(t) PROVE Places'
  <2>1. /\ UNCHANGED <<limbo, pool>> /\ linked' = linked \ {retiring[t]}
        /\ retiring' = [retiring EXCEPT ![t] = Cleanup] /\ pc' = [pc EXCEPT ![t] = "active"]
        /\ pc[t] = "recorded"
    BY <1>6 DEF UnlinkRemoved, Goto, queue
  <2>2. \A u \in Threads : Index(u)' = Index(u)
    BY <2>1 DEF Index
  <2>3. /\ retiring'[t] = Cleanup /\ pc'[t] = "active"
        /\ \A u \in Threads \ {t} : retiring'[u] = retiring[u] /\ pc'[u] = pc[u]
    BY <2>1, <1>t DEF TypeOK
  <2>4. Apart' /\ Once'
    BY <2>1, <2>2, <1>p DEF Apart, Once
  <2>5. Leaving'
    BY <2>1, <2>3, <1>p, CleanupAssumption DEF Leaving
  <2>6. Gone'
    BY <2>1, <2>2, <2>3, <1>p DEF Gone
  <2>7. NoneLost'
    BY <2>1, <2>2, <2>3, <1>p DEF NoneLost, Gone
  <2> QED
    BY <2>4, <2>5, <2>6, <2>7 DEF Places
<1>7. ASSUME NEW t \in Threads, RecordUpdated(t) PROVE Places'
  <2>1. /\ UNCHANGED <<linked, pool, globalepoch>> /\ pc[t] = "unlinked"
        /\ RecordRcu(t, retiring[t], "update")
        /\ retiring' = [retiring EXCEPT ![t] = Cleanup] /\ pc' = [pc EXCEPT ![t] = "active"]
    BY <1>7 DEF RecordUpdated, Goto, tree
  <2>2. /\ retiring'[t] = Cleanup /\ pc'[t] = "active"
        /\ \A u \in Threads \ {t} : retiring'[u] = retiring[u] /\ pc'[u] = pc[u]
        /\ retiring[t] \in Objects /\ retiring[t] \notin linked \cup pool
    BY <2>1, <1>t, <1>p DEF TypeOK, Leaving
  <2>3. Len(limbo[t]) < MaxLimbo
    BY <2>1 DEF Lists, ListOf
  <2>4. PICK n \in Nat \ Index(t) :
          /\ Index(t)' = Index(t) \cup {n}
          /\ limbo'[t][n].obj = retiring[t] /\ limbo'[t][n].how = "update"
          /\ \A i \in Index(t) : limbo'[t][i] = limbo[t][i]
          /\ \A u \in Threads \ {t} : limbo'[u] = limbo[u] /\ Index(u)' = Index(u)
    BY <2>1, <2>2, <2>3, IndexPush DEF Ways
  <2>5. \A u \in Threads : \A i \in Index(u) : limbo[u][i].obj # retiring[t]
    BY <2>1, <1>p DEF Gone
  <2>6. Apart'
    BY <2>1, <1>p DEF Apart
  <2>7. Leaving'
    BY <2>1, <2>2, <1>p, CleanupAssumption DEF Leaving
  <2>8. Once'
    BY <2>4, <2>5, <1>p DEF Once
  <2>9. Gone'
    BY <2>1, <2>2, <2>4, <2>5, <1>p DEF Gone, Leaving
  <2>10. NoneLost'
    BY <2>1, <2>2, <2>4, <1>p DEF NoneLost
  <2> QED
    BY <2>6, <2>7, <2>8, <2>9, <2>10 DEF Places
<1>8. ASSUME NEW t \in Threads, NEW o \in Objects, RecordRemoved(t, o) PROVE Places'
  <2>1. /\ UNCHANGED <<linked, pool, globalepoch>> /\ pc[t] = "active"
        /\ RecordRcu(t, o, "remove") /\ Len(limbo[t]) < MaxLimbo
        /\ o \in linked /\ \A u \in Threads : retiring[u] # o
        /\ retiring' = [retiring EXCEPT ![t] = o] /\ pc' = [pc EXCEPT ![t] = "recorded"]
    BY <1>8 DEF RecordRemoved, MayRetire, Retirable, Goto, tree
  <2>2. /\ retiring'[t] = o /\ pc'[t] = "recorded"
        /\ \A u \in Threads \ {t} : retiring'[u] = retiring[u] /\ pc'[u] = pc[u]
        /\ o \notin pool
    BY <2>1, <1>t, <1>p DEF TypeOK, Apart
  <2>3. PICK n \in Nat \ Index(t) :
          /\ Index(t)' = Index(t) \cup {n}
          /\ limbo'[t][n].obj = o /\ limbo'[t][n].how = "remove"
          /\ \A i \in Index(t) : limbo'[t][i] = limbo[t][i]
          /\ \A u \in Threads \ {t} : limbo'[u] = limbo[u] /\ Index(u)' = Index(u)
    BY <2>1, <2>2, IndexPush DEF Ways
  <2>4. \A u \in Threads : \A i \in Index(u) : limbo[u][i].obj # o
    BY <2>1, <1>p DEF Gone
  <2>5. Apart'
    BY <2>1, <1>p DEF Apart
  <2>6. Leaving'
    BY <2>1, <2>2, <1>p DEF Leaving
  <2>7. Once'
    BY <2>3, <2>4, <1>p DEF Once
  <2>8. Gone'
    BY <2>1, <2>2, <2>3, <2>4, <1>p DEF Gone
  <2>9. NoneLost'
    BY <2>1, <2>2, <2>3, <1>p DEF NoneLost
  <2> QED
    BY <2>5, <2>6, <2>7, <2>8, <2>9 DEF Places
<1>9. ASSUME NEW t \in Threads, RcuRegister(t) PROVE Places'
  <2>1. /\ UNCHANGED <<linked, pool, globalepoch, retiring, pc>> /\ pc[t] = "active"
        /\ \E how \in {"inner", "outer"} : RecordRcu(t, Cleanup, how)
        /\ Len(limbo[t]) < MaxLimbo
    BY <1>9 DEF RcuRegister, MayRetire, tree
  <2>2. PICK how \in {"inner", "outer"} : RecordRcu(t, Cleanup, how)
    BY <2>1
  <2>3. PICK n \in Nat \ Index(t) :
          /\ Index(t)' = Index(t) \cup {n}
          /\ limbo'[t][n].obj = Cleanup
          /\ \A i \in Index(t) : limbo'[t][i] = limbo[t][i]
          /\ \A u \in Threads \ {t} : limbo'[u] = limbo[u] /\ Index(u)' = Index(u)
    BY <2>1, <2>2, IndexPush DEF Ways
  <2>4. Apart' /\ Leaving'
    BY <2>1, <1>p DEF Apart, Leaving
  <2>5. Once'
    BY <2>3, <1>p, CleanupAssumption DEF Once
  <2>6. Gone'
    BY <2>1, <2>3, <1>t, <1>p, CleanupAssumption DEF Gone, Leaving
  <2>7. NoneLost'
    BY <2>1, <2>3, <1>p DEF NoneLost
  <2> QED
    BY <2>4, <2>5, <2>6, <2>7 DEF Places
<1>10. ASSUME NEW t \in Threads, FreeRcu(t) PROVE Places'
  <2>1. /\ UNCHANGED <<linked, retiring>>
        /\ pool' = pool \cup ({limbo[t][1].obj} \ {Cleanup})
        /\ pc[t] = "freeing" /\ pc'[t] = "freed"
        /\ \A u \in Threads \ {t} : limbo'[u] = limbo[u] /\ pc'[u] = pc[u]
        /\ 1 \in Index(t)
        /\ \A i \in Index(t)' : \/ limbo'[t][i].obj = Cleanup
                                \/ i + 1 \in Index(t) /\ limbo'[t][i] = limbo[t][i + 1]
        /\ \A i \in Index(t) : i <= 1 \/ (i - 1 \in Index(t)' /\ limbo'[t][i - 1] = limbo[t][i])
    BY <1>10, FreeEffect
  <2>2. pool' = pool \cup ({limbo[t][i].obj : i \in {j \in Index(t) : j <= 1}} \ {Cleanup})
    <3>1. {j \in Index(t) : j <= 1} = {1}
      BY <2>1 DEF Index
    <3> QED
      BY <2>1, <3>1
  <2> QED
    BY <2>1, <2>2, <1>t, PlacesDrop
<1>11. ASSUME NEW t \in Threads, Advance(t) PROVE Places'
  <2>1. /\ UNCHANGED <<linked, pool, retiring>>
        /\ pc[t] \notin {"unlinked", "recorded"} /\ pc'[t] \notin {"unlinked", "recorded"}
        /\ \A u \in Threads \ {t} : pc'[u] = pc[u]
    BY <1>11, AdvanceEffect
  <2>2. PICK k \in Nat :
          /\ \A u \in Threads \ {t} : limbo'[u] = limbo[u]
          /\ \A i \in Index(t)' : i + k \in Index(t) /\ limbo'[t][i] = limbo[t][i + k]
          /\ \A i \in Index(t) : \/ i <= k /\ limbo[t][i].obj = Cleanup
                                 \/ i - k \in Index(t)' /\ limbo'[t][i - k] = limbo[t][i]
    BY <1>11, AdvanceEffect
  <2>3. \A i \in Index(t) : i <= k => \/ limbo[t][i].obj = Cleanup
                                      \/ i - k \in Index(t)' /\ i \in Int /\ k \in Int
    BY <2>2 DEF Index
  <2>4. \A i \in Index(t) : i <= k => limbo[t][i].obj = Cleanup
    BY <2>3 DEF Index
  <2>5. pool' = pool \cup ({limbo[t][i].obj : i \in {j \in Index(t) : j <= k}} \ {Cleanup})
    BY <2>1, <2>4
  <2> QED
    BY <2>1, <2>2, <2>5, <1>t, PlacesDrop
<1> QED
  BY <1>1, <1>2, <1>3, <1>4, <1>5, <1>6, <1>7, <1>8, <1>9, <1>10, <1>11 DEF Next
-----------------------------------------------------------------------------
(* What readers hold is pinned.                                            *)

\* Where the elements of a list come from: they waited before, or they have just
\* been recorded with the current epoch.
LEMMA WaitingNext ==
  ASSUME Lists, [Next]_vars, NEW t \in Threads, NEW e \in Waiting(t)', e \notin Waiting(t)
  PROVE  /\ e.epoch = globalepoch /\ globalepoch' = globalepoch
         /\ e.how = "update" => pc'[t] = "active" /\ UNCHANGED <<held, gcEpoch>>
<1>t. TypeOK
  BY DEF Lists
<1>w. /\ Waiting(t) = {limbo[t][i] : i \in Index(t)}
      /\ Waiting(t)' = {limbo'[t][i] : i \in Index(t)'}
  BY DEF Waiting, Index
<1>1. limbo'[t] # limbo[t]
  BY DEF Waiting
<1>2. ASSUME NEW u \in Threads,
             RecordUpdated(u) \/ RcuRegister(u) \/ \E o \in Objects : RecordRemoved(u, o)
      PROVE  /\ e.epoch = globalepoch /\ globalepoch' = globalepoch
             /\ e.how = "update" => pc'[t] = "active" /\ UNCHANGED <<held, gcEpoch>>
  <2>1. \E o \in Objects \cup {Cleanup}, how \in Ways :
          /\ RecordRcu(u, o, how)
          /\ how = "update" => pc'[u] = "active"
    BY <1>2, <1>t DEF RecordUpdated, RcuRegister, RecordRemoved, Goto, TypeOK, Ways
  <2>2. /\ Len(limbo[u]) < MaxLimbo
        /\ pc[u] \notin {"freeing", "freed"} /\ pc'[u] \notin {"unlinked", "freeing", "freed"}
        /\ UNCHANGED <<globalepoch, gcEpoch, held>>
    BY <1>2, <1>t DEF RecordUpdated, RcuRegister, RecordRemoved, MayRetire, Goto, Lists, ListOf, TypeOK
  <2>3. PICK o \in Objects \cup {Cleanup}, how \in Ways :
          /\ RecordRcu(u, o, how)
          /\ how = "update" => pc'[u] = "active"
    BY <2>1
  <2>4. PICK n \in Nat \ Index(u) :
          /\ Index(u)' = Index(u) \cup {n}
          /\ limbo'[u][n].obj = o /\ limbo'[u][n].how = how
          /\ limbo'[u][n].epoch = globalepoch
          /\ \A i \in Index(u) : limbo'[u][i] = limbo[u][i]
          /\ \A v \in Threads \ {u} : limbo'[v] = limbo[v] /\ Index(v)' = Index(v)
    BY <2>2, <2>3, IndexPush
  <2>5. t = u /\ e = limbo'[t][n]
    BY <1>1, <1>w, <2>4
  <2> QED
    BY <2>2, <2>3, <2>4, <2>5
<1>3. ASSUME NEW u \in Threads, FreeRcu(u)
      PROVE  e.epoch = globalepoch /\ globalepoch' = globalepoch /\ e.how # "update"
  <2>1. /\ globalepoch' = globalepoch
        /\ \A v \in Threads \ {u} : limbo'[v] = limbo[v]
        /\ \A i \in Index(u)' :
             \/ limbo'[u][i].how = "outer" /\ limbo'[u][i].epoch = globalepoch
             \/ i + 1 \in Index(u) /\ limbo'[u][i] = limbo[u][i + 1]
    BY <1>3, FreeEffect
  <2> QED
    BY <2>1, <1>1, <1>w
<1>4. ASSUME NEW u \in Threads, Advance(u)
      PROVE  FALSE
  <2>1. PICK k \in Nat :
          /\ \A v \in Threads \ {u} : limbo'[v] = limbo[v]
          /\ \A i \in Index(u)' : i + k \in Index(u) /\ limbo'[u][i] = limbo[u][i + k]
    BY <1>4, AdvanceEffect
  <2> QED
    BY <2>1, <1>1, <1>w
<1>5. ASSUME NEW u \in Threads,
             \/ BeginStart(u) \/ EndStart(u) \/ BeginQuiesce(u) \/ UnlinkRemoved(u)
             \/ RcuStop(u) \/ RcuQuiesce(u) \/ EndScan(u)
             \/ \E r \in Threads : Scan(u, r)
             \/ \E o \in Objects : Acquire(u, o) \/ Link(u, o) \/ UnlinkUpdated(u, o)
      PROVE  FALSE
  BY <1>1, <1>5 DEF BeginStart, EndStart, BeginQuiesce, UnlinkRemoved, RcuStop, RcuQuiesce, EndScan,
                    Scan, Acquire, Link, UnlinkUpdated, queue
<1>6. ~(Epochinc \/ UNCHANGED vars)
  BY <1>1 DEF Epochinc, vars, queue
<1> QED
  BY <1>2, <1>3, <1>4, <1>5, <1>6 DEF Next

\* A thread keeps its epoch as long as it holds a row, and takes new rows from
\* the tree only.
LEMMA ReadersNext ==
  ASSUME TypeOK, Epochs, [Next]_vars, NEW r \in Threads, held'[r] # {}
  PROVE  /\ gcEpoch'[r] = gcEpoch[r]
         /\ pc[r] \in InOperation
         /\ held'[r] \subseteq held[r] \cup linked
<1>1. CASE held'[r] = held[r]
  <2>1. pc[r] \in InOperation
    BY <1>1 DEF Epochs
  <2>2. gcEpoch'[r] = gcEpoch[r]
    <3>1. ASSUME NEW t \in Threads, t # r, \/ EndStart(t) \/ RcuStop(t) \/ RcuQuiesce(t)
                                           \/ EndScan(t) \/ Advance(t)
          PROVE  gcEpoch'[r] = gcEpoch[r]
      BY <3>1 DEF EndStart, RcuStop, RcuQuiesce, EndScan, Advance, Return, TypeOK
    <3>2. ASSUME RcuStop(r) PROVE FALSE
      BY <3>2, <1>1 DEF RcuStop, TypeOK
    <3>3. ~(EndStart(r) \/ RcuQuiesce(r) \/ EndScan(r) \/ Advance(r))
      BY <2>1 DEF EndStart, RcuQuiesce, EndScan, Advance, InOperation
    <3> QED
      BY <3>1, <3>2, <3>3 DEF Next, vars, Epochinc, BeginStart, RecordUpdated, UnlinkRemoved,
         RcuRegister, BeginQuiesce, FreeRcu, Acquire, Link, UnlinkUpdated, RecordRemoved, Scan
  <2> QED
    BY <1>1, <2>1, <2>2
<1>2. CASE held'[r] # held[r]
  <2>1. PICK t \in Threads : \/ RcuStop(t) \/ BeginQuiesce(t)
                             \/ \E o \in Objects : Acquire(t, o)
    BY <1>2 DEF Next, vars, Epochinc, BeginStart, EndStart, RecordUpdated, UnlinkRemoved,
         RcuRegister, RcuQuiesce, EndScan, FreeRcu, Advance, Link, UnlinkUpdated, RecordRemoved, Scan
  <2>2. t = r /\ ~RcuStop(t) /\ ~BeginQuiesce(t)
    BY <2>1, <1>2 DEF RcuStop, BeginQuiesce, Acquire, TypeOK
  <2> QED
    BY <2>1, <2>2 DEF Acquire, TypeOK, InOperation
<1> QED
  BY <1>1, <1>2

LEMMA PinnedNext ==
  ASSUME Lists, Gone, Epochs, Pinned, [Next]_vars
  PROVE  Pinned'
<1>t. TypeOK /\ globalepoch \in Nat /\ gcEpoch \in [Threads -> Nat]
  BY DEF Lists, TypeOK
<1> SUFFICES ASSUME NEW t \in Threads, NEW r \in Threads, NEW e \in Waiting(t)',
                    e.how = "update", e.obj \in held'[r]
             PROVE  0 < gcEpoch'[r] /\ gcEpoch'[r] <= e.epoch
  BY DEF Pinned
<1>1. /\ gcEpoch'[r] = gcEpoch[r] /\ pc[r] \in InOperation
      /\ e.obj \in held[r] \cup linked
  BY <1>t, ReadersNext
<1>2. CASE e \in Waiting(t)
  <2>1. e.obj \notin linked
    BY <1>2 DEF Gone, Waiting, Index
  <2> QED
    BY <2>1, <1>1, <1>2 DEF Pinned
<1>3. CASE e \notin Waiting(t)
  <2>1. e.epoch = globalepoch
    BY <1>3, WaitingNext
  <2> QED
    BY <2>1, <1>1, <1>t DEF Epochs
<1> QED
  BY <1>2, <1>3

LEMMA ScannedNext ==
  ASSUME Lists, Gone, Epochs, Pinned, Scanned, [Next]_vars
  PROVE  Scanned'
<1>t. TypeOK /\ gcEpoch \in [Threads -> Nat] /\ minEpoch \in [Threads -> Nat]
  BY DEF Lists, TypeOK
<1> SUFFICES ASSUME NEW t \in Threads, NEW r \in Threads, NEW e \in Waiting(t)',
                    pc'[t] \in Reclaiming, r \notin scan'[t],
                    e.how = "update", e.epoch < minEpoch'[t], e.obj \in held'[r]
             PROVE  FALSE
  BY DEF Scanned
<1>1. e.obj \in held[r] \cup linked
  BY <1>t, ReadersNext
<1>2. e \in Waiting(t)
  BY WaitingNext DEF Reclaiming
<1>3. e.obj \in held[r]
  <2>1. e.obj \notin linked
    BY <1>2 DEF Gone, Waiting, Index
  <2> QED
    BY <2>1, <1>1
<1>4. e.epoch \in Nat
  <2>1. PICK i \in Index(t) : e = limbo[t][i]
    BY <1>2 DEF Waiting, Index
  <2> QED
    BY <2>1, <1>t, WaitingTypes
<1>5. 0 < gcEpoch[r] /\ gcEpoch[r] <= e.epoch
  BY <1>2, <1>3 DEF Pinned
<1>6. CASE \E s \in Threads : Scan(t, s)
  <2>1. PICK s \in Threads : Scan(t, s)
    BY <1>6
  <2>2. /\ scan'[t] = scan[t] \ {s} /\ pc[t] = "scanning"
        /\ minEpoch'[t] = IF gcEpoch[s] # 0 /\ gcEpoch[s] < minEpoch[t] THEN gcEpoch[s]
                                                                        ELSE minEpoch[t]
    BY <2>1, <1>t DEF Scan, TypeOK
  <2>3. minEpoch'[t] <= minEpoch[t] /\ e.epoch < minEpoch[t]
    BY <2>2, <1>t, <1>4
  <2>4. r # s
    BY <2>2, <1>t, <1>4, <1>5
  <2> QED
    BY <2>2, <2>3, <2>4, <1>2, <1>3 DEF Scanned, Reclaiming
<1>7. CASE ~\E s \in Threads : Scan(t, s)
  <2>1. /\ pc[t] \in Reclaiming /\ scan'[t] = scan[t] /\ minEpoch'[t] = minEpoch[t]
    <3>1. CASE scan'[t] = Threads
      BY <3>1
    <3>2. ASSUME NEW u \in Threads, u # t, \/ RcuStop(u) \/ RcuQuiesce(u) \/ EndScan(u)
                                           \/ FreeRcu(u) \/ Advance(u)
                                           \/ \E s \in Threads : Scan(u, s)
          PROVE  pc'[t] = pc[t] /\ scan'[t] = scan[t] /\ minEpoch'[t] = minEpoch[t]
      <4>1. CASE RcuStop(u) \/ RcuQuiesce(u)
        <5>1. CASE \E epoch \in Nat, to \in {"stop", "quiesce"} : EnterHardQuiesce(u, epoch, to)
          BY <3>2, <5>1, <1>t DEF EnterHardQuiesce, Goto, TypeOK
        <5>2. CASE UNCHANGED quiesce /\ \E label \in Labels : Goto(u, label)
          BY <3>2, <5>2, <1>t DEF Goto, quiesce, TypeOK
        <5> QED
          BY <4>1, <5>1, <5>2, <1>t DEF RcuStop, RcuQuiesce, Labels, TypeOK
      <4>2. CASE EndScan(u)
        BY <3>2, <4>2, <1>t DEF EndScan, Return, Goto, TypeOK
      <4>3. CASE FreeRcu(u)
        BY <3>2, <4>3, <1>t DEF FreeRcu, Goto, quiesce, TypeOK
      <4>4. CASE \E s \in Threads : Scan(u, s)
        <5>1. PICK s \in Threads : Scan(u, s)
          BY <4>4
        <5> QED
          BY <3>2, <5>1, <1>t DEF Scan, TypeOK
      <4>5. CASE Advance(u)
        BY <3>2, <4>5, <1>t DEF Advance, Return, Goto, TypeOK
      <4> QED
        BY <3>2, <4>1, <4>2, <4>3, <4>4, <4>5
    <3>3. ASSUME NEW u \in Threads,
                 \/ BeginStart(u) \/ EndStart(u) \/ RecordUpdated(u) \/ UnlinkRemoved(u)
                 \/ BeginQuiesce(u)
                 \/ \E o \in Objects : UnlinkUpdated(u, o) \/ RecordRemoved(u, o)
          PROVE  pc'[t] = pc[t] /\ scan'[t] = scan[t] /\ minEpoch'[t] = minEpoch[t]
      <4>1. u # t => pc'[t] = pc[t]
        BY <3>3, <1>t DEF BeginStart, EndStart, RecordUpdated, UnlinkRemoved, BeginQuiesce,
                     UnlinkUpdated, RecordRemoved, Goto, TypeOK
      <4>2. u # t
        BY SMTT(30), <3>3, <1>t DEF BeginStart, EndStart, RecordUpdated, UnlinkRemoved,
                     BeginQuiesce, UnlinkUpdated, RecordRemoved, Goto, TypeOK, Reclaiming
      <4> QED
        BY <3>3, <4>1, <4>2 DEF BeginStart, EndStart, RecordUpdated, UnlinkRemoved,
                     BeginQuiesce, UnlinkUpdated, RecordRemoved, quiesce
    <3>4. ASSUME NEW u \in Threads,
                 RcuRegister(u) \/ \E o \in Objects : Acquire(u, o) \/ Link(u, o)
          PROVE  pc'[t] = pc[t] /\ scan'[t] = scan[t] /\ minEpoch'[t] = minEpoch[t]
      BY <3>4 DEF RcuRegister, Acquire, Link, quiesce
    <3>5. ASSUME RcuStop(t) \/ RcuQuiesce(t), scan'[t] # Threads PROVE FALSE
      BY SMTT(30), <3>5, <1>t DEF RcuStop, RcuQuiesce, EnterHardQuiesce, Goto, TypeOK, Reclaiming
    <3>6. ASSUME EndScan(t) \/ FreeRcu(t) \/ Advance(t)
          PROVE  pc[t] \in Reclaiming /\ scan'[t] = scan[t] /\ minEpoch'[t] = minEpoch[t]
      BY <3>6, <1>t DEF EndScan, FreeRcu, Advance, Return, Goto, quiesce, TypeOK, Reclaiming
    <3>7. ASSUME Epochinc \/ UNCHANGED vars
          PROVE  pc'[t] = pc[t] /\ scan'[t] = scan[t] /\ minEpoch'[t] = minEpoch[t]
      BY <3>7 DEF Epochinc, vars, quiesce
    <3> QED
      BY <1>7, <3>1, <3>2, <3>3, <3>4, <3>5, <3>6, <3>7 DEF Next
  <2> QED
    BY <2>1, <1>2, <1>3 DEF Scanned
<1> QED
  BY <1>6, <1>7
LEMMA EpochsNext ==
  ASSUME Lists, Epochs, [Next]_vars
  PROVE  Epochs'
<1>t. /\ TypeOK /\ globalepoch \in Nat /\ globalepoch > 0 /\ globalepoch' \in Nat
      /\ globalepoch <= globalepoch'
      /\ gcEpoch \in [Threads -> Nat] /\ loaded \in [Threads -> Nat]
  <2>1. globalepoch' = globalepoch \/ globalepoch' = globalepoch + 2
    BY DEF Next, vars, Epochinc, BeginStart, EndStart, RecordUpdated, UnlinkRemoved, RcuRegister,
           RcuStop, BeginQuiesce, RcuQuiesce, EndScan, FreeRcu, Advance, Acquire, Link,
           UnlinkUpdated, RecordRemoved, Scan
  <2>2. TypeOK /\ globalepoch > 0
    BY DEF Lists
  <2>3. globalepoch \in Nat /\ gcEpoch \in [Threads -> Nat] /\ loaded \in [Threads -> Nat]
    BY <2>2 DEF TypeOK
  <2> QED
    BY <2>1, <2>2, <2>3
<1> SUFFICES ASSUME NEW r \in Threads
             PROVE  /\ gcEpoch'[r] <= globalepoch' /\ loaded'[r] <= globalepoch'
                    /\ pc'[r] \in {"starting", "restarting"} => loaded'[r] > 0
                    /\ pc'[r] \in InOperation \cup Reclaiming => gcEpoch'[r] > 0
                    /\ pc'[r] \notin InOperation => held'[r] = {}
  BY DEF Epochs
<1> USE DEF InOperation, Reclaiming
<1>e. /\ gcEpoch[r] <= globalepoch /\ loaded[r] <= globalepoch
      /\ gcEpoch[r] \in Nat /\ loaded[r] \in Nat
      /\ pc[r] \in {"starting", "restarting"} => loaded[r] > 0
      /\ pc[r] \in InOperation \cup Reclaiming => gcEpoch[r] > 0
      /\ pc[r] \notin InOperation => held[r] = {}
  BY <1>t DEF Epochs
<1> DEFINE Same == /\ gcEpoch'[r] = gcEpoch[r] /\ loaded'[r] = loaded[r]
                   /\ pc'[r] = pc[r] /\ held'[r] = held[r]
<1>s. ASSUME Same
      PROVE  /\ gcEpoch'[r] <= globalepoch' /\ loaded'[r] <= globalepoch'
             /\ pc'[r] \in {"starting", "restarting"} => loaded'[r] > 0
             /\ pc'[r] \in InOperation \cup Reclaiming => gcEpoch'[r] > 0
             /\ pc'[r] \notin InOperation => held'[r] = {}
  BY <1>s, <1>e, <1>t
<1>1. CASE Epochinc \/ UNCHANGED vars
  <2>1. Same
    BY <1>1 DEF Epochinc, vars
  <2> QED
    BY <2>1, <1>s
<1>2. ASSUME NEW t \in Threads, t # r,
             \/ BeginStart(t) \/ EndStart(t) \/ RecordUpdated(t) \/ UnlinkRemoved(t)
             \/ RcuRegister(t) \/ RcuStop(t) \/ BeginQuiesce(t) \/ RcuQuiesce(t)
             \/ EndScan(t) \/ FreeRcu(t) \/ Advance(t)
             \/ \E o \in Objects : Acquire(t, o) \/ Link(t, o)
                                   \/ UnlinkUpdated(t, o) \/ RecordRemoved(t, o)
             \/ \E s \in Threads : Scan(t, s)
      PROVE  Same
  <2>1. CASE BeginStart(t) \/ EndStart(t) \/ BeginQuiesce(t)
    BY <1>2, <2>1, <1>t DEF BeginStart, EndStart, BeginQuiesce, Goto, TypeOK
  <2>2. CASE RecordUpdated(t) \/ UnlinkRemoved(t) \/ RcuRegister(t)
    BY <1>2, <2>2, <1>t DEF RecordUpdated, UnlinkRemoved, RcuRegister, Goto, TypeOK
  <2>3. CASE RcuStop(t)
    BY <1>2, <2>3, <1>t DEF RcuStop, EnterHardQuiesce, Goto, TypeOK
  <2>4. CASE RcuQuiesce(t)
    BY <1>2, <2>4, <1>t DEF RcuQuiesce, EnterHardQuiesce, Goto, TypeOK
  <2>5. CASE EndScan(t)
    BY SMTT(30), <1>2, <2>5, <1>t DEF EndScan, Return, Goto, TypeOK
  <2>6. CASE FreeRcu(t) \/ \E s \in Threads : Scan(t, s)
    BY <1>2, <2>6, <1>t DEF FreeRcu, Scan, Goto, TypeOK
  <2>7. CASE Advance(t)
    BY <1>2, <2>7, <1>t DEF Advance, Return, Goto, TypeOK
  <2>8. CASE \E o \in Objects : Acquire(t, o) \/ Link(t, o)
                                \/ UnlinkUpdated(t, o) \/ RecordRemoved(t, o)
    BY <1>2, <2>8, <1>t DEF Acquire, Link, UnlinkUpdated, RecordRemoved, Goto, TypeOK
  <2> QED
    BY <1>2, <2>1, <2>2, <2>3, <2>4, <2>5, <2>6, <2>7, <2>8
<1>3. CASE BeginStart(r)
  BY <1>3, <1>e, <1>t DEF BeginStart, Goto, TypeOK
<1>4. CASE EndStart(r)
  BY <1>4, <1>e, <1>t DEF EndStart, Goto, TypeOK
<1>5. CASE BeginQuiesce(r)
  BY <1>5, <1>e, <1>t DEF BeginQuiesce, Goto, TypeOK
<1>6. CASE RecordUpdated(r) \/ UnlinkRemoved(r) \/ RcuRegister(r)
  BY <1>6, <1>e, <1>t DEF RecordUpdated, UnlinkRemoved, RcuRegister, MayRetire, Goto, TypeOK
<1>7. CASE RcuStop(r)
  BY <1>7, <1>e, <1>t DEF RcuStop, EnterHardQuiesce, Goto, TypeOK
<1>8. CASE RcuQuiesce(r)
  BY <1>8, <1>e, <1>t DEF RcuQuiesce, EnterHardQuiesce, Goto, TypeOK
<1>9. CASE EndScan(r)
  <2>1. /\ pc[r] = "scanning" /\ held' = held /\ loaded' = loaded
        /\ globalepoch' = globalepoch
    BY <1>9 DEF EndScan
  <2>2. CASE \E epoch : Return(r, epoch)
    BY <2>1, <2>2, <1>e, <1>t DEF Return, Goto, TypeOK
  <2>3. CASE Goto(r, "freeing") /\ UNCHANGED gcEpoch
    BY <2>1, <2>3, <1>e, <1>t DEF Goto, TypeOK
  <2> QED
    BY <1>9, <2>2, <2>3 DEF EndScan
<1>10. CASE FreeRcu(r) \/ \E s \in Threads : Scan(r, s)
  BY <1>10, <1>e, <1>t DEF FreeRcu, Scan, Goto, TypeOK
<1>11. CASE Advance(r)
  BY SMTT(30), <1>11, <1>e, <1>t DEF Advance, Return, Goto, TypeOK
<1>12. CASE \E o \in Objects : Acquire(r, o) \/ Link(r, o)
                               \/ UnlinkUpdated(r, o) \/ RecordRemoved(r, o)
  BY <1>12, <1>e, <1>t DEF Acquire, Link, UnlinkUpdated, RecordRemoved, MayRetire, Goto, TypeOK
<1> QED
  BY <1>s, <1>1, <1>2, <1>3, <1>4, <1>5, <1>6, <1>7, <1>8, <1>9, <1>10, <1>11, <1>12 DEF Next

-----------------------------------------------------------------------------
(* Callbacks are lost only when they are late.                             *)

\* Counting goes element by element.
LEMMA CallbacksAppend ==
  ASSUME NEW q \in Seq(Element), NEW p \in Seq(Element), Len(p) = Len(q) + 1,
         \A i \in 1..Len(q) : p[i] = q[i]
  PROVE  /\ IsFiniteSet(CallbacksIn(q)) /\ Cardinality(CallbacksIn(q)) \in Nat
         /\ Cardinality(CallbacksIn(p)) = Cardinality(CallbacksIn(q)) + Callback(p[Len(p)].obj)
<1>1. Len(q) \in Nat
  BY LenProperties
<1>2. IsFiniteSet(CallbacksIn(q)) /\ Cardinality(CallbacksIn(q)) \in Nat
  <2>1. CallbacksIn(q) \subseteq 1..Len(q) /\ IsFiniteSet(1..Len(q))
    BY <1>1, FS_Interval DEF CallbacksIn
  <2> QED
    BY <2>1, FS_Subset, FS_CardinalityType
<1>3. CASE p[Len(p)].obj = Cleanup
  <2>1. CallbacksIn(p) = CallbacksIn(q) \cup {Len(p)}
    BY <1>1, <1>3 DEF CallbacksIn
  <2>2. Len(p) \notin CallbacksIn(q)
    BY <1>1 DEF CallbacksIn
  <2>3. Cardinality(CallbacksIn(q) \cup {Len(p)}) = Cardinality(CallbacksIn(q)) + 1
    BY <1>2, <2>2, FS_AddElement
  <2> QED
    BY <1>2, <1>3, <2>1, <2>3 DEF Callback
<1>4. CASE p[Len(p)].obj # Cleanup
  <2>1. CallbacksIn(p) = CallbacksIn(q)
    BY <1>1, <1>4 DEF CallbacksIn
  <2> QED
    BY <1>2, <1>4, <2>1 DEF Callback
<1> QED
  BY <1>2, <1>3, <1>4

\* Taking the first k elements off takes off the callbacks among them.
LEMMA CallbacksSuffix ==
  ASSUME NEW q \in Seq(Element), NEW p \in Seq(Element), NEW k \in 0..Len(q),
         Len(p) = Len(q) - k,
         \A i \in 1..Len(p) : p[i] = q[i + k]
  PROVE  Cardinality(CallbacksIn(q)) =
           Cardinality(CallbacksIn(p)) + Cardinality({i \in 1..k : q[i].obj = Cleanup})
<1> DEFINE head == {i \in 1..k : q[i].obj = Cleanup}
           tail == {i \in (k + 1)..Len(q) : q[i].obj = Cleanup}
           f == [i \in CallbacksIn(p) |-> i + k]
<1>1. Len(q) \in Nat /\ Len(p) \in Nat /\ k \in Nat
  BY LenProperties
<1>2. IsFiniteSet(head) /\ IsFiniteSet(tail) /\ IsFiniteSet(CallbacksIn(p))
  <2>1. head \subseteq 1..Len(q) /\ tail \subseteq 1..Len(q)
    BY <1>1
  <2>2. CallbacksIn(p) \subseteq 1..Len(p)
    BY DEF CallbacksIn
  <2> HIDE DEF head, tail
  <2>3. IsFiniteSet(1..Len(q)) /\ IsFiniteSet(1..Len(p))
    BY <1>1, FS_Interval
  <2> QED
    BY <2>1, <2>2, <2>3, FS_Subset
<1>3. f \in Bijection(CallbacksIn(p), tail)
  <2>1. \A i \in CallbacksIn(p) : i + k \in tail
    BY <1>1 DEF CallbacksIn
  <2>2. \A j \in tail : j - k \in CallbacksIn(p) /\ (j - k) + k = j
    BY <1>1 DEF CallbacksIn
  <2>3. \A i, j \in CallbacksIn(p) : i + k = j + k => i = j
    BY <1>1 DEF CallbacksIn
  <2>4. f \in [CallbacksIn(p) -> tail]
    BY <2>1
  <2>5. f \in Injection(CallbacksIn(p), tail)
    BY <2>3, <2>4 DEF Injection, IsInjective
  <2>6. f \in Surjection(CallbacksIn(p), tail)
    BY <2>2, <2>4 DEF Surjection
  <2> QED
    BY <2>5, <2>6 DEF Bijection
<1>4. Cardinality(tail) = Cardinality(CallbacksIn(p))
  <2> HIDE DEF f, tail
  <2> QED
    BY <1>2, <1>3, FS_Bijection DEF ExistsBijection
<1>5. CallbacksIn(q) = head \cup tail /\ head \cap tail = {}
  BY <1>1 DEF CallbacksIn
<1>6. Cardinality(head \cup tail) = Cardinality(head) + Cardinality(tail)
  <2> HIDE DEF head, tail
  <2>1. Cardinality(head \cap tail) = 0
    BY <1>5, FS_EmptySet
  <2>2. /\ Cardinality(head \cup tail) =
              Cardinality(head) + Cardinality(tail) - Cardinality(head \cap tail)
        /\ Cardinality(head) \in Nat /\ Cardinality(tail) \in Nat
    BY <1>2, FS_Union, FS_CardinalityType
  <2> QED
    BY <2>1, <2>2
<1>7. Cardinality(head) \in Nat /\ Cardinality(tail) \in Nat
  <2> HIDE DEF head, tail
  <2> QED
    BY <1>2, FS_CardinalityType
<1> HIDE DEF head, tail
<1>8. Cardinality(CallbacksIn(q)) = Cardinality(CallbacksIn(p)) + Cardinality(head)
  BY <1>4, <1>5, <1>6, <1>7
<1> QED
  BY <1>8 DEF head

\* A list that a step does not touch.
LEMMA LedgerFrame ==
  ASSUME NEW t \in Threads, LedgerOf(t),
         limbo'[t] = limbo[t], owed'[t] = owed[t], late'[t] = late[t],
         \/ pc'[t] = pc[t] /\ left'[t] = left[t]
         \/ pc[t] \notin {"freeing", "freed"} /\ pc'[t] \notin {"freeing", "freed"}
  PROVE  LedgerOf(t)'
BY DEF LedgerOf, LateOf

\* The loop reads a group up to its end.
LEMMA GroupSizeEnds ==
  ASSUME NEW q \in Seq(Element), q # <<>>
  PROVE  GroupEnds(q, 2, GroupSize(q))
<1> DEFINE group == {i \in 1..Len(q) : SameGroup(q, i)}
<1>1. Len(q) \in Nat /\ Unread(q, GroupSize(q)) /\ GroupSize(q) \in 1..Len(q)
  BY GroupSizeRead, LenProperties DEF Unread
<1>2. ASSUME GroupSize(q) < Len(q), q[GroupSize(q) + 1].slot # 1 PROVE FALSE
  <2> DEFINE n == GroupSize(q)
  <2>1. SameGroup(q, n + 1)
    BY <1>1, <1>2 DEF Unread, SameGroup
  <2>2. \A i \in 1..(n + 1) : SameGroup(q, i)
    BY <2>1, <1>1 DEF SameGroup
  <2>3. 1..(n + 1) \subseteq group
    BY <2>2, <1>1, <1>2
  <2>4. IsFiniteSet(group)
    <3>1. group \subseteq 1..Len(q) /\ IsFiniteSet(1..Len(q))
      BY <1>1, FS_Interval
    <3> HIDE DEF group
    <3> QED
      BY <3>1, FS_Subset
  <2>5. Cardinality(1..(n + 1)) = n + 1
    BY <1>1, FS_Interval
  <2>6. Cardinality(1..(n + 1)) <= Cardinality(group)
    <3> HIDE DEF group, n
    <3> QED
      BY <2>3, <2>4, FS_Subset
  <2>7. Cardinality(group) = n
    BY DEF GroupSize, SameGroup
  <2> QED
    BY <1>1, <2>5, <2>6, <2>7
<1> QED
  BY <1>1, <1>2 DEF GroupEnds, Unread, SameGroup

\* Their number is one.
LEMMA CallbacksFinite ==
  ASSUME NEW q \in Seq(Element)
  PROVE  Cardinality(CallbacksIn(q)) \in Nat
<1>1. CallbacksIn(q) \subseteq 1..Len(q) /\ Len(q) \in Nat
  BY LenProperties DEF CallbacksIn
<1>2. IsFiniteSet(1..Len(q))
  BY <1>1, FS_Interval
<1> QED
  BY <1>1, <1>2, FS_Subset, FS_CardinalityType

\* The end of the group comes one closer as an element is freed ...
LEMMA EndsTail ==
  ASSUME NEW q \in Seq(Element), NEW k \in Nat \ {0}, GroupEnds(q, 2, k),
         NEW p \in Seq(Element), Len(p) = Len(q) - 1,
         \A i \in 1..Len(p) : p[i] = q[i + 1]
  PROVE  GroupEnds(p, 1, k - 1)
<1>1. Len(q) \in Nat /\ Len(p) \in Nat /\ k - 1 \in 0..Len(p)
  BY LenProperties DEF GroupEnds
<1>2. ASSUME NEW i \in 1..(k - 1) PROVE p[i].slot # 1
  <2>1. i + 1 \in 2..k /\ p[i] = q[i + 1]
    BY <1>1, <1>2
  <2> QED
    BY <2>1 DEF GroupEnds
<1>3. ASSUME k - 1 < Len(p) PROVE p[(k - 1) + 1].slot = 1
  <2>1. (k - 1) + 1 = k /\ k \in 1..Len(p) /\ k < Len(q)
    BY <1>1, <1>3
  <2> QED
    BY <2>1 DEF GroupEnds
<1> QED
  BY <1>1, <1>2, <1>3 DEF GroupEnds

\* ... and moves on when a callback lands in the last group.
LEMMA EndsAppend ==
  ASSUME NEW q \in Seq(Element), NEW m, GroupEnds(q, 1, m),
         NEW p \in Seq(Element), Len(p) = Len(q) + 1,
         \A i \in 1..Len(q) : p[i] = q[i]
  PROVE  GroupEnds(p, 1, IF LaterGroups(q) = {} /\ p[Len(q) + 1].slot # 1 THEN m + 1 ELSE m)
<1>1. Len(q) \in Nat /\ m \in 0..Len(q)
  BY LenProperties DEF GroupEnds
<1>2. CASE m < Len(q)
  <2>1. m + 1 \in LaterGroups(q)
    BY <1>1, <1>2 DEF GroupEnds, LaterGroups
  <2>2. GroupEnds(p, 1, m)
    BY <1>1, <1>2 DEF GroupEnds
  <2> QED
    BY <2>1, <2>2
<1>3. CASE m = Len(q) /\ p[Len(q) + 1].slot = 1
  <2>1. GroupEnds(p, 1, m)
    BY <1>1, <1>3 DEF GroupEnds
  <2> QED
    BY <2>1, <1>3
<1>4. CASE m = Len(q) /\ p[Len(q) + 1].slot # 1
  <2>1. LaterGroups(q) = {}
    BY <1>1, <1>4 DEF GroupEnds, LaterGroups
  <2>2. GroupEnds(p, 1, m + 1)
    BY <1>1, <1>4 DEF GroupEnds
  <2> QED
    BY <2>1, <2>2, <1>4
<1> QED
  BY <1>1, <1>2, <1>3, <1>4

\* When the loop leaves a group, the n elements that it drops are callbacks.
LEMMA LateDropped ==
  ASSUME NEW q \in Seq(Element), NEW n \in Nat, GroupEnds(q, 1, n), Unfinished(q, 1),
         NEW p \in Seq(Element), Len(p) = Len(q) - n,
         \A i \in 1..Len(p) : p[i] = q[i + n]
  PROVE  Cardinality(CallbacksIn(q)) = Cardinality(CallbacksIn(p)) + n
<1>1. Len(q) \in Nat /\ n \in 0..Len(q) /\ \A i \in 1..n : q[i].slot # 1
  BY LenProperties DEF GroupEnds
<1>2. ASSUME NEW i \in 1..n PROVE q[i].obj = Cleanup
  <2>1. i \in 1..Len(q) /\ \A j \in 1..i : q[j].slot # 1
    BY <1>1, <1>2
  <2> QED
    BY <2>1 DEF Unfinished
<1>3. {i \in 1..n : q[i].obj = Cleanup} = 1..n
  BY <1>2
<1>4. Cardinality(1..n) = n
  BY FS_Interval
<1> QED
  BY <1>1, <1>3, <1>4, CallbacksSuffix

LEMMA LedgerInit == Init => Ledger
<1> SUFFICES ASSUME Init, NEW t \in Threads PROVE LedgerOf(t)
  BY DEF Ledger
<1>1. limbo[t] = <<>> /\ owed[t] = 0 /\ late[t] = 0 /\ pc[t] = "idle"
  BY DEF Init
<1>2. Cardinality(CallbacksIn(<<>>)) = 0
  BY FS_EmptySet DEF CallbacksIn
<1> QED
  BY <1>1, <1>2 DEF LedgerOf, LateOf

\* Freeing an element, with or without a callback behind the list.
LEMMA LedgerFree ==
  ASSUME Lists, NEW t \in Threads, LedgerOf(t), FreeRcu(t)
  PROVE  LedgerOf(t)'
<1>t. TypeOK /\ late[t] \in Nat /\ left[t] \in Nat /\ owed[t] \in Int
  BY DEF Lists, TypeOK
<1>1. pc[t] = "freeing" /\ pc'[t] = "freed" /\ left' = left /\ globalepoch > 0
  BY <1>t DEF FreeRcu, Goto, TypeOK, Lists
<1>2. /\ limbo[t] \in Seq(Element) /\ Len(limbo[t]) \in Nat
      /\ Chain(limbo[t], fill[t], globalepoch) /\ Unread(limbo[t], left[t])
      /\ GroupEnds(limbo[t], 2, left[t] + late[t])
  BY <1>1, <1>t, LenProperties DEF Lists, ListOf, TypeOK, LedgerOf, LateOf
<1>3. limbo[t] # <<>> /\ Len(limbo[t]) <= MaxLimbo /\ left[t] \in 1..Len(limbo[t])
  BY <1>2, EmptySeq DEF Unread, Chain
<1> DEFINE q == Tail(limbo[t])
           m == (left[t] - 1) + late[t]
<1>4. /\ q \in Seq(Element) /\ Len(q) = Len(limbo[t]) - 1 /\ Len(q) \in Nat
      /\ \A i \in 1..Len(q) : q[i] = limbo[t][i + 1]
      /\ Chain(q, fill[t], globalepoch) /\ Len(q) < MaxLimbo
  <2>1. /\ q \in Seq(Element) /\ Len(q) = Len(limbo[t]) - 1
        /\ \A i \in 1..Len(q) : q[i] = limbo[t][i + 1]
        /\ Chain(q, fill[t], globalepoch)
    BY <1>2, <1>3, ChainTail
  <2> HIDE DEF q
  <2> QED
    BY <2>1, <1>2, <1>3, BoundsAssumption
<1>5. Cardinality(CallbacksIn(q)) = owed[t] - Callback(limbo[t][1].obj)
  <2>1. {i \in 1..1 : limbo[t][i].obj = Cleanup} =
          IF limbo[t][1].obj = Cleanup THEN {1} ELSE {}
    OBVIOUS
  <2>2. Cardinality({i \in 1..1 : limbo[t][i].obj = Cleanup}) = Callback(limbo[t][1].obj)
    BY <2>1, FS_EmptySet, FS_Singleton DEF Callback
  <2>3. 1 \in 0..Len(limbo[t])
    BY <1>2, <1>3
  <2> HIDE DEF q
  <2>4. Cardinality(CallbacksIn(limbo[t])) = Cardinality(CallbacksIn(q)) +
            Cardinality({i \in 1..1 : limbo[t][i].obj = Cleanup})
    BY <2>3, <1>2, <1>4, CallbacksSuffix
  <2>5. Cardinality(CallbacksIn(q)) \in Nat
    BY <1>4, CallbacksFinite
  <2> QED
    BY <2>2, <2>4, <2>5 DEF LedgerOf, Callback
<1>6. GroupEnds(q, 1, m)
  <2>1. left[t] + late[t] \in Nat \ {0} /\ m = (left[t] + late[t]) - 1
    BY <1>t, <1>3
  <2> HIDE DEF q, m
  <2> QED
    BY <2>1, <1>2, <1>4, EndsTail
<1> HIDE DEF q
<1>7. CASE /\ limbo' = [limbo EXCEPT ![t] = q]
           /\ owed'[t] = owed[t] - Callback(limbo[t][1].obj) /\ late'[t] = late[t]
  <2>1. limbo'[t] = q
    BY <1>7, <1>t DEF TypeOK
  <2> QED
    BY <2>1, <1>1, <1>5, <1>6, <1>7 DEF LedgerOf, LateOf
<1>8. CASE /\ owed'[t] = (owed[t] - Callback(limbo[t][1].obj)) + 1
           /\ Push(t, q, Cleanup, "outer")
           /\ late'[t] = IF LaterGroups(q) = {} /\ fill'[t] # 1
                         THEN late[t] + 1 ELSE late[t]
  <2>1. /\ limbo' \in [Threads -> Seq(Element)]
        /\ Len(limbo'[t]) = Len(q) + 1
        /\ \A i \in 1..Len(q) : limbo'[t][i] = q[i]
        /\ limbo'[t][Len(q) + 1].obj = Cleanup
        /\ Chain(limbo'[t], fill'[t], globalepoch) /\ limbo'[t] # <<>>
    BY <1>8, <1>1, <1>4, <1>t, PushEffect DEF Ways
  <2>2. fill'[t] = limbo'[t][Len(q) + 1].slot
    BY <2>1 DEF Chain
  <2>3. Cardinality(CallbacksIn(limbo'[t])) = owed'[t]
    <3>1. Cardinality(CallbacksIn(limbo'[t])) = Cardinality(CallbacksIn(q)) + 1
      BY <2>1, <1>4, CallbacksAppend DEF Callback
    <3> QED
      BY <3>1, <1>5, <1>8, <1>t DEF Callback
  <2>4. GroupEnds(limbo'[t], 1, (left[t] - 1) + late'[t])
    <3>1. PICK p \in Seq(Element) : p = limbo'[t]
      BY <2>1
    <3>2. GroupEnds(p, 1, IF LaterGroups(q) = {} /\ p[Len(q) + 1].slot # 1 THEN m + 1 ELSE m)
      <4> HIDE DEF m
      <4> QED
        BY <3>1, <2>1, <1>4, <1>6, EndsAppend
    <3>3. (left[t] - 1) + late'[t] =
            IF LaterGroups(q) = {} /\ p[Len(q) + 1].slot # 1 THEN m + 1 ELSE m
      <4>1. late'[t] = IF LaterGroups(q) = {} /\ p[Len(q) + 1].slot # 1
                       THEN late[t] + 1 ELSE late[t]
        BY <3>1, <2>2, <1>8
      <4> QED
        BY <4>1, <1>t
    <3> QED
      BY <3>1, <3>2, <3>3
  <2> QED
    BY <2>3, <2>4, <1>1 DEF LedgerOf, LateOf
<1> QED
  BY <1>7, <1>8, <1>t, FreeCounts DEF q

\* Going on or ending: what is dropped is late.
LEMMA LedgerAdvance ==
  ASSUME Lists, NEW t \in Threads, LedgerOf(t), Advance(t)
  PROVE  LedgerOf(t)'
<1>t. TypeOK /\ late[t] \in Nat /\ left[t] \in Nat /\ owed[t] \in Int
  BY DEF Lists, TypeOK
<1>1. pc[t] = "freed"
  BY DEF Advance
<1>2. /\ limbo[t] \in Seq(Element) /\ Len(limbo[t]) \in Nat
      /\ Unfinished(limbo[t], left[t])
      /\ GroupEnds(limbo[t], 1, (left[t] - 1) + late[t])
      /\ owed[t] = Cardinality(CallbacksIn(limbo[t]))
  BY <1>1, <1>t, LenProperties DEF Lists, ListOf, TypeOK, LedgerOf, LateOf
<1>3. CASE /\ UNCHANGED <<limbo, owed>> /\ left[t] - 1 > 0
           /\ \/ pc'[t] \in {"idle", "active"} /\ late'[t] = 0
              \/ pc'[t] = "freeing" /\ left'[t] = left[t] - 1 /\ UNCHANGED late
  BY <1>3, <1>2 DEF LedgerOf, LateOf, GroupEnds
\* The rest of the group is as long as late says, and all of it is callbacks.
<1>4. ASSUME left[t] - 1 = 0, NEW p \in Seq(Element), limbo'[t] = p,
             Len(p) = Len(limbo[t]) - late[t],
             \A i \in 1..Len(p) : p[i] = limbo[t][i + late[t]],
             owed'[t] = owed[t] - late[t]
      PROVE  owed'[t] = Cardinality(CallbacksIn(limbo'[t]))
  <2>1. left[t] = 1 /\ (left[t] - 1) + late[t] = late[t]
    BY <1>4, <1>t
  <2>2. Cardinality(CallbacksIn(limbo[t])) = Cardinality(CallbacksIn(p)) + late[t]
    BY <2>1, <1>2, <1>4, <1>t, LateDropped
  <2>3. Cardinality(CallbacksIn(p)) \in Nat
    BY CallbacksFinite
  <2> QED
    BY <2>2, <2>3, <1>2, <1>4, <1>t
<1>5. ASSUME left[t] - 1 = 0, late'[t] = 0, owed'[t] = owed[t] - late[t],
             pc'[t] = "freeing", NEW i \in FirstOf(LaterGroups(limbo[t])),
             limbo' = [limbo EXCEPT ![t] = SubSeq(@, i, Len(@))],
             left'[t] = GroupSize(SubSeq(limbo[t], i, Len(limbo[t])))
      PROVE  LedgerOf(t)'
  <2> DEFINE p == SubSeq(limbo[t], i, Len(limbo[t]))
  <2>1. /\ i \in 1..Len(limbo[t]) /\ limbo[t][i].slot = 1
        /\ \A j \in 1..Len(limbo[t]) : limbo[t][j].slot = 1 => i <= j
    BY <1>2 DEF FirstOf, LaterGroups
  <2>2. i = late[t] + 1
    <3>1. /\ late[t] \in 0..Len(limbo[t])
          /\ \A j \in 1..late[t] : limbo[t][j].slot # 1
          /\ late[t] < Len(limbo[t]) => limbo[t][late[t] + 1].slot = 1
      <4>1. (left[t] - 1) + late[t] = late[t]
        BY <1>5, <1>t
      <4> QED
        BY <4>1, <1>2 DEF GroupEnds
    <3>2. late[t] < i
      BY <2>1, <3>1, <1>2, <1>t
    <3>3. i <= late[t] + 1
      <4>1. late[t] + 1 \in 1..Len(limbo[t]) /\ limbo[t][late[t] + 1].slot = 1
        BY <2>1, <3>1, <3>2, <1>2, <1>t
      <4> QED
        BY <2>1, <4>1
    <3> QED
      BY <2>1, <3>2, <3>3, <1>t
  <2>3. /\ p \in Seq(Element) /\ Len(p) = Len(limbo[t]) - late[t]
        /\ \A j \in 1..Len(p) : p[j] = limbo[t][j + late[t]]
    <3>1. \A j \in i..Len(limbo[t]) : limbo[t][j] \in Element
      BY <2>1, <1>2, ElementOfSeq
    <3>2. /\ p \in Seq(Element) /\ Len(p) = Len(limbo[t]) - i + 1
          /\ \A j \in 1..Len(p) : p[j] = limbo[t][i + j - 1]
      BY <3>1, <2>1, <1>2, SubSeqProperties
    <3> HIDE DEF p
    <3>3. Len(p) = Len(limbo[t]) - late[t]
      BY <3>2, <2>2, <1>2, <1>t
    <3>4. \A j \in 1..Len(p) : i + j - 1 = j + late[t]
      <4> SUFFICES ASSUME NEW j \in Int PROVE i + j - 1 = j + late[t]
        OBVIOUS
      <4> QED
        BY <2>2, <1>t
    <3> QED
      BY <3>2, <3>3, <3>4
  <2>4. limbo'[t] = p /\ left'[t] = GroupSize(p)
    BY <1>5, <1>t DEF TypeOK
  <2> HIDE DEF p
  <2>5. owed'[t] = Cardinality(CallbacksIn(limbo'[t]))
    BY <2>3, <2>4, <1>4, <1>5
  <2>6. p # <<>>
    <3>1. Len(p) > 0
      BY <2>1, <2>2, <2>3, <1>2, <1>t
    <3> QED
      BY <3>1, <2>3, EmptySeq
  <2>7. GroupEnds(p, 2, GroupSize(p)) /\ GroupSize(p) \in Nat
    BY <2>3, <2>6, GroupSizeEnds, GroupSizeRead, LenProperties DEF Unread
  <2>8. left'[t] + late'[t] = GroupSize(p)
    BY <2>4, <2>7, <1>5
  <2> QED
    BY <2>4, <2>5, <2>7, <2>8, <1>5 DEF LedgerOf, LateOf
<1>6. CASE /\ left[t] - 1 = 0 /\ late'[t] = 0 /\ owed'[t] = owed[t] - late[t]
           /\ pc'[t] \in {"idle", "active"}
           /\ LaterGroups(limbo[t]) = {}
           /\ limbo' = [limbo EXCEPT ![t] = <<>>]
  <2>1. limbo'[t] = <<>>
    BY <1>6, <1>t DEF TypeOK
  <2>2. late[t] = Len(limbo[t])
    <3>1. (left[t] - 1) + late[t] = late[t] /\ late[t] \in 0..Len(limbo[t])
      BY <1>2, <1>6, <1>t DEF GroupEnds
    <3>2. ASSUME late[t] < Len(limbo[t]) PROVE late[t] + 1 \in LaterGroups(limbo[t])
      BY <3>1, <3>2, <1>2, <1>t DEF GroupEnds, LaterGroups
    <3> QED
      BY <3>1, <3>2, <1>2, <1>6, <1>t
  <2>3. <<>> \in Seq(Element) /\ Len(<<>>) = 0
    BY EmptySeq
  <2>4. Len(<<>>) = Len(limbo[t]) - late[t]
    BY <2>2, <2>3, <1>2
  <2>5. ASSUME NEW p \in Seq(Element), p = <<>>
        PROVE  owed'[t] = Cardinality(CallbacksIn(limbo'[t]))
    <3>1. Len(p) = Len(limbo[t]) - late[t] /\ \A i \in 1..Len(p) : p[i] = limbo[t][i + late[t]]
      BY <2>3, <2>4, <2>5
    <3> QED
      BY <3>1, <2>1, <2>5, <1>4, <1>6
  <2> QED
    BY <2>3, <2>5, <1>6 DEF LedgerOf, LateOf
<1> QED
  BY <1>3, <1>5, <1>6, <1>t, AdvanceCounts

LEMMA LedgerNext == Lists /\ Ledger /\ [Next]_vars => Ledger'
<1> SUFFICES ASSUME Lists, Ledger, [Next]_vars PROVE Ledger'
  OBVIOUS
<1>t. TypeOK /\ \A t \in Threads : LedgerOf(t)
  BY DEF Lists, Ledger
<1>1. CASE UNCHANGED vars \/ Epochinc
  <2>1. UNCHANGED <<limbo, owed, late, left, pc>>
    BY <1>1 DEF vars, Epochinc, queue, quiesce
  <2> QED
    BY <2>1, <1>t, LedgerFrame DEF Ledger
<1>2. ASSUME NEW t \in Threads,
             \/ BeginStart(t) \/ EndStart(t) \/ BeginQuiesce(t) \/ UnlinkRemoved(t)
             \/ RcuStop(t) \/ RcuQuiesce(t)
             \/ \E r \in Threads : Scan(t, r)
             \/ \E o \in Objects : Acquire(t, o) \/ Link(t, o) \/ UnlinkUpdated(t, o)
      PROVE  Ledger'
  <2>1. UNCHANGED <<limbo, owed, late, left>>
    BY <1>2 DEF BeginStart, EndStart, BeginQuiesce, UnlinkRemoved, RcuStop, RcuQuiesce, Scan,
                Acquire, Link, UnlinkUpdated, EnterHardQuiesce, queue, quiesce
  <2>2. /\ \A u \in Threads \ {t} : pc'[u] = pc[u]
        /\ \/ pc'[t] = pc[t]
           \/ pc[t] \notin {"freeing", "freed"} /\ pc'[t] \notin {"freeing", "freed"}
    <3>1. CASE BeginStart(t) \/ EndStart(t) \/ BeginQuiesce(t) \/ UnlinkRemoved(t)
      BY <3>1, <1>t DEF BeginStart, EndStart, BeginQuiesce, UnlinkRemoved, Goto, TypeOK
    <3>2. CASE RcuStop(t)
      BY <3>2, <1>t DEF RcuStop, EnterHardQuiesce, Goto, TypeOK
    <3>3. CASE RcuQuiesce(t)
      BY <3>3, <1>t DEF RcuQuiesce, EnterHardQuiesce, Goto, TypeOK
    <3>4. CASE (\E r \in Threads : Scan(t, r)) \/ \E o \in Objects : Acquire(t, o) \/ Link(t, o)
      BY <3>4 DEF Scan, Acquire, Link
    <3>5. CASE \E o \in Objects : UnlinkUpdated(t, o)
      BY <3>5, <1>t DEF UnlinkUpdated, MayRetire, Goto, TypeOK
    <3> QED
      BY <1>2, <3>1, <3>2, <3>3, <3>4, <3>5
  <2> QED
    BY <2>1, <2>2, <1>t, LedgerFrame DEF Ledger
<1>3. ASSUME NEW t \in Threads,
             RecordUpdated(t) \/ RcuRegister(t) \/ \E o \in Objects : RecordRemoved(t, o)
      PROVE  Ledger'
  <2>1. /\ \E o \in Objects \cup {Cleanup}, how \in Ways : RecordRcu(t, o, how)
        /\ Len(limbo[t]) < MaxLimbo /\ globalepoch' = globalepoch /\ late' = late /\ left' = left
        /\ pc[t] \notin {"freeing", "freed"} /\ pc'[t] \notin {"unlinked", "freeing", "freed"}
        /\ \A u \in Threads \ {t} : pc'[u] = pc[u]
    <3>1. CASE RecordUpdated(t)
      BY <3>1, <1>t DEF RecordUpdated, Goto, Lists, ListOf, TypeOK, Ways, quiesce
    <3>2. CASE RcuRegister(t)
      BY <3>2, <1>t DEF RcuRegister, MayRetire, TypeOK, Ways, quiesce
    <3>3. CASE \E o \in Objects : RecordRemoved(t, o)
      BY <3>3, <1>t DEF RecordRemoved, MayRetire, Goto, TypeOK, Ways, quiesce
    <3> QED
      BY <1>3, <3>1, <3>2, <3>3
  <2>2. PICK o \in Objects \cup {Cleanup}, how \in Ways : RecordRcu(t, o, how)
    BY <2>1
  <2>3. /\ limbo' \in [Threads -> Seq(Element)]
        /\ owed'[t] = owed[t] + Callback(o)
        /\ \A u \in Threads \ {t} : limbo'[u] = limbo[u] /\ owed'[u] = owed[u]
        /\ Len(limbo'[t]) = Len(limbo[t]) + 1
        /\ \A i \in 1..Len(limbo[t]) : limbo'[t][i] = limbo[t][i]
        /\ limbo'[t][Len(limbo[t]) + 1].obj = o
    BY <2>1, <2>2, RecordEffect
  <2>4. LedgerOf(t)'
    <3>1. limbo[t] \in Seq(Element) /\ limbo'[t] \in Seq(Element)
      BY <2>3, <1>t DEF TypeOK
    <3>2. Cardinality(CallbacksIn(limbo'[t])) = Cardinality(CallbacksIn(limbo[t])) + Callback(o)
      BY <3>1, <2>3, CallbacksAppend
    <3> QED
      BY <3>2, <2>1, <2>3, <1>t DEF LedgerOf, LateOf
  <2> QED
    BY <2>1, <2>3, <2>4, <1>t, LedgerFrame DEF Ledger
<1>4. ASSUME NEW t \in Threads, EndScan(t) PROVE Ledger'
  <2>1. /\ UNCHANGED <<limbo, owed>> /\ pc[t] = "scanning" /\ late[t] = 0 /\ late[t] \in Nat
        /\ limbo[t] \in Seq(Element)
    BY <1>4, <1>t DEF EndScan, LedgerOf, LateOf, TypeOK
  <2>2. CASE \E epoch \in Nat : Return(t, epoch)
    <3>1. /\ late'[t] = 0 /\ pc'[t] \in {"idle", "active"}
          /\ \A u \in Threads \ {t} : pc'[u] = pc[u] /\ left'[u] = left[u] /\ late'[u] = late[u]
      BY <2>2, <1>t, ReturnEffect
    <3> QED
      BY <3>1, <2>1, <1>t, LedgerFrame DEF Ledger, LedgerOf, LateOf
  <2>3. CASE /\ limbo[t] # <<>>
             /\ left' = [left EXCEPT ![t] = GroupSize(limbo[t])]
             /\ Goto(t, "freeing") /\ UNCHANGED late
    <3>1. GroupEnds(limbo[t], 2, GroupSize(limbo[t])) /\ GroupSize(limbo[t]) \in Nat
      BY <2>1, <2>3, GroupSizeEnds, GroupSizeRead, LenProperties DEF Unread
    <3>2. /\ left'[t] = GroupSize(limbo[t]) /\ pc'[t] = "freeing" /\ late'[t] = 0
          /\ \A u \in Threads \ {t} : pc'[u] = pc[u] /\ left'[u] = left[u] /\ late'[u] = late[u]
      BY <2>1, <2>3, <1>t DEF Goto, TypeOK
    <3>3. left'[t] + late'[t] = GroupSize(limbo[t])
      BY <3>1, <3>2
    <3>4. LedgerOf(t)'
      BY <3>1, <3>2, <3>3, <2>1, <1>t DEF LedgerOf, LateOf
    <3> QED
      BY <3>2, <3>4, <2>1, <1>t, LedgerFrame DEF Ledger
  <2>4. limbo[t] # <<>> => limbo[t][1].epoch \in Nat
    <3> SUFFICES ASSUME limbo[t] # <<>> PROVE limbo[t][1].epoch \in Nat
      OBVIOUS
    <3>1. limbo[t][1] \in Element
      BY <2>1, EmptySeq, ElementOfSeq
    <3> QED
      BY <3>1 DEF Element
  <2> QED
    BY <1>4, <2>2, <2>3, <2>4 DEF EndScan
<1>5. ASSUME NEW t \in Threads, FreeRcu(t) PROVE Ledger'
  <2>1. /\ left' = left
        /\ \A u \in Threads \ {t} : pc'[u] = pc[u]
    BY <1>5, <1>t DEF FreeRcu, Goto, TypeOK
  <2>2. \A u \in Threads \ {t} : limbo'[u] = limbo[u]
    BY <1>5, FreeEffect
  <2>3. \A u \in Threads \ {t} : owed'[u] = owed[u] /\ late'[u] = late[u]
    BY <1>5, <1>t, FreeCounts
  <2>4. LedgerOf(t)'
    BY <1>5, <1>t, LedgerFree
  <2> QED
    BY <2>1, <2>2, <2>3, <2>4, <1>t, LedgerFrame DEF Ledger
<1>6. ASSUME NEW t \in Threads, Advance(t) PROVE Ledger'
  <2>1. \A u \in Threads \ {t} : pc'[u] = pc[u] /\ limbo'[u] = limbo[u]
    BY <1>6, AdvanceEffect
  <2>2. \A u \in Threads \ {t} : owed'[u] = owed[u] /\ late'[u] = late[u]
    BY <1>6, <1>t, AdvanceCounts
  <2>3. \A u \in Threads \ {t} : left'[u] = left[u]
    BY <1>6, <1>t DEF Advance, Return, TypeOK
  <2>4. LedgerOf(t)'
    BY <1>6, <1>t, LedgerAdvance
  <2> QED
    BY <2>1, <2>2, <2>3, <2>4, <1>t, LedgerFrame DEF Ledger
<1> QED
  BY <1>1, <1>2, <1>3, <1>4, <1>5, <1>6 DEF Next

-----------------------------------------------------------------------------
(* The theorems.                                                           *)

\* IInv holds initially and every step of every thread preserves it.
LEMMA Invariance == Spec => []IInv
<1>1. Init => IInv
  <2> SUFFICES ASSUME Init PROVE IInv
    OBVIOUS
  <2>1. \A t \in Threads : Waiting(t) = {}
    BY DEF Init, Waiting
  <2>2. Epochs /\ Scanned /\ Pinned
    BY <2>1 DEF Init, Epochs, Scanned, Pinned, InOperation, Reclaiming
  <2> QED
    BY <2>2, ListsInit, PlacesInit, LedgerInit DEF IInv
<1>2. IInv /\ [Next]_vars => IInv'
  <2> SUFFICES ASSUME IInv, [Next]_vars PROVE IInv'
    OBVIOUS
  <2>1. Lists /\ Places /\ Gone /\ Epochs /\ Scanned /\ Pinned /\ Ledger
    BY DEF IInv, Places
  <2> QED
    BY <2>1, ListsNext, PlacesNext, EpochsNext, ScannedNext, PinnedNext, LedgerNext DEF IInv
<1> QED
  BY <1>1, <1>2, PTL DEF Spec

\* The variables keep their types: no counter of the reclamation runs negative
\* and no list is read beyond its end, however the threads interleave.
THEOREM TypeCorrect == Spec => []TypeOK
<1>1. IInv => TypeOK
  BY DEF IInv, Lists
<1> QED
  BY <1>1, Invariance, PTL

\* A row that an update unlinked before record_rcu stamped it is never older than
\* the epoch of an operation that found it, so rcu_start pins what is read.
THEOREM UpdatedRowsArePinned == Spec => []Pinned
<1>1. IInv => Pinned
  BY DEF IInv
<1> QED
  BY <1>1, Invariance, PTL

\* When the scan of hard_rcu_quiesce over allthreads is complete, no thread
\* holds an updated row older than its minimum, although the threads were asked
\* one by one and start and stop meanwhile.
THEOREM ScanFindsHolders == Spec => []OldElementsUnheld
<1>1. IInv => OldElementsUnheld
  BY DEF IInv, Scanned, OldElementsUnheld, Reclaiming
<1> QED
  BY <1>1, Invariance, PTL

\* Occurrences counts the places in the limbo lists where a row waits.
LEMMA CountedOnce ==
  ASSUME Lists, Once, NEW o \in Objects
  PROVE  /\ (\A t \in Threads : \A i \in Index(t) : limbo[t][i].obj # o)
              => Cardinality(Occurrences(o)) = 0
         /\ (\E t \in Threads : \E i \in Index(t) : limbo[t][i].obj = o)
              => Cardinality(Occurrences(o)) = 1
<1>1. \A t \in Threads : Len(limbo[t]) \in Nat /\ Len(limbo[t]) <= MaxLimbo
  BY WaitingTypes DEF Lists, ListOf, Chain
<1>2. Occurrences(o) = {at \in Threads \X (1..MaxLimbo) :
                          at[2] \in Index(at[1]) /\ limbo[at[1]][at[2]].obj = o}
  BY <1>1, BoundsAssumption DEF Occurrences, Index
<1>3. ASSUME \A t \in Threads : \A i \in Index(t) : limbo[t][i].obj # o
      PROVE  Cardinality(Occurrences(o)) = 0
  <2>1. Occurrences(o) = {}
    BY <1>2, <1>3
  <2> QED
    BY <2>1, FS_EmptySet
<1>4. ASSUME NEW t \in Threads, NEW i \in Index(t), limbo[t][i].obj = o
      PROVE  Cardinality(Occurrences(o)) = 1
  <2>1. <<t, i>> \in Threads \X (1..MaxLimbo)
    BY <1>1, BoundsAssumption DEF Index
  <2>2. Occurrences(o) = {<<t, i>>}
    BY <1>2, <1>4, <2>1 DEF Once
  <2> QED
    BY <2>2, FS_Singleton
<1> QED
  BY <1>3, <1>4

\* No row is freed twice or lost, and no callback is lost but those that another
\* callback has appended to the group that hard_rcu_quiesce was freeing when the
\* loop left it; each list stays in order while it is freed and appended to,
\* only full groups have a successor, and limbo_epoch_ is the age of the oldest
\* element.
THEOREM LimboStaysIntact == Spec => []LimboIntact
<1>1. ASSUME IInv PROVE EachRowInOnePlace
  <2>1. Lists /\ Apart /\ Leaving /\ Gone /\ Once /\ NoneLost
    BY <1>1 DEF IInv, Places
  <2> SUFFICES ASSUME NEW o \in Objects
               PROVE  LET waiting == Cardinality(Occurrences(o))
                          leaving == {t \in Threads : retiring[t] = o}
                      IN  \/ o \in pool /\ o \notin linked /\ waiting = 0 /\ leaving = {}
                          \/ o \in linked /\ o \notin pool /\ waiting = 0 /\ leaving = {}
                          \/ /\ o \notin linked /\ o \notin pool /\ waiting = 0
                             /\ \E t \in Threads : leaving = {t} /\ pc[t] = "unlinked"
                          \/ /\ o \in linked /\ o \notin pool /\ waiting = 1
                             /\ \E t \in Threads : leaving = {t} /\ pc[t] = "recorded"
                          \/ o \notin linked /\ o \notin pool /\ waiting = 1 /\ leaving = {}
    BY DEF EachRowInOnePlace
  <2> DEFINE waiting == Cardinality(Occurrences(o))
             leaving == {t \in Threads : retiring[t] = o}
             Waits == \E t \in Threads : \E i \in Index(t) : limbo[t][i].obj = o
  <2>2. (~Waits => waiting = 0) /\ (Waits => waiting = 1)
    BY <2>1, CountedOnce
  <2>3. \A t \in Threads : retiring[t] = o => leaving = {t}
    BY <2>1 DEF Leaving
  <2>4. CASE \E t \in Threads : retiring[t] = o
    <3>1. PICK t \in Threads : retiring[t] = o
      BY <2>4
    <3>2. CASE pc[t] = "unlinked"
      <4>1. ~Waits /\ o \notin linked /\ o \notin pool
        BY <3>1, <3>2, <2>1 DEF Leaving, Gone
      <4> QED
        BY <4>1, <3>1, <3>2, <2>2, <2>3
    <3>3. CASE pc[t] = "recorded"
      <4>1. Waits /\ o \in linked /\ o \notin pool
        BY <3>1, <3>3, <2>1 DEF Leaving, Gone, Apart
      <4> QED
        BY <4>1, <3>1, <3>3, <2>2, <2>3
    <3> QED
      BY <3>1, <3>2, <3>3, <2>1 DEF Leaving
  <2>5. CASE ~\E t \in Threads : retiring[t] = o
    <3>1. leaving = {}
      BY <2>5
    <3>2. Waits => o \notin linked /\ o \notin pool
      BY <2>1, <2>5 DEF Gone
    <3>3. ~Waits => o \in linked \/ o \in pool
      BY <2>1, <2>5 DEF NoneLost
    <3>4. ~(o \in linked /\ o \in pool)
      BY <2>1 DEF Apart
    <3> QED
      BY <3>1, <3>2, <3>3, <3>4, <2>2
  <2> QED
    BY <2>4, <2>5
<1>2. ASSUME IInv, NEW t \in Threads
      PROVE  /\ owed[t] = Cardinality(Callbacks(t))
             /\ \A i \in 2..Len(limbo[t]) :
                  /\ limbo[t][i - 1].epoch <= limbo[t][i].epoch
                  /\ IF limbo[t][i].slot = 1 THEN limbo[t][i - 1].slot = Capacity
                                            ELSE limbo[t][i].slot = limbo[t][i - 1].slot + 1
             /\ ~stuck[t] /\ pc[t] \notin {"freeing", "freed"}
                  => limboEpoch[t] = IF limbo[t] = <<>> THEN 0 ELSE limbo[t][1].epoch
  <2>1. ListOf(t) /\ Len(limbo[t]) \in Nat
    BY <1>2, WaitingTypes DEF IInv, Lists
  <2>2. ASSUME NEW i \in 2..Len(limbo[t]) PROVE Follows(limbo[t][i - 1], limbo[t][i])
    <3>1. i - 1 \in 1..(Len(limbo[t]) - 1) /\ (i - 1) + 1 = i
      BY <2>1
    <3> QED
      BY <3>1, <2>1 DEF ListOf, Chain
  <2>3. owed[t] = Cardinality(Callbacks(t))
    BY <1>2 DEF IInv, Ledger, LedgerOf, Callbacks, CallbacksIn
  <2> QED
    BY <2>1, <2>2, <2>3 DEF Follows, ListOf, Oldest
<1>3. IInv => LimboIntact
  BY <1>1, <1>2 DEF LimboIntact, IInv, Lists
<1> QED
  BY <1>3, Invariance, PTL
=============================================================================
