-------------------------------- MODULE Rcu --------------------------------
(***************************************************************************)
(* Epoch-based reclamation, class threadinfo of src/hybrid_index/          *)
(* kvthread.hh and kvthread.cc.  A thread brackets an operation with        *)
(* rcu_start and rcu_stop; memory it takes out of the tree goes to its      *)
(* limbo list with the current epoch, and hard_rcu_quiesce frees it later. *)
(* Threads interleave at every access to globalepoch, to another thread's   *)
(* gc_epoch_ and to the tree.                                              *)
(*                                                                         *)
(* The limbo list is a chain of groups of Capacity slots.  It is modelled   *)
(* as the sequence of its waiting elements, each with its slot: an element  *)
(* in slot 1 opens a group.                                                *)
(***************************************************************************)
EXTENDS Integers, Sequences, FiniteSets

CONSTANTS
  Threads,    \* the threads of allthreads
  Writers,    \* those that change the tree; the others only read it
  Objects,    \* rows that can be in the tree
  Paths,      \* how rows leave the tree: a subset of {"update", "remove"}
  Capacity,   \* limbo_group::capacity
  Cleanup,    \* a gc_layer callback in the limbo list
  MaxEpoch,   \* a bound of the model on globalepoch
  MaxLimbo    \* a bound of the model on a limbo list

ASSUME WritersAssumption == Writers \subseteq Threads
ASSUME CapacityAssumption == Capacity \in Nat \ {0}
ASSUME CleanupAssumption == Cleanup \notin Objects
ASSUME BoundsAssumption == MaxEpoch \in Nat /\ MaxLimbo \in Nat
ASSUME PathsAssumption == Paths \subseteq {"update", "remove"}

VARIABLES
  globalepoch,
  gcEpoch,      \* gc_epoch_ of each thread, 0 outside an operation
  limboEpoch,   \* limbo_epoch_
  limbo,        \* the waiting elements
  fill,         \* tail_ of the last group
  spare,        \* emptied groups chained behind the last one
  stuck,        \* limbo_head_ points to a used-up group that is never left
  linked,       \* rows reachable in the tree
  pool,         \* rows freed or never used
  held,         \* rows each thread found in the tree during this operation
  pc, loaded,   \* where the thread is, and the epoch it has read
  retiring,     \* the row that is between the tree and the limbo list
  scan, minEpoch, left, passed, goal,  \* locals of hard_rcu_quiesce
  late,         \* history: callbacks appended to the group while it is freed
  owed          \* history: callbacks registered, not run, and not left as late

queue == <<limboEpoch, limbo, fill, spare, stuck, owed>>
tree == <<linked, pool>>
quiesce == <<scan, minEpoch, left, passed, goal, late>>
vars == <<globalepoch, gcEpoch, queue, tree, held, pc, loaded, retiring, quiesce>>

\* How an element came to the list: a row by an update or a remove, or the
\* callback that collects an empty layer, an inner or an outer one.
Ways == {"update", "remove", "inner", "outer"}
Element == [obj : Objects \cup {Cleanup}, how : Ways, epoch : Nat, slot : Nat]
Waiting(t) == {limbo[t][i] : i \in 1..Len(limbo[t])}

Init ==
  /\ globalepoch = 1
  /\ gcEpoch = [t \in Threads |-> 0]
  /\ limboEpoch = [t \in Threads |-> 0]
  /\ limbo = [t \in Threads |-> <<>>]
  /\ fill = [t \in Threads |-> 0]
  /\ spare = [t \in Threads |-> 0]
  /\ stuck = [t \in Threads |-> FALSE]
  /\ linked = {} /\ pool = Objects
  /\ held = [t \in Threads |-> {}]
  /\ pc = [t \in Threads |-> "idle"]
  /\ loaded = [t \in Threads |-> 0]
  /\ retiring = [t \in Threads |-> Cleanup]
  /\ scan = [t \in Threads |-> {}]
  /\ minEpoch = [t \in Threads |-> 0]
  /\ left = [t \in Threads |-> 0]
  /\ passed = [t \in Threads |-> 0]
  /\ goal = [t \in Threads |-> "stop"]
  /\ late = [t \in Threads |-> 0]
  /\ owed = [t \in Threads |-> 0]

Goto(t, label) == pc' = [pc EXCEPT ![t] = label]

\* The alarm of every second.
Epochinc ==
  /\ globalepoch + 2 <= MaxEpoch
  /\ globalepoch' = globalepoch + 2
  /\ UNCHANGED <<gcEpoch, queue, tree, held, pc, loaded, retiring, quiesce>>

-----------------------------------------------------------------------------
(* An operation and its use of the tree.                                   *)

\* rcu_start reads globalepoch and then publishes it: another thread may look
\* in between.
BeginStart(t) ==
  /\ pc[t] = "idle"
  /\ loaded' = [loaded EXCEPT ![t] = globalepoch]
  /\ Goto(t, "starting")
  /\ UNCHANGED <<globalepoch, gcEpoch, queue, tree, held, retiring, quiesce>>

EndStart(t) ==
  /\ pc[t] = "starting"
  /\ gcEpoch' = [gcEpoch EXCEPT ![t] = loaded[t]]
  /\ loaded' = [loaded EXCEPT ![t] = 0]
  /\ Goto(t, "active")
  /\ UNCHANGED <<globalepoch, queue, tree, held, retiring, quiesce>>

\* A lookup finds a row and keeps using it until the operation ends.
Acquire(t, o) ==
  /\ pc[t] = "active"
  /\ o \in linked
  /\ held' = [held EXCEPT ![t] = @ \cup {o}]
  /\ UNCHANGED <<globalepoch, gcEpoch, queue, tree, pc, loaded, retiring, quiesce>>

\* A row is allocated and put into the tree.
Link(t, o) ==
  /\ t \in Writers /\ pc[t] = "active"
  /\ o \in pool
  /\ pool' = pool \ {o}
  /\ linked' = linked \cup {o}
  /\ UNCHANGED <<globalepoch, gcEpoch, queue, held, pc, loaded, retiring, quiesce>>

FaultyPush(t, q, o, how) ==
  /\ limbo' = [limbo EXCEPT ![t] =
       Append(q, [obj |-> o, how |-> how, epoch |-> gcEpoch[t], slot |-> (fill[t] % Capacity) + 1])]
  /\ fill' = [fill EXCEPT ![t] = (@ % Capacity) + 1]
  /\ UNCHANGED <<spare, stuck>>

\* refill_rcu and push_back on the list q of thread t.  A full last group is
\* followed by a spare one or a new one, except that a single empty group
\* without successor starts over; when it has a successor, limbo_head_ stays on
\* the empty group for good.
Push(t, q, o, how) ==
  LET full == fill[t] = Capacity
      slot == IF full THEN 1 ELSE fill[t] + 1
      element == [obj |-> o, how |-> how, epoch |-> globalepoch, slot |-> slot]
      exhausted == full /\ limbo[t] = <<>> /\ spare[t] > 0
  IN  /\ limbo' = [limbo EXCEPT ![t] = Append(q, element)]
      /\ fill' = [fill EXCEPT ![t] = slot]
      /\ spare' = [spare EXCEPT ![t] = IF full /\ @ > 0 THEN @ - 1 ELSE @]
      /\ stuck' = [stuck EXCEPT ![t] = @ \/ exhausted]

\* What the element counts for in owed.
Callback(o) == IF o = Cleanup THEN 1 ELSE 0

FaultyRecordRcu(t, o, how) ==
  /\ Push(t, limbo[t], o, how)
  /\ owed' = [owed EXCEPT ![t] = @ + Callback(o)]
  /\ limboEpoch' = [limboEpoch EXCEPT ![t] = globalepoch]

\* record_rcu, from deallocate_rcu or rcu_register.
RecordRcu(t, o, how) ==
  /\ Push(t, limbo[t], o, how)
  /\ owed' = [owed EXCEPT ![t] = @ + Callback(o)]
  /\ limboEpoch' = [limboEpoch EXCEPT ![t] = IF @ = 0 THEN globalepoch ELSE @]

MayRetire(t) == t \in Writers /\ pc[t] = "active" /\ Len(limbo[t]) < MaxLimbo

\* The leaf lock keeps two threads from retiring the same row.
Retirable(o) == o \in linked /\ \A t \in Threads : retiring[t] # o

\* apply_put replaces the row in the leaf and then retires the old one.
UnlinkUpdated(t, o) ==
  /\ "update" \in Paths
  /\ MayRetire(t)
  /\ Retirable(o)
  /\ linked' = linked \ {o}
  /\ retiring' = [retiring EXCEPT ![t] = o]
  /\ Goto(t, "unlinked")
  /\ UNCHANGED <<globalepoch, gcEpoch, queue, pool, held, loaded, quiesce>>

RecordUpdated(t) ==
  /\ pc[t] = "unlinked"
  /\ RecordRcu(t, retiring[t], "update")
  /\ retiring' = [retiring EXCEPT ![t] = Cleanup]
  /\ Goto(t, "active")
  /\ UNCHANGED <<globalepoch, gcEpoch, tree, held, loaded, quiesce>>

\* apply_remove retires the row while it is still in the leaf; finish_remove
\* takes it out of the permutation afterwards.
RecordRemoved(t, o) ==
  /\ "remove" \in Paths
  /\ MayRetire(t)
  /\ Retirable(o)
  /\ RecordRcu(t, o, "remove")
  /\ retiring' = [retiring EXCEPT ![t] = o]
  /\ Goto(t, "recorded")
  /\ UNCHANGED <<globalepoch, gcEpoch, tree, held, loaded, quiesce>>

UnlinkRemoved(t) ==
  /\ pc[t] = "recorded"
  /\ linked' = linked \ {retiring[t]}
  /\ retiring' = [retiring EXCEPT ![t] = Cleanup]
  /\ Goto(t, "active")
  /\ UNCHANGED <<globalepoch, gcEpoch, queue, pool, held, loaded, quiesce>>

\* gc_layer_rcu_callback::make, when a remove empties a layer.
RcuRegister(t) ==
  /\ "remove" \in Paths
  /\ MayRetire(t)
  /\ \E how \in {"inner", "outer"} : RecordRcu(t, Cleanup, how)
  /\ UNCHANGED <<globalepoch, gcEpoch, tree, held, pc, loaded, retiring, quiesce>>

-----------------------------------------------------------------------------
(* The end of an operation and the reclamation.                            *)

\* limbo_epoch_ && (epoch - limbo_epoch_) > slack, in unsigned arithmetic: a
\* limbo_epoch_ ahead of the operation's epoch also passes the test.
Overdue(t, epoch, slack) ==
  /\ limboEpoch[t] # 0
  /\ epoch - limboEpoch[t] > slack \/ epoch < limboEpoch[t]

\* hard_rcu_quiesce begins with its own epoch as the minimum.
EnterHardQuiesce(t, epoch, to) ==
  /\ scan' = [scan EXCEPT ![t] = Threads]
  /\ minEpoch' = [minEpoch EXCEPT ![t] = epoch]
  /\ goal' = [goal EXCEPT ![t] = to]
  /\ Goto(t, "scanning")
  /\ UNCHANGED <<left, passed, late>>

RcuStop(t) ==
  /\ pc[t] = "active"
  /\ held' = [held EXCEPT ![t] = {}]
  /\ IF Overdue(t, gcEpoch[t], 1)
     THEN EnterHardQuiesce(t, gcEpoch[t], "stop") /\ UNCHANGED gcEpoch
     ELSE /\ gcEpoch' = [gcEpoch EXCEPT ![t] = 0]
          /\ Goto(t, "idle")
          /\ UNCHANGED quiesce
  /\ UNCHANGED <<globalepoch, queue, tree, loaded, retiring>>

\* rcu_quiesce re-reads the epoch without leaving the protected section.
BeginQuiesce(t) ==
  /\ pc[t] = "active"
  /\ held' = [held EXCEPT ![t] = {}]
  /\ loaded' = [loaded EXCEPT ![t] = globalepoch]
  /\ Goto(t, "restarting")
  /\ UNCHANGED <<globalepoch, gcEpoch, queue, tree, retiring, quiesce>>

RcuQuiesce(t) ==
  /\ pc[t] = "restarting"
  /\ gcEpoch' = [gcEpoch EXCEPT ![t] = loaded[t]]
  /\ IF Overdue(t, loaded[t], 2)
     THEN EnterHardQuiesce(t, loaded[t], "quiesce")
     ELSE Goto(t, "active") /\ UNCHANGED quiesce
  /\ loaded' = [loaded EXCEPT ![t] = 0]
  /\ UNCHANGED <<globalepoch, queue, tree, held, retiring>>

FaultyScan(t, r) ==
  /\ pc[t] = "scanning"
  /\ r \in scan[t]
  /\ scan' = [scan EXCEPT ![t] = {}]
  /\ UNCHANGED <<globalepoch, gcEpoch, queue, tree, held, pc, loaded, retiring,
                 minEpoch, left, passed, goal, late>>

\* One iteration of the loop over allthreads.
Scan(t, r) ==
  /\ pc[t] = "scanning"
  /\ r \in scan[t]
  /\ scan' = [scan EXCEPT ![t] = @ \ {r}]
  /\ minEpoch' = [minEpoch EXCEPT ![t] =
                    IF gcEpoch[r] # 0 /\ gcEpoch[r] < @ THEN gcEpoch[r] ELSE @]
  /\ UNCHANGED <<globalepoch, gcEpoch, queue, tree, held, pc, loaded, retiring,
                 left, passed, goal, late>>

FaultyGroupSize(q) ==
  Cardinality({i \in 2..Len(q) : \A j \in 2..i : q[j].slot # 1})

\* The waiting elements of the group that q starts with.
GroupSize(q) == Cardinality({i \in 1..Len(q) : \A j \in 2..i : q[j].slot # 1})

LaterGroups(q) == {i \in 1..Len(q) : q[i].slot = 1}

FirstOf(indices) == {i \in indices : \A j \in indices : i <= j}

\* Leave hard_rcu_quiesce, whose locals die, and finish the call that entered
\* it.
Return(t, epoch) ==
  /\ limboEpoch' = [limboEpoch EXCEPT ![t] = epoch]
  /\ gcEpoch' = [gcEpoch EXCEPT ![t] = IF goal[t] = "stop" THEN 0 ELSE @]
  /\ minEpoch' = [minEpoch EXCEPT ![t] = 0]
  /\ left' = [left EXCEPT ![t] = 0]
  /\ passed' = [passed EXCEPT ![t] = 0]
  /\ goal' = [goal EXCEPT ![t] = "stop"]
  /\ late' = [late EXCEPT ![t] = 0]
  /\ Goto(t, IF goal[t] = "stop" THEN "idle" ELSE "active")

\* The test before the freeing loop.
EndScan(t) ==
  /\ pc[t] = "scanning"
  /\ scan[t] = {}
  /\ IF limbo[t] = <<>> \/ stuck[t]
     THEN Return(t, 0)
     ELSE IF limbo[t][1].epoch < minEpoch[t]
     THEN /\ left' = [left EXCEPT ![t] = GroupSize(limbo[t])]
          /\ Goto(t, "freeing")
          /\ UNCHANGED <<limboEpoch, gcEpoch, minEpoch, passed, goal, late>>
     ELSE Return(t, limbo[t][1].epoch)
  /\ UNCHANGED <<globalepoch, limbo, fill, spare, stuck, owed, tree, held,
                 loaded, retiring, scan>>

\* free_rcu of the oldest element.  The callback of an inner layer may empty the
\* layer above and register a callback for it, which lands behind the end that
\* the loop has already read.  It is late when it lands in the group that is
\* being freed.  (Two layers bound these chains in the model.)
FreeRcu(t) ==
  LET freed == limbo[t][1]
      freeingLastGroup == LaterGroups(Tail(limbo[t])) = {}
  IN  /\ pc[t] = "freeing"
      /\ pool' = pool \cup ({freed.obj} \ {Cleanup})
      /\ \/ /\ limbo' = [limbo EXCEPT ![t] = Tail(@)]
            /\ owed' = [owed EXCEPT ![t] = @ - Callback(freed.obj)]
            /\ UNCHANGED <<fill, spare, stuck, late>>
         \/ /\ freed.how = "inner"
            /\ Push(t, Tail(limbo[t]), Cleanup, "outer")
            /\ late' = [late EXCEPT ![t] =
                          IF freeingLastGroup /\ fill'[t] # 1 THEN @ + 1 ELSE @]
            /\ owed' = [owed EXCEPT ![t] = (@ - Callback(freed.obj)) + Callback(Cleanup)]
      /\ Goto(t, "freed")
      /\ UNCHANGED <<globalepoch, gcEpoch, limboEpoch, linked, held, loaded,
                     retiring, scan, minEpoch, left, passed, goal>>

\* The tail of the freeing loop.  It ends at the end of the last group, goes on
\* into the next group without a test, and between two elements of a group it
\* ends when the next one is older than minEpoch and goes on when it is not.
\* When it leaves a group, lg->head_ is set as if everything up to lg->tail_ had
\* been freed, but the loop has only gone to the end it read before: what late
\* callbacks have appended to the group is dropped and never runs.
Advance(t) ==
  LET rest == limbo[t]
      unread == left[t] - 1
  IN  /\ pc[t] = "freed"
      /\ \/ /\ unread > 0 /\ rest[1].epoch < minEpoch[t]
            /\ Return(t, rest[1].epoch)
            /\ spare' = [spare EXCEPT ![t] = @ + passed[t]]
            /\ UNCHANGED <<limbo, owed>>
         \/ /\ unread > 0 /\ rest[1].epoch >= minEpoch[t]
            /\ left' = [left EXCEPT ![t] = unread]
            /\ Goto(t, "freeing")
            /\ UNCHANGED <<limbo, owed, limboEpoch, gcEpoch, spare, minEpoch,
                           passed, goal, late>>
         \/ /\ unread = 0
            /\ \E i \in FirstOf(LaterGroups(rest)) :
                 /\ limbo' = [limbo EXCEPT ![t] = SubSeq(@, i, Len(@))]
                 /\ left' = [left EXCEPT ![t] = GroupSize(SubSeq(rest, i, Len(rest)))]
            /\ owed' = [owed EXCEPT ![t] = @ - late[t]]
            /\ late' = [late EXCEPT ![t] = 0]
            /\ passed' = [passed EXCEPT ![t] = @ + 1]
            /\ Goto(t, "freeing")
            /\ UNCHANGED <<limboEpoch, gcEpoch, spare, minEpoch, goal>>
         \/ /\ unread = 0 /\ LaterGroups(rest) = {}
            /\ limbo' = [limbo EXCEPT ![t] = <<>>]
            /\ owed' = [owed EXCEPT ![t] = @ - late[t]]
            /\ Return(t, 0)
            /\ spare' = [spare EXCEPT ![t] = @ + passed[t]]
      /\ UNCHANGED <<globalepoch, fill, stuck, tree, held, loaded, retiring, scan>>

Next ==
  \/ Epochinc
  \/ \E t \in Threads :
       \/ BeginStart(t) \/ EndStart(t)
       \/ RecordUpdated(t) \/ UnlinkRemoved(t) \/ RcuRegister(t)
       \/ RcuStop(t) \/ BeginQuiesce(t) \/ RcuQuiesce(t)
       \/ EndScan(t) \/ FreeRcu(t) \/ Advance(t)
       \/ \E o \in Objects : Acquire(t, o) \/ Link(t, o)
                             \/ UnlinkUpdated(t, o) \/ RecordRemoved(t, o)
       \/ \E r \in Threads : Scan(t, r)

Spec == Init /\ [][Next]_vars

-----------------------------------------------------------------------------
(* Properties.                                                             *)

Labels == {"idle", "starting", "active", "unlinked", "recorded", "restarting",
           "scanning", "freeing", "freed"}

\* The type of every variable.
TypeOK ==
  /\ globalepoch \in Nat
  /\ gcEpoch \in [Threads -> Nat] /\ limboEpoch \in [Threads -> Nat]
  /\ limbo \in [Threads -> Seq(Element)]
  /\ fill \in [Threads -> 0..Capacity] /\ spare \in [Threads -> Nat]
  /\ stuck \in [Threads -> BOOLEAN]
  /\ linked \subseteq Objects /\ pool \subseteq Objects
  /\ held \in [Threads -> SUBSET Objects]
  /\ pc \in [Threads -> Labels] /\ loaded \in [Threads -> Nat]
  /\ retiring \in [Threads -> Objects \cup {Cleanup}]
  /\ scan \in [Threads -> SUBSET Threads] /\ minEpoch \in [Threads -> Nat]
  /\ left \in [Threads -> Nat] /\ passed \in [Threads -> Nat]
  /\ goal \in [Threads -> {"stop", "quiesce"}]
  /\ late \in [Threads -> Nat] /\ owed \in [Threads -> Int]

\* A row that was unlinked before it was recorded is pinned by every operation
\* that found it: the row is not older than the operation's epoch.
Pinned ==
  \A t, r \in Threads : \A e \in Waiting(t) :
    e.how = "update" /\ e.obj \in held[r] => 0 < gcEpoch[r] /\ gcEpoch[r] <= e.epoch

\* When the scan of hard_rcu_quiesce is over, no thread holds an updated row
\* older than the minimum it found, although threads start and stop during the
\* scan and are asked for their epochs one by one.
OldElementsUnheld ==
  \A t, r \in Threads : \A e \in Waiting(t) :
    /\ pc[t] \in {"scanning", "freeing", "freed"}
    /\ scan[t] = {}
    /\ e.how = "update" /\ e.epoch < minEpoch[t]
    => e.obj \notin held[r]

\* A row is in one place: allocatable, in the tree, on its way out of it, or
\* waiting once in one limbo list.  Only a row being removed is both waiting and
\* in the tree.  So nothing is freed twice and no row is lost.
Occurrences(o) == {at \in Threads \X (1..MaxLimbo) :
                     LET t == at[1] i == at[2]
                     IN  i <= Len(limbo[t]) /\ limbo[t][i].obj = o}

EachRowInOnePlace ==
  \A o \in Objects :
    LET waiting == Cardinality(Occurrences(o))
        leaving == {t \in Threads : retiring[t] = o}
    IN  \/ o \in pool /\ o \notin linked /\ waiting = 0 /\ leaving = {}
        \/ o \in linked /\ o \notin pool /\ waiting = 0 /\ leaving = {}
        \/ /\ o \notin linked /\ o \notin pool /\ waiting = 0
           /\ \E t \in Threads : leaving = {t} /\ pc[t] = "unlinked"
        \/ /\ o \in linked /\ o \notin pool /\ waiting = 1
           /\ \E t \in Threads : leaving = {t} /\ pc[t] = "recorded"
        \/ o \notin linked /\ o \notin pool /\ waiting = 1 /\ leaving = {}

\* The callbacks that wait in a list.
Callbacks(t) == {i \in 1..Len(limbo[t]) : limbo[t][i].obj = Cleanup}

\* No row is freed twice or lost.  Of the callbacks, those are lost that another
\* callback appends to the group that the loop is freeing, if the loop then
\* leaves that group, and no others: the rest waits in the list until it runs,
\* once.  The list stays in order while it is being freed and appended to:
\* epochs never decrease along it; only full groups have a successor
\* (assert(lg->tail_ == lg->capacity && lg->next_) in the freeing loop); and
\* limbo_epoch_ is the age of the oldest waiting element, so that the quick test
\* of rcu_stop never overlooks garbage.  The last part fails for a list whose
\* head group is used up, which is never reclaimed again.
LimboIntact ==
  TypeOK /\ EachRowInOnePlace /\ \A t \in Threads :
    /\ owed[t] = Cardinality(Callbacks(t))
    /\ \A i \in 2..Len(limbo[t]) :
         /\ limbo[t][i - 1].epoch <= limbo[t][i].epoch
         /\ IF limbo[t][i].slot = 1 THEN limbo[t][i - 1].slot = Capacity
                                   ELSE limbo[t][i].slot = limbo[t][i - 1].slot + 1
    /\ ~stuck[t] /\ pc[t] \notin {"freeing", "freed"}
       => limboEpoch[t] = IF limbo[t] = <<>> THEN 0 ELSE limbo[t][1].epoch
=============================================================================
