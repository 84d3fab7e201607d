# A verification project for microbench's hybrid index and its Masstree

The repository benchmarks index structures. The program it carries itself is in
`src/hybrid_index`: Masstree, a concurrent trie of B+ trees with epoch-based
reclamation, the `mtd` server with its logs and checkpoints, and `mt_index`
(`mtIndexAPI.hh`), the *hybrid index*: a small dynamic Masstree in front of a
compact read-optimised static trie into which it is merged now and then. Next
to it the drivers measure `stx::btree` (`src/stx/btree.h`). The modules here
model these programs; `PROJECT.json` maps each definition to the lines it stands
for.

## Inventory

| component | state | operations | hard behaviour | what makes it correct | modelled in |
|---|---|---|---|---|---|
| unique-key hybrid index (`mtIndexAPI.hh`) | two stages, counters `ic` and `sic` | `put_uv`, `put`, `get`, `exist`, `update_uv`, `remove`, `merge`, `reset` | counters gate every lookup and size the merge; insertions merge; the same key in both stages | it answers as one map, merges are invisible, and which uses keep them defined | `HybridIndex`, `IndexMap` |
| secondary hybrid index (same file) | lists per key in two stages, `ic`, `sic` | `put_nuv`, `get_nuv`, `exist_nuv`, `remove_nuv`, `replace`, `replace_first`, `merge` | type 1: a merge of equal keys fails and is ignored; type 0: a removal inserts, and may merge; hand-corrected counters | one list or bag per key; counters exact | `HybridMulti`, `PackedMulti`, `IndexMultiMap`, `IndexBags` |
| static trie (`masstree_get.hh`, `masstree_struct.hh`) | arrays of slices, suffixes, rows or packed values, layers; a queue of merge tasks | build from a Masstree, merge, find, invalidate | tasks that name their parent by address; layers made by the merge; tombstones | the merged trie finds the union | `TrieEntries`, `StaticTrie`, `PackedTrie` |
| ordered scans (`mtIndexAPI.hh`, `masstree_tcursor.hh`) | a cursor in each stage | `get_ordered`, `get_next`, `get_upper_bound`, `get_first`, `advance` | insertions and merges between two calls; a path of nodes kept across calls | every live key once, in order, whichever stage it is in | `OrderedScan`, `StageBounds` |
| Masstree (`masstree_*.hh`, `nodeversion.hh`, `kpermuter.hh`, `btree_leaflink.hh`) | leaves with versions, permutations and links; internodes | find, insert, split, remove, scan | readers without locks; splits and removals in many steps | a reader sees what was there; the list and the internode agree, but for one race | `MasstreeLeaves`, `MasstreeScan` |
| reclamation (`kvthread.hh/.cc`) | `globalepoch`, `gc_epoch_`, limbo groups | `rcu_start`, `rcu_stop`, `rcu_quiesce`, `record_rcu`, `hard_rcu_quiesce` | epochs read while others start and stop; callbacks that append | no row is freed while held, twice, or lost; which callbacks are lost | `Rcu` |
| logging (`log.hh/.cc`, `kvrow.hh`) | epochs, two buffers, lock, spinning writers | `record`, logger `run`, `check_epoch` | stalls, quiescence, wake-up, flush without the lock | flushed and quiescent epochs tell the truth | `LogEpochs` |
| recovery (`log.cc`, `mtd.cc`) | log files, replay limit | `info`, wake analysis, `replay`, truncation, restart | crashes, also during recovery | what is replayed has no hole | `LogEpochs`, `Checkpoint` |
| checkpoints (`mtd.cc`, `checkpoint.*`) | generation, uncommitted checkpoint, files | scan, prepare, commit, recover | a scan of a changing tree; commit against flushing; crash between the steps | checkpoint and logs together bring back a consistent past, where the logs were waited for | `Checkpoint` |
| time stamps and replay of rows (`kvrow.hh`, `kvthread.hh`, `log.cc`) | `ts_` of threads and rows, `node_ts_`, markers | `run_put`, `run_replace`, `run_remove`, `logrecord::apply` | one key's changes in several logs, replayed in any order | each row comes back as it was | `RowReplay` (and `node_ts_` in `MasstreeLeaves`) |
| STX B+ tree (`stx/btree.h`) | nodes, leaf chain, statistics | insert, erase variants, `bulk_load`, iterators, copy, dump, restore | separators several levels up after a long run of calls | `verify()` holds; lookups agree with the content | `BPlusTree` |
| server, row layouts, utilities, drivers | | | | | not modelled, see the end |

How they interact: a benchmark or client calls `mt_index`, which owns two
tables and two `threadinfo` objects. Masstree operations hand retired memory to
`threadinfo::record_rcu`; `mtd` brackets each batch of requests with
`rcu_start` and `rcu_stop`. `query::apply_put` and its siblings change a leaf
under its lock and call `loginfo::record` under the log's lock. The
checkpointer scans the tree and asks the logs for `flushed_epoch()` and
`quiescent()`. Recovery reads the checkpoint and the files, replays the logs
into the tree and seeds `global_log_epoch`.

## Modules

**`IndexMap`, `IndexMultiMap`, `IndexBags`** are the promises: a map, a map of
lists with the newest value first, and a map of bags, each with the last call
and its reply. Stages and counters do not appear in them. `IndexBags` has one
visible effect of the merges: a key whose values lie in both stages, which an
insertion of type 0 causes, is reported as absent until a merge joins them.

**`HybridIndex`** has `dynamic`, `static`, `ic` and `sic` as in the code. A
member function is one action, because one thread uses an `mt_index` (its
default table is not concurrent): the insertion with the merge it triggers is
one step. `client` names the way the caller uses the index, and `shortKeys`
selects between `buildStatic_quick` and `buildStatic`. `MergeDefined` says when a
merge is certain to be defined. With short keys `ic` must be exact and the stages
disjoint: `buildStatic_quick` believes `ic` and leaves slots uninitialised when it
is too large, and two nodes without suffix arrays compare equal keys through those
arrays. With long keys there must be no tombstone in the static stage and no key in
both: `masstree_get.hh:3423` may then retarget another node's task, as the run
`trie_merge` shows. Whether it does depends on the slices of the keys, which are
not modelled here, so the merge is free to be defined or not. After a merge that
is not, `static` is anything, `intact` is FALSE and nothing is followed any more.
A defined merge is the union of the stages (`Unions`), in which a long key that
is in both may keep its older value. Keys have 8 bytes, or none is a prefix of
another, as in the drivers.

**`HybridMulti`** is the same class with `multivalue_`, for both values of
`SECONDARY_INDEX_TYPE`. In type 1, which the source ships with, a merge that
meets a key in both stages gives up ("same key!"), its result is ignored, and
the dynamic stage is destroyed. In type 0 a merge joins the two lists, newer
values first, but for a key that is an item of the static stage below a layer of
the dynamic one: there the older list comes first (`JoinedLists`). A removal
from the static stage makes a tombstone and puts the other values into the
dynamic stage, which may merge (`PackedRemove`).

**`PackedMulti`** adds what a call of type 0 does to the nodes. `layers` are
those of the dynamic stage, `packed` the nodes of the static one, as
**`PackedTrie`** has them: entries in order and one area of values, with the
position and the length of each list. The merge runs through entries and areas
from front to back and never looks at the positions, so that every step must
leave the areas without a gap; tombstones keep their values until a merge
passes them.

**`TrieEntries`** has entries, searches, the layers of the dynamic stage and the
tasks, which all merges have in common.

**`StaticTrie`** opens the static stage. A key is a sequence of slices of eight
bytes, a trie a function from the address of a node to its entries; an entry
ends its key, has a suffix, leads to a layer, or is a tombstone. The task queue
of `stcursor_merge` is explicit: each task is an action, and the result of a
task goes where the task says its parent is. `secondary` selects the copy for
the secondary index, which differs in one test. The row of a key is the key
itself, so that a slot with a wrong row is seen.

**`OrderedScan`** extends it with the two cursors. That of the dynamic stage is
a key from which Masstree is asked again; that of the static stage is the path
of nodes and positions of `stcursor_scan`, which looks one entry ahead. A change
of the stage that is not being scanned commutes with the calls of the scan and
is left until the scan is closed. The secondary index of type 1 has a copy of
the scan that meets removed entries; `secondary` selects it.

**`StageBounds`** adds the calls that place a scan on a key that need not be
there and move it through both stages: `get_upper_bound_or_equal`,
`get_upper_bound`, `get_first` and `advance`. They set the cursor of the static
stage up again in every call, so that each is an operator on the stages and two
keys.

**`MasstreeLeaves`** is one layer below one internode, at the grain of single
accesses to shared memory: `stable()`, the permuter, each probe of the binary
search, the value, `has_changed`, `advance_to_key`; `lock`, the steps of an
insertion, of a split with its links, and of the removal of an empty leaf.
`reg` has the locals of each thread. Keys have the 8 bytes of a layer. The
internode has room for all leaves. A freed leaf keeps its contents and is not
reused; `stale` notes that a thread had a pointer to one. `twins` notes two
equal separators, which a race leads to (item 15 below). `node_ts_` is abstracted to the set of keys whose removals it
is later than.

**`MasstreeScan`** adds sessions in which one thread scans, forward or in reverse, while the
others call: `find_initial`, `find_next`, `find_retry`, and the helpers, among
them the hop of a reverse scan over a leaf that has split. The first key is
always emitted and the visitor never stops, as the callers in the source have
it.

**`Rcu`** has one action per access to shared memory: `rcu_start` is a read of
`globalepoch` and a write of `gc_epoch_`; `hard_rcu_quiesce` scans the threads
one at a time, in any order, and frees one element per two steps (`FreeRcu`,
`Advance`). The chain of limbo groups is the sequence of waiting elements, each
with its slot; `spare` and `stuck` stand for empty groups behind and at its
head. Rows leave the tree by an update (unlink, then record) or a remove
(record, then unlink); a callback of an emptied inner layer may append one for
the outer layer while the list is being freed. `late` counts those that landed in
the group being freed, and `owed` is the ledger of the callbacks that have been
registered, have not run and were not dropped as late: histories, for
`LimboIntact`.

**`LogEpochs`** has the logs, the request threads, the logger threads, the
files, crashes and recovery. A request locks its log and reads the epoch
(`ReadEpoch`), changes the tree (`ChangeTree`) and records the change, in three
steps between which the clock and the other logs go on. A change is its number in
the order in which the tree took it; it has the epoch of its record and the one it
was made in, and `Late` is where they differ. The flush is a
step of its own, without the lock. A crash keeps any prefix of what is being
written and, on restart, evaluates `rec_replay_max_epoch`; the uninitialised
flag of an empty log is either value. Logs are replayed and cut one by one, and
a second crash may fall between them.

**`Checkpoint`** extends it with the checkpointer: the epoch before the scan,
rows visited one by one while writers go on, the file of each checkpoint thread
(absent, not yet synced, complete), the two-phase commit against the flushed
epochs, the deletion of the old generation, and recovery with its assertions
(`ChecksPass`; when one fails the server does not start). A checkpoint may begin
at any moment from the start on, because a client can ask for one and the interval
is free. A row is the set of the changes to its key; requests are those of
`LogEpochs` with the leaf of their row locked.

**`RowReplay`** is the data side of recovery. What is under a key is a chain of
delta markers and at most one row; the value of a row is the sequence of the
changes in it. Writers have clocks that are never advanced except by need
(`update_timestamp`), so that two changes of different keys may have one time
stamp; a removed key comes back with a later one only by `node_ts_`. Which
changes a crash leaves is the matter of the two modules above; here it is any
prefix. `Replay` takes the next record of any log: replay threads interleave.

**`BPlusTree`** has every call that changes an `stx::btree`, as one action of
a sequential client; the recursive descent, splits, merges, shifts and the
upward repair of separators are operators on the tree. A slot holds its key
only (data travels with it in every copy). Nodes are renumbered after each call
in the order a descent meets them. `RECURSIVE` operators keep it, and
`OrderedScan`, to TLC.

**Proof modules.** `HybridIndexProofs`, `HybridMultiProofs`, `RcuProofs` and
`RowReplayProofs` each extend the module they are about. `CheckpointProofs`
has the theorems about `LogEpochs` and, built on their lemmas, those about
`Checkpoint`. `MasstreeSteps` has the inductive invariant of `MasstreeLeaves` and
`MasstreeScan` and the effect of each of their steps, `MasstreeProofs` the
theorems. `CountingTheorems` has facts about natural numbers that they share.
See *Proofs*.

Definitions named `Faulty...`, or with a comment "A defect" or "Mutant", that no
action uses are plausible slips of the definition after them. They confirm that
a property notices such a slip.

## Runs

| run | instance | what it shows |
|---|---|---|
| `index_refines` | 3 keys, 2 values, threshold 2, ratio 1, every client with short and with long keys | stages disjoint for clients that check; which uses never get to an undefined merge; until there is one, every reply is that of `IndexMap` |
| `multi` | 3 keys of up to three slices, 2 values, at most 4 stored, both types, both clients | exact counters; one list per key for a careful client, one bag per key in type 0; packed nodes hold every list |
| `scan` | 4 keys for each of the two copies, in up to three layers, threshold 3, ratio 2 | every row is found after every merge; dynamic scans are complete; the static cursor looks at the right entry; bounds and `advance` see one ordered map |
| `trie_merge` | the primary index with all 5 keys | counterexample: a merge loses a layer |
| `rcu` | 1 writer, 1 reader, 2 rows, groups of 3, 2 ticks of the epoch | pinning, the scan, each row in one place, which callbacks are lost, the order of the limbo list |
| `leaf` | leaves of width 3, up to 4 of them, 4 initial trees for each kind of session; 2 threads with 2 or 3 calls of 6 kinds; or a scan forward or in reverse, and 1 or 2 calls | answers, bounds, the quiet tree, `node_ts_`, termination of every call; scans emit what was there, in order, and all that stayed |
| `log` | 2 logs, 2 changes, epochs up to 3, 2 crashes | what flushed and quiescent epochs promise; what recovery brings back, late changes apart |
| `log_empty` | 3 logs, 2 changes, 1 crash | counterexample: the record of an empty log switches the wake analysis off |
| `log_shared` | 1 log, 2 writers, 3 changes, full buffers, fairness | recorded once; nobody waits for ever; answered changes reach the disk |
| `checkpoint` | 2 logs, 2 keys, 2 changes, 2 generations, epochs up to 5, 2 crashes | from a new database with a checkpoint in its first epoch, and from an idle one: a committed checkpoint covers what the logs are not asked for, and waits for the logs that count; recoveries agree |
| `replay` | 2 writers, 2 keys, 4 changes, 1 checkpoint, 2 crashes | time stamps follow the changes; replay in any order restores rows and time stamps; no delta marker is left |
| `btree` | 4 instances of the template, see below | `verify()` after every call; lookups, bounds, iterators, copies and images agree with the content |

**Bounds of the indexes.** `CounterLimit` and `ValueLimit` stop the counters
after the second or third merge; a threshold of 2 makes a merge happen with one
entry left over and with several, and stages interact through at most one key
at a time, so two or three keys (one moved, one touched, one bystander) are
enough. The keys of `scan` and `trie_merge` are three under one slice, two of
them one layer deeper, and two under another: merges add entries to nodes, make
layers of one key and of two, and meet tombstones. The keys are prefix-free. In
`scan` each copy of the index has four of them, the primary one without a second
layer beside the first, the secondary one with it but with a layer of one entry
above the deepest: a merge with all five goes to the wrong parent in the primary
index soon enough, which is `trie_merge`. Those of
`multi` part in the second and in the third slice, so that its merges join two
layers, add an item to a layer, make a chain of layers, join equal suffixes and
equal ends, and pass tombstones that still hold values. All three are used with
one value, where the lengths of lists matter, and the two that part last with
two values, where their order does.

**Bounds of the leaves.** A width of 3 is the smallest that has a slot 0 kept
for the bound, a slot to take and one to exchange. The four initial trees are
a full leaf, a leaf with one entry, and a full leaf with a second behind it
that has lost its bound and is about to be reused, or to be removed. Three
calls are two that interfere and one that prepares, and let one leaf split
while its neighbour is removed, and also the race of item 15, which the tree of one
full leaf needs all three for; the third component of a load says for how many
of them it stands, because the tree it leaves behind needs no preparation. The runs end when the calls are used up, so
`CHECK_DEADLOCK` is off; that no call hangs is `EveryCallReturns`.

The instances are small enough to be checked in two minutes each. Larger ones hold
too: `scan` with all five keys in the primary index (1.9 million states), `leaf`
with three calls on every tree (1.1 million), and `multi` with two values for
either pair of keys.

**Bounds of reclamation, logs and checkpoints.** The first epoch is 1 and each
tick adds 2, so `MaxEpoch = 5` gives an operation, the garbage it meets and the
reclaimer three different epochs; `MaxLimbo = 3` with groups of 3 fills a
group, opens a second, and leaves room behind the last element of a group while it
is freed, where a late callback lands. Two logs with one change each
and three epochs contain a log that sleeps, one that wakes it, and an epoch
beyond both. `Checkpoint` starts from a new database, in which nothing has been
flushed, or from one that has been idle since its first epoch and has a committed
checkpoint, so that the next one interacts with it. From the new one
(`NewDatabase`) the first checkpoint is begun in the first epoch, so that it may
be committed before the logs count, with one crash in epoch 1 or 2; from the idle
one there are two crashes in any phase (`FewCrashes`, which does not follow what
happens after the last recovery). `FewChanges` follows the last epoch, which a
checkpoint that takes its first epoch too late needs to go wrong, with one
change only.

In `replay` four changes make one key change three times on two
clocks, with a removal in the middle, beside a second key; the checkpoint may
see each key at a different time, and the two crashes let a recovery replay
what an earlier one has replayed.

**Bounds of the B+ tree.** Maps with leaves of 4 and inner nodes of 2 slots and
up to 12 keys, and with leaves of 6 and up to 10 keys, in every set of keys
that calls can reach; multimaps of two keys with every pair of multiplicities
up to 12 items; and maps of 26 keys with inner nodes of 6 slots, in which the
three keys at each end come and go. The trees are three levels deep, so each of
the five cases of neighbours and parents of an underfull node happens on both
levels.

Only constants are set in the configurations. Rows and, where no order among
them matters, threads, keys and values are symmetric; the runs with liveness
use no symmetry. `trie_merge` does not check for deadlock because the model
stops once a task has strayed to a wrong parent; logs, checkpoints and `replay`
because the system may really stop (all changes made, no crash left, or a
recovery aborted).

**Fairness.** In `log_shared`: a thread in `record()`, a logger thread, a
replaying thread and the main thread of recovery continue when they can (they
are POSIX threads that are never suspended for ever), and a waiting writer
retries when the buffer is empty. In the sessions of `leaf` without a
scan: a thread inside a call takes further steps; a thread spinning for a lock or a stable version moves only when
the lock or the version allows. No fairness is assumed for crashes, the clock,
or the arrival of changes and calls. The number of changes is bounded, which
hides one starvation the code permits: newcomers that keep overtaking a waiting
writer.

## What does not hold

Two runs are counterexamples:

`trie_merge`: in `add_item_to_node` of the primary index a node that has moved
gives its new address to the task pushed last, also if it has pushed none
(`masstree_get.hh:3423`; the copy for the secondary index tests for that at
`:5905`). A merge that skips a tombstone while a layer of another slice is
pending then hangs that layer under the wrong parent and loses its keys. An equal
key makes a node move in the same way. In `HybridIndex`, which has no slices, each
merge of long keys with a tombstone in the static stage or a key in both may
therefore go wrong. So removals from the static stage are not safe with long keys:
`MergesStayDefined` promises nothing after the first of them, and
`CountersCoverStages`, `MergeKeepsView` and `MapSpec` nothing after a merge that
went wrong.

`log_empty`: a replay thread fills in the record of its log only if the file is
not empty (`log.cc:839`), and the records are not initialised (`mtd.cc:1377`).
With an empty log among three, its record may say that it is quiescent, the fold
over the last epochs of the quiescent logs ends with 0, and the test at
`mtd.cc:1428` stores that 0, which means that no wake was missed: recovery
replays beyond a wake that a quiescent log has missed. With two logs the
property holds, because a log that has missed a wake and one that has it are
already two; with three logs and initialised flags it holds too (4.6 million
states). For the same reason `RecoveredStaysRecovered` and `CkpRecoveredStays`
are about two logs: with an empty third one a later recovery may stop earlier.

A merge of long keys that are in both stages can also be defined and bring back an
older value: where the static entry is an item that is added to a layer of the
dynamic stage, it overwrites the newer one there. `MergeKeepsView` excepts that, and
`MapSetups` leaves out clients that overwrite long keys without looking.

The models contain the following behaviours too. The properties of the passing
runs say what the code does promise next to them, and name their exceptions.

1. **Recovery aborts at a logged removal.** `logrecord::run` makes the four
   bytes of a remove marker the value (`log.cc:493-497`) and `apply` hands
   every value that is neither a replacement nor a waiting modification to
   `parse_changeset` (`log.cc:554`): the first byte, 1, is read as a column,
   the second, 0, is not the head of a string, and the assertion at
   `msgpack.cc:221` fails (`config.h` enables assertions). Shortest case: put a
   key, remove it, crash, recover. `Abort` of `RowReplay` is this step; a
   removal that is out of date when its turn comes is skipped.
2. `hard_rcu_quiesce` frees elements a reader may hold: the test inside the
   freeing loop (`kvthread.cc:180`) has the opposite sense of the one that
   enters it (`:164`). Two updating threads suffice. `doc/spec.tex:923-925`
   asks that readers have completed.
3. `apply_remove` stamps the row before `finish_remove` unlinks it
   (`kvrow.hh:386`); a thread that starts in the epoch between is not
   protected. `Pinned` and `OldElementsUnheld` are therefore about updated rows
   and the minimum found by the scan.
4. A logger that copies `global_wake_epoch` (`log.cc:245`) keeps `record()`
   from writing the wake record that `log.hh:83-84` asks for; after a crash
   recovery keeps later changes of this log and loses earlier answered ones of
   the log that woke. `CompleteLogsReplayConsistently` is about logs whose
   silence hides no change.
5. A record that fits overtakes a waiting writer (`log.cc:300-301`), against
   `log.hh:79-80`; the flushed epoch then runs ahead of the waiting change.
   `LoggedIsDurable` is checked where buffers do not fill.
6. In a second recovery an epoch record kept by the first (`log.cc:712`) can be
   taken for the end of the log; and with logs cut by an earlier recovery the
   assertions at `mtd.cc:1453-1455` can refuse to start the server.
7. The time stamp a removed leaf leaves behind can be lost: a split of the leaf
   before it copies `node_ts_` (`masstree_split.hh:185`) and links the new
   leaf after the remover has checked `prev == leaf->prev_`
   (`masstree_remove.hh:185`), and a removal stores `node_ts_` with a plain
   store (`kvrow.hh:390`) over a concurrent exchange. A key that comes back may
   get a time stamp before its removal. `RemovalsAreRemembered` holds when the
   leaf before was not locked meanwhile (`overlap`).
8. `remove_leaf` frees the leaf at once although the comment at
   `masstree_remove.hh:172` says RCU. `stale` excepts what follows from that.
9. The last value of a static key is taken off `sic` twice
   (`mtIndexAPI.hh:1999` and `:1919`), so `put_nuv1` skips a static stage that
   is not empty and the key gets entries in both, against the comment at `:451`.
   `CarefulStagesDisjoint` is about clients that keep the last value.
10. `get_next` on the static stage returns the first row every time: `cur_lv_`
    is set by `find_next1` and never by `find_next2` (`masstree_get.hh:1727`).
    Removing the start row between `get_ordered` and `get_next` leaves `cur_lv_`
    of an earlier scan. A scan over layers or tombstones can end early or read
    the node of an emptied layer as a row; `next_key_prefix_` is popped while
    empty. `StaticCursorAdvances` is about the key the cursor has reached, in
    tries with neither.
    `get_ordered` of a secondary index leaves the path of the static cursor from
    the scan before, whose nodes a merge may have freed.
11. `find_upper_bound` passes an entry with the slice of the key, whatever its
    suffix; `next_item` follows `next_lv_`, which only `get_next` sets
    (`masstree_get.hh:1424`); `find_leftmost` takes the first entry of a layer,
    valid or not; `find_next` loses the slices of a layer that it leaves;
    `advance` of the primary index gives up when both cursors are open
    (`mtIndexAPI.hh:1617`); and `dynamic_get_upper_bound` returns true if nothing
    lies beyond. `BothStagesAreOrdered` names these cases.
12. A merge frees the nodes of an open scan of the static stage; a caller must
    not let one happen. The model's caller does not.
13. `restore` accepts an image that is cut short below the root and leaves null
    children (`btree.h:3976`). The index `left->childid[left->slotuse-1]` of two
    branches (`btree.h:2812`, `:3114`) names a cousin that is not adjacent; it
    is only compared with another node and changes no outcome.
14. `run_get1` ignores markers (the test is commented out, `kvrow.hh:192`) and
    `run_remove` reports a marker as found. An empty key is logged but not
    replayed (`log.cc:727`). Markers stay in a tree only where removals replay,
    see 1.

15. **A removed leaf can stay in the internode instead of a live one.**
    `remove_leaf` unlinks the leaf from the list (`masstree_remove.hh:190`) before
    it locks the parent (`:204`). In between, a thread that has reached the leaf
    before, from the time when the removed leaf had not been split off it, may find
    no leaf to walk to on its right, insert its key there, and split it: the new leaf
    has the bound of the removed one. The internode then has two equal separators,
    `upper()` (`:208`) finds the later one, and the entry of the new leaf is dropped
    while that of the removed, freed leaf stays; lookups beyond the separator come
    to it again and again. `leaf` runs through this (a full leaf, and `put 8`,
    `remove 8` and `put 8`). `QuietTopIsConsistent` excepts it (`twins`); the list of
    leaves and the bounds are sound also then. `EveryCallReturns` promises nothing
    to a thread at a freed leaf.
16. **The program uses the tables of one thread with many.** `nodeparams` has
    `concurrent = false` (`masstree.hh:31`) and every table of the repository takes
    it from there (`query_masstree.hh:87`), also those of `mtd` and `mttest`, whose
    threads share a tree: their nodes have no locks and no versions. The `leaf` run
    and the theorems of `MasstreeProofs` are about the same templates with
    `concurrent = true`. What they say does not hold of `mtd` and `mttest` as they
    are built, and they say nothing about the index that one thread uses.
17. **A late callback is dropped.** `hard_rcu_quiesce` reads the end of a group
    before it frees the elements (`kvthread.cc:162`, `:179`). A callback of an
    emptied inner layer may append one for the outer layer to that very group
    (`kvthread.hh:562`); when the loop leaves the group, `head_` becomes `tail_`
    (`kvthread.cc:172`) or both become 0 (`:176`), the new callback never runs, and
    the outer layer is never collected. `LimboIntact` says that these are the only
    callbacks lost.
18. **A change can be recorded in an epoch before the one it was made in**: the
    epoch is read before the tree is changed (`kvrow.hh:231` and `:237`, `:250`,
    `:326`). If the epoch moves on in between, another log's request may change the
    tree in the new epoch before it, and be answered. A recovery up to the new epoch
    then keeps the late change and loses the answered one.
    `CompleteLogsReplayConsistently`, `CheckpointCoversOlder`,
    `RestoredConsistently` and `CkpRecoveredStays` except changes that are `Late`.
19. **A checkpoint can be committed although its changes are not logged.** A client
    may ask for a checkpoint at once (`mtd.cc:955-959`), or the interval may be short
    (`:631`). While no log has flushed anything since the start, `max_flushed_epoch`
    is 0 and the checkpoint is committed (`:1632`); and the fold in it starts over
    at a log that has flushed nothing (`:1589`), so that this log and those before it
    are not waited for. The comment at `:1385` says that all logs are flushed past
    the checkpoint first. A crash then loses answered changes that were made before
    others which the checkpoint brings back. `CommitsOnlyLogged` is about the logs
    that count (`Counted`), and `RestoredConsistently` about recoveries in which the
    logs that end quiescent or are empty miss nothing that the checkpoint leaves to
    them.

## Proofs

All theorems are checked by TLAPS for every value of the constants: any set of
keys, values, threads, logs or rows, any capacity and any bound. They use the
assumptions named in the modules (`...Assumption`: finite sets of keys and
threads where entries are counted, natural bounds, the log a writer belongs to) and,
where it says so below, one about how the buffers are used. None of the
invariants that the runs check is inductive by itself; each module states the
inductive invariant it needs, in named layers. The last column is the run on which
TLC has checked the property itself.

| module | theorem | property | checked on |
|---|---|---|---|
| `HybridIndexProofs` | `TypeCorrect`, `CountersCover`, `Disjointness`, `MergesDefined` | `TypeOK`, `CountersCoverStages`, `StagesDisjoint`, `MergesStayDefined` | `index_refines` |
| | `MergesInvisible` | the action property `MergeKeepsView` | `index_refines`, 643,803 states |
| | `Refinement` | `MapSpec`: `HybridIndex` implements `IndexMap` until a merge is undefined | the same |
| `HybridMultiProofs` | `CountersAreExact` | `CountersExact` | `multi`, 112,205 states |
| | `Implements` | `MultiMapSpec`: `HybridMulti` implements `IndexMultiMap` for careful clients, `IndexBags` in type 0 | |
| `RcuProofs` | `TypeCorrect`, `UpdatedRowsArePinned`, `ScanFindsHolders`, `LimboStaysIntact` | types, `Pinned`, `OldElementsUnheld`, `LimboIntact` | `rcu`, 2,475,367 states |
| `CheckpointProofs`, about `LogEpochs` | `TypeCorrect`, `EachRecordedOnce` | types, `RecordedOnce` | `log_shared`, 55,784 states |
| | `FlushedStaysDurable`, `EpochsNeverGoBack` (buffers that do not fill) | `LoggedIsDurable`, the action property `LogEpochsIncrease` | `log`, 1,682,471 states |
| | `FirstRecoveryIsConsistent` (buffers that do not fill) | `CompleteLogsReplayConsistently` | `log`, 1,682,471 states |
| the same, about `Checkpoint` | `CheckpointCovers`, `CommitsLogged`, `RecoversConsistently` | `CheckpointCoversOlder`, the action property `CommitsOnlyLogged`, `RestoredConsistently` | `checkpoint`, 2,000,274 states |
| `RowReplayProofs` | `TypeCorrect`, `StampsAlwaysFollow`, `ReplayAlwaysRestores`, `DeltasAlwaysRecycled` | types, `StampsFollowChanges`, `ReplayRestores`, `DeltasAreRecycled` | `replay`, 1,378,585 states |
| `MasstreeProofs` | `Invariant`, `TypeCorrect`, `LocksExclude`, `LeavesAreSorted`, `SeparatorsAreBounds`, `RemovalIsSafe` (concurrent nodes) | parts of `TreeIsConsistent`, below | `leaf`, 625,830 states |

**`HybridIndexProofs`.** `IInv` is `TypeOK` with `Covered` (each counter is at
least the number of entries of its stage: removals may then subtract one, and a
counter of zero means an empty stage), `StagesDisjoint` (a checking client's
stages share no key: the check looks in both stages, which is sound only by
`Covered`), `Exact` (an inserting client's `ic` equals the number of entries,
which is what `buildStatic_quick` needs) and `MergesStayDefined`; `Covered` is
about the time before a merge is undefined. `Stored...`
lemmas say how a write changes the number of entries, one lemma per operation
shows that it preserves `IInv`, and `GatesAreHarmless` turns the counter tests
of the lookups into tests of the stages; the refinement then maps each step that
leaves the index intact to the operation of `IndexMap` of the same name.

**`HybridMultiProofs`.** `CountersExact` is inductive with the fact that only type 1
has careful clients and with the bound `ValueLimit` on the values of both stages
together, which no merge may exceed. Its parts need each other: a merge keeps
`sic` exact because the merge works, which it does in type 1 because no key is in
both stages, which holds because insertion looks a key up in both, which it does
because a counter of zero means an empty stage. `Count` sums over the keys;
`SumAdd`, `SumPut` and `SumLeq` say what a change of one list does to that sum,
and `CountOutcomes` that even a merge that gives up halfway leaves no more values
than there were, so that the bound survives it. For
`Implements` each call is mapped to the abstract call of the same name. With a
careful client of type 1 a key's list is that of the one stage that has it
(`Single`), and a call changes exactly it. In type 0 the two lists of a key are
taken as bags: `SplitAt` finds the first occurrence of a value, and `BagJoined`,
`BagSplit` and `BagSwap` give the bags of a list joined with another, without that
value, and with another in its place. A removal from the static stage, which puts
the rest of the list into the dynamic one and may merge, thus takes one value from
the bag and no other (`BagRemove`). The theorem is about `Spec` of `HybridMulti`;
the run checks the same properties on `PackedSpec`, each step of which is a step
of `HybridMulti` together with what it does to the nodes.

**`RcuProofs`.** `Lists`: each limbo list is a chain whose epochs do not fall and
whose slots follow the groups, and in the freeing loop the rest of the group
being freed is followed only by callbacks, which is why the loop may go on while
its callbacks append. `Places`: a row is in the tree, or allocatable, or at one
place of one list, or with the thread that has unlinked it. `Epochs`: no thread
is ahead of the clock, and only threads in an operation hold rows. `Scanned`:
a thread that the scan has passed holds nothing that the minimum found so far
would free; it stays so because a row unlinked later is newer than what that
thread can have pinned. `Ledger`: the callbacks owed are those in the list, and
those that have landed in the group being freed (`late`) are what is left of it
behind the end the loop has read, so that leaving the group drops these and no
others.

**`CheckpointProofs`, the logs.** `IInv` holds with buffers that fill and through any number
of crashes: file, buffer in flight and buffer of a log share no change and
together have what was recorded (`Contents`), a writer that is not idle has a
change of its own (`Recording`), and recovery has read what it keeps
(`Recovering`). `OInv` adds that a writer keeps the lock of its log from the
reading of the epoch to its record (`Holding`), and how the epochs of the file, of
the flush and of the log relate to the changes in each (`EpochsInOrder`). It, and
what rests on it, needs `BufferFills = FALSE`: a record that overtakes a waiting
one breaks it, see item 5 above.

**`CheckpointProofs`, the first recovery.** Until the first crash each log, file and buffers together, is
`Sound`: the epoch in force at a change record is the epoch the change was made
in, epochs do not fall, and an epoch record comes first. Changes are numbered in
the order of the epochs in which they were made, and those are not before the epochs
they are recorded with (`Chronological`), nor beyond the present one (`Timely`). A crash keeps a prefix; the analysis
of the prefixes gives a limit that no log that can speak for itself ends before
(`ToRead`), and a log that has been replayed keeps exactly what was made before
the limit (`WasRead`). The theorem is about the first recovery, as the property
is: a later one may find epochs that go back (item 6).

**`CheckpointProofs`, checkpoints.** There `LInv` has the part of the above that survives
recoveries: logs tell the true epochs of their changes (`Told`), although these may go
back. A writer that is not idle holds its log in the epoch it has read (`Busy`), and
every change has a key (`Keyed`). `KInv` is about the checkpointer: rows of a part of the scan that is done
have every change older than `min_epoch` and none younger than the end of the
scan (`Scanning`), recovery leaves what it brought back behind the new epoch
(`Past`), and the committed checkpoint has what the logs are not asked for
(`Committed`; of the logs `CommitsLogged` needs only those that count). The two
theorems that rest on these hold through any number of
checkpoints, crashes and recoveries. `FInv` adds the soundness of the logs up to
the first recovery, for `RecoversConsistently`. The buffers of this module never
fill, so no hypothesis is needed. Changes made after the epoch of their record
(`Late`) are excepted as in the properties.

**`RowReplayProofs`.** Each record tells what its change did (`Tells`): the version
before it, the version after it, and the time stamps of both; the time stamps of
one key grow by more than one from record to record, so that the odd stamp of a
delta marker fits between them (`Logged`). The tree has the last version of each
key, and a leaf remembers the stamps of removed keys (`Current`). During replay a
chain is the row of some change `n` behind markers, and every replayed record of
the key is either no later than `n` or among the markers (`Sound`), and no marker
stands directly before the row it waits for (`Settled`). At the end all records
are replayed, so the first marker that is not settled would have to wait for a
version that is there: no marker is left, and `n` is the last change. `Counted`
counts the markers of all keys with the cardinality of a set of places.

**`MasstreeSteps` and `MasstreeProofs`.** The hypothesis is `Concurrent`: nodes
with versions and locks, which several threads need, and which the parameters in the
repository turn off (item 16); the width of a leaf is any number from 3 on. `Inv` has six layers. `Base`: types; each pointer that a
thread follows leads to a leaf (`Pointers`); what the place of a thread says of
its call (`Control`); a lock bit is set exactly while one thread is at a place
that holds the lock, and only lock holders leave a version dirty (`Locking`,
`TopLocking`); a leaf without an internode above it is the only one or the new
half of a split (`Parents`); and the position found under the lock is still one
of the permutation when the entry goes in or out (`Placing`). `Deletion`: a leaf
that is marked is empty, and no two threads remove it. `Ordered`: the entries of
each leaf ascend from its bound. `Fits`: the key of a thread that inserts belongs
between the entries around its position, and slot 0 is written only where that
does no harm to `ikey_bound()`. It is what `Ordered` needs at `finish_insert`, and
why `insert_from_back` may exchange a free slot 0. `Internode`: separators
ascend, each is the bound of its child, and an injection leads from the leaves to
their separators. `Routing`: a descent ends at a leaf that does not lie behind its
key, or notices at the version of the internode. `Routing` is why `Fits` holds
when a lock is taken, and `Fits` why a new bound lies where its separator goes.
`MasstreeSteps` describes each step by what it writes and shows that `Base` is
kept; `MasstreeProofs` does the other layers, the trees at the start, and the
theorems.

`LeavesAreSorted` is stronger than the lower half of `KeysStayInBounds`: it does
not except `stale`, so that even a thread that goes on at a freed leaf puts no
key below a bound. `SeparatorsAreBounds` allows equal separators (`twins`), and so
also what item 15 says.
Not proved, and left to TLC: that keys stay below the bound of the next leaf,
for which the links of several leaves, some half removed, have to be followed at
once; the agreement of list and internode when no call runs; and the results of
calls and scans.

Induction over numbers is done with `LeastNatural` of `CountingTheorems`, which
follows from the well-foundedness of finite subsets: a property that fails
somewhere fails first at some number. The library's induction theorems, which
take an operator as a parameter, are beyond the installed provers.

Only model-checked: `RecoveredStaysRecovered` and `CkpRecoveredStays`, which hold
for two logs and not for three; `PackedMulti`, `StaticTrie`,
`OrderedScan`, `StageBounds` and `BPlusTree`; of `MasstreeLeaves` and
`MasstreeScan` what is said above; and liveness under fairness. `BPlusTree`, `StaticTrie`, `PackedTrie`,
`OrderedScan` and `StageBounds` follow trees of any depth with `RECURSIVE`
operators, which the provers do not take, and what a recursion computes needs an
induction over data they do not do.

## Not modelled

- `replace_first` of a secondary index of type 0 on a key of the static stage:
  it reads packed nodes as if they were of type 1, and what that does is
  undefined. Two keys one of which is a prefix of the other in a secondary index:
  `key_compare` forgets the lengths (`masstree_key.hh:262`, `:271`).
- Long keys with a zero byte, behind which the merges, with `strncmp`, do not
  compare suffixes (`masstree_get.hh:4023`).
- In `get_upper_bound_or_equal` and `get_upper_bound`, the early returns on
  `ic == 0` and `sic == 0` (`mtIndexAPI.hh:950`, `:965`), which leave `cur_keylen_`
  and `static_cur_keylen_` as an earlier call has set them, for the next `advance`.
- The bloom filter (compiled out); `get_next` after `get_upper_bound` in one
  stage; the scan of a secondary index of type 0, whose `setup_cursor` keeps the
  path of the scan before. The byte layout of static nodes.
- Internodes that split or collapse, layers under concurrency, and the reuse of
  leaf memory. Version counters that wrap within one read.
- The pool allocator, the creation of threads while others run, the wrap-around
  of 64-bit epochs and time stamps.
- The byte formats of records, rows and checkpoint files, corrupt records,
  `run_append` (it is not logged), a restart with another number of checkpoint
  threads.
- Comparison operators, `swap` and printing of `stx::btree`, and its `map` and
  `set` wrappers, which forward.
- Request parsing and sockets of `mtd` and its client, strings, JSON,
  MessagePack and command-line parsing (sequential, with unit tests of their
  own), the benchmark drivers (their ways of calling the index are the clients),
  the missing skip list submodule, and generated build files.
