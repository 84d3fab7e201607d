----------------------------- MODULE LogEpochs -----------------------------
(***************************************************************************)
(* The logs of the mtd server and their replay after a crash: loginfo and   *)
(* logreplay of src/hybrid_index/log.cc, the epochs of log.hh, and recover  *)
(* of mtd.cc without a checkpoint.  Each log has a buffer, a spin lock and  *)
(* a logger thread that writes and fsyncs the buffer; request threads apply *)
(* a change to the tree and then record it in their log.  Epochs, and the   *)
(* quiesce and wake commands, tell recovery how far the logs agree.         *)
(*                                                                         *)
(* Only the order of the changes matters here: a change is its number.      *)
(* Epochs are far from the wrap-around of their 64 bits.                    *)
(***************************************************************************)
EXTENDS Integers, Sequences, FiniteSets
LOCAL INSTANCE SequencesExt
LOCAL INSTANCE FiniteSetsExt

CONSTANTS
  NLogs,        \* nlogger
  Writers,      \* the request threads
  LogOf,        \* the log of each of them, ti->index() % nlogger
  NoWriter,     \* the holder of a free lock
  BufferFills,  \* whether a record may find no room in a buffer in use
  MaxEpoch,     \* a bound of the model on global_log_epoch
  MaxChanges,   \* a bound of the model on changes
  MaxCrashes    \* a bound of the model on crashes

Logs == 1..NLogs

ASSUME LogOfAssumption == NLogs \in Nat /\ LogOf \in [Writers -> Logs]
ASSUME NoWriterAssumption == NoWriter \notin Writers
ASSUME BoundsAssumption ==
  BufferFills \in BOOLEAN /\ MaxEpoch \in Nat /\ MaxChanges \in Nat /\ MaxCrashes \in Nat

VARIABLES
  globalLogEpoch, globalWakeEpoch,
  logEpoch, quiescentEpoch, wakeEpoch, flushedEpoch,  \* of each loginfo
  lock,        \* the writer that holds f_.lock_ of a log
  waiting,     \* f_.waiting_, the writers that found no room
  buf,         \* the records in buf_
  flushing,    \* the records in x_buf, being written, and their x_epoch
  disk,        \* the records in the log file
  pc, change, epoch,  \* of a writer: where it is, its change, qtimes.epoch
  changes,     \* the changes made to the tree, in order: their log, the epoch
               \* they are recorded with and the one they were made in
  tree,        \* those the tree shows
  answered,    \* those recorded, so that their client has a reply
  recovered,   \* those that the last recovery brought back
  phase, crashes,
  replayMax,   \* rec_replay_max_epoch
  toReplay,    \* the logs not yet replayed
  replayed     \* the changes read back so far

epochs == <<globalLogEpoch, globalWakeEpoch>>
loginfo == <<logEpoch, quiescentEpoch, wakeEpoch, flushedEpoch, buf, flushing>>
locks == <<lock, waiting>>
writers == <<pc, change, epoch>>
history == <<changes, tree, answered, recovered>>
recovery == <<phase, crashes, replayMax, toReplay, replayed>>
vars == <<epochs, loginfo, locks, writers, disk, history, recovery>>

\* The commands of a log; those with a key are all "change".
EpochRecord(e) == [cmd |-> "epoch", epoch |-> e]
WakeRecord == [cmd |-> "wake"]
QuiesceRecord == [cmd |-> "quiesce"]
ChangeRecord(n) == [cmd |-> "change", change |-> n]

Nothing == [records |-> <<>>, epoch |-> 0]

Zeros == [l \in Logs |-> 0]
Idle == [w \in Writers |-> "idle"]
None == [w \in Writers |-> 0]

Init ==
  /\ globalLogEpoch = 1 /\ globalWakeEpoch = 0
  /\ logEpoch = Zeros /\ quiescentEpoch = Zeros /\ wakeEpoch = Zeros /\ flushedEpoch = Zeros
  /\ buf = [l \in Logs |-> <<>>] /\ flushing = [l \in Logs |-> Nothing]
  /\ lock = [l \in Logs |-> NoWriter] /\ waiting = [l \in Logs |-> <<>>]
  /\ pc = Idle /\ change = None /\ epoch = None
  /\ disk = [l \in Logs |-> <<>>]
  /\ changes = <<>> /\ tree = {} /\ answered = {} /\ recovered = {}
  /\ phase = "up" /\ crashes = 0 /\ replayMax = 0 /\ toReplay = {} /\ replayed = {}

\* check_epoch, in the first logger thread.
CheckEpoch ==
  /\ phase = "up" /\ globalLogEpoch < MaxEpoch
  /\ globalLogEpoch' = globalLogEpoch + 1
  /\ UNCHANGED <<globalWakeEpoch, loginfo, locks, writers, disk, history, recovery>>

-----------------------------------------------------------------------------
(* The request threads.                                                    *)

Applying == {w \in Writers : pc[w] = "applying"}

UnlockedReadEpoch(w) ==
  /\ phase = "up" /\ pc[w] = "idle" /\ lock[LogOf[w]] = NoWriter
  /\ Len(changes) + Cardinality(Applying) < MaxChanges
  /\ epoch' = [epoch EXCEPT ![w] = globalLogEpoch]
  /\ pc' = [pc EXCEPT ![w] = "applying"]
  /\ UNCHANGED <<epochs, loginfo, locks, change, disk, history, recovery>>

\* apply_put, apply_replace and apply_remove take the log's lock and read the
\* epoch.  The lock stays taken for record().
ReadEpoch(w) ==
  /\ phase = "up" /\ pc[w] = "idle" /\ lock[LogOf[w]] = NoWriter
  /\ Len(changes) + Cardinality(Applying) < MaxChanges
  /\ lock' = [lock EXCEPT ![LogOf[w]] = w]
  /\ epoch' = [epoch EXCEPT ![w] = globalLogEpoch]
  /\ pc' = [pc EXCEPT ![w] = "applying"]
  /\ UNCHANGED <<epochs, loginfo, waiting, change, disk, history, recovery>>

\* They change the tree afterwards, perhaps in a later epoch.  Changes are
\* numbered in this order.
ChangeTree(w) ==
  /\ phase = "up" /\ pc[w] = "applying"
  /\ changes' = Append(changes,
       [log |-> LogOf[w], epoch |-> epoch[w], made |-> globalLogEpoch])
  /\ change' = [change EXCEPT ![w] = Len(changes')]
  /\ tree' = tree \cup {Len(changes')}
  /\ pc' = [pc EXCEPT ![w] = "recording"]
  /\ UNCHANGED <<epochs, loginfo, locks, epoch, disk, answered, recovered, recovery>>

Greater(m, n) == IF m < n THEN n ELSE m

\* The wake epoch that w leaves in its log: a log that was quiescent raises the
\* global one; a wake ahead of the change's own epoch is recorded earlier.
WakeSeen(w) ==
  LET l == LogOf[w]
      we == IF quiescentEpoch[l] # 0 THEN Greater(globalWakeEpoch, epoch[w]) ELSE globalWakeEpoch
  IN  IF we # wakeEpoch[l] /\ epoch[w] < we THEN epoch[w] ELSE we

\* The body of record() once there is room.
Store(w) ==
  LET l == LogOf[w]
      e == epoch[w]
      woken == quiescentEpoch[l] # 0
  IN  /\ buf' = [buf EXCEPT ![l] = @
           \o (IF e # logEpoch[l] THEN <<EpochRecord(e)>> ELSE <<>>)
           \o (IF WakeSeen(w) # wakeEpoch[l] THEN <<WakeRecord>> ELSE <<>>)
           \o <<ChangeRecord(change[w])>>]
      /\ logEpoch' = [logEpoch EXCEPT ![l] = e]
      /\ wakeEpoch' = [wakeEpoch EXCEPT ![l] = WakeSeen(w)]
      /\ globalWakeEpoch' = IF woken THEN Greater(globalWakeEpoch, e) ELSE globalWakeEpoch
      /\ flushedEpoch' = [flushedEpoch EXCEPT ![l] =
                            IF woken /\ @ = quiescentEpoch[l] THEN e ELSE @]
      /\ quiescentEpoch' = [quiescentEpoch EXCEPT ![l] = 0]
      /\ pc' = [pc EXCEPT ![w] = "idle"]
      /\ answered' = answered \cup {change[w]}
      /\ change' = [change EXCEPT ![w] = 0] /\ epoch' = [epoch EXCEPT ![w] = 0]
      /\ UNCHANGED <<globalLogEpoch, flushing, disk, changes, tree, recovered, recovery>>

\* Room is only lacking in a buffer in use.  A writer that comes with a record
\* that fits does not look at who is waiting.
Record(w) ==
  /\ phase = "up" /\ pc[w] = "recording"
  /\ Store(w)
  /\ lock' = [lock EXCEPT ![LogOf[w]] = NoWriter]
  /\ UNCHANGED waiting

Stall(w) ==
  /\ phase = "up" /\ pc[w] = "recording"
  /\ BufferFills /\ buf[LogOf[w]] # <<>>
  /\ waiting' = [waiting EXCEPT ![LogOf[w]] = Append(@, w)]
  /\ lock' = [lock EXCEPT ![LogOf[w]] = NoWriter]
  /\ pc' = [pc EXCEPT ![w] = "waiting"]
  /\ UNCHANGED <<epochs, loginfo, change, epoch, disk, history, recovery>>

StuckRetry(w) ==
  /\ phase = "up" /\ pc[w] = "waiting"
  /\ lock[LogOf[w]] = NoWriter
  /\ Head(waiting[LogOf[w]]) = w
  /\ Store(w)
  /\ UNCHANGED locks

\* The first of the waiting writers, some 50 ms later.
Retry(w) ==
  /\ phase = "up" /\ pc[w] = "waiting"
  /\ lock[LogOf[w]] = NoWriter
  /\ Head(waiting[LogOf[w]]) = w
  /\ Store(w)
  /\ waiting' = [waiting EXCEPT ![LogOf[w]] = Tail(@)]
  /\ UNCHANGED lock

-----------------------------------------------------------------------------
(* The logger threads.                                                     *)

\* A log without new records says so once an epoch has passed since its last
\* ones, unless a log has just woken up in the present epoch.  (The code would
\* add a wake record here if log_epoch_ == wake_epoch_, which is then false.)
Quiesces(l) ==
  /\ buf[l] = <<>> /\ waiting[l] = <<>>
  /\ quiescentEpoch[l] = 0 \/ wakeEpoch[l] # globalWakeEpoch
  /\ globalLogEpoch # logEpoch[l] /\ globalLogEpoch # globalWakeEpoch

RepeatingLoggerPass(l) ==
  /\ phase = "up" /\ lock[l] = NoWriter /\ flushing[l] = Nothing
  /\ wakeEpoch' = [wakeEpoch EXCEPT ![l] = globalWakeEpoch]
  /\ logEpoch' = [logEpoch EXCEPT ![l] = IF Quiesces(l) THEN globalLogEpoch ELSE @]
  /\ quiescentEpoch' = [quiescentEpoch EXCEPT ![l] =
       IF Quiesces(l) THEN globalLogEpoch
       ELSE IF wakeEpoch[l] # globalWakeEpoch THEN 0 ELSE @]
  /\ LET out == IF Quiesces(l) THEN <<EpochRecord(globalLogEpoch), QuiesceRecord>> ELSE buf[l]
     IN  flushing' = [flushing EXCEPT ![l] =
           IF out = <<>> THEN Nothing ELSE [records |-> out, epoch |-> logEpoch'[l]]]
  /\ UNCHANGED <<epochs, flushedEpoch, buf, locks, writers, disk, history, recovery>>

PoliteLoggerPass(l) ==
  /\ phase = "up" /\ lock[l] = NoWriter /\ flushing[l] = Nothing /\ waiting[l] = <<>>
  /\ wakeEpoch' = [wakeEpoch EXCEPT ![l] = globalWakeEpoch]
  /\ logEpoch' = [logEpoch EXCEPT ![l] = IF Quiesces(l) THEN globalLogEpoch ELSE @]
  /\ quiescentEpoch' = [quiescentEpoch EXCEPT ![l] =
       IF Quiesces(l) THEN globalLogEpoch
       ELSE IF wakeEpoch[l] # globalWakeEpoch THEN 0 ELSE @]
  /\ LET out == IF Quiesces(l) THEN <<EpochRecord(globalLogEpoch), QuiesceRecord>> ELSE buf[l]
     IN  flushing' = [flushing EXCEPT ![l] =
           IF out = <<>> THEN Nothing ELSE [records |-> out, epoch |-> logEpoch'[l]]]
  /\ buf' = [buf EXCEPT ![l] = <<>>]
  /\ UNCHANGED <<epochs, flushedEpoch, locks, writers, disk, history, recovery>>

\* One pass of the loop of run() up to the release of the lock.  A change of
\* global_wake_epoch is noticed, and forgotten, here.
LoggerPass(l) ==
  /\ phase = "up" /\ lock[l] = NoWriter /\ flushing[l] = Nothing
  /\ wakeEpoch' = [wakeEpoch EXCEPT ![l] = globalWakeEpoch]
  /\ logEpoch' = [logEpoch EXCEPT ![l] = IF Quiesces(l) THEN globalLogEpoch ELSE @]
  /\ quiescentEpoch' = [quiescentEpoch EXCEPT ![l] =
       IF Quiesces(l) THEN globalLogEpoch
       ELSE IF wakeEpoch[l] # globalWakeEpoch THEN 0 ELSE @]
  /\ LET out == IF Quiesces(l) THEN <<EpochRecord(globalLogEpoch), QuiesceRecord>> ELSE buf[l]
     IN  flushing' = [flushing EXCEPT ![l] =
           IF out = <<>> THEN Nothing ELSE [records |-> out, epoch |-> logEpoch'[l]]]
  /\ buf' = [buf EXCEPT ![l] = <<>>]
  /\ UNCHANGED <<epochs, flushedEpoch, locks, writers, disk, history, recovery>>

RacingFlush(l) ==
  /\ phase = "up" /\ flushing[l] # Nothing
  /\ disk' = [disk EXCEPT ![l] = @ \o flushing[l].records]
  /\ flushedEpoch' = [flushedEpoch EXCEPT ![l] = logEpoch[l]]
  /\ flushing' = [flushing EXCEPT ![l] = Nothing]
  /\ UNCHANGED <<epochs, logEpoch, quiescentEpoch, wakeEpoch, buf, locks, writers,
                 history, recovery>>

\* write() and fsync() have returned; flushed_epoch_ is set without the lock.
Flush(l) ==
  /\ phase = "up" /\ flushing[l] # Nothing
  /\ disk' = [disk EXCEPT ![l] = @ \o flushing[l].records]
  /\ flushedEpoch' = [flushedEpoch EXCEPT ![l] = flushing[l].epoch]
  /\ flushing' = [flushing EXCEPT ![l] = Nothing]
  /\ UNCHANGED <<epochs, logEpoch, quiescentEpoch, wakeEpoch, buf, locks, writers,
                 history, recovery>>

-----------------------------------------------------------------------------
(* What recovery reads in a log s.                                         *)

Places(s, cmd) == {i \in DOMAIN s : s[i].cmd = cmd}

\* The epoch that holds at position i.
EpochAt(s, i) ==
  LET before == {j \in Places(s, "epoch") : j <= i}
  IN  IF before = {} THEN 0 ELSE s[Max(before)].epoch

LastEpoch(s) == EpochAt(s, Len(s))

\* info().wake_epoch: forgotten when a smaller epoch follows.
LastWake(s) ==
  LET wakes == Places(s, "wake")
  IN  IF wakes = {} THEN 0
      ELSE LET i == Max(wakes) IN
           IF \E j \in Places(s, "epoch") : j > i /\ s[j].epoch < EpochAt(s, i)
           THEN 0 ELSE EpochAt(s, i)

\* min_post_quiescent_wake_epoch().
WakeSince(s, e) ==
  LET wakes == {i \in Places(s, "wake") : EpochAt(s, i) # 0 /\ EpochAt(s, i) >= e}
  IN  IF wakes = {} THEN 0 ELSE EpochAt(s, Min(wakes))

\* recover() folds the last epochs of the quiescent logs in order, taking a
\* minimum of 0 for none; an empty log has a last epoch of 0.
MinQuiescent(files, quiescent) ==
  LET later == {l \in quiescent : \A m \in quiescent : m >= l => LastEpoch(files[m]) # 0}
  IN  IF later = {} THEN 0 ELSE Min({LastEpoch(files[l]) : l \in later})

\* The minimum that recover() hands to the wake analysis, 0 for none.
MissedSince(files, quiescent) ==
  LET wake == Max({LastWake(files[l]) : l \in Logs})
      minimum == MinQuiescent(files, quiescent)
  IN  IF wake # 0 /\ minimum <= wake THEN minimum ELSE 0

\* A defect: every log is replayed to the last epoch of all.
GreedyReplayLimit(files, quiescent, latest) == Max({LastEpoch(files[l]) : l \in Logs})

\* rec_replay_max_epoch: recovery stops before this epoch.  latest is what a
\* checkpoint has seen, 0 without one.
ReplayLimit(files, quiescent, latest) ==
  LET missed == MissedSince(files, quiescent)
      lasts == {LastEpoch(files[l]) : l \in Logs} \cup {latest}
      awake == {LastEpoch(files[l]) : l \in Logs \ quiescent}
      wakes == {WakeSince(files[l], missed) :
                  l \in {m \in Logs : missed # 0 /\ missed <= LastWake(files[m])}}
  IN  Min({Max(lasts)} \cup ((awake \cup wakes) \ {0}))

ShortKept(s, max) ==
  LET beyond == {i \in Places(s, "epoch") : s[i].epoch >= max}
  IN  IF beyond = {} THEN s ELSE SubSeq(s, 1, Min(beyond) - 1)

\* replayandclean1() keeps the log up to the first epoch it must not replay,
\* and the record of that epoch.
Kept(s, max) ==
  LET beyond == {i \in Places(s, "epoch") : s[i].epoch >= max}
  IN  IF beyond = {} THEN s ELSE SubSeq(s, 1, Min(beyond))

ChangesIn(s) == {s[i].change : i \in Places(s, "change")}

-----------------------------------------------------------------------------
(* Crash and recovery.                                                     *)

\* Nothing in memory outlives the process.
LoseMemory ==
  /\ globalLogEpoch' = 1 /\ globalWakeEpoch' = 0
  /\ logEpoch' = Zeros /\ quiescentEpoch' = Zeros /\ wakeEpoch' = Zeros /\ flushedEpoch' = Zeros
  /\ buf' = [l \in Logs |-> <<>>] /\ flushing' = [l \in Logs |-> Nothing]
  /\ lock' = [l \in Logs |-> NoWriter] /\ waiting' = [l \in Logs |-> <<>>]
  /\ pc' = Idle /\ change' = None /\ epoch' = None

\* info().quiescent: the log ends with a quiesce record.
EndsQuiescent(s) == s # <<>> /\ Last(s).cmd = "quiesce"

\* A crash loses the buffers and any suffix of what is being written.
LoseBuffers ==
  \E cut \in [Logs -> 0..Max({Len(flushing[l].records) : l \in Logs})] :
    /\ \A l \in Logs : cut[l] <= Len(flushing[l].records)
    /\ disk' = [l \in Logs |-> disk[l] \o SubSeq(flushing[l].records, 1, cut[l])]

\* A crash, also one during recovery.  On restart, info() leaves the record of an
\* empty log as it was allocated: its quiescent flag is uninitialized.
Crash ==
  /\ crashes < MaxCrashes
  /\ crashes' = crashes + 1
  /\ LoseBuffers
  /\ \E unset \in SUBSET {l \in Logs : disk'[l] = <<>>} :
       replayMax' = ReplayLimit(disk', unset \cup {l \in Logs : EndsQuiescent(disk'[l])}, 0)
  /\ phase' = "replay" /\ toReplay' = Logs /\ replayed' = {}
  /\ LoseMemory
  /\ UNCHANGED history

\* The logs are replayed and truncated by their own threads.
Replay(l) ==
  /\ phase = "replay" /\ l \in toReplay
  /\ disk' = [disk EXCEPT ![l] = Kept(@, replayMax)]
  /\ replayed' = replayed \cup ChangesIn(disk'[l])
  /\ toReplay' = toReplay \ {l}
  /\ UNCHANGED <<epochs, loginfo, locks, writers, history, phase, crashes, replayMax>>

\* global_log_epoch goes on behind the epochs that were replayed.
Restart ==
  /\ phase = "replay" /\ toReplay = {}
  /\ tree' = replayed /\ answered' = replayed /\ recovered' = replayed
  /\ phase' = "up" /\ replayMax' = 0 /\ replayed' = {}
  /\ globalLogEpoch' = replayMax + 1
  /\ UNCHANGED <<globalWakeEpoch, loginfo, locks, writers, disk, changes, crashes, toReplay>>

Next ==
  \/ CheckEpoch
  \/ \E w \in Writers : ReadEpoch(w) \/ ChangeTree(w) \/ Record(w) \/ Stall(w) \/ Retry(w)
  \/ \E l \in Logs : LoggerPass(l) \/ Flush(l) \/ Replay(l)
  \/ Crash \/ Restart

Spec == Init /\ [][Next]_vars

\* Threads that can go on do so.  A waiting writer is only sure of room in an
\* empty buffer.
Fairness ==
  /\ \A w \in Writers :
       /\ WF_vars(ChangeTree(w)) /\ WF_vars(Record(w))
       /\ WF_vars(Retry(w) /\ buf[LogOf[w]] = <<>>)
  /\ \A l \in Logs : WF_vars(LoggerPass(l)) /\ WF_vars(Flush(l)) /\ WF_vars(Replay(l))
  /\ WF_vars(Restart)

FairSpec == Spec /\ Fairness

-----------------------------------------------------------------------------
(* Properties.                                                             *)

Records == [cmd : {"epoch"}, epoch : Nat] \cup [cmd : {"wake", "quiesce"}]
           \cup [cmd : {"change"}, change : Nat]

\* The type of every variable.
TypeOK ==
  /\ globalLogEpoch \in Nat \ {0} /\ globalWakeEpoch \in Nat
  /\ \A f \in {logEpoch, quiescentEpoch, wakeEpoch, flushedEpoch} : f \in [Logs -> Nat]
  /\ lock \in [Logs -> Writers \cup {NoWriter}] /\ waiting \in [Logs -> Seq(Writers)]
  /\ buf \in [Logs -> Seq(Records)] /\ disk \in [Logs -> Seq(Records)]
  /\ flushing \in [Logs -> [records : Seq(Records), epoch : Nat]]
  /\ pc \in [Writers -> {"idle", "applying", "recording", "waiting"}]
  /\ change \in [Writers -> Nat] /\ epoch \in [Writers -> Nat]
  /\ changes \in Seq([log : Logs, epoch : Nat, made : Nat]) /\ tree \subseteq 1..Len(changes)
  /\ phase \in {"up", "replay"} /\ crashes \in 0..MaxCrashes /\ replayMax \in Nat
  /\ toReplay \subseteq Logs /\ replayed \subseteq 1..Len(changes)

\* "Log epochs should be recorded in monotonically increasing order": the epoch
\* of a log never goes back while the process lives.
LogEpochsIncrease == [][crashes' = crashes => \A l \in Logs : logEpoch[l] <= logEpoch'[l]]_vars

\* The changes of log l that the file of l has.
OnDisk(l) == ChangesIn(disk[l])
Made(l) == {n \in tree : changes[n].log = l}

\* "We have logged all writes up to, but not including, flushed_epoch_", also
\* when record() raises it for a log that was quiescent.
FlushedIsDurable ==
  phase = "up" =>
    \A l \in Logs : \A n \in Made(l) : changes[n].epoch < flushedEpoch[l] => n \in OnDisk(l)

\* loginfo::quiescent(), which lets a checkpoint be committed: everything ever
\* recorded in the log is in its file; at most one change waits for the lock.
QuiescentIsDurable ==
  phase = "up" =>
    \A l \in Logs : quiescentEpoch[l] # 0 /\ quiescentEpoch[l] = flushedEpoch[l] =>
      /\ buf[l] = <<>>
      /\ Made(l) \subseteq OnDisk(l) \cup {change[w] : w \in Writers}

\* What the logger threads claim is on disk is on disk, although flushed_epoch_
\* is set without the lock from an epoch saved before the write.
LoggedIsDurable == TypeOK /\ FlushedIsDurable /\ QuiescentIsDurable

\* A change that is in the tree and not in record() is once in its log: in the
\* buffer, in the one being written or in the file.  The two buffers and the
\* truncation of the file neither lose a record nor repeat one.
Copies(n) ==
  LET l == changes[n].log
      log == disk[l] \o flushing[l].records \o buf[l]
  IN  Cardinality({i \in DOMAIN log : log[i] = ChangeRecord(n)})

RecordedOnce ==
  phase = "up" =>
    \A n \in DOMAIN changes : Copies(n) = IF n \in answered THEN 1 ELSE 0

\* The changes made to the tree in an epoch after that of their record.
Late == {n \in DOMAIN changes : changes[n].made # changes[n].epoch}

\* The first recovery of a database brings back the tree of an earlier moment,
\* also about the changes that nobody was told of: no change that was lost was
\* made before one that was kept.  This supposes that the logs that say nothing
\* about their last epoch (they are empty or end quiescent) miss no change.  And
\* it is not so of late changes: the epoch is read before the tree is changed
\* (kvrow.hh:231, :237), and one kept on account of its epoch may have been made
\* after another, answered and lost, of the epoch that followed.
Silent(l) == disk[l] = <<>> \/ EndsQuiescent(disk[l])

CompleteLogsReplayConsistently ==
  /\ phase = "replay" /\ toReplay = {} /\ crashes = 1
  /\ \A l \in Logs : Silent(l) => Made(l) \subseteq OnDisk(l)
  => \A lost \in tree \ replayed, kept \in replayed \ Late : kept < lost

\* What one recovery brought back, the next one brings back too, also when the
\* process died in the middle of a recovery.  With two logs: an empty third one
\* can make a recovery stop earlier than the one before.
RecoveredStaysRecovered ==
  phase = "replay" /\ toReplay = {} => recovered \subseteq replayed

\* "If max_wake_epoch && min_quiescent_last_epoch <= max_wake_epoch, then a wake
\* command was missed by at least one quiescent log. We can't replay anything at
\* or beyond the minimum missed wake epoch" (mtd.cc:1422): no limit lies beyond a
\* wake that a log which ends quiescent has missed.
MissedWakesAreNotReplayed ==
  phase = "replay" /\ toReplay = Logs =>
    \A l, m \in Logs : \A i \in Places(disk[m], "wake") :
      EndsQuiescent(disk[l]) /\ EpochAt(disk[m], i) >= LastEpoch(disk[l]) =>
        replayMax <= EpochAt(disk[m], i)

\* A writer that found no room is recorded in the end.
StalledIsRecorded == \A w \in Writers : pc[w] = "waiting" ~> pc[w] = "idle"

\* A change that a client was told of reaches the disk unless the process dies.
AnsweredReachesDisk ==
  \A n \in 1..MaxChanges :
    n \in answered ~> phase = "replay" \/ \E l \in Logs : n \in OnDisk(l)
=============================================================================
