----------------------------- MODULE Checkpoint -----------------------------
(***************************************************************************)
(* Checkpoints of the mtd server and recovery from a checkpoint and the     *)
(* logs: conc_checkpointer, max_flushed_epoch, commit_checkpoint and        *)
(* recover of src/hybrid_index/mtd.cc, on top of the logs of LogEpochs.     *)
(* A checkpoint is read from the tree while it changes.  It is only good    *)
(* together with the logs from min_epoch on, the epoch before the scan.     *)
(*                                                                         *)
(* A row is the set of the changes made to its key.  Removals, the pivots   *)
(* and the number of checkpoint threads are left out: each thread has its   *)
(* range of the keys.                                                      *)
(***************************************************************************)
EXTENDS LogEpochs
LOCAL INSTANCE SequencesExt
LOCAL INSTANCE FiniteSetsExt

CONSTANTS
  Keys,
  NCkps,        \* nckthreads
  RangeOf,      \* the checkpoint thread that reads a key
  Unread,       \* a key that the scan has not reached
  Absent, Torn, \* a checkpoint file that does not exist, or is not yet synced
  MaxGen        \* a bound of the model on ckp_gen

Ckps == 1..NCkps
Gens == 1..MaxGen

ASSUME RangeOfAssumption == NCkps \in Nat /\ RangeOf \in [Keys -> Ckps]
ASSUME MaxGenAssumption == MaxGen \in Nat \ {0}

VARIABLES
  ckpGen,      \* ckp_gen
  ckpPhase,    \* where the first checkpoint thread is
  minEpoch, maxEpoch,  \* of the checkpoint being made
  scan,        \* the rows read for it
  ckState,     \* cks[].state: Ready, Go, and whether the file is being written
  files,       \* the files kvd-ckp-<generation>-<thread>
  committed,   \* the file kvd-ckp-gen
  row,         \* of a writer that has yet to change a row: its key
  keyOf        \* the key of each change

ckp == <<ckpGen, ckpPhase, minEpoch, maxEpoch, scan, ckState, files, committed>>
rows == <<row, keyOf>>
cvars == <<vars, ckp, rows>>

NoRows == [k \in Keys |-> Unread]
AllThreads(state) == [c \in Ckps |-> state]

\* A database without rows that has been idle since its first epoch: every log
\* has said so, and a checkpoint of epoch 2 has been committed.
Quiesced == <<EpochRecord(1), QuiesceRecord>>
Ones == [l \in Logs |-> 1]

\* Its logs.
IdleLogs ==
  /\ globalLogEpoch = 3 /\ globalWakeEpoch = 0
  /\ logEpoch = Ones /\ quiescentEpoch = Ones /\ flushedEpoch = Ones /\ wakeEpoch = Zeros
  /\ buf = [l \in Logs |-> <<>>] /\ flushing = [l \in Logs |-> Nothing]
  /\ lock = [l \in Logs |-> NoWriter] /\ waiting = [l \in Logs |-> <<>>]
  /\ pc = Idle /\ change = None /\ epoch = None
  /\ disk = [l \in Logs |-> Quiesced]
  /\ changes = <<>> /\ tree = {} /\ answered = {} /\ recovered = {}
  /\ phase = "up" /\ crashes = 0 /\ replayMax = 0 /\ toReplay = {} /\ replayed = {}

Resting ==
  /\ ckpPhase = "ready" /\ scan = NoRows /\ ckState = AllThreads("Ready")
  /\ row = [w \in Writers |-> Unread] /\ keyOf = <<>>

\* A new database, or that one.
CkpInit ==
  /\ Resting
  /\ \/ /\ Init
        /\ ckpGen = 0 /\ minEpoch = 0 /\ maxEpoch = 0
        /\ files = [g \in Gens |-> AllThreads(Absent)]
        /\ committed = [gen |-> 0, min |-> 0, max |-> 0]
     \/ /\ IdleLogs
        /\ ckpGen = 1 /\ minEpoch = 2 /\ maxEpoch = 2
        /\ files = [g \in Gens |-> AllThreads(IF g = 1 THEN {} ELSE Absent)]
        /\ committed = [gen |-> 1, min |-> 2, max |-> 2]

Row(k) == {n \in tree : keyOf[n] = k}

-----------------------------------------------------------------------------
(* Requests.  A row is changed with its leaf locked, from before the epoch  *)
(* is read.                                                                *)

TakeEpoch(w, k) ==
  /\ \A v \in Applying : row[v] # k
  /\ ReadEpoch(w)
  /\ row' = [row EXCEPT ![w] = k]
  /\ UNCHANGED <<ckp, keyOf>>

ChangeRow(w) ==
  /\ ChangeTree(w)
  /\ keyOf' = Append(keyOf, row[w])
  /\ row' = [row EXCEPT ![w] = Unread]
  /\ UNCHANGED ckp

-----------------------------------------------------------------------------
(* The checkpoint threads: conc_checkpointer and conc_filecheckpoint.       *)

\* At the interval, or at once when a client asks for it.
BeginCheckpoint ==
  /\ phase = "up" /\ ckpPhase = "ready" /\ ckpGen < MaxGen
  /\ minEpoch' = globalLogEpoch
  /\ ckpGen' = ckpGen + 1
  /\ ckState' = AllThreads("Go")
  /\ ckpPhase' = "scan"
  /\ UNCHANGED <<vars, maxEpoch, scan, files, committed, rows>>

\* The scan of a thread reaches a row: ckstate::visit_value.
VisitValue(k) ==
  /\ phase = "up" /\ ckState[RangeOf[k]] = "Go" /\ scan[k] = Unread
  /\ scan' = [scan EXCEPT ![k] = Row(k)]
  /\ UNCHANGED <<vars, ckpGen, ckpPhase, minEpoch, maxEpoch, ckState, files, committed, rows>>

\* writecheckpoint: creat() empties the file, fsync() completes it.
RangeKeys(c) == {k \in Keys : RangeOf[k] = c}

CreateFile(c) ==
  /\ phase = "up" /\ ckState[c] = "Go" /\ \A k \in RangeKeys(c) : scan[k] # Unread
  /\ files' = [files EXCEPT ![ckpGen][c] = Torn]
  /\ ckState' = [ckState EXCEPT ![c] = "writing"]
  /\ UNCHANGED <<vars, ckpGen, ckpPhase, minEpoch, maxEpoch, scan, committed, rows>>

WriteFile(c) ==
  /\ phase = "up" /\ ckState[c] = "writing"
  /\ files' = [files EXCEPT ![ckpGen][c] = UNION {scan[k] : k \in RangeKeys(c)}]
  /\ scan' = [k \in Keys |-> IF RangeOf[k] = c THEN Unread ELSE scan[k]]
  /\ ckState' = [ckState EXCEPT ![c] = "Ready"]
  /\ UNCHANGED <<vars, ckpGen, ckpPhase, minEpoch, maxEpoch, committed, rows>>

LatePrepare ==
  /\ phase = "up" /\ ckpPhase = "scan"
  /\ ckState = AllThreads("Ready")
  /\ minEpoch' = globalLogEpoch /\ maxEpoch' = globalLogEpoch
  /\ ckpPhase' = "prepared"
  /\ UNCHANGED <<vars, ckpGen, scan, ckState, files, committed, rows>>

HastyPrepare ==
  /\ phase = "up" /\ ckpPhase = "scan"
  /\ ckState = AllThreads("Ready")
  /\ maxEpoch' = minEpoch
  /\ ckpPhase' = "prepared"
  /\ UNCHANGED <<vars, ckpGen, minEpoch, scan, ckState, files, committed, rows>>

\* prepare_checkpoint, when all threads are CKState_Ready again.
Prepare ==
  /\ phase = "up" /\ ckpPhase = "scan"
  /\ ckState = AllThreads("Ready")
  /\ maxEpoch' = globalLogEpoch
  /\ ckpPhase' = "prepared"
  /\ UNCHANGED <<vars, ckpGen, minEpoch, scan, ckState, files, committed, rows>>

\* max_flushed_epoch folds the logs in order and takes a minimum of 0 for none.
FlushedOf(l) ==
  IF quiescentEpoch[l] # 0 /\ quiescentEpoch[l] = flushedEpoch[l]
  THEN globalLogEpoch ELSE flushedEpoch[l]

\* The logs that count: those behind the last one that has flushed nothing.
Counted == {l \in Logs : \A m \in Logs : m >= l => FlushedOf(m) # 0}

MaxFlushedEpoch == IF Counted = {} THEN 0 ELSE Min({FlushedOf(l) : l \in Counted})

EagerCommit ==
  /\ phase = "up" /\ ckpPhase = "prepared"
  /\ MaxFlushedEpoch = 0 \/ MaxFlushedEpoch >= maxEpoch
  /\ committed' = [gen |-> ckpGen, min |-> minEpoch, max |-> maxEpoch]
  /\ ckpPhase' = "committed"
  /\ UNCHANGED <<vars, ckpGen, minEpoch, maxEpoch, scan, ckState, files, rows>>

\* commit_checkpoint replaces kvd-ckp-gen atomically.  Without a log that counts
\* it does not wait.
Commit ==
  /\ phase = "up" /\ ckpPhase = "prepared"
  /\ MaxFlushedEpoch = 0 \/ MaxFlushedEpoch > maxEpoch
  /\ committed' = [gen |-> ckpGen, min |-> minEpoch, max |-> maxEpoch]
  /\ ckpPhase' = "committed"
  /\ UNCHANGED <<vars, ckpGen, minEpoch, maxEpoch, scan, ckState, files, rows>>

\* The files of the generation before are deleted.
Unlink ==
  /\ phase = "up" /\ ckpPhase = "committed"
  /\ files' = [g \in Gens |-> IF g = ckpGen - 1 THEN [c \in Ckps |-> Absent] ELSE files[g]]
  /\ ckpPhase' = "ready"
  /\ UNCHANGED <<vars, ckpGen, minEpoch, maxEpoch, scan, ckState, committed, rows>>

-----------------------------------------------------------------------------
(* Crash and recovery: recover, read_checkpoint and replayandclean1.        *)

FirstEpoch(s) ==
  LET at == Places(s, "epoch") IN IF at = {} THEN 0 ELSE s[Min(at)].epoch

\* The assertions of recovery before the replay; a failed one aborts the server.
ChecksPass(first, limit) ==
  committed.gen # 0 =>
    /\ \A c \in Ckps : files[committed.gen][c] \notin {Absent, Torn}
    /\ first < committed.min /\ committed.min < limit /\ committed.max < limit

\* ckp_gen comes from the file kvd-ckp-gen.
ReadGeneration ==
  /\ ckpGen' = committed.gen /\ ckpPhase' = "ready" /\ minEpoch' = 0 /\ maxEpoch' = 0
  /\ scan' = NoRows /\ ckState' = AllThreads("Ready")

CkpCrash ==
  /\ crashes < MaxCrashes
  /\ crashes' = crashes + 1
  /\ LoseBuffers
  /\ \E unset \in SUBSET {l \in Logs : disk'[l] = <<>>} :
       replayMax' = ReplayLimit(disk', unset \cup {l \in Logs : EndsQuiescent(disk'[l])},
                                IF committed.max = 0 THEN 0 ELSE committed.max + 1)
  /\ phase' = IF ChecksPass(Max({FirstEpoch(disk'[l]) : l \in Logs}), replayMax')
              THEN "replay" ELSE "aborted"
  /\ toReplay' = Logs /\ replayed' = {}
  /\ LoseMemory
  /\ ReadGeneration
  /\ row' = [w \in Writers |-> Unread]
  /\ UNCHANGED <<history, files, committed, keyOf>>

\* A log keeps what follows, and includes, its last epoch before min_epoch.
KeptFrom(s, min, max) ==
  LET older == {i \in Places(s, "epoch") : s[i].epoch < min}
  IN  IF min = 0 THEN Kept(s, max)
      ELSE IF older = {} THEN <<>>
      ELSE SubSeq(Kept(s, max), Max(older), Len(Kept(s, max)))

\* The changes replayed are those from min_epoch on.
ReplayedOf(s, min) == {s[i].change : i \in {j \in Places(s, "change") : EpochAt(s, j) >= min}}

ReplayFrom(l) ==
  /\ phase = "replay" /\ l \in toReplay
  /\ disk' = [disk EXCEPT ![l] = KeptFrom(@, committed.min, replayMax)]
  /\ replayed' = replayed \cup ReplayedOf(disk'[l], committed.min)
  /\ toReplay' = toReplay \ {l}
  /\ UNCHANGED <<epochs, loginfo, locks, writers, history, phase, crashes, replayMax, ckp, rows>>

\* What read_checkpoint puts into the tree before the logs are replayed.
CheckpointRows ==
  IF committed.gen = 0 THEN {}
  ELSE UNION {files[committed.gen][c] : c \in Ckps}

Restored == CheckpointRows \cup replayed

RestartFromCheckpoint ==
  /\ phase = "replay" /\ toReplay = {}
  /\ tree' = Restored /\ answered' = Restored /\ recovered' = Restored
  /\ phase' = "up" /\ replayMax' = 0 /\ replayed' = {}
  /\ globalLogEpoch' = replayMax + 1
  /\ UNCHANGED <<globalWakeEpoch, loginfo, locks, writers, disk, changes, crashes, toReplay,
                 ckp, rows>>

-----------------------------------------------------------------------------

\* Buffers that never fill up: LogEpochs is about those that do.
Logging ==
  /\ \/ CheckEpoch
     \/ \E w \in Writers : Record(w)
     \/ \E l \in Logs : LoggerPass(l) \/ Flush(l)
  /\ UNCHANGED <<ckp, rows>>

Checkpointing ==
  \/ BeginCheckpoint \/ Prepare \/ Commit \/ Unlink
  \/ \E k \in Keys : VisitValue(k)
  \/ \E c \in Ckps : CreateFile(c) \/ WriteFile(c)

CkpNext ==
  \/ Logging
  \/ Checkpointing
  \/ \E w \in Writers : ChangeRow(w) \/ \E k \in Keys : TakeEpoch(w, k)
  \/ CkpCrash
  \/ \E l \in Logs : ReplayFrom(l)
  \/ RestartFromCheckpoint

CkpSpec == CkpInit /\ [][CkpNext]_cvars

-----------------------------------------------------------------------------
(* Properties.                                                             *)

\* min_epoch is read before the scan so that what the logs are not asked for is
\* in the checkpoint ("the if() here tests correctness of checkpoint scheme",
\* log.cc:723), unless a change was made after the epoch of its record.
CheckpointCoversOlder ==
  phase = "up" /\ committed.gen # 0 =>
    \A n \in tree \ Late : changes[n].epoch < committed.min => n \in CheckpointRows

\* "We don't commit a checkpoint until all logs are flushed past the checkpoint's
\* max_epoch" (mtd.cc:1385): what is recorded, and what the logs are asked for, is
\* in the file of its log when it is committed.  That is only so of the logs that
\* count: a log that has flushed nothing since the server started is not waited
\* for, nor are those before it (mtd.cc:1589), and without one that counts the
\* checkpoint is committed at once (mtd.cc:1632).
CommitsOnlyLogged ==
  [][committed' # committed =>
       \A n \in CheckpointRows' \cap answered :
         changes[n].epoch >= committed'.min /\ changes[n].log \in Counted =>
           n \in OnDisk(changes[n].log)]_cvars

\* A first recovery with a checkpoint is as consistent as one without (see
\* CompleteLogsReplayConsistently): nothing answered is lost in front of what is
\* kept, when the silent logs miss no change that the checkpoint leaves to them,
\* late changes apart.  They may miss one that is made in front of another in the
\* checkpoint: one whose log did not count when the checkpoint was committed.
RestoredConsistently ==
  /\ phase = "replay" /\ toReplay = {} /\ crashes = 1
  /\ \A l \in Logs : Silent(l) =>
       {n \in Made(l) : changes[n].epoch >= committed.min} \subseteq OnDisk(l)
  => \A lost \in answered \ (Late \cup Restored), kept \in Restored \ Late : kept < lost

\* What one recovery brought back, the next one brings back too, whatever
\* checkpoint was committed in between and however the logs were truncated.
CkpRecoveredStays ==
  phase = "replay" /\ toReplay = {} => recovered \ Late \subseteq Restored
=============================================================================
