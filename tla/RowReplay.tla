----------------------------- MODULE RowReplay -----------------------------
(***************************************************************************)
(* Time stamps of rows and the replay of their changes from several logs:   *)
(* query::run_put, run_replace and run_remove (src/hybrid_index/kvrow.hh),  *)
(* the clocks of the threads (kvthread.hh), loginfo::record and             *)
(* logrecord::apply (log.cc), and the rows of a checkpoint                  *)
(* (checkpoint.hh/.cc).  The logs of a recovery are replayed by a thread     *)
(* each, so the changes of one key may come in any order across the logs.   *)
(*                                                                         *)
(* What is under a key is a chain: at most one row or remove marker, behind  *)
(* delta markers, changes that wait for the row they apply to.  The value   *)
(* of a row is the sequence of the changes in it.  A change happens under    *)
(* the lock of its leaf.  There is one leaf; MasstreeLeaves has what happens *)
(* to node_ts_ when leaves split and go.  Which changes a crash leaves in    *)
(* the logs is the matter of LogEpochs and Checkpoint; here it is any prefix.*)
(* A crash during replay leads to the same states and is left out.           *)
(***************************************************************************)
EXTENDS Integers, FiniteSets, Sequences, Functions

CONSTANTS
  Keys,
  Writers,    \* the threads, with a log each
  MaxChanges, \* a bound of the model on the changes that are in the past at a time
  MaxCrashes  \* a bound of the model

ASSUME BoundsAssumption == MaxChanges \in Nat /\ MaxCrashes \in Nat

VARIABLES
  chain,    \* what is in the tree under each key
  nodeTs,   \* node_ts_ of the leaf
  clock,    \* ts_ of each thread
  logs,     \* the records in the log of each thread
  at,       \* how many of them have been replayed
  ckp,      \* the last checkpoint: the rows, the number of changes that are not in
            \* the logs any more, and of those that must be
  phase,    \* "up", "replay" or, after a failed assertion, "aborted"
  deltas,   \* tc_replay_create_delta - tc_replay_remove_delta
  past,     \* what lookups saw under each key after each change
  crashes

vars == <<chain, nodeTs, clock, logs, at, ckp, phase, deltas, past, crashes>>

Absent == [ts |-> 0, val |-> <<>>]

-----------------------------------------------------------------------------
(* Rows and markers.  A marker has an odd time stamp.                       *)

Row(ts, val) == [delta |-> FALSE, ts |-> ts, val |-> val, prev |-> 0]
DeltaMarker(ts, change, prev) == [delta |-> TRUE, ts |-> ts, val |-> <<change>>, prev |-> prev]

IsMarker(x) == x.ts % 2 = 1

\* run_get does not see a marker.
Visible(c) == IF c = <<>> \/ IsMarker(c[1]) THEN Absent ELSE [ts |-> c[1].ts, val |-> c[1].val]

\* ts | 1, for a time stamp that is not a marker's
Odd(ts) == ts + 1

-----------------------------------------------------------------------------
(* Clocks: threadinfo::update_timestamp and advance_timestamp.              *)

\* (x | 1) + 1 if the clock is not beyond x
Updated(w, x) == IF clock[w] > x THEN clock[w] ELSE x - (x % 2) + 2
Advanced(w) == IF clock[w] < nodeTs THEN nodeTs ELSE clock[w]

-----------------------------------------------------------------------------
(* The calls, apply_put, apply_replace and apply_remove, and the record of   *)
(* each in the log of its thread.                                           *)

N == Len(past) - 1
Up == phase = "up"

Init ==
  /\ chain = [k \in Keys |-> <<>>] /\ nodeTs = 0
  /\ clock = [w \in Writers |-> 2]
  /\ logs = [w \in Writers |-> <<>>] /\ at = [w \in Writers |-> 0]
  /\ ckp = [rows |-> [k \in Keys |-> Absent], from |-> 0, to |-> 0]
  /\ phase = "up" /\ deltas = 0 /\ crashes = 0
  /\ past = <<[k \in Keys |-> Absent]>>

\* The thread w changes the key k at the time ts.
Change(w, k, command, ts, prev, new) ==
  /\ Up /\ N < MaxChanges
  /\ chain' = [chain EXCEPT ![k] = new]
  /\ clock' = [clock EXCEPT ![w] = ts]
  /\ logs' = [logs EXCEPT ![w] = Append(@, [command |-> command, key |-> k, ts |-> ts,
                                            prev |-> prev, change |-> N + 1])]
  /\ past' = Append(past, [past[N + 1] EXCEPT ![k] = Visible(new)])
  /\ UNCHANGED <<at, ckp, phase, deltas, crashes>>

\* A put into a row is logged as a modification of that row.
Put(w, k) ==
  /\ UNCHANGED nodeTs
  /\ IF chain[k] = <<>>
     THEN Change(w, k, "put", Advanced(w), 0, <<Row(Advanced(w), <<N + 1>>)>>)
     ELSE LET old == chain[k][1]
              ts == Updated(w, old.ts)
          IN  IF IsMarker(old)
              THEN Change(w, k, "put", ts, 0, <<Row(ts, <<N + 1>>)>>)
              ELSE Change(w, k, "modify", ts, old.ts, <<Row(ts, Append(old.val, N + 1))>>)

Replace(w, k) ==
  LET ts == IF chain[k] = <<>> THEN Advanced(w) ELSE Updated(w, chain[k][1].ts)
  IN  /\ UNCHANGED nodeTs
      /\ Change(w, k, "replace", ts, 0, <<Row(ts, <<N + 1>>)>>)

\* A defect: the key may come back with the time stamp of its removal.
FaultyRemoveRow(w, k) ==
  /\ chain[k] # <<>>
  /\ LET ts == Updated(w, chain[k][1].ts)
     IN  /\ nodeTs' = IF nodeTs <= ts THEN ts ELSE nodeTs
         /\ Change(w, k, "remove", ts, 0, <<>>)

\* A key that comes back gets a later time stamp, with the help of the leaf.
RemoveRow(w, k) ==
  /\ chain[k] # <<>>
  /\ LET ts == Updated(w, chain[k][1].ts)
     IN  /\ nodeTs' = IF nodeTs <= ts THEN ts + 2 ELSE nodeTs
         /\ Change(w, k, "remove", ts, 0, <<>>)

-----------------------------------------------------------------------------
(* Checkpoints and crashes.                                                 *)

\* One checkpoint.  The rows were read at different times; markers are not written.  The changes
\* of epochs before min_epoch are cut from the logs by the next recovery, those
\* up to max_epoch are on disk when the checkpoint is committed.
Checkpoint ==
  /\ Up /\ ckp.to = 0 /\ N > 0
  /\ \E from \in 0..N : \E seen \in [Keys -> from..N] :
       ckp' = [rows |-> [k \in Keys |-> past[seen[k] + 1][k]], from |-> from,
               to |-> CHOOSE n \in Range(seen) : \A m \in Range(seen) : m <= n]
  /\ UNCHANGED <<chain, nodeTs, clock, logs, at, phase, deltas, past, crashes>>

\* The records of a log are in the order of their changes: those that the
\* checkpoint makes unnecessary are cut off, and those after the change n are lost.
Kept(log, n) ==
  LET UpTo(m) == Cardinality({i \in DOMAIN log : log[i].change <= m})
  IN  SubSeq(log, UpTo(ckp.from) + 1, UpTo(n))

\* ckstate::insert for each row of the checkpoint, in a tree that is new.
Crash ==
  /\ Up /\ crashes < MaxCrashes
  /\ \E n \in ckp.to..N :
       /\ past' = SubSeq(past, 1, n + 1)
       /\ logs' = [w \in Writers |-> Kept(logs[w], n)]
  /\ chain' = [k \in Keys |-> IF ckp.rows[k] = Absent THEN <<>>
                              ELSE <<Row(ckp.rows[k].ts, ckp.rows[k].val)>>]
  /\ nodeTs' = 0 /\ clock' = [w \in Writers |-> 2]
  /\ at' = [w \in Writers |-> 0] /\ phase' = "replay" /\ crashes' = crashes + 1
  /\ UNCHANGED <<ckp, deltas>>

-----------------------------------------------------------------------------
(* Replay: logrecord::run and apply.                                        *)

Stamp(r) == IF r.command = "remove" THEN Odd(r.ts) ELSE r.ts

DeltasIn(c) == Cardinality({i \in 1..Len(c) : c[i].delta})

\* The delta markers that are later than the change stay before it.
Later(c, ts) ==
  CHOOSE i \in 0..Len(c) :
    /\ \A j \in 1..i : c[j].delta /\ c[j].ts > ts
    /\ i < Len(c) => ~(c[i + 1].delta /\ c[i + 1].ts > ts)

\* A put or a replace deletes everything earlier; a modification waits unless the
\* row is the one it was made to.
Applied(c, r) ==
  CASE r.command \in {"put", "replace"} -> <<Row(r.ts, <<r.change>>)>>
    [] r.command = "modify" ->
         IF c # <<>> /\ c[1].ts = r.prev
         THEN <<Row(r.ts, Append(c[1].val, r.change))>> \o Tail(c)
         ELSE <<DeltaMarker(Odd(r.ts), r.change, r.prev)>> \o c

\* A defect: a delta marker is applied to whatever row is there.
FaultySettle(d, c) ==
  IF c # <<>> /\ ~c[1].delta
  THEN <<Row(d.ts - 1, c[1].val \o d.val)>>
  ELSE <<d>> \o c

\* The delta marker d is applied to the row behind it if that is its row.
Settle(d, c) ==
  IF c # <<>> /\ ~c[1].delta /\ d.prev = c[1].ts
  THEN <<Row(d.ts - 1, c[1].val \o d.val)>>
  ELSE <<d>> \o c

\* From the last delta marker to the first.
CleanUp(c) ==
  LET d == DeltasIn(c)
      settled[i \in 0..d] == IF i = 0 THEN SubSeq(c, d + 1, Len(c))
                             ELSE Settle(c[d + 1 - i], settled[i - 1])
  IN  settled[d]

OutOfDate(c, r) ==
  LET i == Later(c, Stamp(r))
  IN  i < Len(c) /\ c[i + 1].ts >= Stamp(r)

\* A defect: the check for a change that is out of date is left out.
FaultyReplayed(c, r) ==
  LET i == Later(c, Stamp(r))
  IN  CleanUp(SubSeq(c, 1, i) \o Applied(SubSeq(c, i + 1, Len(c)), r))

Replayed(c, r) ==
  LET i == Later(c, Stamp(r))
  IN  IF OutOfDate(c, r) THEN c
      ELSE CleanUp(SubSeq(c, 1, i) \o Applied(SubSeq(c, i + 1, Len(c)), r))

\* For a removal, run() makes the bytes of a remove marker the value, and apply()
\* hands them to parse_changeset, which reads the first as a column and asserts
\* that a string begins at the second, which is 0.
Unparsable(c, r) == r.command = "remove" /\ ~OutOfDate(c, r)

Replay(w) ==
  /\ phase = "replay" /\ at[w] < Len(logs[w])
  /\ LET r == logs[w][at[w] + 1]
     IN  /\ ~Unparsable(chain[r.key], r)
         /\ chain' = [chain EXCEPT ![r.key] = Replayed(@, r)]
         /\ deltas' = deltas + DeltasIn(chain'[r.key]) - DeltasIn(chain[r.key])
  /\ at' = [at EXCEPT ![w] = @ + 1]
  /\ UNCHANGED <<nodeTs, clock, logs, ckp, phase, past, crashes>>

Abort(w) ==
  /\ phase = "replay" /\ at[w] < Len(logs[w])
  /\ LET r == logs[w][at[w] + 1] IN Unparsable(chain[r.key], r)
  /\ phase' = "aborted"
  /\ UNCHANGED <<chain, nodeTs, clock, logs, at, ckp, deltas, past, crashes>>

Recovered ==
  /\ phase = "replay" /\ \A w \in Writers : at[w] = Len(logs[w])
  /\ phase' = "up"
  /\ UNCHANGED <<chain, nodeTs, clock, logs, at, ckp, deltas, past, crashes>>

-----------------------------------------------------------------------------

Next ==
  \/ \E w \in Writers, k \in Keys : Put(w, k) \/ Replace(w, k) \/ RemoveRow(w, k)
  \/ Checkpoint \/ Crash
  \/ \E w \in Writers : Replay(w) \/ Abort(w)
  \/ Recovered

Spec == Init /\ [][Next]_vars

-----------------------------------------------------------------------------

Records == UNION {{logs[w][i] : i \in 1..Len(logs[w])} : w \in Writers}

(* Replay is the only user of time stamps, and it relies on this: later     *)
(* changes of a key have later time stamps, on whatever threads, and also    *)
(* when the key is removed and comes back, before or after a restart; a      *)
(* modification names the change before it (assign_timestamp, node_ts).     *)
StampsFollowChanges ==
  \A r, s \in Records : r.key = s.key /\ r.change < s.change =>
    /\ Stamp(r) < Stamp(s)
    /\ (\A q \in Records : q.key = r.key => ~(r.change < q.change /\ q.change < s.change)) =>
         (s.command = "modify" => s.prev = r.ts)

(* "insert will ignore attempts to update with timestamps less than what    *)
(* was in the entry from the checkpoint file" (mtd.cc:1343): in whatever     *)
(* order the logs are replayed, on top of rows that the checkpoint read at    *)
(* different times, each key gets back the row and the time stamp it had.   *)
ReplayRestores ==
  Up => \A k \in Keys : Visible(chain[k]) = past[N + 1][k]

(* "check that all delta markers have been recycled" (mtd.cc:1471): each    *)
(* change that waited has found its row when recovery ends.                 *)
DeltasAreRecycled ==
  Up => deltas = 0 /\ \A k \in Keys : DeltasIn(chain[k]) = 0
=============================================================================
