-------------------------- MODULE RowReplayProofs --------------------------
(* Proofs about RowReplay: time stamps follow the changes of a key, and a    *)
(* recovery that ends brings every row back, in whatever order the logs are *)
(* replayed.                                                                *)
EXTENDS RowReplay, SequenceTheorems, CountingTheorems

-----------------------------------------------------------------------------
(* Types.                                                                   *)

Even == {n \in Nat : n % 2 = 0}

\* What a lookup can see.
Versions == {v \in [ts : Even, val : Seq(Nat)] : v.ts = 0 => v = Absent}

Version(ts, val) == [ts |-> ts, val |-> val]
With(val, change) == Append(val, change)

LogRecords == [command : {"put", "modify", "replace", "remove"}, key : Keys, ts : Even,
               prev : Nat, change : Nat]
Elements == [delta : BOOLEAN, ts : Nat, val : Seq(Nat), prev : Nat]

TypeOK ==
  /\ chain \in [Keys -> Seq(Elements)] /\ nodeTs \in Even
  /\ clock \in [Writers -> Even \ {0}]
  /\ logs \in [Writers -> Seq(LogRecords)]
  /\ at \in [Writers -> Nat] /\ \A w \in Writers : at[w] <= Len(logs[w])
  /\ ckp \in [rows : [Keys -> Versions], from : Nat, to : Nat]
  /\ ckp.from <= ckp.to /\ ckp.to <= N
  /\ phase \in {"up", "replay", "aborted"} /\ deltas \in Int /\ crashes \in Nat
  /\ past \in Seq([Keys -> Versions]) /\ Len(past) > 0
  /\ N > 0 => Keys # {}

-----------------------------------------------------------------------------
(* The logs and the past.                                                   *)

\* What the change of r makes of a row.
Result(r, old) ==
  CASE r.command \in {"put", "replace"} -> Version(r.ts, <<r.change>>)
    [] r.command = "modify" -> Version(r.ts, With(old.val, r.change))
    [] r.command = "remove" -> Absent

\* The record r tells what happened in its change, which was to an older row.
Tells(r) ==
  LET old == past[r.change][r.key]
  IN  /\ r.change \in 1..N
      /\ past[r.change + 1] = [past[r.change] EXCEPT ![r.key] = Result(r, old)]
      /\ old.ts < r.ts
      /\ r.command = "modify" => old # Absent /\ r.prev = old.ts

\* Each log is in the order of the changes, and no change is in two logs.
LogsInOrder ==
  \A v, w \in Writers : \A i \in 1..Len(logs[v]), j \in 1..Len(logs[w]) :
    /\ v = w /\ i < j => logs[v][i].change < logs[w][j].change
    /\ v # w => logs[v][i].change # logs[w][j].change

\* The logs together have all changes from some change on.
Known(n) == \E r \in Records : r.change = n
Covered(n) == n >= ckp.from \/ \E r \in Records : r.change <= n

Logged ==
  /\ LogsInOrder
  /\ \A r \in Records : Tells(r)
  /\ \A m \in 0..N : Covered(m) => \A n \in m + 1..N : Known(n)
  /\ \A r, s \in Records : r.key = s.key /\ r.change < s.change => r.ts + 1 < s.ts

\* Each row of the checkpoint was read during the checkpoint.
RowsSeen == \A k \in Keys : \E n \in ckp.from..ckp.to : ckp.rows[k] = past[n + 1][k]

\* The tree has the last version of each key; the leaf remembers the time
\* stamps of those that are gone.
Current ==
  Up => \A k \in Keys :
    LET last == past[N + 1][k]
    IN  IF last = Absent
        THEN /\ chain[k] = <<>>
             /\ \A r \in Records : r.key = k => r.ts + 1 < nodeTs
        ELSE chain[k] = <<Row(last.ts, last.val)>>

-----------------------------------------------------------------------------
(* Replay.                                                                  *)

Done == UNION {{logs[w][i] : i \in 1..at[w]} : w \in Writers}

Marker(r) == DeltaMarker(Odd(r.ts), r.change, r.prev)

WaitsIn(r, c, d) == \E i \in 1..d : c[i] = Marker(r)

\* The chain c of the key k has d delta markers, of modifications that were
\* replayed, and then the row that the change n left or, with the checkpoint,
\* none.  Of the replayed records D those that are later wait.
Markers(c, k, D, d) ==
  \A i \in 1..d : \E r \in D : r.key = k /\ r.command = "modify" /\ c[i] = Marker(r)

\* A marker is later than what is behind it by more than its being odd.
Descending(c) == \A i, j \in 1..Len(c) : i < j => c[j].ts + 1 < c[i].ts

Rowless(c, k, D, d) ==
  /\ Len(c) = d /\ ckp.rows[k] = Absent
  /\ \A r \in D : r.key = k => WaitsIn(r, c, d)

RowAt(c, k, D, d, n) ==
  /\ Len(c) = d + 1 /\ past[n + 1][k] # Absent
  /\ c[d + 1] = Row(past[n + 1][k].ts, past[n + 1][k].val)
  /\ \A r \in D : r.key = k => r.change <= n \/ WaitsIn(r, c, d)

Sound(c, k, D) ==
  /\ c \in Seq(Elements) /\ Descending(c)
  /\ \E d \in Nat :
       /\ Markers(c, k, D, d)
       /\ Rowless(c, k, D, d) \/ \E n \in ckp.from..N : RowAt(c, k, D, d, n)

\* No marker stands before its row.
Settled(c) == \A i \in 1..Len(c) - 1 : ~c[i + 1].delta => c[i].prev # c[i + 1].ts

Replaying ==
  phase = "replay" =>
    /\ \A r \in Records : r.change > ckp.from
    /\ \A k \in Keys : Sound(chain[k], k, Done) /\ Settled(chain[k])

\* The markers in the tree.
Waiting == {p \in Keys \X Nat : p[2] \in 1..Len(chain[p[1]]) /\ chain[p[1]][p[2]].delta}

Counted ==
  phase # "aborted" => IsFiniteSet(Waiting) /\ deltas = Cardinality(Waiting)

IInv == TypeOK /\ Logged /\ RowsSeen /\ Current /\ Replaying /\ Counted


-----------------------------------------------------------------------------
(* The past.                                                                *)

\* A record of the logs, its parts, and the versions around its change.
LEMMA RecordParts ==
  ASSUME TypeOK, Logged, NEW r \in Records
  PROVE  /\ r \in LogRecords /\ r.key \in Keys /\ r.ts \in Even /\ r.prev \in Nat
         /\ r.change \in 1..N /\ N \in Nat /\ Tells(r)
         /\ r.command \in {"put", "modify", "replace", "remove"}
         /\ past[r.change] \in [Keys -> Versions]
         /\ past[r.change + 1] \in [Keys -> Versions]
         /\ past[r.change + 1][r.key] = Result(r, past[r.change][r.key])
         /\ \A k \in Keys : k # r.key => past[r.change + 1][k] = past[r.change][k]
<1>1. PICK w \in Writers : \E i \in 1..Len(logs[w]) : r = logs[w][i]
  BY DEF Records
<1>2. logs[w] \in Seq(LogRecords)
  BY DEF TypeOK
<1>3. r \in LogRecords
  BY <1>1, <1>2, ElementOfSeq
<1>4. Tells(r) /\ r.change \in 1..N
  BY DEF Logged, Tells
<1>5. N \in Nat /\ Len(past) = N + 1 /\ past \in Seq([Keys -> Versions])
  BY DEF TypeOK, N
<1>6. r.change \in 1..Len(past) /\ r.change + 1 \in 1..Len(past)
  BY <1>4, <1>5
<1>7. past[r.change] \in [Keys -> Versions] /\ past[r.change + 1] \in [Keys -> Versions]
  BY <1>5, <1>6, ElementOfSeq
<1>8. past[r.change + 1] = [past[r.change] EXCEPT ![r.key] = Result(r, past[r.change][r.key])]
  BY <1>4 DEF Tells
<1>9. r.key \in Keys
  BY <1>3 DEF LogRecords
<1>10. past[r.change + 1][r.key] = Result(r, past[r.change][r.key])
  BY <1>7, <1>8, <1>9
<1>11. \A k \in Keys : k # r.key => past[r.change + 1][k] = past[r.change][k]
  BY <1>7, <1>8
<1> QED
  BY <1>3, <1>4, <1>5, <1>7, <1>10, <1>11 DEF LogRecords

\* The versions of a key.
LEMMA VersionOf ==
  ASSUME TypeOK, NEW n \in 0..N, NEW k \in Keys
  PROVE  /\ past[n + 1][k] \in Versions /\ past[n + 1][k].ts \in Even
         /\ past[n + 1][k].val \in Seq(Nat)
         /\ past[n + 1][k] # Absent <=> past[n + 1][k].ts # 0
<1>1. N \in Nat /\ Len(past) = N + 1 /\ past \in Seq([Keys -> Versions])
  BY DEF TypeOK, N
<1>2. n + 1 \in 1..Len(past)
  BY <1>1
<1>3. past[n + 1] \in [Keys -> Versions]
  BY <1>1, <1>2, ElementOfSeq
<1>4. past[n + 1][k] \in Versions
  BY <1>3
<1> QED
  BY <1>4 DEF Versions, Absent

\* What a record says of the row before its change.
LEMMA OlderRow ==
  ASSUME TypeOK, Logged, NEW r \in Records
  PROVE  /\ past[r.change][r.key].ts < r.ts
         /\ r.command = "modify" => /\ past[r.change][r.key] # Absent
                                   /\ r.prev = past[r.change][r.key].ts
<1>1. Tells(r)
  BY RecordParts
<1> QED
  BY <1>1 DEF Tells

LEMMA VersionParts ==
  ASSUME NEW ts, NEW val
  PROVE  Version(ts, val).ts = ts /\ Version(ts, val).val = val
BY DEF Version

\* What changes make of rows.
LEMMA WithOne ==
  ASSUME NEW val \in Seq(Nat), NEW n \in Nat
  PROVE  val \o <<n>> = With(val, n) /\ With(val, n) \in Seq(Nat)
BY AppendIsConcat, AppendProperties DEF With

LEMMA ResultStamp ==
  ASSUME NEW r, NEW old, r.command \in {"put", "modify", "replace", "remove"}
  PROVE  /\ r.command = "remove" => Result(r, old) = Absent
         /\ r.command # "remove" => Result(r, old).ts = r.ts
<1>1. CASE r.command \in {"put", "replace"}
  BY <1>1, VersionParts DEF Result
<1>2. CASE r.command = "modify"
  BY <1>2, VersionParts DEF Result
<1>3. CASE r.command = "remove"
  BY <1>3 DEF Result
<1> QED
  BY <1>1, <1>2, <1>3

\* A key whose records lie outside the changes from m to n did not change there.
LEMMA Unchanged ==
  ASSUME TypeOK, Logged, NEW k \in Keys, NEW m \in 0..N, NEW n \in m..N, Covered(m),
         \A r \in Records : r.key = k => r.change <= m \/ r.change > n
  PROVE  past[n + 1][k] = past[m + 1][k]
<1> DEFINE T == {q \in m..n : past[q + 1][k] # past[m + 1][k]}
<1>1. SUFFICES ASSUME T # {} PROVE FALSE
  <2>1. N \in Nat
    BY DEF TypeOK, N
  <2> QED
    BY <2>1
<1>2. N \in Nat /\ T \in SUBSET Nat
  BY DEF TypeOK, N
<1>3. PICK q \in T : \A p \in T : q <= p
  <2> HIDE DEF T
  <2> QED
    BY <1>1, <1>2, LeastNatural
<1>4. q \in m + 1..n /\ q - 1 \in m..n /\ q \in Nat /\ q - 1 \notin T
  <2>1. q \in m..n /\ q # m
    BY <1>2
  <2>2. q - 1 \in m..n /\ q \in Nat
    BY <1>2, <2>1
  <2> HIDE DEF T
  <2> QED
    BY <1>2, <1>3, <2>1, <2>2
<1>5. past[q][k] = past[m + 1][k]
  <2>1. (q - 1) + 1 = q
    BY <1>4
  <2> QED
    BY <1>4, <2>1
<1>6. PICK r \in Records : r.change = q
  <2>1. q \in m + 1..N
    BY <1>2, <1>4
  <2> QED
    BY <2>1 DEF Logged, Known
<1>7. r.key # k
  BY <1>2, <1>4, <1>6
<1>8. past[q + 1][k] = past[q][k]
  BY <1>6, <1>7, RecordParts
<1> QED
  BY <1>5, <1>8

\* The last record of a key among the changes up to n says what was there then.
LEMMA LastRecord ==
  ASSUME TypeOK, Logged, NEW k \in Keys, NEW n \in 0..N,
         NEW s \in Records, s.key = k, s.change <= n
  PROVE  \E g \in Records :
           /\ g.key = k /\ g.change <= n /\ s.change <= g.change
           /\ \A r \in Records : r.key = k /\ r.change <= n => r.change <= g.change
           /\ past[n + 1][k] = Result(g, past[g.change][k])
<1> DEFINE T == {q \in 0..n : \E r \in Records : r.key = k /\ r.change = q}
<1>1. N \in Nat /\ n \in Nat
  BY DEF TypeOK, N
<1>2. T \in SUBSET Nat /\ (\A q \in T : q <= n) /\ s.change \in T
  BY <1>1, RecordParts
<1>3. PICK q \in T : \A p \in T : p <= q
  <2> HIDE DEF T
  <2> QED
    BY <1>1, <1>2, GreatestNatural
<1>4. PICK g \in Records : g.key = k /\ g.change = q
  OBVIOUS
<1>5. \A r \in Records : r.key = k /\ r.change <= n => r.change <= g.change
  <2> SUFFICES ASSUME NEW r \in Records, r.key = k, r.change <= n PROVE r.change <= g.change
    OBVIOUS
  <2>1. r.change \in T
    BY <1>1, RecordParts
  <2> QED
    BY <1>3, <1>4, <2>1
<1>6. g.change <= n /\ s.change <= g.change
  BY <1>2, <1>3, <1>4
<1>7. past[g.change + 1][k] = Result(g, past[g.change][k])
  BY <1>4, RecordParts
<1>8. past[n + 1][k] = past[g.change + 1][k]
  <2>1. g.change \in 0..N /\ n \in g.change..N
    BY <1>1, <1>6, RecordParts
  <2>2. Covered(g.change)
    <3>1. g.change <= g.change
      BY <2>1
    <3> QED
      BY <3>1 DEF Covered
  <2>3. \A r \in Records : r.key = k => r.change <= g.change \/ r.change > n
    <3> SUFFICES ASSUME NEW r \in Records, r.key = k, ~(r.change > n) PROVE r.change <= g.change
      OBVIOUS
    <3>1. r.change \in Nat
      BY RecordParts
    <3> QED
      BY <1>1, <1>5, <3>1
  <2> QED
    BY <2>1, <2>2, <2>3, Unchanged
<1> QED
  BY <1>4, <1>5, <1>6, <1>7, <1>8

\* The first record of a key after the change m is about what m left.
LEMMA FirstRecord ==
  ASSUME TypeOK, Logged, NEW k \in Keys, NEW m \in 0..N, Covered(m),
         NEW s \in Records, s.key = k, m < s.change
  PROVE  \E f \in Records :
           /\ f.key = k /\ m < f.change /\ f.change <= s.change
           /\ \A r \in Records : r.key = k /\ m < r.change => f.change <= r.change
           /\ past[f.change][k] = past[m + 1][k]
<1> DEFINE T == {q \in Nat : m < q /\ \E r \in Records : r.key = k /\ r.change = q}
<1>1. N \in Nat /\ m \in Nat
  BY DEF TypeOK, N
<1>2. T \in SUBSET Nat /\ s.change \in T
  BY <1>1, RecordParts
<1>3. PICK q \in T : \A p \in T : q <= p
  <2> HIDE DEF T
  <2> QED
    BY <1>2, LeastNatural
<1>4. PICK f \in Records : f.key = k /\ f.change = q
  OBVIOUS
<1>5. \A r \in Records : r.key = k /\ m < r.change => f.change <= r.change
  <2> SUFFICES ASSUME NEW r \in Records, r.key = k, m < r.change PROVE f.change <= r.change
    OBVIOUS
  <2>1. r.change \in T
    BY RecordParts
  <2> QED
    BY <1>3, <1>4, <2>1
<1>6. m < f.change /\ f.change <= s.change
  BY <1>2, <1>3, <1>4
<1>7. f.change \in 1..N
  BY RecordParts
<1> DEFINE p == f.change - 1
<1>8. p \in 0..N /\ p \in m..N /\ p + 1 = f.change
  BY <1>1, <1>6, <1>7
<1>9. \A r \in Records : r.key = k => r.change <= m \/ r.change > p
  <2> SUFFICES ASSUME NEW r \in Records, r.key = k, ~(r.change <= m) PROVE r.change > p
    OBVIOUS
  <2>1. r.change \in Nat
    BY RecordParts
  <2>2. f.change <= r.change
    BY <1>1, <1>5, <2>1
  <2> QED
    BY <1>7, <2>1, <2>2
<1> HIDE DEF p
<1>10. past[p + 1][k] = past[m + 1][k]
  BY <1>8, <1>9, Unchanged
<1> QED
  BY <1>4, <1>5, <1>6, <1>8, <1>10

\* The time stamp of a row separates the changes before it from those after.
LEMMA StampOrder ==
  ASSUME TypeOK, Logged, NEW k \in Keys, NEW n \in 0..N, Covered(n), past[n + 1][k] # Absent,
         NEW r \in Records, r.key = k
  PROVE  /\ n < r.change => past[n + 1][k].ts < r.ts
         /\ r.change <= n => Stamp(r) <= past[n + 1][k].ts
<1>1. r.ts \in Nat /\ r.change \in Nat /\ past[n + 1][k].ts \in Nat /\ n \in Nat
  <2>1. N \in Nat
    BY DEF TypeOK, N
  <2> QED
    BY <2>1, RecordParts, VersionOf DEF Even
<1>2. ASSUME n < r.change PROVE past[n + 1][k].ts < r.ts
  <2>1. PICK f \in Records : /\ f.key = k /\ n < f.change
                             /\ f.change <= r.change
                             /\ past[f.change][k] = past[n + 1][k]
    BY <1>2, FirstRecord
  <2>2. past[n + 1][k].ts < f.ts /\ f.ts \in Nat /\ f.change \in Nat
    <3>1. past[f.change][f.key].ts < f.ts
      BY OlderRow
    <3> QED
      BY <2>1, <3>1, RecordParts DEF Even
  <2>3. CASE f.change = r.change
    <3>1. past[r.change][k] = past[n + 1][k]
      BY <2>1, <2>3
    <3> QED
      BY <3>1, OlderRow
  <2>4. CASE f.change < r.change
    <3>1. f.ts + 1 < r.ts
      BY <2>1, <2>4 DEF Logged
    <3> QED
      BY <1>1, <2>2, <3>1
  <2> QED
    BY <1>1, <2>1, <2>2, <2>3, <2>4
<1>3. ASSUME r.change <= n PROVE Stamp(r) <= past[n + 1][k].ts
  <2>1. PICK g \in Records : /\ g.key = k /\ g.change <= n /\ r.change <= g.change
                             /\ past[n + 1][k] = Result(g, past[g.change][k])
    BY <1>3, LastRecord
  <2>2. g.command # "remove" /\ past[n + 1][k].ts = g.ts
    BY <2>1, RecordParts, ResultStamp
  <2>3. g.ts \in Nat /\ g.change \in Nat
    BY RecordParts DEF Even
  <2>4. CASE g.change = r.change
    <3>1. past[n + 1][k] = Result(r, past[r.change][k])
      <4>1. past[r.change + 1][k] = Result(r, past[r.change][k])
        BY RecordParts
      <4>2. past[g.change + 1][k] = Result(g, past[g.change][k])
        BY <2>1, RecordParts
      <4> QED
        BY <2>1, <2>4, <4>1, <4>2
    <3>2. r.command # "remove" /\ past[n + 1][k].ts = r.ts
      BY <3>1, RecordParts, ResultStamp
    <3> QED
      BY <1>1, <3>2 DEF Stamp
  <2>5. CASE r.change < g.change
    <3>1. r.ts + 1 < g.ts
      BY <2>1, <2>5 DEF Logged
    <3> QED
      BY <1>1, <2>2, <2>3, <3>1 DEF Stamp, Odd
  <2> QED
    BY <1>1, <2>1, <2>3, <2>4, <2>5
<1> QED
  BY <1>2, <1>3

\* A later change that was made to a row with the same time stamp was made to
\* the same row.
LEMMA SameRow ==
  ASSUME TypeOK, Logged, NEW k \in Keys, NEW n \in 0..N, Covered(n), past[n + 1][k] # Absent,
         NEW r \in Records, r.key = k, n < r.change,
         past[r.change][k].ts = past[n + 1][k].ts
  PROVE  past[r.change][k] = past[n + 1][k]
<1> DEFINE p == r.change - 1
<1>1. p \in 0..N /\ p \in n..N /\ p + 1 = r.change /\ r.change \in Nat /\ n \in Nat
  BY SMTT(30), RecordParts DEF TypeOK, N
<1> HIDE DEF p
<1>2. CASE \E s \in Records : s.key = k /\ n < s.change /\ s.change <= p
  <2>1. PICK s \in Records : s.key = k /\ n < s.change /\ s.change <= p
    BY <1>2
  <2>2. PICK g \in Records : /\ g.key = k /\ g.change <= p /\ s.change <= g.change
                             /\ past[p + 1][k] = Result(g, past[g.change][k])
    BY <1>1, <2>1, LastRecord
  <2>3. past[n + 1][k].ts # 0 /\ past[n + 1][k].ts \in Nat
    BY VersionOf DEF Even
  <2>4. past[p + 1][k].ts = g.ts
    <3>1. past[p + 1][k].ts # 0
      BY <1>1, <2>3
    <3>2. g.command # "remove"
      BY <2>2, <3>1, RecordParts, ResultStamp DEF Absent
    <3> QED
      BY <2>2, <3>2, RecordParts, ResultStamp
  <2>5. n < g.change
    <3>1. g.change \in Nat /\ s.change \in Nat
      BY RecordParts
    <3> QED
      BY <1>1, <2>1, <2>2, <3>1
  <2>6. past[n + 1][k].ts < g.ts /\ g.ts \in Nat
    BY <2>2, <2>5, StampOrder, RecordParts DEF Even
  <2> QED
    BY <1>1, <2>3, <2>4, <2>6
<1>3. CASE ~\E s \in Records : s.key = k /\ n < s.change /\ s.change <= p
  <2>1. \A s \in Records : s.key = k => s.change <= n \/ s.change > p
    <3> SUFFICES ASSUME NEW s \in Records, s.key = k, ~(s.change <= n) PROVE s.change > p
      OBVIOUS
    <3>1. s.change \in Nat
      BY RecordParts
    <3> QED
      BY <1>1, <1>3, <3>1
  <2>2. past[p + 1][k] = past[n + 1][k]
    BY <1>1, <2>1, Unchanged
  <2> QED
    BY <1>1, <2>2
<1> QED
  BY <1>2, <1>3

\* Two records of one change are one, and later changes have later time stamps.
LEMMA RecordOrder ==
  ASSUME TypeOK, Logged, NEW r \in Records, NEW s \in Records
  PROVE  /\ r.change = s.change => r = s
         /\ r.key = s.key /\ r.change < s.change => r.ts + 1 < s.ts
         /\ r.key = s.key /\ r.ts < s.ts + 2 => r.change <= s.change
         /\ r.key = s.key /\ r.ts = s.ts => r = s
<1>1. ASSUME r.change = s.change PROVE r = s
  <2>1. PICK v \in Writers : \E i \in 1..Len(logs[v]) : r = logs[v][i]
    BY DEF Records
  <2>2. PICK i \in 1..Len(logs[v]) : r = logs[v][i]
    BY <2>1
  <2>3. PICK w \in Writers : \E j \in 1..Len(logs[w]) : s = logs[w][j]
    BY DEF Records
  <2>4. PICK j \in 1..Len(logs[w]) : s = logs[w][j]
    BY <2>3
  <2>5. v = w
    BY <1>1, <2>2, <2>4 DEF Logged, LogsInOrder
  <2>6. ~(i < j) /\ ~(j < i)
    <3>1. r.change \in Nat /\ s.change \in Nat
      BY RecordParts
    <3>2. ASSUME i < j PROVE FALSE
      <4>1. r.change < s.change
        BY <2>2, <2>4, <2>5, <3>2 DEF Logged, LogsInOrder
      <4> QED
        BY <1>1, <3>1, <4>1
    <3>3. ASSUME j < i PROVE FALSE
      <4>1. s.change < r.change
        BY <2>2, <2>4, <2>5, <3>3 DEF Logged, LogsInOrder
      <4> QED
        BY <1>1, <3>1, <4>1
    <3> QED
      BY <3>2, <3>3
  <2>7. i = j
    BY <2>6
  <2> QED
    BY <2>2, <2>4, <2>5, <2>7
<1>2. r.key = s.key /\ r.change < s.change => r.ts + 1 < s.ts
  BY DEF Logged
<1>3. r.key = s.key /\ s.change < r.change => s.ts + 1 < r.ts
  BY DEF Logged
<1>4. r.change \in Nat /\ s.change \in Nat /\ r.ts \in Nat /\ s.ts \in Nat
  BY RecordParts DEF Even
<1> QED
  BY <1>1, <1>2, <1>3, <1>4

\* What the records say of the past is what replay needs of their time stamps.
LEMMA StampsFollow ==
  ASSUME TypeOK, Logged
  PROVE  StampsFollowChanges
<1> SUFFICES ASSUME NEW r \in Records, NEW s \in Records, r.key = s.key, r.change < s.change
             PROVE  /\ Stamp(r) < Stamp(s)
                    /\ (\A q \in Records : q.key = r.key =>
                          ~(r.change < q.change /\ q.change < s.change)) =>
                         (s.command = "modify" => s.prev = r.ts)
  BY DEF StampsFollowChanges
<1>1. r.ts + 1 < s.ts /\ r.ts \in Nat /\ s.ts \in Nat
  BY RecordOrder, RecordParts DEF Even
<1>2. Stamp(r) < Stamp(s)
  BY <1>1 DEF Stamp, Odd
<1>3. ASSUME \A q \in Records : q.key = r.key =>
               ~(r.change < q.change /\ q.change < s.change),
             s.command = "modify"
      PROVE  s.prev = r.ts
  <2> DEFINE p == s.change - 1
  <2>1. /\ p \in 0..N /\ p \in r.change..N /\ p + 1 = s.change /\ s.change \in Nat
        /\ r.change \in Nat /\ r.change \in 0..N /\ r.key \in Keys
    BY RecordParts
  <2> HIDE DEF p
  <2>2. \A q \in Records : q.key = r.key => q.change <= r.change \/ q.change > p
    <3> SUFFICES ASSUME NEW q \in Records, q.key = r.key, ~(q.change <= r.change)
                 PROVE  q.change > p
      OBVIOUS
    <3>1. q.change \in Nat
      BY RecordParts
    <3> QED
      BY <1>3, <2>1, <3>1
  <2>3. Covered(r.change)
    <3>1. r.change <= r.change
      BY <2>1
    <3> QED
      BY <3>1 DEF Covered
  <2>4. past[p + 1][r.key] = past[r.change + 1][r.key]
    BY <2>1, <2>2, <2>3, Unchanged
  <2>5. past[s.change][r.key] = Result(r, past[r.change][r.key])
    BY <2>1, <2>4, RecordParts
  <2>6. past[s.change][r.key] # Absent /\ s.prev = past[s.change][r.key].ts
    BY <1>3, OlderRow
  <2>7. r.command # "remove"
    BY <2>5, <2>6, RecordParts, ResultStamp
  <2> QED
    BY <2>5, <2>6, <2>7, RecordParts, ResultStamp
<1> QED
  BY <1>2, <1>3

-----------------------------------------------------------------------------
(* Chains.                                                                  *)

LEMMA Around ==
  ASSUME NEW S, NEW a \in Seq(S), NEW d \in S, NEW f \in Seq(S)
  PROVE  /\ (a \o <<d>>) \o f \in Seq(S)
         /\ Len((a \o <<d>>) \o f) = Len(a) + 1 + Len(f)
         /\ \A i \in 1..Len(a) : ((a \o <<d>>) \o f)[i] = a[i]
         /\ ((a \o <<d>>) \o f)[Len(a) + 1] = d
         /\ \A i \in 1..Len(f) : ((a \o <<d>>) \o f)[Len(a) + 1 + i] = f[i]
         /\ (a \o <<d>>) \o f = a \o (<<d>> \o f)
<1> DEFINE b == a \o <<d>>
<1>1. <<d>> \in Seq(S) /\ Len(<<d>>) = 1 /\ <<d>>[1] = d
  OBVIOUS
<1>2. /\ b \in Seq(S) /\ Len(b) = Len(a) + 1
      /\ \A i \in 1..Len(a) + 1 : b[i] = IF i <= Len(a) THEN a[i] ELSE <<d>>[i - Len(a)]
  BY <1>1, ConcatProperties
<1>3. Len(a) \in Nat /\ Len(f) \in Nat
  BY LenProperties
<1>4. (\A i \in 1..Len(a) : b[i] = a[i]) /\ b[Len(a) + 1] = d
  BY <1>1, <1>2, <1>3
<1>5. b \o f = a \o (<<d>> \o f)
  BY <1>1, ConcatAssociative
<1> HIDE DEF b
<1>6. /\ b \o f \in Seq(S) /\ Len(b \o f) = Len(b) + Len(f)
      /\ \A i \in 1..Len(b) + Len(f) : (b \o f)[i] = IF i <= Len(b) THEN b[i] ELSE f[i - Len(b)]
  BY ZenonT(60), <1>2, ConcatProperties
<1>7. \A i \in 1..Len(a) : (b \o f)[i] = a[i]
  BY <1>2, <1>3, <1>4, <1>6
<1>8. (b \o f)[Len(a) + 1] = d
  BY <1>2, <1>3, <1>4, <1>6
<1>9. \A i \in 1..Len(f) : (b \o f)[Len(a) + 1 + i] = f[i]
  BY <1>2, <1>3, <1>6
<1> QED
  BY <1>2, <1>5, <1>6, <1>7, <1>8, <1>9 DEF b

\* The parts of a marker.
LEMMA MarkerParts ==
  ASSUME TypeOK, Logged, NEW r \in Records
  PROVE  /\ Marker(r) \in Elements /\ Marker(r).delta /\ Marker(r).ts = r.ts + 1
         /\ Marker(r).val = <<r.change>> /\ Marker(r).prev = r.prev
         /\ \A s \in Records : Marker(r) = Marker(s) => r = s
<1>1. Marker(r) = [delta |-> TRUE, ts |-> r.ts + 1, val |-> <<r.change>>, prev |-> r.prev]
  BY DEF Marker, DeltaMarker, Odd
<1>2. r.ts + 1 \in Nat /\ r.prev \in Nat /\ <<r.change>> \in Seq(Nat)
  BY RecordParts DEF Even
<1>3. ASSUME NEW s \in Records, Marker(r) = Marker(s) PROVE r = s
  <2>1. Marker(s).val = <<s.change>>
    BY DEF Marker, DeltaMarker
  <2>2. r.change = s.change
    BY <1>1, <1>3, <2>1
  <2> QED
    BY <2>2, RecordOrder
<1> QED
  BY <1>1, <1>2, <1>3 DEF Elements

\* A row of the past as an element of a chain.
LEMMA RowParts ==
  ASSUME TypeOK, NEW n \in 0..N, NEW k \in Keys
  PROVE  LET x == Row(past[n + 1][k].ts, past[n + 1][k].val)
         IN  /\ x \in Elements /\ ~x.delta /\ x.ts = past[n + 1][k].ts
             /\ x.val = past[n + 1][k].val
<1>1. past[n + 1][k].ts \in Nat /\ past[n + 1][k].val \in Seq(Nat)
  BY VersionOf DEF Even
<1> QED
  BY <1>1 DEF Row, Elements

\* What the modification of r, made to the row that the change n left, makes of it.
LEMMA ModifiedRow ==
  ASSUME TypeOK, Logged, NEW k \in Keys, NEW n \in ckp.from..N, past[n + 1][k] # Absent,
         NEW r \in Records, r.key = k, r.command = "modify", r.prev = past[n + 1][k].ts
  PROVE  /\ n < r.change /\ r.change \in ckp.from..N
         /\ past[r.change + 1][k] = Version(r.ts, With(past[n + 1][k].val, r.change))
         /\ past[r.change + 1][k] # Absent
<1>1. n \in 0..N /\ n \in Nat /\ ckp.from \in Nat /\ Covered(n) /\ N \in Nat
  BY DEF TypeOK, Covered, N
<1>2. r.change \in 1..N /\ r.ts \in Nat
  BY RecordParts DEF Even
<1>3. past[r.change][k].ts < r.ts /\ r.prev = past[r.change][k].ts
  BY OlderRow
<1>4. n < r.change
  <2>1. past[n + 1][k].ts < r.ts /\ past[n + 1][k].ts \in Nat
    BY <1>1, <1>3, VersionOf DEF Even
  <2>2. Stamp(r) = r.ts
    BY DEF Stamp
  <2>3. ~(r.change <= n)
    BY <1>1, <1>2, <2>1, <2>2, StampOrder
  <2> QED
    BY <1>1, <1>2, <2>3
<1>5. past[r.change][k] = past[n + 1][k]
  BY <1>1, <1>3, <1>4, SameRow
<1>6. past[r.change + 1][k] = Version(r.ts, With(past[n + 1][k].val, r.change))
  <2>1. past[r.change + 1][k] = Result(r, past[n + 1][k])
    BY <1>5, RecordParts
  <2> QED
    <3>1. PICK old : old = past[n + 1][k]
      OBVIOUS
    <3>2. Result(r, old) = Version(r.ts, With(old.val, r.change))
      BY DEF Result
    <3> QED
      BY <2>1, <3>1, <3>2
<1>8. past[n + 1][k].ts \in Nat /\ past[n + 1][k].ts < r.ts
  BY <1>1, <1>3, <1>5, VersionOf DEF Even
<1>9. past[r.change + 1][k].ts = r.ts /\ r.ts # 0
  BY <1>2, <1>6, <1>8, VersionParts
<1>10. past[r.change + 1][k] # Absent
  BY <1>9 DEF Absent
<1> QED
  BY <1>1, <1>2, <1>4, <1>6, <1>10

\* Applying a marker to its row, or leaving it before one that is not its own.
LEMMA SettleSound ==
  ASSUME TypeOK, Logged, NEW k \in Keys, NEW D \in SUBSET Records,
         NEW a \in Seq(Elements), NEW x \in Elements, NEW f \in Seq(Elements),
         x.delta, Sound((a \o <<x>>) \o f, k, D), Settled(f)
  PROVE  /\ Settle(x, f) \in Seq(Elements)
         /\ Sound(a \o Settle(x, f), k, D) /\ Settled(Settle(x, f))
<1> DEFINE c == (a \o <<x>>) \o f
<1>1. /\ c \in Seq(Elements) /\ Len(c) = Len(a) + 1 + Len(f)
      /\ \A i \in 1..Len(a) : c[i] = a[i]
      /\ c[Len(a) + 1] = x
      /\ \A i \in 1..Len(f) : c[Len(a) + 1 + i] = f[i]
      /\ c = a \o (<<x>> \o f)
  BY Around
<1>2. Len(a) \in Nat /\ Len(f) \in Nat
  BY LenProperties
<1>3. Sound(c, k, D)
  OBVIOUS
<1> HIDE DEF c
<1>4. CASE f # <<>> /\ ~f[1].delta /\ x.prev = f[1].ts
  <2>1. PICK d \in Nat : /\ Markers(c, k, D, d)
                         /\ Rowless(c, k, D, d) \/ \E n \in ckp.from..N : RowAt(c, k, D, d, n)
    BY <1>3 DEF Sound
  <2>2. Len(f) \in Nat \ {0} /\ c[Len(a) + 2] = f[1]
    <3>1. Len(f) # 0
      BY <1>4, EmptySeq
    <3>2. 1 \in 1..Len(f) /\ Len(a) + 1 + 1 = Len(a) + 2
      BY <1>2, <3>1
    <3> QED
      BY <1>1, <1>2, <3>1, <3>2
  <2>3. d < Len(a) + 2
    <3> SUFFICES ASSUME ~(d < Len(a) + 2) PROVE FALSE
      OBVIOUS
    <3>1. Len(a) + 2 \in 1..d
      BY <1>2
    <3>2. PICK r \in D : c[Len(a) + 2] = Marker(r)
      BY <2>1, <3>1 DEF Markers
    <3>3. Marker(r).delta
      BY MarkerParts
    <3> QED
      BY <1>4, <2>2, <3>2, <3>3
  <2>4. d = Len(a) + 1 /\ Len(f) = 1 /\ Len(c) = d + 1 /\ \E n \in ckp.from..N : RowAt(c, k, D, d, n)
    <3>1. CASE Rowless(c, k, D, d)
      BY <1>1, <1>2, <2>2, <2>3, <3>1 DEF Rowless
    <3>2. CASE \E n \in ckp.from..N : RowAt(c, k, D, d, n)
      <4>1. Len(c) = d + 1
        BY <3>2 DEF RowAt
      <4> QED
        BY SMTT(30), <1>1, <1>2, <2>2, <2>3, <3>2, <4>1
    <3> QED
      BY <2>1, <3>1, <3>2
  <2>5. PICK n \in ckp.from..N : RowAt(c, k, D, d, n)
    BY <2>4
  <2>6. PICK q \in D : q.key = k /\ q.command = "modify" /\ x = Marker(q)
    <3>1. d \in 1..d /\ c[d] = x
      BY <1>1, <1>2, <2>4
    <3> QED
      BY <2>1, <3>1 DEF Markers
  <2>7. n \in 0..N /\ n \in Nat /\ ckp.from \in Nat
    BY DEF TypeOK, N
  <2>8. f[1] = Row(past[n + 1][k].ts, past[n + 1][k].val) /\ past[n + 1][k] # Absent
    <3>1. d + 1 = Len(a) + 2
      BY <1>2, <2>4
    <3> QED
      BY <2>2, <2>5, <3>1 DEF RowAt
  <2>9. f[1].ts = past[n + 1][k].ts /\ f[1].val = past[n + 1][k].val
    BY <2>7, <2>8, RowParts
  <2>10. x.ts = q.ts + 1 /\ x.val = <<q.change>> /\ x.prev = q.prev
    BY <2>6, MarkerParts
  <2>11. /\ n < q.change /\ q.change \in ckp.from..N
         /\ past[q.change + 1][k] = Version(q.ts, With(past[n + 1][k].val, q.change))
         /\ past[q.change + 1][k] # Absent
    BY <1>4, <2>6, <2>8, <2>9, <2>10, ModifiedRow
  <2>12. q.ts \in Nat /\ q.change \in Nat
    BY RecordParts DEF Even
  <2> DEFINE y == Row(past[q.change + 1][k].ts, past[q.change + 1][k].val)
             e == a \o <<y>>
  <2>13. Settle(x, f) = <<y>>
    <3>1. x.ts - 1 = past[q.change + 1][k].ts
      BY <2>10, <2>11, <2>12, VersionParts
    <3>2. f[1].val \o x.val = past[q.change + 1][k].val
      <4>1. past[q.change + 1][k].val = With(past[n + 1][k].val, q.change)
        BY <2>11, VersionParts
      <4>2. past[n + 1][k].val \o <<q.change>> = With(past[n + 1][k].val, q.change)
        BY <2>7, <2>12, VersionOf, WithOne
      <4> QED
        BY <2>9, <2>10, <4>1, <4>2
    <3> QED
      BY <1>4, <3>1, <3>2 DEF Settle
  <2>14. y \in Elements /\ ~y.delta /\ y.ts = q.ts
    <3>1. q.change \in 0..N
      BY <2>7, <2>11, <2>12
    <3> QED
      BY <2>11, <3>1, RowParts, VersionParts
  <2>15. <<y>> \in Seq(Elements) /\ Len(<<y>>) = 1
    BY <2>14
  <2>16. e \in Seq(Elements) /\ Len(e) = d /\ (\A i \in 1..Len(a) : e[i] = c[i]) /\ e[d] = y
    <3> HIDE DEF y
    <3>1. /\ e \in Seq(Elements) /\ Len(e) = Len(a) + 1
          /\ \A i \in 1..Len(a) : (a \o <<y>>)[i] = a[i]
          /\ (a \o <<y>>)[Len(a) + 1] = y
      BY <2>14, <2>15, <1>2, ConcatProperties
    <3> QED
      BY <1>1, <2>4, <3>1
  <2> HIDE DEF y, e
  <2>17. Descending(c)
    BY <1>3 DEF Sound
  <2>18. Descending(e)
    <3> SUFFICES ASSUME NEW i \in 1..Len(e), NEW j \in 1..Len(e), i < j PROVE e[j].ts + 1 < e[i].ts
      BY DEF Descending
    <3>1. i \in 1..Len(a) /\ i \in 1..Len(c) /\ e[i] = c[i] /\ j \in 1..Len(c)
      BY <1>1, <1>2, <2>4, <2>16
    <3>2. CASE j = d
      <4>1. c[d].ts + 1 < c[i].ts /\ c[d] = x
        BY <1>1, <1>2, <2>4, <2>17, <3>1, <3>2 DEF Descending
      <4>2. c[i].ts \in Nat
        <5>1. c[i] \in Elements
          BY <1>1, <3>1, ElementOfSeq
        <5> QED
          BY <5>1 DEF Elements
      <4> QED
        BY <2>10, <2>12, <2>14, <2>16, <3>1, <3>2, <4>1, <4>2
    <3>3. CASE j # d
      <4>1. j \in 1..Len(a) /\ e[j] = c[j]
        BY <1>2, <2>4, <2>16, <3>3
      <4> QED
        BY <2>17, <3>1, <4>1 DEF Descending
    <3> QED
      BY <3>2, <3>3
  <2>19. Markers(e, k, D, Len(a))
    <3> SUFFICES ASSUME NEW i \in 1..Len(a)
                 PROVE  \E r \in D : r.key = k /\ r.command = "modify" /\ e[i] = Marker(r)
      BY DEF Markers
    <3>1. i \in 1..d /\ e[i] = c[i]
      BY <1>2, <2>4, <2>16
    <3> QED
      BY <2>1, <3>1 DEF Markers
  <2>20. RowAt(e, k, D, Len(a), q.change)
    <3>1. Len(e) = Len(a) + 1 /\ e[Len(a) + 1] = y
      BY <2>4, <2>16
    <3>2. ASSUME NEW r \in D, r.key = k
          PROVE  r.change <= q.change \/ WaitsIn(r, e, Len(a))
      <4>1. r.change \in Nat
        BY RecordParts
      <4>2. CASE r.change <= n
        BY <2>7, <2>11, <2>12, <4>1, <4>2
      <4>3. CASE WaitsIn(r, c, d)
        <5>1. PICK i \in 1..d : c[i] = Marker(r)
          BY <4>3 DEF WaitsIn
        <5>2. CASE i = d
          <6>1. Marker(q) = Marker(r)
            BY <1>1, <2>4, <2>6, <5>1, <5>2
          <6>2. q = r
            BY <6>1, MarkerParts
          <6> QED
            BY <4>1, <6>2
        <5>3. CASE i # d
          <6>1. i \in 1..Len(a) /\ e[i] = Marker(r)
            BY <1>2, <2>4, <2>16, <5>1, <5>3
          <6> QED
            BY <6>1 DEF WaitsIn
        <5> QED
          BY <5>2, <5>3
      <4> QED
        BY <2>5, <3>2, <4>2, <4>3 DEF RowAt
    <3> QED
      BY <2>11, <3>1, <3>2 DEF RowAt, y
  <2>21. Sound(e, k, D)
    BY <1>2, <2>11, <2>16, <2>18, <2>19, <2>20 DEF Sound
  <2>22. Settled(<<y>>)
    BY DEF Settled
  <2> QED
    BY <2>13, <2>15, <2>21, <2>22 DEF e
<1>5. CASE ~(f # <<>> /\ ~f[1].delta /\ x.prev = f[1].ts)
  <2>1. Settle(x, f) = <<x>> \o f
    BY <1>5 DEF Settle
  <2>2. /\ <<x>> \in Seq(Elements) /\ <<x>> \o f \in Seq(Elements) /\ Len(<<x>> \o f) = 1 + Len(f)
        /\ (<<x>> \o f)[1] = x /\ \A i \in 1..Len(f) : (<<x>> \o f)[i + 1] = f[i]
    <3>1. <<x>> \in Seq(Elements) /\ Len(<<x>>) = 1 /\ <<x>>[1] = x
      OBVIOUS
    <3>2. /\ <<x>> \o f \in Seq(Elements) /\ Len(<<x>> \o f) = 1 + Len(f)
          /\ \A i \in 1..1 + Len(f) : (<<x>> \o f)[i] = IF i <= 1 THEN <<x>>[i] ELSE f[i - 1]
      BY <3>1, ConcatProperties
    <3> QED
      BY <1>2, <3>1, <3>2
  <2> DEFINE g == <<x>> \o f
  <2> HIDE DEF g
  <2>3. Settled(g)
    <3> SUFFICES ASSUME NEW i \in 1..Len(g) - 1, ~g[i + 1].delta PROVE g[i].prev # g[i + 1].ts
      BY DEF Settled
    <3>1. i \in 1..Len(f) /\ g[i + 1] = f[i]
      BY <1>2, <2>2 DEF g
    <3>2. CASE i = 1
      <4>1. g[i] = x /\ f # <<>>
        BY <1>2, <2>2, <3>1, <3>2, EmptySeq DEF g
      <4> QED
        BY <1>5, <3>1, <3>2, <4>1
    <3>3. CASE i # 1
      <4>1. i - 1 \in 1..Len(f) /\ i - 1 \in 1..Len(f) - 1 /\ (i - 1) + 1 = i
        BY <1>2, <3>1, <3>3
      <4>2. g[i] = f[i - 1]
        BY <2>2, <4>1 DEF g
      <4> QED
        BY <3>1, <4>1, <4>2 DEF Settled
    <3> QED
      BY <3>2, <3>3
  <2> QED
    BY <1>1, <1>3, <2>1, <2>2, <2>3 DEF g
<1> QED
  BY <1>4, <1>5

\* The markers of a sound chain are those that DeltasIn counts.
LEMMA MarkerCount ==
  ASSUME TypeOK, Logged, NEW k \in Keys, NEW D \in SUBSET Records, NEW c, NEW d \in Nat,
         c \in Seq(Elements), Markers(c, k, D, d),
         Rowless(c, k, D, d) \/ \E n \in ckp.from..N : RowAt(c, k, D, d, n)
  PROVE  /\ DeltasIn(c) = d /\ d <= Len(c) /\ Len(c) <= d + 1
         /\ \A i \in 1..Len(c) : c[i].delta <=> i <= d
<1>1. d <= Len(c) /\ Len(c) <= d + 1 /\ Len(c) \in Nat
  BY LenProperties DEF Rowless, RowAt
<1>2. \A i \in 1..d : c[i].delta
  <2> SUFFICES ASSUME NEW i \in 1..d PROVE c[i].delta
    OBVIOUS
  <2>1. PICK r \in D : c[i] = Marker(r)
    BY DEF Markers
  <2> QED
    BY <2>1, MarkerParts
<1>3. \A i \in 1..Len(c) : d < i => ~c[i].delta
  <2> SUFFICES ASSUME NEW i \in 1..Len(c), d < i PROVE ~c[i].delta
    OBVIOUS
  <2>1. i = d + 1 /\ Len(c) = d + 1
    BY <1>1
  <2>2. PICK n \in ckp.from..N : RowAt(c, k, D, d, n)
    BY <2>1 DEF Rowless
  <2>3. n \in 0..N
    BY DEF TypeOK, N
  <2> QED
    BY <2>1, <2>2, <2>3, RowParts DEF RowAt
<1>4. {i \in 1..Len(c) : c[i].delta} = 1..d
  BY <1>1, <1>2, <1>3
<1>5. Cardinality(1..d) = d
  BY FS_Interval
<1>6. DeltasIn(c) = d
  BY <1>4, <1>5 DEF DeltasIn
<1>7. \A i \in 1..Len(c) : c[i].delta <=> i <= d
  <2> SUFFICES ASSUME NEW i \in 1..Len(c) PROVE c[i].delta <=> i <= d
    OBVIOUS
  <2>1. i <= d => i \in 1..d
    OBVIOUS
  <2> QED
    BY <1>2, <1>3, <2>1
<1> QED
  BY <1>1, <1>6, <1>7

\* CleanUp settles the d markers of c from the last to the first; f has the chain
\* behind the markers that are left.
Settles(f, c, d, n) ==
  f = [i \in 0..n |-> IF i = 0 THEN SubSeq(c, d + 1, Len(c)) ELSE Settle(c[d + 1 - i], f[i - 1])]

LEMMA SettlingExists ==
  ASSUME NEW c, NEW d \in Nat
  PROVE  \A n \in Nat : \E f : Settles(f, c, d, n)
<1> DEFINE Step(i, y) == IF i = 0 THEN SubSeq(c, d + 1, Len(c)) ELSE Settle(c[d + 1 - i], y)
           T == {n \in Nat : ~ \E f : f = [i \in 0..n |-> Step(i, f[i - 1])]}
<1>1. SUFFICES ASSUME T # {} PROVE FALSE
  BY DEF Settles
<1> HIDE DEF Step
<1>2. PICK n \in T : \A m \in T : n <= m
  <2>1. T \in SUBSET Nat
    OBVIOUS
  <2> HIDE DEF T
  <2> QED
    BY <1>1, <2>1, LeastNatural
<1>3. CASE n = 0
  <2> DEFINE f == [i \in 0..0 |-> Step(0, 0)]
  <2>1. \A y : Step(0, y) = Step(0, 0)
    BY DEF Step
  <2>2. f = [i \in 0..0 |-> Step(i, f[i - 1])]
    BY <2>1
  <2> QED
    BY <1>3, <2>2
<1>4. CASE n # 0
  <2>1. n \in Nat /\ n - 1 \in Nat
    BY <1>4
  <2>2. n - 1 \notin T
    BY <1>2, <2>1
  <2>3. PICK f : f = [i \in 0..n - 1 |-> Step(i, f[i - 1])]
    BY <2>1, <2>2
  <2> DEFINE g == [i \in 0..n |-> IF i = n THEN Step(n, f[n - 1]) ELSE f[i]]
  <2>4. ASSUME NEW i \in 0..n PROVE g[i] = Step(i, g[i - 1])
    <3>1. CASE i = n
      <4>1. n - 1 \in 0..n /\ n - 1 # n
        BY <2>1
      <4>2. g[n - 1] = f[n - 1]
        BY <4>1
      <4> QED
        BY <3>1, <4>2
    <3>2. CASE i # n /\ i # 0
      <4>1. i \in 0..n - 1 /\ i - 1 \in 0..n /\ i - 1 # n
        BY <2>1, <3>2
      <4>2. g[i] = f[i] /\ g[i - 1] = f[i - 1]
        BY <3>2, <4>1
      <4>3. f[i] = Step(i, f[i - 1])
        BY <2>3, <4>1
      <4> QED
        BY <4>2, <4>3
    <3>3. CASE i # n /\ i = 0
      <4>1. 0 \in 0..n - 1
        BY <2>1
      <4>2. g[0] = f[0] /\ f[0] = Step(0, f[0 - 1])
        BY <2>3, <3>3, <4>1
      <4> QED
        BY <3>3, <4>2 DEF Step
    <3> QED
      BY <3>1, <3>2, <3>3
  <2>5. g = [i \in 0..n |-> g[i]]
    OBVIOUS
  <2> HIDE DEF g
  <2>6. g = [i \in 0..n |-> Step(i, g[i - 1])]
    BY <2>4, <2>5
  <2> QED
    BY <2>6
<1> QED
  BY <1>3, <1>4

LEMMA CleanUpRecursion ==
  ASSUME NEW c, NEW d \in Nat, DeltasIn(c) = d
  PROVE  \E f : /\ f[0] = SubSeq(c, d + 1, Len(c))
                /\ \A i \in 1..d : f[i] = Settle(c[d + 1 - i], f[i - 1])
                /\ CleanUp(c) = f[d]
<1> DEFINE Is(h) == Settles(h, c, d, d)
           f == CHOOSE g : Is(g)
<1>1. CleanUp(c) = f[d]
  BY DEF CleanUp, Settles
<1>2. \E g : Is(g)
  BY SettlingExists
<1> HIDE DEF Is
<1>3. Is(f)
  BY <1>2
<1> HIDE DEF f
<1>4. 0 \in 0..d /\ f[0] = SubSeq(c, d + 1, Len(c))
  BY <1>3 DEF Is, Settles
<1>5. \A i \in 1..d : f[i] = Settle(c[d + 1 - i], f[i - 1])
  <2> SUFFICES ASSUME NEW i \in 1..d PROVE f[i] = Settle(c[d + 1 - i], f[i - 1])
    OBVIOUS
  <2>1. i \in 0..d /\ i # 0
    OBVIOUS
  <2>2. f[i] = IF i = 0 THEN SubSeq(c, d + 1, Len(c)) ELSE Settle(c[d + 1 - i], f[i - 1])
    BY <1>3, <2>1 DEF Is, Settles
  <2> QED
    BY <2>1, <2>2
<1> QED
  BY <1>1, <1>4, <1>5

LEMMA CleanUpSound ==
  ASSUME TypeOK, Logged, NEW k \in Keys, NEW D \in SUBSET Records, NEW c, Sound(c, k, D)
  PROVE  Sound(CleanUp(c), k, D) /\ Settled(CleanUp(c))
<1>1. c \in Seq(Elements)
  BY DEF Sound
<1>2. PICK d \in Nat : /\ Markers(c, k, D, d)
                       /\ Rowless(c, k, D, d) \/ \E n \in ckp.from..N : RowAt(c, k, D, d, n)
  BY DEF Sound
<1>3. /\ DeltasIn(c) = d /\ d <= Len(c) /\ Len(c) <= d + 1
      /\ \A i \in 1..Len(c) : c[i].delta <=> i <= d
  BY <1>1, <1>2, MarkerCount
<1>4. PICK f : /\ f[0] = SubSeq(c, d + 1, Len(c))
               /\ \A i \in 1..d : f[i] = Settle(c[d + 1 - i], f[i - 1])
               /\ CleanUp(c) = f[d]
  BY <1>3, CleanUpRecursion
<1>5. Len(c) \in Nat /\ \A i \in 1..Len(c) : c[i] \in Elements
  BY <1>1, LenProperties, ElementOfSeq
<1> DEFINE P(i) == /\ f[i] \in Seq(Elements) /\ Settled(f[i])
                   /\ Sound(SubSeq(c, 1, d - i) \o f[i], k, D)
           T == {i \in 0..d : ~P(i)}
<1>6. P(0)
  <2>1. /\ SubSeq(c, d + 1, Len(c)) \in Seq(Elements)
        /\ Len(SubSeq(c, d + 1, Len(c))) = IF d + 1 <= Len(c) THEN Len(c) - (d + 1) + 1 ELSE 0
    BY <1>3, <1>5, SubSeqProperties
  <2>2. Len(f[0]) <= 1 /\ f[0] \in Seq(Elements)
    BY <1>3, <1>4, <1>5, <2>1
  <2>3. Settled(f[0])
    <3>1. Len(f[0]) \in Nat
      BY <2>2, LenProperties
    <3>2. 1..Len(f[0]) - 1 = {}
      BY <2>2, <3>1
    <3> QED
      BY <3>2 DEF Settled
  <2>4. SubSeq(c, 1, d) \o SubSeq(c, d + 1, Len(c)) = c
    <3>1. 1 \in 1..Len(c) + 1 /\ d \in 1 - 1..Len(c) /\ Len(c) \in d..Len(c)
      BY <1>3, <1>5
    <3>2. SubSeq(c, 1, d) \o SubSeq(c, d + 1, Len(c)) = SubSeq(c, 1, Len(c))
      BY <1>1, <3>1, ConcatAdjacentSubSeq
    <3> QED
      BY <1>1, <3>2, SubSeqFull
  <2>5. d - 0 = d
    OBVIOUS
  <2> QED
    BY <1>4, <2>2, <2>3, <2>4, <2>5
<1>7. ASSUME NEW i \in 1..d, P(i - 1) PROVE P(i)
  <2> DEFINE a == SubSeq(c, 1, d - i)
             x == c[d + 1 - i]
             g == f[i - 1]
  <2>1. d + 1 - i \in 1..d /\ d - i \in 0..d /\ d + 1 - i \in 1..Len(c) /\ d - (i - 1) = d + 1 - i
        /\ (d + 1 - i) - 1 = d - i /\ 1 \in 1..Len(c)
    BY <1>3, <1>5
  <2>2. x \in Elements /\ x.delta
    BY <1>3, <1>5, <2>1
  <2>3. a \in Seq(Elements)
    <3>1. \A j \in 1..d - i : c[j] \in Elements
      BY <1>3, <1>5, <2>1
    <3> QED
      BY <2>1, <3>1, SubSeqProperties
  <2>4. SubSeq(c, 1, d + 1 - i) = a \o <<x>>
    <3>1. SubSeq(c, 1, d + 1 - i) = SubSeq(c, 1, (d + 1 - i) - 1) \o <<x>>
      BY <1>1, <2>1, SubSeqRecursiveSecond
    <3> QED
      BY <2>1, <3>1
  <2>5. g \in Seq(Elements) /\ Settled(g) /\ Sound((a \o <<x>>) \o g, k, D)
    BY <1>7, <2>1, <2>4
  <2>6. f[i] = Settle(x, g)
    BY <1>4
  <2> HIDE DEF a, x, g
  <2>7. Settle(x, g) \in Seq(Elements) /\ Sound(a \o Settle(x, g), k, D) /\ Settled(Settle(x, g))
    BY <2>2, <2>3, <2>5, SettleSound
  <2> QED
    BY <2>6, <2>7 DEF a
<1> HIDE DEF P
<1>8. T = {}
  <2> SUFFICES ASSUME T # {} PROVE FALSE
    OBVIOUS
  <2>1. T \in SUBSET Nat
    OBVIOUS
  <2>2. PICK i \in T : \A j \in T : i <= j
    <3> HIDE DEF T
    <3> QED
      BY <2>1, LeastNatural
  <2>3. i # 0
    BY <1>6
  <2>4. i \in 1..d /\ i - 1 \in 0..d /\ ~(i <= i - 1)
    BY <2>3
  <2>5. P(i - 1)
    BY <2>2, <2>4
  <2> QED
    BY <1>7, <2>4, <2>5
<1>9. P(d)
  <2>1. d \in 0..d
    OBVIOUS
  <2> QED
    BY <1>8, <2>1
<1>10. SubSeq(c, 1, d - d) \o f[d] = f[d]
  <2>1. d - d = 0 /\ 0 < 1
    OBVIOUS
  <2>2. SubSeq(c, 1, 0) = <<>>
    BY SubSeqEmpty
  <2> QED
    BY <1>9, <2>1, <2>2, ConcatEmptySeq DEF P
<1> QED
  BY <1>4, <1>9, <1>10 DEF P

\* What Later finds.
LEMMA LaterIs ==
  ASSUME NEW c \in Seq(Elements), NEW ts \in Nat
  PROVE  /\ Later(c, ts) \in 0..Len(c)
         /\ \A j \in 1..Later(c, ts) : c[j].delta /\ c[j].ts > ts
         /\ Later(c, ts) < Len(c) => ~(c[Later(c, ts) + 1].delta /\ c[Later(c, ts) + 1].ts > ts)
<1> DEFINE Is(i) == /\ \A j \in 1..i : c[j].delta /\ c[j].ts > ts
                    /\ i < Len(c) => ~(c[i + 1].delta /\ c[i + 1].ts > ts)
           T == {i \in 0..Len(c) : i < Len(c) => ~(c[i + 1].delta /\ c[i + 1].ts > ts)}
<1>1. Len(c) \in Nat
  BY LenProperties
<1>2. Len(c) \in T /\ T \in SUBSET Nat
  BY <1>1
<1>3. PICK i \in T : \A j \in T : i <= j
  <2> HIDE DEF T
  <2> QED
    BY <1>2, LeastNatural
<1>4. \A j \in 1..i : c[j].delta /\ c[j].ts > ts
  <2> SUFFICES ASSUME NEW j \in 1..i PROVE c[j].delta /\ c[j].ts > ts
    OBVIOUS
  <2>1. j - 1 \in 0..Len(c) /\ j - 1 < Len(c) /\ ~(i <= j - 1) /\ (j - 1) + 1 = j
    BY <1>1
  <2>2. j - 1 \notin T
    BY <1>3, <2>1
  <2> QED
    BY <2>1, <2>2
<1>5. i \in 0..Len(c) /\ Is(i)
  BY <1>4
<1>6. Later(c, ts) = CHOOSE j \in 0..Len(c) : Is(j)
  BY DEF Later
<1> HIDE DEF Is
<1>7. Later(c, ts) \in 0..Len(c) /\ Is(Later(c, ts))
  BY <1>5, <1>6
<1> QED
  BY <1>7 DEF Is

\* A chain that ends with the row that the record q left.
LEMMA EndsWithRow ==
  ASSUME TypeOK, Logged, NEW k \in Keys, NEW D \in SUBSET Records, NEW a \in Seq(Elements),
         Descending(a), Markers(a, k, D, Len(a)),
         NEW q \in Records, q.key = k, q.command # "remove", q.change \in ckp.from..N,
         \A i \in 1..Len(a) : q.ts + 1 < a[i].ts,
         \A s \in D : s.key = k => s.change <= q.change \/ WaitsIn(s, a, Len(a)),
         NEW y, y = Row(past[q.change + 1][k].ts, past[q.change + 1][k].val)
  PROVE  Sound(a \o <<y>>, k, D)
<1>1. q.change \in 0..N /\ q.ts \in Nat /\ ckp.from \in Nat
  BY RecordParts DEF Even, TypeOK
<1>2. past[q.change + 1][k].ts = q.ts
  BY RecordParts, ResultStamp
<1>3. past[q.change + 1][k] # Absent
  <2>1. past[q.change][k] \in Versions /\ past[q.change][k].ts < q.ts
    BY OlderRow, RecordParts
  <2>2. past[q.change][k].ts \in Nat
    BY <2>1 DEF Versions, Even
  <2> QED
    BY <1>1, <1>2, <2>1, <2>2 DEF Absent
<1>4. y \in Elements /\ ~y.delta /\ y.ts = q.ts
  BY <1>1, <1>2, RowParts
<1> DEFINE e == a \o <<y>>
<1>5. Len(a) \in Nat /\ \A i \in 1..Len(a) : a[i] \in Elements
  BY LenProperties, ElementOfSeq
<1>6. /\ e \in Seq(Elements) /\ Len(e) = Len(a) + 1
      /\ (\A i \in 1..Len(a) : e[i] = a[i]) /\ e[Len(a) + 1] = y
  <2>1. <<y>> \in Seq(Elements) /\ Len(<<y>>) = 1 /\ <<y>>[1] = y
    BY <1>4
  <2>2. /\ e \in Seq(Elements) /\ Len(e) = Len(a) + Len(<<y>>)
        /\ \A i \in 1..Len(a) + Len(<<y>>) :
             e[i] = IF i <= Len(a) THEN a[i] ELSE <<y>>[i - Len(a)]
    BY <2>1, ConcatProperties
  <2> HIDE DEF e
  <2> QED
    BY <1>5, <2>1, <2>2
<1> HIDE DEF e
<1>7. Descending(e)
  <2> SUFFICES ASSUME NEW i \in 1..Len(e), NEW j \in 1..Len(e), i < j PROVE e[j].ts + 1 < e[i].ts
    BY DEF Descending
  <2>1. i \in 1..Len(a) /\ e[i] = a[i]
    BY <1>5, <1>6
  <2>2. CASE j = Len(a) + 1
    BY <1>4, <1>6, <2>1, <2>2
  <2>3. CASE j # Len(a) + 1
    <3>1. j \in 1..Len(a) /\ e[j] = a[j]
      BY <1>5, <1>6, <2>3
    <3> QED
      BY <2>1, <3>1 DEF Descending
  <2> QED
    BY <2>2, <2>3
<1>8. Markers(e, k, D, Len(a))
  BY <1>6 DEF Markers
<1>9. RowAt(e, k, D, Len(a), q.change)
  <2>1. ASSUME NEW s \in D, s.key = k PROVE s.change <= q.change \/ WaitsIn(s, e, Len(a))
    BY <1>6, <2>1 DEF WaitsIn
  <2> QED
    BY <1>3, <1>6, <2>1 DEF RowAt
<1>10. Sound(e, k, D)
  BY <1>5, <1>6, <1>7, <1>8, <1>9 DEF Sound
<1> QED
  BY <1>10 DEF e

\* A record that finds something later under its key is told of already.
LEMMA OutOfDateSound ==
  ASSUME TypeOK, Logged, NEW k \in Keys, NEW D \in SUBSET Records, NEW c, Sound(c, k, D),
         NEW r \in Records, r \notin D, r.key = k, OutOfDate(c, r)
  PROVE  Sound(c, k, D \cup {r})
<1>1. c \in Seq(Elements) /\ Descending(c)
  BY DEF Sound
<1>2. PICK d \in Nat : /\ Markers(c, k, D, d)
                       /\ Rowless(c, k, D, d) \/ \E n \in ckp.from..N : RowAt(c, k, D, d, n)
  BY DEF Sound
<1>3. /\ d <= Len(c) /\ Len(c) <= d + 1 /\ Len(c) \in Nat
      /\ \A i \in 1..Len(c) : c[i].delta <=> i <= d
  BY <1>1, <1>2, MarkerCount, LenProperties
<1>4. r.ts \in Nat /\ Stamp(r) \in Nat /\ (Stamp(r) = r.ts \/ Stamp(r) = r.ts + 1)
      /\ r.change \in Nat
  BY RecordParts DEF Even, Stamp, Odd
<1> DEFINE i == Later(c, Stamp(r))
<1>5. i \in 0..Len(c) /\ i < Len(c) /\ c[i + 1].ts >= Stamp(r)
      /\ ~(c[i + 1].delta /\ c[i + 1].ts > Stamp(r))
  BY <1>1, <1>4, LaterIs DEF OutOfDate
<1> HIDE DEF i
<1>6. i + 1 \in 1..Len(c) /\ c[i + 1].ts \in Nat
  <2>1. i + 1 \in 1..Len(c)
    BY <1>3, <1>5
  <2>2. c[i + 1] \in Elements
    BY <1>1, <2>1, ElementOfSeq
  <2> QED
    BY <2>1, <2>2 DEF Elements
<1>7. CASE i + 1 <= d
  <2>1. c[i + 1].delta /\ c[i + 1].ts = Stamp(r)
    BY <1>3, <1>4, <1>5, <1>6, <1>7
  <2>2. i + 1 \in 1..d
    BY <1>6, <1>7
  <2>3. PICK q \in D : q.key = k /\ c[i + 1] = Marker(q)
    BY <1>2, <2>2 DEF Markers
  <2>4. Stamp(r) = q.ts + 1 /\ q.ts \in Nat /\ q.change \in Nat
    BY <2>1, <2>3, MarkerParts, RecordParts DEF Even
  <2>5. q # r
    OBVIOUS
  <2>6. CASE Stamp(r) = r.ts + 1
    <3>1. q.ts = r.ts
      BY <1>4, <2>4, <2>6
    <3> QED
      BY <2>3, <2>5, <3>1, RecordOrder
  <2>7. CASE Stamp(r) = r.ts
    <3>1. q.ts < r.ts + 2 /\ r.ts < q.ts + 2
      BY <1>4, <2>4, <2>7
    <3>2. q.change <= r.change
      BY <2>3, <3>1, RecordOrder
    <3>3. r.change <= q.change
      BY <2>3, <3>1, RecordOrder
    <3>4. q.change = r.change
      BY <1>4, <2>4, <3>2, <3>3
    <3> QED
      BY <2>5, <3>4, RecordOrder
  <2> QED
    BY <1>4, <2>6, <2>7
<1>8. CASE ~(i + 1 <= d)
  <2>1. i + 1 = d + 1 /\ Len(c) = d + 1
    BY <1>3, <1>6, <1>8
  <2>2. PICK n \in ckp.from..N : RowAt(c, k, D, d, n)
    BY <1>2, <2>1 DEF Rowless
  <2>3. n \in 0..N /\ n \in Nat /\ Covered(n)
    BY DEF TypeOK, N, Covered
  <2>4. past[n + 1][k] # Absent /\ c[i + 1].ts = past[n + 1][k].ts
    BY <2>1, <2>2, <2>3, RowParts DEF RowAt
  <2>5. r.change <= n
    <3> SUFFICES ASSUME n < r.change PROVE FALSE
      BY <1>4, <2>3
    <3>1. past[n + 1][k].ts < r.ts
      BY <2>3, <2>4, StampOrder
    <3> QED
      BY <1>4, <1>5, <1>6, <2>4, <3>1
  <2>6. RowAt(c, k, D \cup {r}, d, n)
    BY <2>2, <2>5 DEF RowAt
  <2>7. Markers(c, k, D \cup {r}, d)
    BY <1>2 DEF Markers
  <2> QED
    BY <1>1, <2>6, <2>7 DEF Sound
<1> QED
  BY <1>7, <1>8

\* Where a record that is not out of date goes in the chain.
LEMMA AppliedSound ==
  ASSUME TypeOK, Logged, NEW k \in Keys, NEW D \in SUBSET Records, NEW c, Sound(c, k, D),
         NEW r \in Records, r \notin D, r.key = k, r.change > ckp.from,
         ~OutOfDate(c, r), r.command # "remove",
         NEW i, i = Later(c, Stamp(r))
  PROVE  Sound(SubSeq(c, 1, i) \o Applied(SubSeq(c, i + 1, Len(c)), r), k, D \cup {r})
<1>1. c \in Seq(Elements) /\ Descending(c)
  BY DEF Sound
<1>2. PICK d \in Nat : /\ Markers(c, k, D, d)
                       /\ Rowless(c, k, D, d) \/ \E n \in ckp.from..N : RowAt(c, k, D, d, n)
  BY DEF Sound
<1>3. /\ d <= Len(c) /\ Len(c) <= d + 1 /\ Len(c) \in Nat
      /\ \A j \in 1..Len(c) : c[j].delta <=> j <= d
  BY <1>1, <1>2, MarkerCount, LenProperties
<1>4. r.ts \in Nat /\ Stamp(r) = r.ts /\ r.change \in Nat /\ r.change \in ckp.from..N
  BY RecordParts DEF Even, Stamp, TypeOK
<1>5. \A j \in 1..Len(c) : c[j] \in Elements /\ c[j].ts \in Nat
  <2> SUFFICES ASSUME NEW j \in 1..Len(c) PROVE c[j] \in Elements /\ c[j].ts \in Nat
    OBVIOUS
  <2>1. c[j] \in Elements
    BY <1>1, ElementOfSeq
  <2> QED
    BY <2>1 DEF Elements
<1>6. /\ i \in 0..Len(c) /\ \A j \in 1..i : c[j].delta /\ c[j].ts > r.ts
      /\ i < Len(c) => ~(c[i + 1].delta /\ c[i + 1].ts > r.ts)
  BY <1>1, <1>4, LaterIs
<1>7. i <= d
  <2>1. CASE i = 0
    BY <2>1
  <2>2. CASE i # 0
    <3>1. i \in 1..i /\ i \in 1..Len(c)
      BY <1>6, <2>2
    <3> QED
      BY <1>3, <1>6, <3>1
  <2> QED
    BY <2>1, <2>2
<1>8. \A j \in i + 1..Len(c) : c[j].ts < r.ts
  <2> SUFFICES ASSUME NEW j \in i + 1..Len(c) PROVE c[j].ts < r.ts
    OBVIOUS
  <2>1. i < Len(c) /\ i + 1 \in 1..Len(c) /\ j \in 1..Len(c) /\ c[i + 1].ts \in Nat
    BY <1>3, <1>5, <1>6
  <2>2. c[i + 1].ts < r.ts
    <3>1. ~(c[i + 1].ts >= r.ts)
      BY <1>4, <2>1 DEF OutOfDate
    <3> QED
      BY <1>4, <2>1, <3>1
  <2>3. CASE j = i + 1
    BY <2>2, <2>3
  <2>4. CASE j # i + 1
    <3>1. c[j].ts + 1 < c[i + 1].ts
      BY <1>1, <1>6, <2>1, <2>4 DEF Descending
    <3> QED
      BY <1>4, <1>5, <2>1, <2>2, <3>1
  <2> QED
    BY <2>3, <2>4
<1> DEFINE a == SubSeq(c, 1, i)
           t == SubSeq(c, i + 1, Len(c))
           E == D \cup {r}
<1>9. a \in Seq(Elements) /\ Len(a) = i /\ \A j \in 1..i : a[j] = c[j]
  <2>1. \A j \in 1..i : c[j] \in Elements
    BY <1>3, <1>5, <1>6
  <2>2. /\ a \in Seq(Elements) /\ Len(a) = IF 1 <= i THEN i - 1 + 1 ELSE 0
        /\ \A j \in 1..i - 1 + 1 : a[j] = c[1 + j - 1]
    BY <1>6, <2>1, SubSeqProperties
  <2> HIDE DEF a
  <2>3. i - 1 + 1 = i /\ \A j \in 1..i : 1 + j - 1 = j
    BY <1>6
  <2>4. Len(a) = i
    BY <1>6, <2>2, <2>3
  <2> QED
    BY <2>2, <2>3, <2>4
<1>10. t \in Seq(Elements) /\ Len(t) = Len(c) - i /\ \A j \in 1..Len(c) - i : t[j] = c[i + j]
  <2>1. \A j \in i + 1..Len(c) : c[j] \in Elements
    BY <1>3, <1>5, <1>6
  <2>2. /\ t \in Seq(Elements)
        /\ Len(t) = IF i + 1 <= Len(c) THEN Len(c) - (i + 1) + 1 ELSE 0
        /\ \A j \in 1..Len(c) - (i + 1) + 1 : t[j] = c[(i + 1) + j - 1]
    BY <1>3, <1>6, <2>1, SubSeqProperties
  <2> HIDE DEF t
  <2>3. Len(t) = Len(c) - i
    BY <1>3, <1>6, <2>2
  <2>4. ASSUME NEW j \in 1..Len(c) - i PROVE t[j] = c[i + j]
    <3>1. j \in 1..Len(c) - (i + 1) + 1 /\ (i + 1) + j - 1 = i + j
      BY <1>3, <1>6
    <3> QED
      BY <2>2, <3>1
  <2> QED
    BY <2>2, <2>3, <2>4
<1>21. ASSUME NEW j \in 1..i PROVE r.ts + 2 < c[j].ts /\ j \in 1..Len(c)
  <2>1. j \in 1..d /\ j \in 1..Len(c)
    BY <1>2, <1>3, <1>6, <1>7
  <2>2. PICK q \in D : q.key = k /\ c[j] = Marker(q)
    BY <1>2, <2>1 DEF Markers
  <2>3. c[j].ts = q.ts + 1 /\ q.ts \in Nat /\ q.change \in Nat /\ q # r
    BY <2>2, MarkerParts, RecordParts DEF Even
  <2>4. r.ts < q.ts + 2
    BY <1>4, <1>6, <2>3
  <2>5. r.change <= q.change
    BY <2>2, <2>4, RecordOrder
  <2>6. r.change < q.change
    <3>1. r.change # q.change
      BY <2>2, <2>3, RecordOrder
    <3> QED
      BY <1>4, <2>3, <2>5, <3>1
  <2>7. r.ts + 1 < q.ts
    BY <2>2, <2>6, RecordOrder
  <2> QED
    BY <1>4, <2>1, <2>3, <2>7
<1>11. Descending(a) /\ \A j \in 1..Len(a) : r.ts + 1 < a[j].ts
  <2> HIDE DEF a
  <2>1. \A j \in 1..Len(a) : j \in 1..Len(c) /\ a[j] = c[j] /\ r.ts + 2 < c[j].ts
    BY <1>9, <1>21
  <2>2. \A j \in 1..Len(a) : r.ts + 1 < a[j].ts
    BY <1>4, <1>5, <2>1
  <2> QED
    BY <1>1, <2>1, <2>2 DEF Descending
<1>12. Markers(a, k, E, i)
  <2> HIDE DEF a
  <2>1. \A j \in 1..i : j \in 1..d
    BY <1>6, <1>7
  <2> QED
    BY <1>2, <1>9, <2>1 DEF Markers
<1>13. E \in SUBSET Records
  OBVIOUS
<1>14. ASSUME NEW n \in ckp.from..N, RowAt(c, k, D, d, n)
       PROVE  n < r.change
  <2>1. n \in 0..N /\ n \in Nat /\ Covered(n)
    BY DEF TypeOK, N, Covered
  <2>2. past[n + 1][k] # Absent /\ c[d + 1].ts = past[n + 1][k].ts /\ Len(c) = d + 1
    BY <1>14, <2>1, RowParts DEF RowAt
  <2>3. c[d + 1].ts < r.ts /\ c[d + 1].ts \in Nat
    <3>1. d + 1 \in i + 1..Len(c) /\ d + 1 \in 1..Len(c)
      BY <1>3, <1>6, <1>7, <2>2
    <3> QED
      BY <1>5, <1>8, <3>1
  <2> SUFFICES ASSUME r.change <= n PROVE FALSE
    BY <1>4, <2>1
  <2>4. Stamp(r) <= past[n + 1][k].ts
    BY <2>1, <2>2, StampOrder
  <2> QED
    BY <1>4, <2>2, <2>3, <2>4
<1>15. \A s \in E : s.key = k => s.change <= r.change \/ WaitsIn(s, a, Len(a))
  <2> SUFFICES ASSUME NEW s \in E, s.key = k
               PROVE  s.change <= r.change \/ WaitsIn(s, a, Len(a))
    OBVIOUS
  <2> HIDE DEF a
  <2>1. s \in Records /\ s.change \in Nat /\ s.ts \in Nat
    BY <1>13, RecordParts DEF Even
  <2>2. CASE s = r
    BY <1>4, <2>2
  <2>3. CASE WaitsIn(s, c, d)
    <3>1. PICK j \in 1..d : c[j] = Marker(s)
      BY <2>3 DEF WaitsIn
    <3>2. CASE j <= i
      <4>1. j \in 1..Len(a) /\ a[j] = Marker(s)
        BY <1>6, <1>9, <3>1, <3>2
      <4> QED
        BY <4>1 DEF WaitsIn
    <3>3. CASE ~(j <= i)
      <4>1. j \in i + 1..Len(c)
        BY <1>3, <1>6, <3>3
      <4>2. s.ts + 1 < r.ts
        BY <1>8, <2>1, <3>1, <4>1, MarkerParts
      <4>3. s.ts < r.ts + 2
        BY <1>4, <2>1, <4>2
      <4> QED
        BY <2>1, <4>3, RecordOrder
    <3> QED
      BY <3>2, <3>3
  <2>4. CASE s \in D /\ ~WaitsIn(s, c, d)
    <3>1. PICK n \in ckp.from..N : RowAt(c, k, D, d, n)
      BY <1>2, <2>4 DEF Rowless
    <3>2. s.change <= n /\ n < r.change /\ n \in Nat
      BY <1>14, <2>4, <3>1 DEF RowAt, TypeOK, N
    <3> QED
      BY <1>4, <2>1, <3>2
  <2> QED
    BY <2>2, <2>3, <2>4
<1> DEFINE y == Row(past[r.change + 1][k].ts, past[r.change + 1][k].val)
<1>16. Sound(a \o <<y>>, k, E)
  <2> HIDE DEF a, E, y
  <2>1. Markers(a, k, E, Len(a))
    BY <1>9, <1>12
  <2>2. y = Row(past[r.change + 1][k].ts, past[r.change + 1][k].val)
    BY DEF y
  <2> QED
    BY <1>4, <1>9, <1>11, <1>13, <1>15, <2>1, <2>2, EndsWithRow
<1>17. past[r.change + 1][k] = Result(r, past[r.change][k])
  BY RecordParts
<1>18. CASE r.command \in {"put", "replace"}
  <2>1. past[r.change + 1][k] = Version(r.ts, <<r.change>>)
    BY <1>17, <1>18 DEF Result
  <2>2. past[r.change + 1][k].ts = r.ts /\ past[r.change + 1][k].val = <<r.change>>
    BY <2>1, VersionParts
  <2>3. Applied(t, r) = <<y>>
    BY <1>18, <2>2 DEF Applied
  <2> QED
    BY <1>16, <2>3
<1>19. CASE r.command = "modify" /\ t # <<>> /\ t[1].ts = r.prev
  <2> HIDE DEF a, t, E, y
  <2>1. i < Len(c) /\ t[1] = c[i + 1] /\ i + 1 \in 1..Len(c)
    <3>1. Len(t) \in Nat /\ Len(t) # 0
      BY <1>10, <1>19, EmptySeq
    <3>2. i < Len(c) /\ 1 \in 1..Len(c) - i
      BY <1>3, <1>6, <1>10, <3>1
    <3> QED
      BY <1>6, <1>10, <3>2
  <2>2. i = d
    <3> SUFFICES ASSUME i # d PROVE FALSE
      OBVIOUS
    <3>1. i + 1 \in 1..d
      BY <1>3, <1>6, <1>7
    <3>2. PICK q \in D : q.key = k /\ c[i + 1] = Marker(q)
      BY <1>2, <3>1 DEF Markers
    <3>3. r.prev = q.ts + 1 /\ q.ts \in Even
      BY <1>19, <2>1, <3>2, MarkerParts, RecordParts
    <3>4. r.prev \in Even
      <4>1. r.prev = past[r.change][k].ts /\ past[r.change][k] \in Versions
        BY <1>19, OlderRow, RecordParts
      <4> QED
        BY <4>1 DEF Versions
    <3> QED
      BY <3>3, <3>4 DEF Even
  <2>3. PICK n \in ckp.from..N : RowAt(c, k, D, d, n)
    BY <1>2, <2>1, <2>2 DEF Rowless
  <2>4. n \in 0..N
    BY DEF TypeOK, N
  <2>5. /\ past[n + 1][k] # Absent /\ t[1].ts = past[n + 1][k].ts /\ Len(c) = d + 1
        /\ t[1].val = past[n + 1][k].val
    BY <2>1, <2>2, <2>3, <2>4, RowParts DEF RowAt
  <2>6. past[r.change + 1][k] = Version(r.ts, With(past[n + 1][k].val, r.change))
    BY ZenonT(60), <1>19, <2>5, ModifiedRow
  <2>7. /\ past[r.change + 1][k].ts = r.ts
        /\ past[r.change + 1][k].val = With(past[n + 1][k].val, r.change)
    BY <2>6, VersionParts
  <2>8. Tail(t) = <<>>
    <3>1. Len(t) = 1
      BY <1>3, <1>10, <2>2, <2>5
    <3>2. Tail(t) \in Seq(Elements) /\ Len(Tail(t)) = Len(t) - 1
      BY <1>10, <1>19, HeadTailProperties
    <3>3. Len(Tail(t)) = 0
      BY <3>1, <3>2
    <3> QED
      BY <3>2, <3>3, EmptySeq
  <2>9. Append(t[1].val, r.change) = past[r.change + 1][k].val
    BY <2>5, <2>7 DEF With
  <2>10. Applied(t, r) = <<y>> \o <<>>
    BY <1>19, <2>7, <2>8, <2>9 DEF Applied, y
  <2>11. y \in Elements
    <3>1. r.change \in 0..N
      BY RecordParts
    <3> QED
      BY <3>1, RowParts DEF y
  <2>12. <<y>> \o <<>> = <<y>>
    <3>1. <<y>> \in Seq(Elements)
      BY <2>11
    <3> QED
      BY <3>1, ConcatEmptySeq
  <2> QED
    BY <1>16, <2>10, <2>12 DEF a, t, E
<1>20. CASE r.command = "modify" /\ ~(t # <<>> /\ t[1].ts = r.prev)
  <2>13. PICK x : x = Marker(r)
    OBVIOUS
  <2> DEFINE e == (a \o <<x>>) \o t
  <2>1. Marker(r) \in Elements /\ Marker(r).ts = r.ts + 1
    BY MarkerParts
  <2>2. Applied(t, r) = <<Marker(r)>> \o t
    BY <1>20 DEF Applied, Marker
  <2> HIDE DEF a, t
  <2>12. /\ e \in Seq(Elements) /\ Len(e) = Len(a) + 1 + Len(t)
         /\ \A j \in 1..Len(a) : e[j] = a[j]
         /\ e[Len(a) + 1] = Marker(r)
         /\ \A j \in 1..Len(t) : e[Len(a) + 1 + j] = t[j]
         /\ e = a \o (<<Marker(r)>> \o t)
    <3>1. x \in Elements
      BY <2>1, <2>13
    <3>2. /\ e \in Seq(Elements) /\ Len(e) = Len(a) + 1 + Len(t)
          /\ \A j \in 1..Len(a) : e[j] = a[j]
          /\ e[Len(a) + 1] = x
          /\ \A j \in 1..Len(t) : e[Len(a) + 1 + j] = t[j]
          /\ e = a \o (<<x>> \o t)
      <4>1. a \in Seq(Elements) /\ t \in Seq(Elements)
        BY <1>9, <1>10
      <4> QED
        BY <3>1, <4>1, Around
    <3> HIDE DEF e
    <3> QED
      BY <2>13, <3>2
  <2> HIDE DEF e
  <2>3. /\ e \in Seq(Elements) /\ Len(e) = i + 1 + (Len(c) - i)
        /\ \A j \in 1..i : e[j] = c[j]
        /\ e[i + 1] = Marker(r)
        /\ \A j \in 1..Len(c) - i : e[i + 1 + j] = c[i + j]
        /\ e = a \o (<<Marker(r)>> \o t)
    BY <1>9, <1>10, <2>12
  <2>4. \A j \in i + 1..Len(c) : e[j + 1] = c[j]
    <3> SUFFICES ASSUME NEW j \in i + 1..Len(c) PROVE e[j + 1] = c[j]
      OBVIOUS
    <3>1. j - i \in 1..Len(c) - i /\ i + 1 + (j - i) = j + 1 /\ i + (j - i) = j
      <4>1. i \in Nat /\ Len(c) \in Nat /\ j \in Nat /\ i < j /\ j <= Len(c)
        BY <1>3, <1>6
      <4> QED
        BY <4>1
    <3> QED
      BY <2>3, <3>1
  <2>5. Len(e) = Len(c) + 1
    BY <1>3, <1>6, <2>3
  <2>6. Markers(e, k, E, d + 1)
    <3> SUFFICES ASSUME NEW j \in 1..d + 1
                 PROVE  \E s \in E : s.key = k /\ s.command = "modify" /\ e[j] = Marker(s)
      BY DEF Markers
    <3>1. CASE j <= i
      <4>1. j \in 1..i /\ j \in 1..d
        BY <1>2, <1>3, <1>6, <1>7, <3>1
      <4>2. e[j] = c[j]
        BY <2>3, <4>1
      <4> QED
        BY <1>2, <4>1, <4>2 DEF Markers
    <3>2. CASE j = i + 1
      BY <1>20, <2>3, <3>2
    <3>3. CASE j > i + 1
      <4>1. j - 1 \in 1..d /\ j - 1 \in i + 1..Len(c) /\ (j - 1) + 1 = j
        BY <1>3, <1>6, <3>3
      <4>2. e[j] = c[j - 1]
        BY <2>4, <4>1
      <4> QED
        BY <1>2, <4>1, <4>2 DEF Markers
    <3> QED
      BY <1>6, <3>1, <3>2, <3>3
  <2>7. \A s \in D : s.key = k /\ WaitsIn(s, c, d) => WaitsIn(s, e, d + 1)
    <3> SUFFICES ASSUME NEW s \in D, WaitsIn(s, c, d) PROVE WaitsIn(s, e, d + 1)
      OBVIOUS
    <3>1. PICK j \in 1..d : c[j] = Marker(s)
      BY DEF WaitsIn
    <3>2. CASE j <= i
      <4>2. j \in 1..i /\ j \in 1..d + 1
        BY <1>2, <1>6, <3>2
      <4>1. j \in 1..d + 1 /\ e[j] = Marker(s)
        BY <2>3, <3>1, <4>2
      <4> QED
        BY <4>1 DEF WaitsIn
    <3>3. CASE ~(j <= i)
      <4>1. j \in i + 1..Len(c) /\ j + 1 \in 1..d + 1
        BY <1>3, <1>6, <3>3
      <4>2. e[j + 1] = Marker(s)
        BY <2>4, <3>1, <4>1
      <4> QED
        BY <4>1, <4>2 DEF WaitsIn
    <3> QED
      BY <3>2, <3>3
  <2>8. WaitsIn(r, e, d + 1)
    <3>1. i + 1 \in 1..d + 1
      BY <1>6, <1>7
    <3> QED
      BY <2>3, <3>1 DEF WaitsIn
  <2>9. Descending(e)
    <3> SUFFICES ASSUME NEW j \in 1..Len(e), NEW m \in 1..Len(e), j < m PROVE e[m].ts + 1 < e[j].ts
      BY DEF Descending
    <3>2. CASE j <= i /\ m <= i
      <4>1. j \in 1..i /\ m \in 1..i /\ j \in 1..Len(c) /\ m \in 1..Len(c)
        BY <1>3, <1>6, <3>2
      <4> QED
        BY <1>1, <2>3, <4>1 DEF Descending
    <3>3. CASE j <= i /\ m = i + 1
      <4>1. j \in 1..i
        BY <1>6, <3>3
      <4>2. e[j].ts = c[j].ts /\ r.ts + 2 < c[j].ts /\ c[j].ts \in Nat
        BY <1>5, <1>21, <2>3, <4>1
      <4>3. e[m].ts = r.ts + 1
        BY <2>1, <2>3, <3>3
      <4> QED
        BY <1>4, <4>2, <4>3
    <3>4. CASE j <= i /\ m > i + 1
      <4>1. j \in 1..i /\ m - 1 \in i + 1..Len(c) /\ (m - 1) + 1 = m /\ j < m - 1
            /\ j \in 1..Len(c) /\ m - 1 \in 1..Len(c)
        BY <1>3, <1>6, <2>5, <3>4
      <4>2. e[m] = c[m - 1] /\ e[j] = c[j]
        BY <2>3, <2>4, <4>1
      <4> QED
        BY <1>1, <4>1, <4>2 DEF Descending
    <3>5. CASE j = i + 1
      <4>1. m - 1 \in i + 1..Len(c) /\ (m - 1) + 1 = m /\ m - 1 \in 1..Len(c)
        BY <1>3, <1>6, <2>5, <3>5
      <4>2. e[m] = c[m - 1] /\ c[m - 1].ts < r.ts /\ c[m - 1].ts \in Nat
        BY <1>5, <1>8, <2>4, <4>1
      <4>3. e[j].ts = r.ts + 1
        BY <2>1, <2>3, <3>5
      <4> QED
        BY <1>4, <4>2, <4>3
    <3>6. CASE j > i + 1
      <4>1. m - 1 \in i + 1..Len(c) /\ (m - 1) + 1 = m /\ j - 1 \in i + 1..Len(c) /\ (j - 1) + 1 = j
            /\ m - 1 \in 1..Len(c) /\ j - 1 \in 1..Len(c) /\ j - 1 < m - 1
        BY <1>3, <1>6, <2>5, <3>6
      <4>2. e[m] = c[m - 1] /\ e[j] = c[j - 1]
        BY <2>4, <4>1
      <4> QED
        BY <1>1, <4>1, <4>2 DEF Descending
    <3> QED
      BY <1>6, <3>2, <3>3, <3>4, <3>5, <3>6
  <2>10. CASE Rowless(c, k, D, d)
    <3>1. Len(e) = d + 1 /\ ckp.rows[k] = Absent
      BY <2>5, <2>10 DEF Rowless
    <3>2. \A s \in E : s.key = k => WaitsIn(s, e, d + 1)
      BY <2>7, <2>8, <2>10 DEF Rowless
    <3>3. Rowless(e, k, E, d + 1)
      BY <3>1, <3>2 DEF Rowless
    <3>5. d + 1 \in Nat
      OBVIOUS
    <3>4. Sound(e, k, E)
      <4> HIDE DEF E
      <4> QED
        BY <2>3, <2>6, <2>9, <3>3, <3>5 DEF Sound
    <3> QED
      BY <2>2, <2>3, <3>4 DEF a, t
  <2>11. CASE \E n \in ckp.from..N : RowAt(c, k, D, d, n)
    <3>1. PICK n \in ckp.from..N : RowAt(c, k, D, d, n)
      BY <2>11
    <3>2. Len(c) = d + 1
      BY <3>1 DEF RowAt
    <3>3. e[(d + 1) + 1] = c[d + 1]
      <4>1. d + 1 \in i + 1..Len(c)
        BY <1>6, <1>7, <3>2
      <4> QED
        BY <2>4, <4>1
    <3>4. \A s \in E : s.key = k => s.change <= n \/ WaitsIn(s, e, d + 1)
      BY <2>7, <2>8, <3>1 DEF RowAt
    <3>5. RowAt(e, k, E, d + 1, n)
      <4>1. Len(e) = (d + 1) + 1
        BY <2>5, <3>2
      <4> QED
        BY <3>1, <3>3, <3>4, <4>1 DEF RowAt
    <3>6. d + 1 \in Nat
      OBVIOUS
    <3>7. Sound(e, k, E)
      <4> HIDE DEF E
      <4> QED
        BY <2>3, <2>6, <2>9, <3>5, <3>6 DEF Sound
    <3> QED
      BY <2>2, <2>3, <3>7 DEF a, t
  <2> QED
    BY <1>2, <2>10, <2>11
<1> QED
  BY <1>18, <1>19, <1>20, RecordParts


\* A replayed record is told of by its chain.
LEMMA ReplayedSound ==
  ASSUME TypeOK, Logged, NEW k \in Keys, NEW D \in SUBSET Records, NEW c, Sound(c, k, D),
         Settled(c), NEW r \in Records, r \notin D, r.key = k, r.change > ckp.from,
         ~Unparsable(c, r)
  PROVE  Sound(Replayed(c, r), k, D \cup {r}) /\ Settled(Replayed(c, r))
<1>1. CASE OutOfDate(c, r)
  <2>1. Replayed(c, r) = c
    BY <1>1 DEF Replayed
  <2> QED
    BY <1>1, <2>1, OutOfDateSound
<1>2. CASE ~OutOfDate(c, r)
  <2>1. r.command # "remove"
    BY <1>2 DEF Unparsable
  <2> DEFINE i == Later(c, Stamp(r))
             e == SubSeq(c, 1, i) \o Applied(SubSeq(c, i + 1, Len(c)), r)
             E == D \cup {r}
  <2>2. Replayed(c, r) = CleanUp(e)
    BY <1>2 DEF Replayed
  <2>3. Sound(e, k, E)
    BY <1>2, <2>1, AppliedSound
  <2>4. E \in SUBSET Records
    OBVIOUS
  <2> HIDE DEF e, E
  <2>5. Sound(CleanUp(e), k, E) /\ Settled(CleanUp(e))
    BY <2>3, <2>4, CleanUpSound
  <2> QED
    BY <2>2, <2>5 DEF E
<1> QED
  BY <1>1, <1>2

\* The records of other keys are no matter of a chain.
LEMMA OtherSound ==
  ASSUME TypeOK, Logged, NEW k \in Keys, NEW D \in SUBSET Records, NEW c, Sound(c, k, D),
         NEW r, r.key # k
  PROVE  Sound(c, k, D \cup {r})
<1>1. PICK d \in Nat : /\ Markers(c, k, D, d)
                       /\ Rowless(c, k, D, d) \/ \E n \in ckp.from..N : RowAt(c, k, D, d, n)
  BY DEF Sound
<1>2. Markers(c, k, D \cup {r}, d)
  BY <1>1 DEF Markers
<1>3. CASE Rowless(c, k, D, d)
  <2>1. Rowless(c, k, D \cup {r}, d)
    BY <1>3 DEF Rowless
  <2> QED
    BY <1>1, <1>2, <2>1 DEF Sound
<1>4. CASE \E n \in ckp.from..N : RowAt(c, k, D, d, n)
  <2>1. \E n \in ckp.from..N : RowAt(c, k, D \cup {r}, d, n)
    BY <1>4 DEF RowAt
  <2> QED
    BY <1>1, <1>2, <2>1 DEF Sound
<1> QED
  BY <1>1, <1>3, <1>4


-----------------------------------------------------------------------------
(* The logs after a crash.                                                  *)

Ordered(log) == \A i, j \in 1..Len(log) : i < j => log[i].change < log[j].change

\* The records up to the change m are the first ones.
LEMMA CutAt ==
  ASSUME NEW log \in Seq(LogRecords), Ordered(log), NEW m \in Nat,
         NEW p, p = Cardinality({i \in DOMAIN log : log[i].change <= m})
  PROVE  p \in 0..Len(log) /\ \A i \in 1..Len(log) : log[i].change <= m <=> i <= p
<1> DEFINE T == {i \in 0..Len(log) : \A j \in 1..Len(log) : j <= i => log[j].change <= m}
<1>1. Len(log) \in Nat /\ DOMAIN log = 1..Len(log)
  BY LenProperties
<1>2. \A i \in 1..Len(log) : log[i].change \in Nat
  <2> SUFFICES ASSUME NEW i \in 1..Len(log) PROVE log[i].change \in Nat
    OBVIOUS
  <2>1. log[i] \in LogRecords
    BY ElementOfSeq
  <2> QED
    BY <2>1 DEF LogRecords
<1>3. 0 \in T /\ T \in SUBSET Nat /\ \A i \in T : i <= Len(log)
  BY <1>1
<1>4. PICK t \in T : \A i \in T : i <= t
  <2> HIDE DEF T
  <2> QED
    BY <1>1, <1>3, GreatestNatural
<1>5. t \in 0..Len(log) /\ \A j \in 1..Len(log) : j <= t => log[j].change <= m
  OBVIOUS
<1>6. ASSUME NEW i \in 1..Len(log), ~(i <= t) PROVE ~(log[i].change <= m)
  <2>1. t + 1 \in 0..Len(log) /\ t + 1 \in 1..Len(log) /\ ~(t + 1 <= t) /\ t + 1 <= i
    BY <1>1, <1>5, <1>6
  <2>2. t + 1 \notin T
    <3> HIDE DEF T
    <3> QED
      BY <1>4, <2>1
  <2>3. PICK j \in 1..Len(log) : j <= t + 1 /\ ~(log[j].change <= m)
    BY <2>1, <2>2
  <2>4. j = t + 1
    <3>1. ~(j <= t)
      BY <1>5, <2>3
    <3> QED
      BY <1>5, <2>3, <3>1
  <2>5. CASE i = j
    BY <2>3, <2>5
  <2>6. CASE i # j
    <3>1. log[j].change < log[i].change
      BY <2>1, <2>4, <2>6 DEF Ordered
    <3> QED
      BY <1>2, <2>3, <3>1
  <2> QED
    BY <2>5, <2>6
<1> HIDE DEF T
<1>7. {i \in DOMAIN log : log[i].change <= m} = 1..t
  <2>1. \A i \in 1..Len(log) : log[i].change <= m <=> i <= t
    BY <1>5, <1>6
  <2> QED
    BY <1>1, <1>5, <2>1
<1>8. p = t
  <2>1. t \in Nat
    BY <1>5
  <2>2. Cardinality(1..t) = t
    <3>1. Cardinality(1..t) = IF 1 > t THEN 0 ELSE t - 1 + 1
      <4>1. 1 \in Int /\ t \in Int
        BY <2>1
      <4> QED
        BY <4>1, FS_Interval
    <3>2. (IF 1 > t THEN 0 ELSE t - 1 + 1) = t
      BY <2>1
    <3> QED
      BY <3>1, <3>2
  <2> QED
    BY <1>7, <2>2
<1> QED
  BY <1>5, <1>6, <1>8

\* What is kept of a log are its records of the changes after the checkpoint's
\* first up to n.
LEMMA KeptParts ==
  ASSUME TypeOK, NEW log \in Seq(LogRecords), Ordered(log), NEW n \in Nat
  PROVE  /\ Kept(log, n) \in Seq(LogRecords)
         /\ \E a \in Nat :
              /\ \A i \in 1..Len(Kept(log, n)) :
                   /\ a + i \in 1..Len(log) /\ Kept(log, n)[i] = log[a + i]
                   /\ ckp.from < log[a + i].change /\ log[a + i].change <= n
              /\ \A i \in 1..Len(log) :
                   ckp.from < log[i].change /\ log[i].change <= n =>
                     i - a \in 1..Len(Kept(log, n)) /\ a + (i - a) = i
<1> DEFINE UpTo(m) == Cardinality({i \in DOMAIN log : log[i].change <= m})
           a == UpTo(ckp.from)
           b == UpTo(n)
<1>1. Kept(log, n) = SubSeq(log, a + 1, b)
  BY DEF Kept
<1>2. ckp.from \in Nat /\ Len(log) \in Nat
  BY LenProperties DEF TypeOK
<1>3. a \in 0..Len(log) /\ \A i \in 1..Len(log) : log[i].change <= ckp.from <=> i <= a
  BY <1>2, CutAt
<1>4. b \in 0..Len(log) /\ \A i \in 1..Len(log) : log[i].change <= n <=> i <= b
  BY CutAt
<1> HIDE DEF a, b, UpTo
<1>5. \A i \in 1..Len(log) : log[i] \in LogRecords /\ log[i].change \in Nat
  <2> SUFFICES ASSUME NEW i \in 1..Len(log) PROVE log[i] \in LogRecords /\ log[i].change \in Nat
    OBVIOUS
  <2>1. log[i] \in LogRecords
    BY ElementOfSeq
  <2> QED
    BY <2>1 DEF LogRecords
<1> DEFINE g == SubSeq(log, a + 1, b)
<1>6. /\ g \in Seq(LogRecords) /\ Len(g) = IF a + 1 <= b THEN b - (a + 1) + 1 ELSE 0
      /\ \A i \in 1..b - (a + 1) + 1 : g[i] = log[(a + 1) + i - 1]
  <2>1. a + 1 \in Int /\ b \in Int /\ \A i \in a + 1..b : log[i] \in LogRecords
    BY <1>2, <1>3, <1>4, <1>5
  <2> QED
    BY <2>1, SubSeqProperties
<1> HIDE DEF g
<1>7. ASSUME NEW i \in 1..Len(g)
      PROVE  /\ a + i \in 1..Len(log) /\ g[i] = log[a + i]
             /\ ckp.from < log[a + i].change /\ log[a + i].change <= n
  <2>1. a + 1 <= b /\ i \in 1..b - (a + 1) + 1 /\ (a + 1) + i - 1 = a + i
    BY <1>3, <1>4, <1>6
  <2>2. a + i \in 1..Len(log) /\ ~(a + i <= a) /\ a + i <= b
    BY <1>2, <1>3, <1>4, <2>1
  <2>3. g[i] = log[a + i]
    BY <1>6, <2>1
  <2> QED
    BY <1>2, <1>3, <1>4, <1>5, <2>2, <2>3
<1>8. ASSUME NEW i \in 1..Len(log), ckp.from < log[i].change, log[i].change <= n
      PROVE  i - a \in 1..Len(g) /\ a + (i - a) = i
  <2>1. ~(i <= a) /\ i <= b
    BY <1>2, <1>3, <1>4, <1>5, <1>8
  <2> QED
    BY <1>3, <1>4, <1>6, <2>1
<1>9. a \in Nat
  BY <1>3
<1> QED
  BY <1>1, <1>6, <1>7, <1>8, <1>9 DEF g


-----------------------------------------------------------------------------
(* The inductive invariant.                                                 *)

LEMMA EvenSteps ==
  ASSUME NEW m \in Even, NEW n \in Even
  PROVE  m \in Nat /\ m + 2 \in Even /\ m % 2 = 0 /\ m - (m % 2) + 2 = m + 2
         /\ (m < n => m + 1 < n)
BY DEF Even

\* Rows without delta markers.
LEMMA NoneWaits ==
  ASSUME NEW ch, \A k \in Keys : ch[k] = <<>> \/ \E ts, val : ch[k] = <<Row(ts, val)>>
  PROVE  /\ {p \in Keys \X Nat : p[2] \in 1..Len(ch[p[1]]) /\ ch[p[1]][p[2]].delta} = {}
         /\ \A k \in Keys : DeltasIn(ch[k]) = 0
<1>1. ASSUME NEW k \in Keys PROVE \A i \in 1..Len(ch[k]) : ~ch[k][i].delta
  <2>1. CASE ch[k] = <<>>
    <3>1. 1..Len(ch[k]) = {}
      BY <2>1
    <3> QED
      BY <3>1
  <2>2. CASE \E ts, val : ch[k] = <<Row(ts, val)>>
    <3>1. PICK ts, val : ch[k] = <<Row(ts, val)>>
      BY <2>2
    <3>2. PICK x : x = Row(ts, val)
      OBVIOUS
    <3>3. ~x.delta
      BY <3>2 DEF Row
    <3>4. Len(ch[k]) = 1 /\ ch[k][1] = x
      BY <3>1, <3>2
    <3> QED
      BY <3>3, <3>4
  <2> QED
    BY <2>1, <2>2
<1>2. ASSUME NEW k \in Keys PROVE DeltasIn(ch[k]) = 0
  <2>1. {i \in 1..Len(ch[k]) : ch[k][i].delta} = {}
    BY <1>1
  <2> QED
    BY <2>1, FS_EmptySet DEF DeltasIn
<1>3. ASSUME NEW p \in Keys \X Nat
      PROVE  ~(p[2] \in 1..Len(ch[p[1]]) /\ ch[p[1]][p[2]].delta)
  <2>1. p[1] \in Keys
    OBVIOUS
  <2> QED
    BY <1>1, <2>1
<1> QED
  BY <1>2, <1>3

LEMMA UpChains ==
  ASSUME Current, Up
  PROVE  Waiting = {} /\ \A k \in Keys : DeltasIn(chain[k]) = 0
<1>1. \A k \in Keys : chain[k] = <<>> \/ \E ts, val : chain[k] = <<Row(ts, val)>>
  BY DEF Current
<1> QED
  BY <1>1, NoneWaits DEF Waiting

LEMMA Initially ==
  ASSUME Init
  PROVE  IInv
<1>1. N = 0 /\ past[1] = [k \in Keys |-> Absent] /\ Len(past) = 1
  BY DEF Init, N
<1>2. 0 \in Even /\ 2 \in Even \ {0} /\ Absent \in Versions /\ <<>> \in Seq(Nat)
  BY DEF Even, Absent, Versions
<1>3. Records = {}
  BY DEF Init, Records
<1>4. TypeOK
  <2>1. \A w \in Writers : logs[w] = <<>> /\ at[w] = 0 /\ Len(logs[w]) = 0
    BY DEF Init
  <2>2. past \in Seq([Keys -> Versions])
    BY <1>2 DEF Init
  <2>3. chain \in [Keys -> Seq(Elements)] /\ logs \in [Writers -> Seq(LogRecords)]
    BY DEF Init
  <2>4. ckp \in [rows : [Keys -> Versions], from : Nat, to : Nat] /\ ckp.from = 0 /\ ckp.to = 0
    BY <1>2 DEF Init
  <2> QED
    BY <1>1, <1>2, <2>1, <2>2, <2>3, <2>4 DEF Init, TypeOK
<1>5. Logged
  <2>1. LogsInOrder
    <3>1. \A w \in Writers : 1..Len(logs[w]) = {}
      BY DEF Init
    <3> QED
      BY <3>1 DEF LogsInOrder
  <2>2. \A m \in 0..N : m + 1..N = {}
    BY <1>1
  <2> QED
    BY <1>3, <2>1, <2>2 DEF Logged
<1>6. RowsSeen
  <2>1. 0 \in ckp.from..ckp.to /\ 0 + 1 = 1
    BY DEF Init
  <2> QED
    BY <1>1, <2>1 DEF Init, RowsSeen
<1>7. Current
  BY <1>1, <1>3 DEF Current, Init
<1>8. Replaying
  BY DEF Init, Replaying
<1>9. Counted
  <2>1. Waiting = {}
    BY <1>7, UpChains DEF Init, Up
  <2> QED
    BY <2>1, FS_EmptySet DEF Counted, Init
<1> QED
  BY <1>4, <1>5, <1>6, <1>7, <1>8, <1>9 DEF IInv


RecordsIn(lg) == UNION {{lg[w][i] : i \in 1..Len(lg[w])} : w \in Writers}

Extended(lg, w, rec) == lg = [logs EXCEPT ![w] = Append(@, rec)]

\* The logs after a change that recorded rec in the log of w.
LEMMA Recorded ==
  ASSUME TypeOK, NEW w \in Writers, NEW rec \in LogRecords,
         NEW lg, Extended(lg, w, rec)
  PROVE  /\ lg \in [Writers -> Seq(LogRecords)]
         /\ \A v \in Writers : v # w => lg[v] = logs[v]
         /\ Len(lg[w]) = Len(logs[w]) + 1 /\ Len(logs[w]) \in Nat
         /\ \A i \in 1..Len(logs[w]) : lg[w][i] = logs[w][i]
         /\ lg[w][Len(logs[w]) + 1] = rec
         /\ RecordsIn(lg) = Records \cup {rec}
<1>1. logs[w] \in Seq(LogRecords)
  BY DEF TypeOK
<1>2. /\ Append(logs[w], rec) \in Seq(LogRecords) /\ Len(Append(logs[w], rec)) = Len(logs[w]) + 1
      /\ \A i \in 1..Len(logs[w]) : Append(logs[w], rec)[i] = logs[w][i]
      /\ Append(logs[w], rec)[Len(logs[w]) + 1] = rec
      /\ Len(logs[w]) \in Nat
  BY <1>1, AppendProperties, LenProperties
<1>3. lg \in [Writers -> Seq(LogRecords)] /\ lg[w] = Append(logs[w], rec)
      /\ \A v \in Writers : v # w => lg[v] = logs[v]
  BY <1>2 DEF TypeOK, Extended
<1>4. ASSUME NEW x, x \in RecordsIn(lg)
      PROVE  x \in Records \cup {rec}
  <2>1. PICK v \in Writers : \E i \in 1..Len(lg[v]) : x = lg[v][i]
    BY <1>4 DEF RecordsIn
  <2>2. PICK i \in 1..Len(lg[v]) : x = lg[v][i]
    BY <2>1
  <2>3. CASE v # w
    <3>1. i \in 1..Len(logs[v]) /\ x = logs[v][i]
      BY <1>3, <2>2, <2>3
    <3> QED
      BY <3>1 DEF Records
  <2>4. CASE v = w
    <3>1. i \in 1..Len(logs[w]) + 1 /\ x = Append(logs[w], rec)[i]
      BY <1>2, <1>3, <2>2, <2>4
    <3>2. CASE i = Len(logs[w]) + 1
      BY <1>2, <3>1, <3>2
    <3>3. CASE i # Len(logs[w]) + 1
      <4>1. i \in 1..Len(logs[w])
        BY <1>2, <3>1, <3>3
      <4>2. x = logs[w][i]
        BY <1>2, <3>1, <4>1
      <4> QED
        BY <4>1, <4>2 DEF Records
    <3> QED
      BY <3>2, <3>3
  <2> QED
    BY <2>3, <2>4
<1>5. ASSUME NEW x \in Records \cup {rec}
      PROVE  x \in RecordsIn(lg)
  <2>1. CASE x = rec
    <3>1. Len(lg[w]) \in 1..Len(lg[w]) /\ lg[w][Len(lg[w])] = rec
      BY <1>2, <1>3
    <3> QED
      BY <2>1, <3>1 DEF RecordsIn
  <2>2. CASE x \in Records
    <3>1. PICK v \in Writers : \E i \in 1..Len(logs[v]) : x = logs[v][i]
      BY <2>2 DEF Records
    <3>2. PICK i \in 1..Len(logs[v]) : x = logs[v][i]
      BY <3>1
    <3>3. i \in 1..Len(lg[v]) /\ x = lg[v][i]
      <4>1. CASE v = w
        <5>1. i \in 1..Len(logs[w]) + 1 /\ i \in 1..Len(logs[w])
          BY <1>2, <3>2, <4>1
        <5>2. Append(logs[w], rec)[i] = logs[w][i]
          BY <1>2, <5>1
        <5> QED
          BY <1>2, <1>3, <3>2, <4>1, <5>1, <5>2
      <4>2. CASE v # w
        BY <1>3, <3>2, <4>2
      <4> QED
        BY <4>1, <4>2
    <3> QED
      BY <3>3 DEF RecordsIn
  <2> QED
    BY <2>1, <2>2
<1>6. RecordsIn(lg) = Records \cup {rec}
  BY <1>4, <1>5
<1> QED
  BY <1>2, <1>3, <1>6


\* A change keeps the invariant whose time stamp is beyond that of the row and
\* of the records of its key.
LEMMA ChangeKeeps ==
  ASSUME IInv, NEW w \in Writers, NEW k \in Keys,
         NEW command \in {"put", "modify", "replace", "remove"},
         NEW ts \in Even \ {0}, NEW prev \in Nat, NEW new, NEW v \in Versions,
         Change(w, k, command, ts, prev, new),
         nodeTs' \in Even, nodeTs <= nodeTs', command = "remove" => ts + 1 < nodeTs',
         past[N + 1][k].ts < ts, \A r \in Records : r.key = k => r.ts + 1 < ts,
         command = "modify" => past[N + 1][k] # Absent /\ prev = past[N + 1][k].ts,
         \A r : r.command = command /\ r.ts = ts /\ r.change = N + 1 =>
                  v = Result(r, past[N + 1][k]),
         command = "remove" => v = Absent /\ new = <<>>,
         command # "remove" => v.ts = ts /\ new = <<Row(v.ts, v.val)>>,
         Visible(new) = v
  PROVE  IInv'
<1>20. PICK rec : rec = [command |-> command, key |-> k, ts |-> ts, prev |-> prev,
                          change |-> N + 1]
  OBVIOUS
<1>1. TypeOK /\ Logged /\ RowsSeen /\ Current /\ phase = "up" /\ N \in Nat /\ Len(past) = N + 1
  BY DEF IInv, TypeOK, N, Change, Up
<1>2. /\ chain' = [chain EXCEPT ![k] = new] /\ clock' = [clock EXCEPT ![w] = ts]
      /\ logs' = [logs EXCEPT ![w] = Append(@, rec)]
      /\ past' = Append(past, [past[N + 1] EXCEPT ![k] = v])
      /\ at' = at /\ ckp' = ckp /\ phase' = phase /\ deltas' = deltas /\ crashes' = crashes
  BY <1>20 DEF Change
<1>3. rec \in LogRecords
  BY <1>1, <1>20 DEF LogRecords
<1>4. rec.command = command /\ rec.key = k /\ rec.ts = ts /\ rec.prev = prev /\ rec.change = N + 1
  BY <1>20
<1>5. /\ logs' \in [Writers -> Seq(LogRecords)]
      /\ \A x \in Writers : x # w => logs'[x] = logs[x]
      /\ Len(logs'[w]) = Len(logs[w]) + 1 /\ Len(logs[w]) \in Nat
      /\ \A i \in 1..Len(logs[w]) : logs'[w][i] = logs[w][i]
      /\ logs'[w][Len(logs[w]) + 1] = rec
      /\ Records' = Records \cup {rec}
  <2>1. PICK lg : lg = logs'
    OBVIOUS
  <2>2. /\ lg \in [Writers -> Seq(LogRecords)]
        /\ \A x \in Writers : x # w => lg[x] = logs[x]
        /\ Len(lg[w]) = Len(logs[w]) + 1 /\ Len(logs[w]) \in Nat
        /\ \A i \in 1..Len(logs[w]) : lg[w][i] = logs[w][i]
        /\ lg[w][Len(logs[w]) + 1] = rec
        /\ RecordsIn(lg) = Records \cup {rec}
    <3>1. Extended(lg, w, rec) /\ TypeOK
      BY <1>1, <1>2, <2>1 DEF Extended
    <3> QED
      BY <1>3, <3>1, Recorded
  <2>3. Records' = RecordsIn(lg)
    BY <2>1 DEF Records, RecordsIn
  <2> QED
    BY <2>1, <2>2, <2>3
<1>6. /\ past \in Seq([Keys -> Versions]) /\ past[N + 1] \in [Keys -> Versions]
      /\ [past[N + 1] EXCEPT ![k] = v] \in [Keys -> Versions]
  <2>1. past \in Seq([Keys -> Versions])
    BY <1>1 DEF TypeOK
  <2>2. N + 1 \in 1..Len(past)
    BY <1>1
  <2>3. past[N + 1] \in [Keys -> Versions]
    BY <2>1, <2>2, ElementOfSeq
  <2> QED
    BY <2>1, <2>3
<1>7. /\ past' \in Seq([Keys -> Versions]) /\ Len(past') = N + 2 /\ N' = N + 1
      /\ \A n \in 0..N : past'[n + 1] = past[n + 1]
      /\ past'[N + 2] = [past[N + 1] EXCEPT ![k] = v]
  <2>1. /\ past' \in Seq([Keys -> Versions]) /\ Len(past') = Len(past) + 1
        /\ \A i \in 1..Len(past) : past'[i] = past[i]
        /\ past'[Len(past) + 1] = [past[N + 1] EXCEPT ![k] = v]
    BY <1>2, <1>6, AppendProperties
  <2>2. N' = Len(past') - 1
    BY DEF N
  <2>3. N + 1 + 1 = N + 2
    BY <1>1
  <2> QED
    BY <1>1, <2>1, <2>2, <2>3
<1>8. \A r \in Records : /\ r.change \in 1..N /\ r # rec /\ past'[r.change] = past[r.change]
                         /\ past'[r.change + 1] = past[r.change + 1]
  <2> SUFFICES ASSUME NEW r \in Records
               PROVE  /\ r.change \in 1..N /\ r # rec /\ past'[r.change] = past[r.change]
                      /\ past'[r.change + 1] = past[r.change + 1]
    OBVIOUS
  <2>1. r.change \in 1..N
    BY <1>1, RecordParts
  <2>2. r.change \in 0..N /\ r.change - 1 \in 0..N /\ (r.change - 1) + 1 = r.change
    BY <1>1, <2>1
  <2>3. past'[r.change] = past[r.change]
    BY <1>7, <2>2
  <2> QED
    BY <1>1, <1>4, <1>7, <2>1, <2>2, <2>3
<1>9. TypeOK'
  <2>1. new \in Seq(Elements)
    <3>1. CASE command = "remove"
      BY <3>1
    <3>2. CASE command # "remove"
      <4>1. PICK x : x = Row(v.ts, v.val)
        OBVIOUS
      <4>2. x \in Elements
        BY <4>1 DEF Row, Elements, Versions, Even
      <4>3. new = <<x>>
        BY <3>2, <4>1
      <4>4. <<x>> \in Seq(Elements)
        BY <4>2
      <4> QED
        BY <4>3, <4>4
    <3> QED
      BY <3>1, <3>2
  <2>2. chain' \in [Keys -> Seq(Elements)] /\ clock' \in [Writers -> Even \ {0}]
    BY <1>1, <1>2, <2>1 DEF TypeOK
  <2>3. \A x \in Writers : at'[x] <= Len(logs'[x])
    <3> SUFFICES ASSUME NEW x \in Writers PROVE at'[x] <= Len(logs'[x])
      OBVIOUS
    <3>1. at[x] \in Nat /\ at[x] <= Len(logs[x])
      BY <1>1 DEF TypeOK
    <3> QED
      BY <1>2, <1>5, <3>1
  <2>4. ckp.to <= N' /\ ckp.from <= ckp.to /\ ckp.to \in Nat
    <3>1. ckp.to <= N /\ ckp.from <= ckp.to /\ ckp.to \in Nat
      BY <1>1 DEF TypeOK
    <3> QED
      BY <1>1, <1>7, <3>1
  <2>5. /\ at' \in [Writers -> Nat] /\ phase' \in {"up", "replay", "aborted"}
        /\ deltas' \in Int /\ crashes' \in Nat
        /\ ckp' \in [rows : [Keys -> Versions], from : Nat, to : Nat]
        /\ ckp'.from <= ckp'.to /\ ckp'.to <= N'
    BY <1>1, <1>2, <2>4 DEF TypeOK
  <2>6. past' \in Seq([Keys -> Versions]) /\ Len(past') > 0 /\ (N' > 0 => Keys # {})
    BY <1>1, <1>7
  <2> QED
    BY <1>5, <2>2, <2>3, <2>5, <2>6 DEF TypeOK
<1>10. LogsInOrder'
  <2> SUFFICES ASSUME NEW x \in Writers, NEW y \in Writers,
                      NEW i \in 1..Len(logs'[x]), NEW j \in 1..Len(logs'[y])
               PROVE  /\ x = y /\ i < j => logs'[x][i].change < logs'[y][j].change
                      /\ x # y => logs'[x][i].change # logs'[y][j].change
    BY DEF LogsInOrder
  <2> DEFINE Old(z, m) == m \in 1..Len(logs[z]) /\ logs'[z][m] = logs[z][m]
                          /\ logs[z][m] \in Records
             New(z, m) == z = w /\ m = Len(logs[w]) + 1 /\ logs'[z][m].change = N + 1
  <2>1. ASSUME NEW z \in Writers, NEW m \in 1..Len(logs'[z]) PROVE Old(z, m) \/ New(z, m)
    <3>1. CASE z # w
      <4>1. m \in 1..Len(logs[z])
        BY <1>5, <3>1
      <4> QED
        BY <1>5, <3>1, <4>1 DEF Records
    <3>2. CASE z = w
      <4>1. CASE m = Len(logs[w]) + 1
        BY <1>4, <1>5, <3>2, <4>1
      <4>2. CASE m # Len(logs[w]) + 1
        <5>1. m \in 1..Len(logs[w])
          BY <1>5, <3>2, <4>2
        <5> QED
          BY <1>5, <3>2, <5>1 DEF Records
      <4> QED
        BY <4>1, <4>2
    <3> QED
      BY <3>1, <3>2
  <2>2. CASE Old(x, i) /\ Old(y, j)
    <3>1. logs'[x][i] = logs[x][i] /\ logs'[y][j] = logs[y][j] /\ LogsInOrder
      BY <1>1, <2>2 DEF Logged
    <3> QED
      BY <2>2, <3>1 DEF LogsInOrder
  <2>3. CASE Old(x, i) /\ New(y, j)
    <3>1. logs'[x][i].change \in 1..N /\ logs'[y][j].change = N + 1
      BY <1>8, <2>3
    <3> QED
      BY <1>1, <3>1
  <2>4. CASE New(x, i) /\ Old(y, j)
    <3>1. logs'[y][j].change \in 1..N /\ logs'[x][i].change = N + 1
      BY <1>8, <2>4
    <3>2. x = y => ~(i < j)
      BY <1>5, <2>4
    <3> QED
      BY <1>1, <3>1, <3>2
  <2>5. CASE New(x, i) /\ New(y, j)
    BY <1>5, <2>5
  <2> QED
    BY <2>1, <2>2, <2>3, <2>4, <2>5
<1>11. \A r \in Records' : Tells(r)'
  <2>1. ASSUME NEW r \in Records PROVE Tells(r)'
    <3>1. Tells(r)
      BY <1>1 DEF Logged
    <3>2. r.change \in 1..N'
      BY <1>1, <1>7, <1>8
    <3>3. past'[r.change] = past[r.change] /\ past'[r.change + 1] = past[r.change + 1]
      BY <1>8
    <3> QED
      BY <3>1, <3>2, <3>3 DEF Tells, Result
  <2>2. Tells(rec)'
    <3>1. past'[N + 1] = past[N + 1]
      <4>1. N \in 0..N
        BY <1>1
      <4> QED
        BY <1>7, <4>1
    <3>2. N + 1 \in 1..N' /\ N + 1 + 1 = N + 2
      BY <1>1, <1>7
    <3>3. v = Result(rec, past[N + 1][k])
      BY <1>4
    <3>4. past'[N + 1 + 1] = [past'[N + 1] EXCEPT ![k] = Result(rec, past'[N + 1][k])]
      BY <1>7, <3>1, <3>2, <3>3
    <3> QED
      BY <1>4, <3>1, <3>2, <3>4 DEF Tells, Result
  <2> QED
    BY <1>5, <2>1, <2>2
<1>12. \A m \in 0..N' : Covered(m)' => \A n \in m + 1..N' : Known(n)'
  <2> SUFFICES ASSUME NEW m \in 0..N', Covered(m)', NEW n \in m + 1..N' PROVE Known(n)'
    OBVIOUS
  <2>1. CASE n = N + 1
    <3>1. rec \in Records' /\ rec.change = n
      BY <1>4, <1>5, <2>1
    <3> QED
      BY <3>1 DEF Known
  <2>2. CASE n # N + 1
    <3>1. m \in 0..N /\ n \in m + 1..N
      BY <1>1, <1>7, <2>2
    <3>2. Covered(m)
      <4>1. CASE m >= ckp.from
        BY <4>1 DEF Covered
      <4>2. CASE \E r \in Records' : r.change <= m
        <5>1. PICK r \in Records' : r.change <= m
          BY <4>2
        <5>2. r # rec
          BY <1>1, <1>4, <3>1, <5>1
        <5> QED
          BY <1>5, <5>1, <5>2 DEF Covered
      <4> QED
        BY <1>2, <4>1, <4>2 DEF Covered
    <3>3. Known(n)
      BY <1>1, <3>1, <3>2 DEF Logged
    <3> QED
      BY <1>5, <3>3 DEF Known
  <2> QED
    BY <2>1, <2>2
<1>13. \A r, s \in Records' : r.key = s.key /\ r.change < s.change => r.ts + 1 < s.ts
  <2> SUFFICES ASSUME NEW r \in Records', NEW s \in Records', r.key = s.key, r.change < s.change
               PROVE  r.ts + 1 < s.ts
    OBVIOUS
  <2>1. CASE r \in Records /\ s \in Records
    BY <1>1, <2>1 DEF Logged
  <2>2. CASE r \in Records /\ s = rec
    BY <1>4, <2>2
  <2>3. CASE r = rec
    <3>1. r.change = N + 1 /\ (s.change = N + 1 \/ s.change \in 1..N)
      BY <1>4, <1>5, <1>8, <2>3
    <3> QED
      BY <1>1, <3>1
  <2> QED
    BY <1>5, <2>1, <2>2, <2>3
<1>14. Logged'
  BY <1>10, <1>11, <1>12, <1>13 DEF Logged
<1>15. RowsSeen'
  <2> SUFFICES ASSUME NEW q \in Keys
               PROVE  \E n \in ckp.from..ckp.to : ckp.rows[q] = past'[n + 1][q]
    BY <1>2 DEF RowsSeen
  <2>1. PICK n \in ckp.from..ckp.to : ckp.rows[q] = past[n + 1][q]
    BY <1>1 DEF RowsSeen
  <2>2. n \in 0..N
    BY <1>1 DEF TypeOK
  <2> QED
    BY <1>7, <2>1, <2>2
<1>16. N' + 1 = N + 2
  BY <1>1, <1>7
<1>17. Current'
  <2> SUFFICES ASSUME NEW q \in Keys
               PROVE  IF past'[N' + 1][q] = Absent
                      THEN /\ chain'[q] = <<>>
                           /\ \A r \in Records' : r.key = q => r.ts + 1 < nodeTs'
                      ELSE chain'[q] = <<Row(past'[N' + 1][q].ts, past'[N' + 1][q].val)>>
    BY DEF Current
  <2>1. chain \in [Keys -> Seq(Elements)] /\ nodeTs \in Nat /\ nodeTs' \in Nat /\ ts \in Nat
    BY <1>1 DEF TypeOK, Even
  <2>2. CASE q = k
    <3>1. past'[N' + 1][q] = v /\ chain'[q] = new
      BY <1>2, <1>6, <1>7, <1>16, <2>1, <2>2
    <3>2. CASE command = "remove"
      <4>1. v = Absent /\ new = <<>>
        BY <3>2
      <4>2. ASSUME NEW r \in Records', r.key = q PROVE r.ts + 1 < nodeTs'
        <5>1. CASE r = rec
          BY <1>4, <3>2, <5>1
        <5>2. CASE r \in Records
          <6>1. r.ts + 1 < ts /\ r.ts \in Nat
            BY <1>1, <2>2, <4>2, <5>2, RecordParts DEF Even
          <6> QED
            BY <2>1, <3>2, <6>1
        <5> QED
          BY <1>5, <5>1, <5>2
      <4> QED
        BY <3>1, <4>1, <4>2
    <3>3. CASE command # "remove"
      <4>1. v # Absent /\ new = <<Row(v.ts, v.val)>>
        BY <2>1, <3>3 DEF Absent
      <4> QED
        BY <3>1, <4>1
    <3> QED
      BY <3>2, <3>3
  <2>3. CASE q # k
    <3>1. past'[N' + 1][q] = past[N + 1][q] /\ chain'[q] = chain[q]
      BY <1>2, <1>6, <1>7, <1>16, <2>1, <2>3
    <3>2. IF past[N + 1][q] = Absent
          THEN /\ chain[q] = <<>>
               /\ \A r \in Records : r.key = q => r.ts + 1 < nodeTs
          ELSE chain[q] = <<Row(past[N + 1][q].ts, past[N + 1][q].val)>>
      BY <1>1 DEF Current, Up
    <3>3. CASE past[N + 1][q] = Absent
      <4>1. ASSUME NEW r \in Records', r.key = q PROVE r.ts + 1 < nodeTs'
        <5>1. r \in Records
          BY <1>4, <1>5, <2>3, <4>1
        <5>2. r.ts + 1 < nodeTs /\ r.ts \in Nat
          BY <1>1, <3>2, <3>3, <4>1, <5>1, RecordParts DEF Even
        <5> QED
          BY <2>1, <5>2
      <4> QED
        BY <3>1, <3>2, <3>3, <4>1
    <3>4. CASE past[N + 1][q] # Absent
      BY <3>1, <3>2, <3>4
    <3> QED
      BY <3>3, <3>4
  <2> QED
    BY <2>2, <2>3
<1>18. Replaying'
  BY <1>1, <1>2 DEF Replaying
<1>19. Counted'
  <2>1. \A q \in Keys : chain'[q] = <<>> \/ \E s, val : chain'[q] = <<Row(s, val)>>
    BY <1>1, <1>2, <1>17 DEF Current, Up
  <2>2. Waiting' = {} /\ Waiting = {}
    <3>1. Waiting' = {}
      BY <2>1, NoneWaits DEF Waiting
    <3> QED
      BY <1>1, <3>1, UpChains DEF Up
  <2>3. deltas = Cardinality({})
    BY <1>1, <2>2 DEF IInv, Counted
  <2> QED
    BY <1>2, <2>2, <2>3, FS_EmptySet DEF Counted
<1> QED
  BY <1>9, <1>14, <1>15, <1>17, <1>18, <1>19 DEF IInv


\* The clock of a thread that looked at a row is beyond it.
LEMMA ClockBeyond ==
  ASSUME TypeOK, NEW w \in Writers, NEW x \in Even
  PROVE  Updated(w, x) \in Even \ {0} /\ x < Updated(w, x)
<1>1. clock[w] \in Even /\ clock[w] # 0
  BY DEF TypeOK
<1>2. CASE clock[w] > x
  BY <1>1, <1>2 DEF Updated, Even
<1>3. CASE ~(clock[w] > x)
  <2>1. Updated(w, x) = x + 2
    BY <1>3, EvenSteps DEF Updated
  <2>2. x + 2 \in Even /\ x \in Nat
    BY EvenSteps
  <2> QED
    BY <2>1, <2>2
<1> QED
  BY <1>2, <1>3

LEMMA ClockAdvanced ==
  ASSUME TypeOK, NEW w \in Writers
  PROVE  Advanced(w) \in Even \ {0} /\ nodeTs <= Advanced(w)
<1>1. clock[w] \in Even \ {0} /\ nodeTs \in Even
  BY DEF TypeOK
<1> QED
  BY <1>1 DEF Advanced, Even

\* The row under a key, and what the records of the key say of its time stamp.
LEMMA RowPresent ==
  ASSUME IInv, Up, NEW k \in Keys, chain[k] # <<>>
  PROVE  /\ past[N + 1][k] # Absent /\ past[N + 1][k].ts \in Even
         /\ past[N + 1][k].val \in Seq(Nat)
         /\ chain[k] = <<Row(past[N + 1][k].ts, past[N + 1][k].val)>>
         /\ chain[k][1].ts = past[N + 1][k].ts /\ chain[k][1].val = past[N + 1][k].val
         /\ ~IsMarker(chain[k][1])
         /\ \A r \in Records : r.key = k => r.ts <= past[N + 1][k].ts
<1>1. TypeOK /\ Logged /\ Current /\ N \in Nat /\ N \in 0..N
  BY DEF IInv, TypeOK, N
<1>2. past[N + 1][k] # Absent /\ chain[k] = <<Row(past[N + 1][k].ts, past[N + 1][k].val)>>
  BY <1>1 DEF Current
<1>3. past[N + 1][k].ts \in Even /\ past[N + 1][k].val \in Seq(Nat)
  BY <1>1, VersionOf
<1>4. chain[k][1].ts = past[N + 1][k].ts /\ chain[k][1].val = past[N + 1][k].val
  BY <1>2 DEF Row
<1>5. ~IsMarker(chain[k][1])
  BY <1>3, <1>4, EvenSteps DEF IsMarker
<1>6. ASSUME NEW r \in Records, r.key = k PROVE r.ts <= past[N + 1][k].ts
  <2>1. Covered(N)
    BY <1>1 DEF Covered, TypeOK
  <2>2. r.change <= N /\ r.ts \in Nat
    BY <1>1, RecordParts DEF Even
  <2>3. Stamp(r) <= past[N + 1][k].ts
    BY <1>1, <1>2, <1>6, <2>1, <2>2, StampOrder
  <2>4. Stamp(r) = r.ts \/ Stamp(r) = r.ts + 1
    BY DEF Stamp, Odd
  <2>5. past[N + 1][k].ts \in Nat
    BY <1>3 DEF Even
  <2> QED
    BY <2>2, <2>3, <2>4, <2>5
<1> QED
  BY <1>2, <1>3, <1>4, <1>5, <1>6

\* The time stamp that a thread takes from a row is beyond all of its key.
LEMMA StampBeyond ==
  ASSUME IInv, Up, NEW w \in Writers, NEW k \in Keys, chain[k] # <<>>,
         NEW ts, ts = Updated(w, chain[k][1].ts)
  PROVE  /\ ts \in Even \ {0} /\ past[N + 1][k].ts < ts
         /\ \A r \in Records : r.key = k => r.ts + 1 < ts
<1>1. TypeOK /\ Logged
  BY DEF IInv
<1>2. chain[k][1].ts \in Even /\ chain[k][1].ts = past[N + 1][k].ts
  BY RowPresent
<1>3. ts \in Even \ {0} /\ past[N + 1][k].ts < ts
  BY <1>1, <1>2, ClockBeyond
<1>4. ASSUME NEW r \in Records, r.key = k PROVE r.ts + 1 < ts
  <2>1. r.ts <= past[N + 1][k].ts
    BY <1>4, RowPresent
  <2>2. r.ts \in Even
    BY <1>1, RecordParts
  <2>4. r.ts \in Nat /\ past[N + 1][k].ts \in Nat /\ ts \in Nat
    BY <1>2, <1>3, <2>2 DEF Even
  <2>3. r.ts < ts
    BY <1>3, <2>1, <2>4
  <2> QED
    BY <1>3, <2>2, <2>3, EvenSteps
<1> QED
  BY <1>3, <1>4

\* So is that of a key that is not there, with the help of the leaf.
LEMMA StampBeyondGone ==
  ASSUME IInv, Up, NEW w \in Writers, NEW k \in Keys, chain[k] = <<>>
  PROVE  /\ Advanced(w) \in Even \ {0} /\ past[N + 1][k].ts < Advanced(w)
         /\ \A r \in Records : r.key = k => r.ts + 1 < Advanced(w)
<1>1. TypeOK /\ Logged /\ Current
  BY DEF IInv
<1>2. past[N + 1][k] = Absent /\ \A r \in Records : r.key = k => r.ts + 1 < nodeTs
  <2>1. PICK x : x = Row(past[N + 1][k].ts, past[N + 1][k].val)
    OBVIOUS
  <2>2. chain[k] # <<x>>
    OBVIOUS
  <2> QED
    BY <1>1, <2>1, <2>2 DEF Current
<1>3. Advanced(w) \in Even \ {0} /\ nodeTs <= Advanced(w) /\ nodeTs \in Nat
  BY <1>1, ClockAdvanced DEF TypeOK, Even
<1>4. past[N + 1][k].ts < Advanced(w)
  BY <1>2, <1>3 DEF Absent, Even
<1>5. ASSUME NEW r \in Records, r.key = k PROVE r.ts + 1 < Advanced(w)
  <2>1. r.ts + 1 < nodeTs /\ r.ts \in Nat
    BY <1>1, <1>2, <1>5, RecordParts DEF Even
  <2> QED
    BY <1>3, <2>1 DEF Even
<1> QED
  BY <1>3, <1>4, <1>5

\* A row of its own: what a put of a new key and a replace leave.
LEMMA FreshKeeps ==
  ASSUME IInv, NEW w \in Writers, NEW k \in Keys, NEW command \in {"put", "replace"},
         NEW ts \in Even \ {0}, Change(w, k, command, ts, 0, <<Row(ts, <<N + 1>>)>>),
         UNCHANGED nodeTs,
         past[N + 1][k].ts < ts, \A r \in Records : r.key = k => r.ts + 1 < ts
  PROVE  IInv'
<1>1. TypeOK /\ N \in Nat /\ nodeTs \in Even
  BY DEF IInv, TypeOK, N
<1>2. PICK v : v = Version(ts, <<N + 1>>)
  OBVIOUS
<1>3. v.ts = ts /\ v.val = <<N + 1>> /\ v \in Versions
  <2>1. <<N + 1>> \in Seq(Nat)
    BY <1>1
  <2>2. ts \in Even /\ ts # 0
    OBVIOUS
  <2> QED
    BY <1>2, <2>1, <2>2 DEF Version, Versions
<1>4. PICK new : new = <<Row(v.ts, v.val)>>
  OBVIOUS
<1>5. Change(w, k, command, ts, 0, new)
  BY <1>3, <1>4
<1>6. Visible(new) = v
  <2>1. PICK x : x = Row(v.ts, v.val)
    OBVIOUS
  <2>2. x.ts = ts /\ x.val = v.val
    BY <1>3, <2>1 DEF Row
  <2>3. ~IsMarker(x)
    BY <2>2, EvenSteps DEF IsMarker
  <2>4. new # <<>> /\ new[1] = x
    BY <1>4, <2>1
  <2>5. Visible(new) = [ts |-> ts, val |-> v.val]
    BY <2>2, <2>3, <2>4 DEF Visible
  <2> QED
    BY <1>2, <1>3, <2>5 DEF Version
<1>7. ASSUME NEW r, r.command = command /\ r.ts = ts /\ r.change = N + 1
      PROVE  v = Result(r, past[N + 1][k])
  BY <1>2, <1>7 DEF Result
<1>8. /\ nodeTs' \in Even /\ nodeTs <= nodeTs' /\ command # "remove" /\ command # "modify"
      /\ 0 \in Nat /\ command \in {"put", "modify", "replace", "remove"}
  BY <1>1 DEF Even
<1> QED
  BY <1>3, <1>4, <1>5, <1>6, <1>7, <1>8, ChangeKeeps


LEMMA PutKeeps ==
  ASSUME IInv, NEW w \in Writers, NEW k \in Keys, Put(w, k)
  PROVE  IInv'
<1>1. Up /\ UNCHANGED nodeTs /\ N \in Nat /\ TypeOK /\ nodeTs \in Even
  <2>1. TypeOK /\ N \in Nat /\ nodeTs \in Even
    BY DEF IInv, TypeOK, N
  <2>2. UNCHANGED nodeTs
    BY DEF Put
  <2>3. Up
    <3>1. CASE chain[k] = <<>>
      BY <3>1 DEF Put, Change
    <3>2. CASE chain[k] # <<>>
      BY <3>2 DEF Put, Change
    <3> QED
      BY <3>1, <3>2
  <2> QED
    BY <2>1, <2>2, <2>3
<1>2. CASE chain[k] = <<>>
  <2>1. PICK ts : ts = Advanced(w)
    OBVIOUS
  <2>2. Change(w, k, "put", ts, 0, <<Row(ts, <<N + 1>>)>>)
    BY <1>2, <2>1 DEF Put
  <2>3. /\ ts \in Even \ {0} /\ past[N + 1][k].ts < ts
        /\ \A r \in Records : r.key = k => r.ts + 1 < ts
    BY <1>1, <1>2, <2>1, StampBeyondGone
  <2> QED
    BY <1>1, <2>2, <2>3, FreshKeeps
<1>3. CASE chain[k] # <<>>
  <2>1. PICK ts : ts = Updated(w, chain[k][1].ts)
    OBVIOUS
  <2>2. PICK old : old = past[N + 1][k]
    OBVIOUS
  <2>3. PICK v : v = Version(ts, With(old.val, N + 1))
    OBVIOUS
  <2>4. PICK new : new = <<Row(v.ts, v.val)>>
    OBVIOUS
  <2>5. v.ts = ts /\ v.val = With(old.val, N + 1)
    BY <2>3, VersionParts
  <2>6. /\ old # Absent /\ old.val \in Seq(Nat) /\ old.ts \in Nat
        /\ chain[k][1].ts = old.ts /\ chain[k][1].val = old.val /\ ~IsMarker(chain[k][1])
    BY <1>1, <1>3, <2>2, RowPresent, EvenSteps
  <2>7. Change(w, k, "modify", ts, old.ts, new)
    <3>1. Append(chain[k][1].val, N + 1) = v.val
      BY <2>5, <2>6 DEF With
    <3>2. Change(w, k, "modify", ts, old.ts, <<Row(ts, Append(chain[k][1].val, N + 1))>>)
      BY <1>3, <2>1, <2>6 DEF Put
    <3> QED
      BY <2>4, <2>5, <3>1, <3>2
  <2>8. /\ ts \in Even \ {0} /\ past[N + 1][k].ts < ts
        /\ \A r \in Records : r.key = k => r.ts + 1 < ts
    BY <1>1, <1>3, <2>1, StampBeyond
  <2>9. v \in Versions
    <3>1. With(old.val, N + 1) \in Seq(Nat)
      <4>1. N + 1 \in Nat
        BY <1>1
      <4> QED
        BY <2>6, <4>1, WithOne
    <3>2. ts \in Even /\ ts # 0
      BY <2>8
    <3> QED
      BY <2>3, <3>1, <3>2 DEF Version, Versions
  <2>10. Visible(new) = v
    <3>1. PICK x : x = Row(v.ts, v.val)
      OBVIOUS
    <3>2. x.ts = ts /\ x.val = v.val
      BY <2>5, <3>1 DEF Row
    <3>3. ~IsMarker(x)
      BY <2>8, <3>2, EvenSteps DEF IsMarker
    <3>4. new # <<>> /\ new[1] = x
      BY <2>4, <3>1
    <3>5. Visible(new) = Version(ts, v.val)
      BY <3>2, <3>3, <3>4 DEF Visible, Version
    <3> QED
      BY <2>3, <2>5, <3>5
  <2>11. ASSUME NEW r, r.command = "modify" /\ r.ts = ts /\ r.change = N + 1
         PROVE  v = Result(r, past[N + 1][k])
    <3>1. Result(r, old) = Version(r.ts, With(old.val, r.change))
      BY <2>11 DEF Result
    <3> QED
      BY <2>2, <2>3, <2>11, <3>1
  <2>12. /\ nodeTs' \in Even /\ nodeTs <= nodeTs'
         /\ "modify" \in {"put", "modify", "replace", "remove"} /\ "modify" # "remove"
    BY <1>1, EvenSteps
  <2> QED
    BY <2>2, <2>4, <2>5, <2>6, <2>7, <2>8, <2>9, <2>10, <2>11, <2>12, ChangeKeeps
<1> QED
  BY <1>2, <1>3

LEMMA ReplaceKeeps ==
  ASSUME IInv, NEW w \in Writers, NEW k \in Keys, Replace(w, k)
  PROVE  IInv'
<1>1. PICK ts : ts = IF chain[k] = <<>> THEN Advanced(w) ELSE Updated(w, chain[k][1].ts)
  OBVIOUS
<1>2. Up /\ UNCHANGED nodeTs /\ Change(w, k, "replace", ts, 0, <<Row(ts, <<N + 1>>)>>)
  BY <1>1 DEF Replace, Change
<1>3. /\ ts \in Even \ {0} /\ past[N + 1][k].ts < ts
      /\ \A r \in Records : r.key = k => r.ts + 1 < ts
  <2>1. CASE chain[k] = <<>>
    BY <1>1, <1>2, <2>1, StampBeyondGone
  <2>2. CASE chain[k] # <<>>
    BY <1>1, <1>2, <2>2, StampBeyond
  <2> QED
    BY <2>1, <2>2
<1> QED
  BY <1>2, <1>3, FreshKeeps

LEMMA RemoveRowKeeps ==
  ASSUME IInv, NEW w \in Writers, NEW k \in Keys, RemoveRow(w, k)
  PROVE  IInv'
<1>1. PICK ts : ts = Updated(w, chain[k][1].ts)
  OBVIOUS
<1>2. /\ Up /\ chain[k] # <<>> /\ Change(w, k, "remove", ts, 0, <<>>)
      /\ nodeTs' = IF nodeTs <= ts THEN ts + 2 ELSE nodeTs
  BY <1>1 DEF RemoveRow, Change
<1>3. /\ ts \in Even \ {0} /\ past[N + 1][k].ts < ts
      /\ \A r \in Records : r.key = k => r.ts + 1 < ts
  BY <1>1, <1>2, StampBeyond
<1>4. nodeTs \in Even
  BY DEF IInv, TypeOK
<1>5. nodeTs' \in Even /\ nodeTs <= nodeTs' /\ ts + 1 < nodeTs'
  <2>1. nodeTs \in Nat /\ ts \in Nat /\ ts + 2 \in Even /\ (ts < nodeTs => ts + 1 < nodeTs)
    BY <1>3, <1>4, EvenSteps
  <2> QED
    BY <1>2, <1>4, <2>1
<1>9. PICK v, new : v = Absent /\ new = <<>>
  OBVIOUS
<1>6. v \in Versions /\ Visible(new) = v /\ Change(w, k, "remove", ts, 0, new)
  BY <1>2, <1>9 DEF Absent, Versions, Even, Visible
<1>7. ASSUME NEW r, r.command = "remove" /\ r.ts = ts /\ r.change = N + 1
      PROVE  v = Result(r, past[N + 1][k])
  BY <1>7, <1>9 DEF Result
<1>8. "remove" \in {"put", "modify", "replace", "remove"} /\ "remove" # "modify" /\ 0 \in Nat
  OBVIOUS
<1> QED
  BY <1>3, <1>5, <1>6, <1>7, <1>8, <1>9, ChangeKeeps


LEMMA CheckpointKeeps ==
  ASSUME IInv, Checkpoint
  PROVE  IInv'
<1>1. TypeOK /\ Logged /\ Current /\ Counted /\ N \in Nat /\ N > 0 /\ Keys # {} /\ phase = "up"
      /\ ckp.from = 0
  BY DEF IInv, TypeOK, N, Checkpoint, Up
<1>2. PICK from \in 0..N : \E seen \in [Keys -> from..N] :
        ckp' = [rows |-> [k \in Keys |-> past[seen[k] + 1][k]], from |-> from,
                to |-> CHOOSE n \in Range(seen) : \A m \in Range(seen) : m <= n]
  BY DEF Checkpoint
<1>3. PICK seen \in [Keys -> from..N] :
        ckp' = [rows |-> [k \in Keys |-> past[seen[k] + 1][k]], from |-> from,
                to |-> CHOOSE n \in Range(seen) : \A m \in Range(seen) : m <= n]
  BY <1>2
<1>4. PICK R : R = Range(seen)
  OBVIOUS
<1>5. R \in SUBSET Nat /\ R # {} /\ (\A n \in R : n \in from..N) /\ \A k \in Keys : seen[k] \in R
  BY <1>1, <1>2, <1>3, <1>4 DEF Range
<1>6. \E n \in R : \A m \in R : m <= n
  <2>1. \A n \in R : n <= N
    BY <1>1, <1>2, <1>5
  <2> QED
    BY <1>1, <1>5, <2>1, GreatestNatural
<1>7. PICK to : to = CHOOSE n \in R : \A m \in R : m <= n
  OBVIOUS
<1>8. to \in R /\ \A m \in R : m <= to
  BY <1>6, <1>7
<1>9. /\ ckp' = [rows |-> [k \in Keys |-> past[seen[k] + 1][k]], from |-> from, to |-> to]
      /\ chain' = chain /\ nodeTs' = nodeTs /\ clock' = clock /\ logs' = logs /\ at' = at
      /\ phase' = phase /\ deltas' = deltas /\ past' = past /\ crashes' = crashes /\ N' = N
  BY <1>3, <1>4, <1>7 DEF Checkpoint, N
<1>10. \A k \in Keys : seen[k] \in from..to /\ seen[k] \in 0..N
  BY <1>1, <1>2, <1>3, <1>5, <1>8
<1>11. TypeOK'
  <2>1. [k \in Keys |-> past[seen[k] + 1][k]] \in [Keys -> Versions]
    <3>1. \A k \in Keys : past[seen[k] + 1][k] \in Versions
      BY <1>1, <1>10, VersionOf
    <3> QED
      BY <3>1
  <2>2. from \in Nat /\ to \in Nat /\ from <= to /\ to <= N
    BY <1>1, <1>2, <1>5, <1>8
  <2> QED
    BY <1>1, <1>9, <2>1, <2>2 DEF TypeOK
<1>12. Records' = Records
  BY <1>9 DEF Records
<1>13. Logged'
  <2>1. LogsInOrder'
    BY <1>1, <1>9 DEF Logged, LogsInOrder
  <2>2. \A r \in Records' : Tells(r)'
    BY <1>1, <1>9, <1>12 DEF Logged, Tells, Result
  <2>3. \A m \in 0..N : Covered(m)
    BY <1>1 DEF Covered
  <2>4. \A m \in 0..N' : Covered(m)' => \A n \in m + 1..N' : Known(n)'
    BY <1>1, <1>9, <1>12, <2>3 DEF Logged, Known
  <2>5. \A r, s \in Records' : r.key = s.key /\ r.change < s.change => r.ts + 1 < s.ts
    BY <1>1, <1>12 DEF Logged
  <2> QED
    BY <2>1, <2>2, <2>4, <2>5 DEF Logged
<1>14. RowsSeen'
  BY <1>9, <1>10 DEF RowsSeen
<1>15. Current'
  BY <1>1, <1>9, <1>12 DEF Current, Up
<1>16. Replaying'
  BY <1>1, <1>9 DEF Replaying
<1>17. Counted'
  BY <1>1, <1>9 DEF Counted, Waiting
<1> QED
  BY <1>11, <1>13, <1>14, <1>15, <1>16, <1>17 DEF IInv


InOrder(lg) ==
  \A v, w \in Writers : \A i \in 1..Len(lg[v]), j \in 1..Len(lg[w]) :
    /\ v = w /\ i < j => lg[v][i].change < lg[w][j].change
    /\ v # w => lg[v][i].change # lg[w][j].change

Cut(lg, n) == lg = [w \in Writers |-> Kept(logs[w], n)]

\* The records after a crash that left the changes up to n, as they were in the logs.
LEMMA CrashRecords ==
  ASSUME TypeOK, Logged, NEW n \in Nat,
         NEW lg, Cut(lg, n)
  PROVE  /\ lg \in [Writers -> Seq(LogRecords)]
         /\ \A r : r \in RecordsIn(lg) <=> r \in Records /\ ckp.from < r.change /\ r.change <= n
         /\ InOrder(lg)
<1>1. ASSUME NEW w \in Writers
      PROVE  /\ logs[w] \in Seq(LogRecords) /\ Ordered(logs[w])
             /\ lg[w] = Kept(logs[w], n) /\ lg[w] \in Seq(LogRecords)
             /\ \E a \in Nat :
                  /\ \A i \in 1..Len(lg[w]) :
                       /\ a + i \in 1..Len(logs[w]) /\ lg[w][i] = logs[w][a + i]
                       /\ ckp.from < logs[w][a + i].change /\ logs[w][a + i].change <= n
                  /\ \A i \in 1..Len(logs[w]) :
                       ckp.from < logs[w][i].change /\ logs[w][i].change <= n =>
                         i - a \in 1..Len(lg[w]) /\ a + (i - a) = i
  <2>1. logs[w] \in Seq(LogRecords)
    BY DEF TypeOK
  <2>2. Ordered(logs[w])
    BY DEF Logged, LogsInOrder, Ordered
  <2>3. lg[w] = Kept(logs[w], n)
    BY DEF Cut
  <2>4. PICK log : log = logs[w]
    OBVIOUS
  <2>5. PICK g : g = lg[w]
    OBVIOUS
  <2>6. g = Kept(log, n) /\ log \in Seq(LogRecords) /\ Ordered(log)
    BY <2>1, <2>2, <2>3, <2>4, <2>5
  <2>7. /\ g \in Seq(LogRecords)
        /\ \E a \in Nat :
             /\ \A i \in 1..Len(g) :
                  /\ a + i \in 1..Len(log) /\ g[i] = log[a + i]
                  /\ ckp.from < log[a + i].change /\ log[a + i].change <= n
             /\ \A i \in 1..Len(log) :
                  ckp.from < log[i].change /\ log[i].change <= n =>
                    i - a \in 1..Len(g) /\ a + (i - a) = i
    BY ZenonT(60), <2>6, KeptParts
  <2> QED
    BY <2>1, <2>2, <2>3, <2>4, <2>5, <2>7
<1>2. lg \in [Writers -> Seq(LogRecords)]
  <2>1. lg = [w \in Writers |-> lg[w]]
    BY DEF Cut
  <2> QED
    BY <1>1, <2>1
<1>3. ASSUME NEW r \in RecordsIn(lg) PROVE r \in Records /\ ckp.from < r.change /\ r.change <= n
  <2>1. PICK w \in Writers : \E i \in 1..Len(lg[w]) : r = lg[w][i]
    BY DEF RecordsIn
  <2>2. PICK i \in 1..Len(lg[w]) : r = lg[w][i]
    BY <2>1
  <2>3. PICK j \in 1..Len(logs[w]) : /\ lg[w][i] = logs[w][j]
                                     /\ ckp.from < logs[w][j].change /\ logs[w][j].change <= n
    BY <1>1
  <2> QED
    BY <2>2, <2>3 DEF Records
<1>4. ASSUME NEW r \in Records, ckp.from < r.change, r.change <= n PROVE r \in RecordsIn(lg)
  <2>1. PICK w \in Writers : \E i \in 1..Len(logs[w]) : r = logs[w][i]
    BY DEF Records
  <2>2. PICK i \in 1..Len(logs[w]) : r = logs[w][i]
    BY <2>1
  <2>3. PICK a \in Nat :
           /\ \A j \in 1..Len(lg[w]) : lg[w][j] = logs[w][a + j]
           /\ \A j \in 1..Len(logs[w]) :
                ckp.from < logs[w][j].change /\ logs[w][j].change <= n =>
                  j - a \in 1..Len(lg[w]) /\ a + (j - a) = j
    BY <1>1
  <2>4. i - a \in 1..Len(lg[w]) /\ a + (i - a) = i
    BY <1>4, <2>2, <2>3
  <2>5. lg[w][i - a] = r
    BY <2>2, <2>3, <2>4
  <2> QED
    BY <2>4, <2>5 DEF RecordsIn
<1>5. ASSUME NEW v \in Writers, NEW w \in Writers,
             NEW i \in 1..Len(lg[v]), NEW j \in 1..Len(lg[w])
      PROVE  /\ v = w /\ i < j => lg[v][i].change < lg[w][j].change
             /\ v # w => lg[v][i].change # lg[w][j].change
  <2>1. PICK a \in Nat : \A m \in 1..Len(lg[v]) : /\ a + m \in 1..Len(logs[v])
                                                 /\ lg[v][m] = logs[v][a + m]
    BY ZenonT(60), <1>1
  <2>2. PICK b \in Nat : \A m \in 1..Len(lg[w]) : /\ b + m \in 1..Len(logs[w])
                                                 /\ lg[w][m] = logs[w][b + m]
    BY ZenonT(60), <1>1
  <2>3. ASSUME v = w, i < j PROVE lg[v][i].change < lg[w][j].change
    <3>1. j \in 1..Len(lg[v])
      BY <2>3
    <3>2. a + i \in 1..Len(logs[v]) /\ a + j \in 1..Len(logs[v]) /\ a + i < a + j
      BY <2>1, <2>3, <3>1
    <3>3. logs[v][a + i].change < logs[v][a + j].change
      BY <3>2 DEF Logged, LogsInOrder
    <3> QED
      BY <2>1, <2>3, <3>1, <3>3
  <2>4. ASSUME v # w PROVE lg[v][i].change # lg[w][j].change
    <3>1. logs[v][a + i].change # logs[w][b + j].change
      BY <2>1, <2>2, <2>4 DEF Logged, LogsInOrder
    <3> QED
      BY <2>1, <2>2, <3>1
  <2> QED
    BY <2>3, <2>4
<1>6. InOrder(lg)
  BY <1>5 DEF InOrder
<1> QED
  BY <1>2, <1>3, <1>4, <1>6

LEMMA CrashKeeps ==
  ASSUME IInv, Crash
  PROVE  IInv'
<1>1. TypeOK /\ Logged /\ RowsSeen /\ Current /\ Counted /\ N \in Nat /\ phase = "up"
      /\ Len(past) = N + 1
  BY DEF IInv, TypeOK, N, Crash, Up
<1>2. ckp.from \in Nat /\ ckp.to \in Nat /\ ckp.from <= ckp.to /\ ckp.to <= N
      /\ ckp.rows \in [Keys -> Versions] /\ crashes \in Nat /\ deltas \in Int
  BY <1>1 DEF TypeOK
<1>3. PICK n \in ckp.to..N : /\ past' = SubSeq(past, 1, n + 1)
                             /\ logs' = [w \in Writers |-> Kept(logs[w], n)]
  BY DEF Crash
<1>4. /\ chain' = [k \in Keys |-> IF ckp.rows[k] = Absent THEN <<>>
                                  ELSE <<Row(ckp.rows[k].ts, ckp.rows[k].val)>>]
      /\ nodeTs' = 0 /\ clock' = [w \in Writers |-> 2] /\ at' = [w \in Writers |-> 0]
      /\ phase' = "replay" /\ crashes' = crashes + 1 /\ ckp' = ckp /\ deltas' = deltas
  BY DEF Crash
<1>5. n \in Nat /\ n \in 0..N
  BY <1>1, <1>2
<1>6. PICK lg : lg = logs'
  OBVIOUS
<1>7. /\ lg \in [Writers -> Seq(LogRecords)]
      /\ \A r : r \in RecordsIn(lg) <=> r \in Records /\ ckp.from < r.change /\ r.change <= n
      /\ InOrder(lg)
  <2>1. Cut(lg, n)
    BY <1>3, <1>6 DEF Cut
  <2> QED
    BY <1>1, <1>5, <2>1, CrashRecords
<1>8. \A r : r \in Records' <=> r \in Records /\ ckp.from < r.change /\ r.change <= n
  <2>1. Records' = RecordsIn(lg)
    BY <1>6 DEF Records, RecordsIn
  <2> QED
    BY <1>7, <2>1
<1>9. /\ past' \in Seq([Keys -> Versions]) /\ Len(past') = n + 1 /\ N' = n
      /\ \A m \in 0..n : past'[m + 1] = past[m + 1]
  <2>1. past \in Seq([Keys -> Versions])
    BY <1>1 DEF TypeOK
  <2>2. \A i \in 1..n + 1 : past[i] \in [Keys -> Versions]
    <3> SUFFICES ASSUME NEW i \in 1..n + 1 PROVE past[i] \in [Keys -> Versions]
      OBVIOUS
    <3>1. i \in 1..Len(past)
      BY <1>1, <1>5
    <3> QED
      BY <2>1, <3>1, ElementOfSeq
  <2>3. PICK p : p = SubSeq(past, 1, n + 1)
    OBVIOUS
  <2>4. 1 \in Int /\ n + 1 \in Int
    BY <1>5
  <2>5. /\ p \in Seq([Keys -> Versions])
        /\ Len(p) = IF 1 <= n + 1 THEN (n + 1) - 1 + 1 ELSE 0
        /\ \A i \in 1..(n + 1) - 1 + 1 : p[i] = past[1 + i - 1]
    BY <2>2, <2>3, <2>4, SubSeqProperties
  <2>6. p = past'
    BY <1>3, <2>3
  <2>7. Len(p) = n + 1
    BY <1>5, <2>5
  <2>8. ASSUME NEW m \in 0..n PROVE p[m + 1] = past[m + 1]
    <3>1. m + 1 \in 1..(n + 1) - 1 + 1 /\ 1 + (m + 1) - 1 = m + 1
      BY <1>5
    <3> QED
      BY <2>5, <3>1
  <2>9. N' = Len(past') - 1
    BY DEF N
  <2>10. N' = n
    BY <1>5, <2>6, <2>7, <2>9
  <2> QED
    BY <2>5, <2>6, <2>7, <2>8, <2>10
<1>10. TypeOK'
  <2>1. chain' \in [Keys -> Seq(Elements)]
    <3>1. ASSUME NEW k \in Keys, NEW x, x = Row(ckp.rows[k].ts, ckp.rows[k].val)
          PROVE  <<x>> \in Seq(Elements)
      <4>1. ckp.rows[k] \in Versions
        BY <1>2
      <4>2. x \in Elements
        BY <3>1, <4>1 DEF Versions, Row, Elements, Even
      <4> QED
        BY <4>2
    <3>2. \A k \in Keys : <<Row(ckp.rows[k].ts, ckp.rows[k].val)>> \in Seq(Elements)
      BY <3>1
    <3> QED
      BY <1>4, <3>2
  <2>2. nodeTs' \in Even /\ clock' \in [Writers -> Even \ {0}]
    BY <1>4 DEF Even
  <2>3. at' \in [Writers -> Nat] /\ \A w \in Writers : at'[w] <= Len(lg[w])
    <3>1. \A w \in Writers : Len(lg[w]) \in Nat
      BY <1>7, LenProperties
    <3> QED
      BY <1>4, <3>1
  <2>4. ckp' \in [rows : [Keys -> Versions], from : Nat, to : Nat]
    BY <1>1, <1>4 DEF TypeOK
  <2>5. ckp'.from <= ckp'.to /\ ckp'.to <= N'
    BY <1>2, <1>3, <1>4, <1>9
  <2>6. N' > 0 => Keys # {}
    BY <1>1, <1>3, <1>5, <1>9 DEF TypeOK
  <2>7. Len(past') > 0
    BY <1>5, <1>9
  <2> QED
    BY <1>2, <1>4, <1>6, <1>7, <1>9, <2>1, <2>2, <2>3, <2>4, <2>5, <2>6, <2>7 DEF TypeOK
<1>11. LogsInOrder'
  BY <1>6, <1>7 DEF LogsInOrder, InOrder
<1>12. \A r \in Records' : Tells(r)'
  <2> SUFFICES ASSUME NEW r \in Records' PROVE Tells(r)'
    OBVIOUS
  <2>1. r \in Records /\ r.change <= n /\ r.change \in 1..N
    BY <1>1, <1>8, RecordParts
  <2>2. Tells(r)
    BY <1>1, <2>1 DEF Logged
  <2>3. r.change \in 0..n /\ r.change - 1 \in 0..n /\ (r.change - 1) + 1 = r.change
        /\ r.change \in 1..n
    BY <1>1, <1>5, <2>1
  <2>4. past'[r.change] = past[r.change] /\ past'[r.change + 1] = past[r.change + 1]
    BY <1>9, <2>3
  <2> QED
    BY <1>9, <2>2, <2>3, <2>4 DEF Tells, Result
<1>13. \A m \in 0..N' : Covered(m)' => \A q \in m + 1..N' : Known(q)'
  <2> SUFFICES ASSUME NEW m \in 0..n, Covered(m)', NEW q \in m + 1..n PROVE Known(q)'
    BY <1>9
  <2>1. Covered(m) /\ m >= ckp.from
    <3>1. CASE m >= ckp.from
      BY <3>1 DEF Covered
    <3>2. CASE \E r \in Records' : r.change <= m
      <4>1. PICK r \in Records' : r.change <= m
        BY <3>2
      <4>2. r \in Records /\ ckp.from < r.change /\ r.change \in Nat
        BY <1>1, <1>8, <4>1, RecordParts
      <4>3. m >= ckp.from
        BY <1>2, <1>5, <4>1, <4>2
      <4> QED
        BY <4>3 DEF Covered
    <3> QED
      BY <1>4, <3>1, <3>2 DEF Covered
  <2>2. m \in 0..N /\ q \in m + 1..N /\ ckp.from < q /\ q <= n
    BY <1>1, <1>2, <1>5, <2>1
  <2>3. Known(q)
    BY <1>1, <2>1, <2>2 DEF Logged
  <2>4. PICK r \in Records : r.change = q
    BY <2>3 DEF Known
  <2>5. r \in Records'
    BY <1>8, <2>2, <2>4
  <2> QED
    BY <2>4, <2>5 DEF Known
<1>14. \A r, s \in Records' : r.key = s.key /\ r.change < s.change => r.ts + 1 < s.ts
  BY <1>1, <1>8 DEF Logged
<1>15. Logged'
  BY <1>11, <1>12, <1>13, <1>14 DEF Logged
<1>16. RowsSeen'
  <2> SUFFICES ASSUME NEW k \in Keys
               PROVE  \E m \in ckp.from..ckp.to : ckp.rows[k] = past'[m + 1][k]
    BY <1>4 DEF RowsSeen
  <2>1. PICK m \in ckp.from..ckp.to : ckp.rows[k] = past[m + 1][k]
    BY <1>1 DEF RowsSeen
  <2>2. m \in 0..n
    BY <1>2, <1>3, <1>5
  <2> QED
    BY <1>9, <2>1, <2>2
<1>17. Current'
  BY <1>4 DEF Current, Up
<1>18. Done' = {}
  <2>1. \A w \in Writers : 1..at'[w] = {}
    BY <1>4
  <2> QED
    BY <2>1 DEF Done
<1>19. ASSUME NEW k \in Keys, NEW c, c = chain'[k] PROVE Sound(c, k, {})' /\ Settled(c)
  <2>1. c \in Seq(Elements)
    BY <1>10, <1>19 DEF TypeOK
  <2>2. CASE ckp.rows[k] = Absent
    <3>1. c = <<>> /\ Len(c) = 0
      BY <1>4, <1>19, <2>2
    <3>2. 1..Len(c) = {} /\ 1..Len(c) - 1 = {} /\ 1..0 = {}
      BY <3>1
    <3>3. Descending(c) /\ Settled(c)
      BY <3>2 DEF Descending, Settled
    <3>4. Markers(c, k, {}, 0)' /\ Rowless(c, k, {}, 0)'
      BY <1>4, <2>2, <3>1, <3>2 DEF Markers, Rowless
    <3> QED
      BY <2>1, <3>3, <3>4 DEF Sound, Descending
  <2>3. CASE ckp.rows[k] # Absent
    <3>1. PICK x : x = Row(ckp.rows[k].ts, ckp.rows[k].val)
      OBVIOUS
    <3>2. c = <<x>>
      BY <1>4, <1>19, <2>3, <3>1
    <3>3. Len(c) = 1 /\ c[1] = x
      BY <3>2
    <3>4. PICK m \in ckp.from..ckp.to : ckp.rows[k] = past'[m + 1][k]
      BY <1>4, <1>16 DEF RowsSeen
    <3>5. m \in ckp'.from..N'
      BY <1>2, <1>3, <1>4, <1>5, <1>9
    <3>6. Descending(c) /\ Settled(c)
      <4>1. 1..Len(c) = {1} /\ 1..Len(c) - 1 = {}
        BY <3>3
      <4> QED
        BY <4>1 DEF Descending, Settled
    <3>7. Markers(c, k, {}, 0)'
      BY DEF Markers
    <3>8. RowAt(c, k, {}, 0, m)'
      BY <2>3, <3>1, <3>3, <3>4 DEF RowAt
    <3> QED
      BY <2>1, <3>5, <3>6, <3>7, <3>8 DEF Sound, Descending
  <2> QED
    BY <2>2, <2>3
<1>20. Replaying'
  <2>1. \A r \in Records' : r.change > ckp'.from
    <3> SUFFICES ASSUME NEW r \in Records' PROVE r.change > ckp'.from
      OBVIOUS
    <3>1. ckp.from < r.change /\ r \in Records
      BY <1>8
    <3>2. r.change \in Nat
      BY <1>1, <3>1, RecordParts
    <3> QED
      BY <1>2, <1>4, <3>1, <3>2
  <2>2. ASSUME NEW k \in Keys PROVE Sound(chain[k], k, Done)' /\ Settled(chain[k])'
    <3>1. PICK c : c = chain'[k]
      OBVIOUS
    <3>2. Sound(c, k, {})' /\ Settled(c)
      BY <1>19, <3>1
    <3> QED
      BY <1>18, <3>1, <3>2 DEF Settled
  <2> QED
    BY <2>1, <2>2 DEF Replaying
<1>21. Counted'
  <2>1. \A k \in Keys : chain'[k] = <<>> \/ \E s, val : chain'[k] = <<Row(s, val)>>
    BY <1>4
  <2>2. Waiting' = {}
    BY <2>1, NoneWaits DEF Waiting
  <2>3. Waiting = {}
    BY <1>1, UpChains DEF Up
  <2>4. deltas = Cardinality({})
    BY <1>1, <2>3 DEF Counted
  <2> QED
    BY <1>4, <2>2, <2>4, FS_EmptySet DEF Counted
<1> QED
  BY <1>10, <1>15, <1>16, <1>17, <1>20, <1>21 DEF IInv


\* The delta markers in the chains ch, and those that are not under the key k.
WaitingIn(ch) == {p \in Keys \X Nat : p[2] \in 1..Len(ch[p[1]]) /\ ch[p[1]][p[2]].delta}
Elsewhere(ch, k) == {p \in WaitingIn(ch) : p[1] # k}

LEMMA WaitingSplit ==
  ASSUME NEW ch, NEW k \in Keys, NEW d \in Nat, NEW n \in Nat, Len(ch[k]) = n, d <= n,
         \A i \in 1..n : ch[k][i].delta <=> i <= d
  PROVE  WaitingIn(ch) = Elsewhere(ch, k) \cup ({k} \X (1..d))
<1>1. ASSUME NEW p \in WaitingIn(ch), p[1] = k PROVE p \in {k} \X (1..d)
  <2>1. p \in Keys \X Nat /\ p[2] \in 1..n /\ ch[k][p[2]].delta
    BY <1>1 DEF WaitingIn
  <2>2. p[2] \in 1..d /\ p = <<k, p[2]>>
    BY <1>1, <2>1
  <2> QED
    BY <2>2
<1>2. ASSUME NEW i \in 1..d PROVE <<k, i>> \in WaitingIn(ch)
  <2>1. i \in 1..n /\ i \in Nat /\ ch[k][i].delta
    OBVIOUS
  <2> QED
    BY <2>1 DEF WaitingIn
<1> QED
  BY <1>1, <1>2 DEF Elsewhere

LEMMA CountSplit ==
  ASSUME NEW O, IsFiniteSet(O), NEW k, \A p \in O : p[1] # k, NEW d \in Nat
  PROVE  /\ IsFiniteSet(O \cup ({k} \X (1..d)))
         /\ Cardinality(O \cup ({k} \X (1..d))) = Cardinality(O) + d
<1>1. IsFiniteSet({k}) /\ Cardinality({k}) = 1
  BY FS_Singleton
<1>2. IsFiniteSet(1..d) /\ Cardinality(1..d) = d
  BY FS_Interval
<1> DEFINE P == {k} \X (1..d)
<1>3. IsFiniteSet(P) /\ Cardinality(P) = d
  <2>1. IsFiniteSet(P) /\ Cardinality(P) = Cardinality({k}) * Cardinality(1..d)
    BY <1>1, <1>2, FS_Product
  <2> HIDE DEF P
  <2> QED
    BY <1>1, <1>2, <2>1
<1>4. O \cap P = {}
  OBVIOUS
<1> HIDE DEF P
<1>5. /\ IsFiniteSet(O \cup P)
      /\ Cardinality(O \cup P) = Cardinality(O) + Cardinality(P) - Cardinality(O \cap P)
  BY <1>3, FS_Union
<1>6. Cardinality(O) \in Nat /\ Cardinality(O \cap P) = 0
  BY <1>4, FS_CardinalityType, FS_EmptySet
<1>7. Cardinality(O \cup P) = Cardinality(O) + d
  BY <1>3, <1>5, <1>6
<1> QED
  BY <1>5, <1>7 DEF P

\* A replay that goes on takes the next record of a log.
LEMMA NextRecord ==
  ASSUME IInv, NEW w \in Writers, at[w] < Len(logs[w]), NEW r, r = logs[w][at[w] + 1],
         at' = [at EXCEPT ![w] = @ + 1], logs' = logs
  PROVE  /\ r \in Records /\ r \notin Done /\ Done \in SUBSET Records
         /\ Done' = Done \cup {r} /\ at' \in [Writers -> Nat]
         /\ \A v \in Writers : at'[v] <= Len(logs'[v])
<1>1. TypeOK /\ Logged
  BY DEF IInv
<1>2. /\ at \in [Writers -> Nat] /\ \A v \in Writers : at[v] \in Nat /\ at[v] <= Len(logs[v])
      /\ \A v \in Writers : Len(logs[v]) \in Nat
  <2>1. \A v \in Writers : logs[v] \in Seq(LogRecords)
    BY <1>1 DEF TypeOK
  <2>2. \A v \in Writers : Len(logs[v]) \in Nat
    BY <2>1, LenProperties
  <2> QED
    BY <1>1, <2>2 DEF TypeOK
<1>3. /\ at'[w] = at[w] + 1 /\ \A v \in Writers : v # w => at'[v] = at[v]
      /\ at' \in [Writers -> Nat]
  BY <1>2
<1>4. at[w] + 1 \in 1..Len(logs[w])
  BY <1>2
<1>5. r \in Records
  BY <1>4 DEF Records
<1>6. ASSUME NEW s \in Done PROVE s \in Records /\ s # r
  <2>1. PICK v \in Writers : \E i \in 1..at[v] : s = logs[v][i]
    BY DEF Done
  <2>2. PICK i \in 1..at[v] : s = logs[v][i]
    BY <2>1
  <2>3. i \in 1..Len(logs[v])
    BY <1>2, <2>2
  <2>4. s \in Records
    BY <2>2, <2>3 DEF Records
  <2>5. s.change # r.change
    <3>1. CASE v # w
      BY <1>1, <1>4, <2>2, <2>3, <3>1 DEF Logged, LogsInOrder
    <3>2. CASE v = w
      <4>1. i < at[w] + 1
        BY <1>2, <2>2, <3>2
      <4>2. s.change < r.change
        BY <1>1, <1>4, <2>2, <2>3, <3>2, <4>1 DEF Logged, LogsInOrder
      <4>3. s.change \in Nat /\ r.change \in Nat
        BY <1>1, <1>5, <2>4, RecordParts
      <4> QED
        BY <4>2, <4>3
    <3> QED
      BY <3>1, <3>2
  <2> QED
    BY <2>4, <2>5
<1>7. Done' = Done \cup {r}
  <2>1. ASSUME NEW s \in Done' PROVE s \in Done \cup {r}
    <3>1. PICK v \in Writers : \E i \in 1..at'[v] : s = logs[v][i]
      BY DEF Done
    <3>2. PICK i \in 1..at'[v] : s = logs[v][i]
      BY <3>1
    <3>3. CASE i \in 1..at[v]
      BY <3>2, <3>3 DEF Done
    <3>4. CASE ~(i \in 1..at[v])
      <4>1. v = w /\ i = at[w] + 1
        BY <1>2, <1>3, <3>2, <3>4
      <4> QED
        BY <3>2, <4>1
    <3> QED
      BY <3>3, <3>4
  <2>2. ASSUME NEW s \in Done PROVE s \in Done'
    <3>1. PICK v \in Writers : \E i \in 1..at[v] : s = logs[v][i]
      BY DEF Done
    <3>2. PICK i \in 1..at[v] : s = logs[v][i]
      BY <3>1
    <3>3. i \in 1..at'[v]
      BY <1>2, <1>3, <3>2
    <3> QED
      BY <3>2, <3>3 DEF Done
  <2>3. r \in Done'
    <3>1. at[w] + 1 \in 1..at'[w]
      BY <1>2, <1>3
    <3> QED
      BY <3>1 DEF Done
  <2> QED
    BY <2>1, <2>2, <2>3
<1>8. \A v \in Writers : at'[v] <= Len(logs'[v])
  <2> SUFFICES ASSUME NEW v \in Writers PROVE at'[v] <= Len(logs'[v])
    OBVIOUS
  <2>1. CASE v = w
    BY <1>2, <1>3, <2>1
  <2>2. CASE v # w
    BY <1>2, <1>3, <2>2
  <2> QED
    BY <2>1, <2>2
<1> QED
  BY <1>3, <1>5, <1>6, <1>7, <1>8


\* Soundness is about the past and the checkpoint only.
LEMMA StillSound ==
  ASSUME ckp' = ckp, past' = past, NEW c, NEW k, NEW D, Sound(c, k, D)
  PROVE  Sound(c, k, D)'
<1>1. N' = N
  BY DEF N
<1>2. PICK d \in Nat : /\ Markers(c, k, D, d)
                       /\ Rowless(c, k, D, d) \/ \E n \in ckp.from..N : RowAt(c, k, D, d, n)
  BY DEF Sound
<1>3. Markers(c, k, D, d)' /\ Descending(c)'
  BY <1>2 DEF Markers, Sound, Descending
<1>4. CASE Rowless(c, k, D, d)
  <2>1. Rowless(c, k, D, d)'
    BY <1>4 DEF Rowless, WaitsIn
  <2> QED
    BY <1>2, <1>3, <2>1 DEF Sound
<1>5. CASE \E n \in ckp.from..N : RowAt(c, k, D, d, n)
  <2>1. PICK n \in ckp.from..N : RowAt(c, k, D, d, n)
    BY <1>5
  <2>2. RowAt(c, k, D, d, n)'
    BY <2>1 DEF RowAt, WaitsIn
  <2>3. n \in ckp'.from..N'
    BY <1>1
  <2> QED
    BY <1>2, <1>3, <2>2, <2>3 DEF Sound
<1> QED
  BY <1>2, <1>4, <1>5

LEMMA ReplayKeeps ==
  ASSUME IInv, NEW w \in Writers, Replay(w)
  PROVE  IInv'
<1>1. TypeOK /\ Logged /\ RowsSeen /\ Replaying /\ Counted /\ phase = "replay"
  BY DEF IInv, Replay
<1>2. PICK r : r = logs[w][at[w] + 1]
  OBVIOUS
<1>3. /\ at[w] < Len(logs[w]) /\ at' = [at EXCEPT ![w] = @ + 1]
      /\ ~Unparsable(chain[r.key], r)
      /\ chain' = [chain EXCEPT ![r.key] = Replayed(@, r)]
      /\ deltas' = deltas + DeltasIn(chain'[r.key]) - DeltasIn(chain[r.key])
      /\ nodeTs' = nodeTs /\ clock' = clock /\ logs' = logs /\ ckp' = ckp /\ phase' = phase
      /\ past' = past /\ crashes' = crashes
  BY <1>2 DEF Replay
<1>4. /\ r \in Records /\ r \notin Done /\ Done \in SUBSET Records /\ Done' = Done \cup {r}
      /\ at' \in [Writers -> Nat] /\ \A v \in Writers : at'[v] <= Len(logs'[v])
  BY <1>2, <1>3, NextRecord
<1>5. PICK k, c, D, E : k = r.key /\ c = chain[k] /\ D = Done /\ E = Done'
  OBVIOUS
<1>6. k \in Keys /\ r.change > ckp.from /\ Sound(c, k, D) /\ Settled(c)
  BY <1>1, <1>4, <1>5, RecordParts DEF Replaying
<1>7. PICK e : e = Replayed(c, r)
  OBVIOUS
<1>8. Sound(e, k, E) /\ Settled(e)
  BY <1>1, <1>3, <1>4, <1>5, <1>6, <1>7, ReplayedSound
<1>9. chain \in [Keys -> Seq(Elements)] /\ chain' = [chain EXCEPT ![k] = e]
  BY <1>1, <1>3, <1>5, <1>7 DEF TypeOK
<1>10. e \in Seq(Elements) /\ c \in Seq(Elements)
  BY <1>6, <1>8 DEF Sound
<1>11. chain'[k] = e /\ (\A q \in Keys : q # k => chain'[q] = chain[q])
       /\ chain' \in [Keys -> Seq(Elements)]
  BY <1>6, <1>9, <1>10
<1>12. PICK d \in Nat : DeltasIn(c) = d /\ d <= Len(c) /\ \A i \in 1..Len(c) : c[i].delta <=> i <= d
  <2>1. PICK d \in Nat : /\ Markers(c, k, D, d)
                         /\ Rowless(c, k, D, d) \/ \E n \in ckp.from..N : RowAt(c, k, D, d, n)
    BY <1>6 DEF Sound
  <2> QED
    BY <1>1, <1>4, <1>5, <1>6, <1>10, <2>1, MarkerCount
<1>13. PICK d1 \in Nat : /\ DeltasIn(e) = d1 /\ d1 <= Len(e)
                         /\ \A i \in 1..Len(e) : e[i].delta <=> i <= d1
  <2>1. PICK m \in Nat : /\ Markers(e, k, E, m)
                         /\ Rowless(e, k, E, m) \/ \E n \in ckp.from..N : RowAt(e, k, E, m, n)
    BY <1>8 DEF Sound
  <2>2. E \in SUBSET Records
    BY <1>4, <1>5
  <2> QED
    BY <1>1, <1>6, <1>10, <2>1, <2>2, MarkerCount
<1>14. deltas' = deltas + d1 - d /\ deltas \in Int
  BY <1>1, <1>3, <1>5, <1>11, <1>12, <1>13 DEF TypeOK
<1>15. TypeOK'
  <2>1. N' = N
    BY <1>3 DEF N
  <2>2. deltas' \in Int
    BY <1>12, <1>13, <1>14
  <2> QED
    BY <1>1, <1>3, <1>4, <1>11, <2>1, <2>2 DEF TypeOK
<1>16. Records' = Records /\ N' = N
  BY <1>3 DEF Records, N
<1>17. Logged'
  <2>1. LogsInOrder'
    BY <1>1, <1>3 DEF Logged, LogsInOrder
  <2>2. \A s \in Records' : Tells(s)'
    BY <1>1, <1>3, <1>16 DEF Logged, Tells, Result
  <2>3. \A m \in 0..N' : Covered(m)' => \A n \in m + 1..N' : Known(n)'
    BY <1>1, <1>3, <1>16 DEF Logged, Known, Covered
  <2>4. \A s, t \in Records' : s.key = t.key /\ s.change < t.change => s.ts + 1 < t.ts
    BY <1>1, <1>16 DEF Logged
  <2> QED
    BY <2>1, <2>2, <2>3, <2>4 DEF Logged
<1>18. RowsSeen'
  BY <1>1, <1>3 DEF RowsSeen
<1>19. Current'
  BY <1>1, <1>3 DEF Current, Up
<1>20. Replaying'
  <2>1. \A s \in Records' : s.change > ckp'.from
    BY <1>1, <1>3, <1>16 DEF Replaying
  <2>2. ASSUME NEW q \in Keys PROVE Sound(chain[q], q, Done)' /\ Settled(chain[q])'
    <3>1. PICK x : x = chain'[q]
      OBVIOUS
    <3>2. Sound(x, q, E) /\ Settled(x)
      <4>1. CASE q = k
        BY <1>8, <1>11, <3>1, <4>1
      <4>2. CASE q # k
        <5>1. x = chain[q]
          BY <1>11, <3>1, <4>2
        <5>2. Sound(x, q, D) /\ Settled(x)
          BY <1>1, <1>5, <5>1 DEF Replaying
        <5>3. Sound(x, q, D \cup {r})
          BY <1>1, <1>4, <1>5, <4>2, <5>2, OtherSound
        <5> QED
          BY <1>4, <1>5, <5>2, <5>3
      <4> QED
        BY <4>1, <4>2
    <3>3. Sound(x, q, E)'
      BY <1>3, <3>2, StillSound
    <3> QED
      BY <1>5, <3>1, <3>2, <3>3 DEF Settled
  <2> QED
    BY <2>1, <2>2 DEF Replaying
<1>21. Counted'
  <2>1. PICK ch, dh : ch = chain /\ dh = chain'
    OBVIOUS
  <2>2. Waiting = WaitingIn(ch) /\ Waiting' = WaitingIn(dh)
    BY <2>1 DEF Waiting, WaitingIn
  <2>3. WaitingIn(ch) = Elsewhere(ch, k) \cup ({k} \X (1..d))
    <3>1. Len(ch[k]) \in Nat /\ ch[k] = c
      BY <1>5, <1>10, <2>1, LenProperties
    <3> QED
      BY SMTT(30), <1>6, <1>12, <3>1, WaitingSplit
  <2>4. WaitingIn(dh) = Elsewhere(dh, k) \cup ({k} \X (1..d1))
    <3>1. Len(dh[k]) \in Nat /\ dh[k] = e
      BY <1>10, <1>11, <2>1, LenProperties
    <3> QED
      BY SMTT(30), <1>6, <1>13, <3>1, WaitingSplit
  <2>5. Elsewhere(dh, k) = Elsewhere(ch, k)
    <3>1. \A p \in Keys \X Nat : p[1] # k => dh[p[1]] = ch[p[1]]
      BY <1>11, <2>1
    <3> QED
      BY <3>1 DEF Elsewhere, WaitingIn
  <2>6. PICK O : O = Elsewhere(ch, k)
    OBVIOUS
  <2>7. IsFiniteSet(O) /\ \A p \in O : p[1] # k
    <3>1. O \in SUBSET WaitingIn(ch)
      BY <2>6 DEF Elsewhere
    <3>2. IsFiniteSet(WaitingIn(ch))
      BY <1>1, <2>2 DEF Counted
    <3> QED
      BY <2>6, <3>1, <3>2, FS_Subset DEF Elsewhere
  <2>8. Cardinality(Waiting) = Cardinality(O) + d
    <3>1. Cardinality(O \cup ({k} \X (1..d))) = Cardinality(O) + d
      BY <2>7, CountSplit
    <3>2. Waiting = O \cup ({k} \X (1..d))
      BY <2>2, <2>3, <2>6
    <3> QED
      BY <3>1, <3>2
  <2>9. IsFiniteSet(Waiting') /\ Cardinality(Waiting') = Cardinality(O) + d1
    <3>1. /\ IsFiniteSet(O \cup ({k} \X (1..d1)))
          /\ Cardinality(O \cup ({k} \X (1..d1))) = Cardinality(O) + d1
      BY <2>7, CountSplit
    <3>2. Waiting' = O \cup ({k} \X (1..d1))
      BY <2>2, <2>4, <2>5, <2>6
    <3> QED
      BY <3>1, <3>2
  <2>10. deltas = Cardinality(O) + d /\ Cardinality(O) \in Nat
    BY <1>1, <2>7, <2>8, FS_CardinalityType DEF Counted
  <2>11. deltas' = Cardinality(Waiting')
    BY <1>14, <2>9, <2>10
  <2> QED
    BY <2>9, <2>11 DEF Counted
<1> QED
  BY <1>15, <1>17, <1>18, <1>19, <1>20, <1>21 DEF IInv


\* What is left of the state in steps that change neither logs nor rows.
LEMMA SameLogs ==
  ASSUME IInv, logs' = logs, past' = past, ckp' = ckp
  PROVE  Logged' /\ RowsSeen' /\ Records' = Records /\ N' = N
<1>1. TypeOK /\ Logged /\ RowsSeen
  BY DEF IInv
<1>2. Records' = Records /\ N' = N
  BY DEF Records, N
<1>3. LogsInOrder'
  BY <1>1 DEF Logged, LogsInOrder
<1>4. \A s \in Records' : Tells(s)'
  BY <1>1, <1>2 DEF Logged, Tells, Result
<1>5. \A m \in 0..N' : Covered(m)' => \A n \in m + 1..N' : Known(n)'
  BY <1>1, <1>2 DEF Logged, Known, Covered
<1>6. \A s, t \in Records' : s.key = t.key /\ s.change < t.change => s.ts + 1 < t.ts
  BY <1>1, <1>2 DEF Logged
<1>7. RowsSeen'
  BY <1>1 DEF RowsSeen
<1> QED
  BY <1>2, <1>3, <1>4, <1>5, <1>6, <1>7 DEF Logged

LEMMA AbortKeeps ==
  ASSUME IInv, NEW w \in Writers, Abort(w)
  PROVE  IInv'
<1>1. /\ phase' = "aborted" /\ chain' = chain /\ nodeTs' = nodeTs /\ clock' = clock
      /\ logs' = logs /\ at' = at /\ ckp' = ckp /\ deltas' = deltas /\ past' = past
      /\ crashes' = crashes
  BY DEF Abort
<1>2. Logged' /\ RowsSeen' /\ Records' = Records /\ N' = N
  BY <1>1, SameLogs
<1>3. TypeOK'
  BY <1>1, <1>2 DEF IInv, TypeOK
<1>4. Current' /\ Replaying' /\ Counted'
  BY <1>1 DEF Current, Up, Replaying, Counted
<1> QED
  BY <1>2, <1>3, <1>4 DEF IInv

\* When all records are replayed no marker is left, and the row is the last one.
LEMMA AllReplayed ==
  ASSUME TypeOK, Logged, RowsSeen, NEW k \in Keys, NEW c, Sound(c, k, Records), Settled(c)
  PROVE  LET last == past[N + 1][k]
         IN  IF last = Absent
             THEN c = <<>> /\ \A r \in Records : r.key # k
             ELSE c = <<Row(last.ts, last.val)>>
<1>1. c \in Seq(Elements) /\ Descending(c) /\ Len(c) \in Nat
  BY LenProperties DEF Sound
<1>2. PICK d \in Nat : /\ Markers(c, k, Records, d)
                       /\ Rowless(c, k, Records, d)
                          \/ \E n \in ckp.from..N : RowAt(c, k, Records, d, n)
  BY DEF Sound
<1>3. N \in Nat /\ ckp.from \in Nat /\ ckp.to \in Nat /\ ckp.to <= N /\ N \in 0..N
  BY DEF TypeOK, N
<1>4. ASSUME NEW r \in Records, r.key = k, WaitsIn(r, c, d)
      PROVE  r.command = "modify"
  <2>1. PICK i \in 1..d : c[i] = Marker(r)
    BY <1>4 DEF WaitsIn
  <2>2. PICK q \in Records : q.command = "modify" /\ c[i] = Marker(q)
    BY <1>2 DEF Markers
  <2>3. q = r
    BY <2>1, <2>2, MarkerParts
  <2> QED
    BY <2>2, <2>3
<1>5. CASE Rowless(c, k, Records, d)
  <2>1. Len(c) = d /\ ckp.rows[k] = Absent /\ \A r \in Records : r.key = k => WaitsIn(r, c, d)
    BY <1>5 DEF Rowless
  <2>2. PICK m \in ckp.from..ckp.to : past[m + 1][k] = Absent
    BY <2>1 DEF RowsSeen
  <2>3. m \in 0..N /\ m \in Nat /\ N \in m..N /\ Covered(m)
    BY <1>3 DEF Covered
  <2>4. ASSUME NEW q \in Records, q.key = k PROVE FALSE
    <3>1. CASE q.change <= m
      <4>1. PICK g \in Records : /\ g.key = k
                                 /\ past[m + 1][k] = Result(g, past[g.change][k])
        BY <2>3, <2>4, <3>1, LastRecord
      <4>2. g.command = "modify"
        BY <1>4, <2>1, <4>1
      <4>3. past[m + 1][k].ts = g.ts
        BY <4>1, <4>2, ResultStamp
      <4>4. past[g.change][k].ts < g.ts /\ g.ts \in Nat /\ past[g.change][k].ts \in Nat
        <5>1. past[g.change][k] \in Versions
          BY <4>1, RecordParts
        <5> QED
          BY <4>1, <5>1, OlderRow, RecordParts DEF Versions, Even
      <4> QED
        BY <2>2, <4>3, <4>4 DEF Absent
    <3>2. CASE m < q.change
      <4>1. PICK f \in Records : f.key = k /\ past[f.change][k] = past[m + 1][k]
        BY <2>3, <2>4, <3>2, FirstRecord
      <4>2. f.command = "modify"
        BY <1>4, <2>1, <4>1
      <4>3. past[f.change][k] # Absent
        BY <4>1, <4>2, OlderRow
      <4> QED
        BY <2>2, <4>1, <4>3
    <3>3. q.change \in Nat
      BY RecordParts
    <3> QED
      BY <2>3, <3>1, <3>2, <3>3
  <2>5. past[N + 1][k] = Absent
    <3>1. past[N + 1][k] = past[m + 1][k]
      BY <1>3, <2>3, <2>4, Unchanged
    <3> QED
      BY <2>2, <3>1
  <2>6. d = 0
    <3> SUFFICES ASSUME d # 0 PROVE FALSE
      OBVIOUS
    <3>1. 1 \in 1..d
      BY <1>2
    <3> QED
      BY <1>2, <2>4, <3>1 DEF Markers
  <2>7. c = <<>>
    BY <1>1, <2>1, <2>6, EmptySeq
  <2> QED
    BY <2>4, <2>5, <2>7
<1>6. CASE \E n \in ckp.from..N : RowAt(c, k, Records, d, n)
  <2>1. PICK n \in ckp.from..N : RowAt(c, k, Records, d, n)
    BY <1>6
  <2>2. n \in 0..N /\ n \in Nat /\ N \in n..N /\ Covered(n)
    BY <1>3 DEF Covered
  <2>3. /\ Len(c) = d + 1 /\ past[n + 1][k] # Absent
        /\ c[d + 1] = Row(past[n + 1][k].ts, past[n + 1][k].val)
        /\ \A r \in Records : r.key = k => r.change <= n \/ WaitsIn(r, c, d)
    BY <2>1 DEF RowAt
  <2>4. ~c[d + 1].delta /\ c[d + 1].ts = past[n + 1][k].ts /\ past[n + 1][k].ts \in Nat
    BY <2>2, <2>3, RowParts, VersionOf DEF Even
  <2>5. d = 0
    <3> SUFFICES ASSUME d # 0 PROVE FALSE
      OBVIOUS
    <3>1. d \in 1..d /\ d \in 1..Len(c) /\ d + 1 \in 1..Len(c) /\ d < d + 1
          /\ d \in 1..Len(c) - 1
      BY <1>2, <2>3
    <3>2. PICK q \in Records : q.key = k /\ q.command = "modify" /\ c[d] = Marker(q)
      BY <1>2, <3>1 DEF Markers
    <3>3. q.ts \in Nat /\ q.change \in Nat /\ c[d].ts = q.ts + 1 /\ Stamp(q) = q.ts
      BY <3>2, MarkerParts, RecordParts DEF Even, Stamp
    <3>4. past[n + 1][k].ts < q.ts
      <4>1. c[d + 1].ts + 1 < c[d].ts
        BY <1>1, <3>1 DEF Descending
      <4> QED
        BY <2>4, <3>3, <4>1
    <3>5. n < q.change
      <4>1. ~(q.change <= n)
        BY <2>2, <2>3, <2>4, <3>2, <3>3, <3>4, StampOrder
      <4> QED
        BY <2>2, <3>3, <4>1
    <3>6. PICK f \in Records : /\ f.key = k /\ n < f.change /\ f.change <= q.change
                               /\ past[f.change][k] = past[n + 1][k]
      BY <2>2, <3>2, <3>5, FirstRecord
    <3>7. f.ts \in Nat /\ f.change \in Nat
      BY RecordParts DEF Even
    <3>8. WaitsIn(f, c, d)
      BY <2>2, <2>3, <3>6, <3>7
    <3>9. f.command = "modify"
      BY <1>4, <3>6, <3>8
    <3>10. f.prev = past[n + 1][k].ts
      BY <3>6, <3>9, OlderRow
    <3>11. PICK i \in 1..d : c[i] = Marker(f)
      BY <3>8 DEF WaitsIn
    <3>12. c[i].ts = f.ts + 1 /\ c[i].prev = f.prev
      BY <3>11, MarkerParts
    <3>13. i = d
      <4> SUFFICES ASSUME i # d PROVE FALSE
        OBVIOUS
      <4>1. i \in 1..Len(c) /\ i < d
        BY <1>2, <2>3, <3>11
      <4>2. c[d].ts + 1 < c[i].ts
        BY <1>1, <3>1, <4>1 DEF Descending
      <4>3. q.ts + 1 < f.ts
        BY <3>3, <3>7, <3>12, <4>2
      <4>4. CASE f.change = q.change
        <5>1. f = q
          BY <4>4, RecordOrder
        <5> QED
          BY <3>7, <4>3, <5>1
      <4>5. CASE f.change < q.change
        <5>1. f.ts + 1 < q.ts
          BY <3>2, <3>6, <4>5, RecordOrder
        <5> QED
          BY <3>3, <3>7, <4>3, <5>1
      <4> QED
        BY <3>3, <3>6, <3>7, <4>4, <4>5
    <3>14. c[d].prev # c[d + 1].ts
      BY <2>4, <3>1 DEF Settled
    <3> QED
      BY <2>4, <3>10, <3>12, <3>13, <3>14
  <2>6. \A r \in Records : r.key = k => r.change <= n \/ r.change > N
    <3> SUFFICES ASSUME NEW r \in Records, r.key = k PROVE r.change <= n
      OBVIOUS
    <3>1. ~WaitsIn(r, c, d)
      BY <2>5 DEF WaitsIn
    <3> QED
      BY <2>3, <3>1
  <2>7. past[N + 1][k] = past[n + 1][k]
    BY <2>2, <2>6, Unchanged
  <2>8. PICK x : x = Row(past[n + 1][k].ts, past[n + 1][k].val)
    OBVIOUS
  <2>9. Len(c) = 1 /\ c[1] = x
    BY <2>3, <2>5, <2>8
  <2>10. c = <<x>>
    BY <1>1, <2>9
  <2> QED
    BY <2>3, <2>7, <2>8, <2>10
<1> QED
  BY <1>2, <1>5, <1>6


LEMMA RecoveredKeeps ==
  ASSUME IInv, Recovered
  PROVE  IInv'
<1>1. /\ phase = "replay" /\ phase' = "up" /\ chain' = chain /\ nodeTs' = nodeTs
      /\ clock' = clock /\ logs' = logs /\ at' = at /\ ckp' = ckp /\ deltas' = deltas
      /\ past' = past /\ crashes' = crashes
      /\ \A w \in Writers : at[w] = Len(logs[w])
  BY DEF Recovered
<1>2. TypeOK /\ Logged /\ RowsSeen /\ Replaying /\ Counted
  BY DEF IInv
<1>3. Logged' /\ RowsSeen' /\ Records' = Records /\ N' = N
  BY <1>1, SameLogs
<1>4. TypeOK'
  BY <1>1, <1>2, <1>3 DEF TypeOK
<1>5. Done = Records
  BY <1>1 DEF Done, Records
<1>6. Current'
  <2> SUFFICES ASSUME NEW k \in Keys
               PROVE  IF past[N + 1][k] = Absent
                      THEN /\ chain[k] = <<>>
                           /\ \A r \in Records : r.key = k => r.ts + 1 < nodeTs
                      ELSE chain[k] = <<Row(past[N + 1][k].ts, past[N + 1][k].val)>>
    BY <1>1, <1>3 DEF Current
  <2>1. PICK c : c = chain[k]
    OBVIOUS
  <2>2. Sound(c, k, Records) /\ Settled(c)
    BY <1>1, <1>2, <1>5, <2>1 DEF Replaying
  <2>3. IF past[N + 1][k] = Absent
        THEN c = <<>> /\ \A r \in Records : r.key # k
        ELSE c = <<Row(past[N + 1][k].ts, past[N + 1][k].val)>>
    BY <1>2, <2>2, AllReplayed
  <2> QED
    BY <2>1, <2>3
<1>7. Replaying'
  BY <1>1 DEF Replaying
<1>8. Counted'
  BY <1>1, <1>2 DEF Counted, Waiting
<1> QED
  BY <1>3, <1>4, <1>6, <1>7, <1>8 DEF IInv

LEMMA NextKeeps ==
  ASSUME IInv, [Next]_vars
  PROVE  IInv'
<1>1. ASSUME NEW w \in Writers, NEW k \in Keys, Put(w, k) PROVE IInv'
  BY <1>1, PutKeeps
<1>2. ASSUME NEW w \in Writers, NEW k \in Keys, Replace(w, k) PROVE IInv'
  BY <1>2, ReplaceKeeps
<1>3. ASSUME NEW w \in Writers, NEW k \in Keys, RemoveRow(w, k) PROVE IInv'
  BY <1>3, RemoveRowKeeps
<1>4. CASE Checkpoint
  BY <1>4, CheckpointKeeps
<1>5. CASE Crash
  BY <1>5, CrashKeeps
<1>6. ASSUME NEW w \in Writers, Replay(w) PROVE IInv'
  BY <1>6, ReplayKeeps
<1>7. ASSUME NEW w \in Writers, Abort(w) PROVE IInv'
  BY <1>7, AbortKeeps
<1>8. CASE Recovered
  BY <1>8, RecoveredKeeps
<1>9. CASE UNCHANGED vars
  <2>1. /\ chain' = chain /\ nodeTs' = nodeTs /\ clock' = clock /\ logs' = logs /\ at' = at
        /\ ckp' = ckp /\ phase' = phase /\ deltas' = deltas /\ past' = past /\ crashes' = crashes
    BY <1>9 DEF vars
  <2>2. Logged' /\ RowsSeen' /\ Records' = Records /\ N' = N
    BY <2>1, SameLogs
  <2>3. TypeOK'
    BY <2>1, <2>2 DEF IInv, TypeOK
  <2>4. Current'
    BY <2>1, <2>2 DEF IInv, Current, Up
  <2>5. Replaying'
    <3> SUFFICES ASSUME phase = "replay"
                 PROVE  /\ \A r \in Records : r.change > ckp.from
                        /\ \A k \in Keys : Sound(chain[k], k, Done)' /\ Settled(chain[k])
      BY <2>1, <2>2 DEF Replaying, Settled
    <3>1. /\ \A r \in Records : r.change > ckp.from
          /\ \A k \in Keys : Sound(chain[k], k, Done) /\ Settled(chain[k])
      BY DEF IInv, Replaying
    <3>2. ASSUME NEW k \in Keys PROVE Sound(chain[k], k, Done)'
      <4>1. PICK c, D : c = chain[k] /\ D = Done
        OBVIOUS
      <4>2. Sound(c, k, D)'
        BY <2>1, <3>1, <4>1, StillSound
      <4>3. Done' = D /\ chain'[k] = c
        BY <2>1, <4>1 DEF Done
      <4> QED
        BY <4>2, <4>3
    <3> QED
      BY <3>1, <3>2
  <2>6. Counted'
    BY <2>1 DEF IInv, Counted, Waiting
  <2> QED
    BY <2>2, <2>3, <2>4, <2>5, <2>6 DEF IInv
<1> QED
  BY <1>1, <1>2, <1>3, <1>4, <1>5, <1>6, <1>7, <1>8, <1>9 DEF Next

LEMMA Invariant == Spec => []IInv
<1>1. Init => IInv
  BY Initially
<1>2. IInv /\ [Next]_vars => IInv'
  BY NextKeeps
<1> QED
  BY <1>1, <1>2, PTL DEF Spec

-----------------------------------------------------------------------------
(* The theorems, for any keys, threads, changes, checkpoint and crashes.     *)

\* The types of the variables.  The clocks of the threads and of the leaf are even
\* (the odd time stamps belong to markers, kvrow.hh), and every row that a lookup
\* ever saw has an even time stamp, 0 for none.
THEOREM TypeCorrect == Spec => []TypeOK
<1>1. IInv => TypeOK
  BY DEF IInv
<1> QED
  BY <1>1, Invariant, PTL

\* The records of a key have time stamps in the order of its changes, on whatever
\* threads they were made, across removals and restarts, and a modification names
\* the change before it (query::assign_timestamp and node_ts_).
THEOREM StampsAlwaysFollow == Spec => []StampsFollowChanges
<1>1. IInv => StampsFollowChanges
  BY StampsFollow DEF IInv
<1> QED
  BY <1>1, Invariant, PTL

\* A recovery that ends has brought back the row and the time stamp of every key,
\* in whatever order the logs were replayed and whatever rows the checkpoint read
\* (logrecord::apply).
THEOREM ReplayAlwaysRestores == Spec => []ReplayRestores
<1>1. ASSUME IInv PROVE ReplayRestores
  <2> SUFFICES ASSUME Up, NEW k \in Keys PROVE Visible(chain[k]) = past[N + 1][k]
    BY DEF ReplayRestores
  <2>1. TypeOK /\ Current /\ N \in 0..N
    BY <1>1 DEF IInv, TypeOK, N
  <2>2. past[N + 1][k] \in Versions
    BY <2>1, VersionOf
  <2>3. CASE chain[k] = <<>>
    <3>1. PICK x : x = Row(past[N + 1][k].ts, past[N + 1][k].val)
      OBVIOUS
    <3>2. chain[k] # <<x>>
      BY <2>3
    <3>3. past[N + 1][k] = Absent
      BY <2>1, <3>1, <3>2 DEF Current
    <3> QED
      BY <2>3, <3>3 DEF Visible
  <2>4. CASE chain[k] # <<>>
    <3>1. /\ chain[k][1].ts = past[N + 1][k].ts /\ chain[k][1].val = past[N + 1][k].val
          /\ ~IsMarker(chain[k][1])
      BY <1>1, <2>4, RowPresent
    <3>2. Visible(chain[k]) = [ts |-> past[N + 1][k].ts, val |-> past[N + 1][k].val]
      BY <2>4, <3>1 DEF Visible
    <3> QED
      BY <2>2, <3>2 DEF Versions
  <2> QED
    BY <2>3, <2>4
<1> QED
  BY <1>1, Invariant, PTL

\* When a recovery has ended, and in every state of normal operation, no change
\* waits for its row any more, and the counters agree (mtd.cc:1471).
THEOREM DeltasAlwaysRecycled == Spec => []DeltasAreRecycled
<1>1. ASSUME IInv PROVE DeltasAreRecycled
  <2> SUFFICES ASSUME Up PROVE deltas = 0 /\ \A k \in Keys : DeltasIn(chain[k]) = 0
    BY DEF DeltasAreRecycled
  <2>1. Waiting = {} /\ \A k \in Keys : DeltasIn(chain[k]) = 0
    BY <1>1, UpChains DEF IInv
  <2>2. deltas = Cardinality({})
    BY <1>1, <2>1 DEF IInv, Counted, Up
  <2> QED
    BY <2>1, <2>2, FS_EmptySet
<1> QED
  BY <1>1, Invariant, PTL

=============================================================================
