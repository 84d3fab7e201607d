-------------------------- MODULE CheckpointProofs --------------------------
(* Theorems about LogEpochs and Checkpoint, for every number of logs, of    *)
(* writers, keys and checkpoint threads, every assignment of the writers to *)
(* logs and any number of checkpoints and crashes.  Those about LogEpochs   *)
(* come first: the logs and their epochs, then the first recovery from them *)
(* (CompleteLogsReplayConsistently); those about Checkpoint rest on them.   *)
EXTENDS Checkpoint, SequenceTheorems, CountingTheorems
LOCAL INSTANCE SequencesExt
LOCAL INSTANCE FiniteSetsExt

-----------------------------------------------------------------------------
(* Records and the epochs that recovery reads.                             *)

LEMMA LeastOf ==
  ASSUME NEW T \in SUBSET Nat, T # {}
  PROVE  Min(T) \in T /\ \A y \in T : Min(T) <= y
BY LeastNatural DEF Min

LEMMA GreatestOf ==
  ASSUME NEW T \in SUBSET Nat, T # {}, NEW b \in Nat, \A y \in T : y <= b
  PROVE  Max(T) \in T /\ \A y \in T : y <= Max(T)
<1>1. \E x \in T : \A y \in T : x >= y
  BY GreatestNatural
<1>2. Max(T) \in T /\ \A y \in T : Max(T) >= y
  BY <1>1 DEF Max
<1> QED
  BY <1>2

\* A record has the fields of its command.
LEMMA RecordForm ==
  ASSUME NEW r \in Records
  PROVE  /\ r.cmd = "epoch" => r.epoch \in Nat
         /\ r.cmd = "change" => r.change \in Nat /\ r = ChangeRecord(r.change)
<1>1. CASE r \in [cmd : {"epoch"}, epoch : Nat]
  BY <1>1
<1>2. CASE r \in [cmd : {"wake", "quiesce"}]
  BY <1>2
<1>3. CASE r \in [cmd : {"change"}, change : Nat]
  BY <1>3 DEF ChangeRecord
<1> QED
  BY <1>1, <1>2, <1>3 DEF Records

LEMMA RecordTypes ==
  /\ \A n \in Nat : ChangeRecord(n) \in Records /\ ChangeRecord(n).cmd = "change"
                    /\ ChangeRecord(n).change = n
  /\ \A e \in Nat : EpochRecord(e) \in Records /\ EpochRecord(e).cmd # "change"
  /\ WakeRecord \in Records /\ WakeRecord.cmd # "change"
  /\ QuiesceRecord \in Records /\ QuiesceRecord.cmd # "change"
BY DEF ChangeRecord, EpochRecord, WakeRecord, QuiesceRecord, Records

LEMMA PlacesOf ==
  ASSUME NEW s \in Seq(Records), NEW cmd
  PROVE  /\ Len(s) \in Nat /\ DOMAIN s = 1..Len(s)
         /\ Places(s, cmd) \subseteq 1..Len(s)
         /\ \A i \in Places(s, cmd) : s[i] \in Records /\ s[i].cmd = cmd
<1>1. Len(s) \in Nat /\ DOMAIN s = 1..Len(s)
  BY LenProperties
<1>2. \A i \in 1..Len(s) : s[i] \in Records
  BY ElementOfSeq
<1> QED
  BY <1>1, <1>2 DEF Places

LEMMA EpochAtType ==
  ASSUME NEW s \in Seq(Records), NEW i \in Int
  PROVE  EpochAt(s, i) \in Nat
<1> DEFINE before == {j \in Places(s, "epoch") : j <= i}
<1>1. CASE before = {}
  BY <1>1 DEF EpochAt
<1>2. CASE before # {}
  <2>1. before \in SUBSET Nat /\ Len(s) \in Nat /\ \A y \in before : y <= Len(s)
    BY PlacesOf
  <2>2. Max(before) \in before
    <3> HIDE DEF before
    <3> QED
      BY <1>2, <2>1, GreatestOf
  <2>3. s[Max(before)] \in Records /\ s[Max(before)].cmd = "epoch"
    BY <2>2, PlacesOf
  <2>4. s[Max(before)].epoch \in Nat
    BY <2>3, RecordForm
  <2> QED
    BY <1>2, <2>4 DEF EpochAt
<1> QED
  BY <1>1, <1>2

LEMMA LastEpochType ==
  ASSUME NEW s \in Seq(Records)
  PROVE  LastEpoch(s) \in Nat
<1>1. Len(s) \in Int
  BY LenProperties
<1> QED
  BY <1>1, EpochAtType DEF LastEpoch

LEMMA WakeSinceType ==
  ASSUME NEW s \in Seq(Records), NEW e
  PROVE  WakeSince(s, e) \in Nat
<1> DEFINE wakes == {i \in Places(s, "wake") : EpochAt(s, i) # 0 /\ EpochAt(s, i) >= e}
<1>1. CASE wakes = {}
  BY <1>1 DEF WakeSince
<1>2. CASE wakes # {}
  <2>1. wakes \in SUBSET Nat
    BY PlacesOf
  <2>2. Min(wakes) \in wakes
    <3> HIDE DEF wakes
    <3> QED
      BY <1>2, <2>1, LeastOf
  <2>3. EpochAt(s, Min(wakes)) \in Nat
    BY <2>1, <2>2, EpochAtType
  <2> QED
    BY <1>2, <2>3 DEF WakeSince
<1> QED
  BY <1>1, <1>2

\* The limit of a recovery is an epoch, whatever the logs say, and not beyond the
\* last one of a log that has an epoch and is not quiescent.
LEMMA ReplayLimitType ==
  ASSUME NEW whole \in [Logs -> Seq(Records)], NEW quiescent, NEW latest \in Nat
  PROVE  /\ ReplayLimit(whole, quiescent, latest) \in Nat
         /\ \A l \in Logs \ quiescent :
              LastEpoch(whole[l]) # 0 => ReplayLimit(whole, quiescent, latest) <= LastEpoch(whole[l])
<1> DEFINE missed == MissedSince(whole, quiescent)
           lasts == {LastEpoch(whole[l]) : l \in Logs} \cup {latest}
           awake == {LastEpoch(whole[l]) : l \in Logs \ quiescent}
           wakes == {WakeSince(whole[l], missed) :
                       l \in {m \in Logs : missed # 0 /\ missed <= LastWake(whole[m])}}
           limits == {Max(lasts)} \cup ((awake \cup wakes) \ {0})
           f == [l \in 1..NLogs |-> LastEpoch(whole[l])]
<1>1. \A l \in Logs : LastEpoch(whole[l]) \in Nat
  BY LastEpochType
<1>2. f \in [1..NLogs -> Nat]
  BY <1>1 DEF Logs
<1>3. PICK b \in Nat : \A l \in 1..NLogs : f[l] <= b
  <2> HIDE DEF f
  <2> QED
    BY <1>2, ValuesBounded, LogOfAssumption
<1>4. \A l \in Logs : LastEpoch(whole[l]) <= b
  BY <1>3 DEF Logs
<1>5. Max(lasts) \in Nat
  <2>1. lasts \in SUBSET Nat /\ lasts # {}
    BY <1>1
  <2>2. b + latest \in Nat /\ \A y \in lasts : y <= b + latest
    BY <1>1, <1>4
  <2>3. Max(lasts) \in lasts
    <3> HIDE DEF lasts
    <3> QED
      BY <2>1, <2>2, GreatestOf
  <2> QED
    BY <2>1, <2>3
<1>6. limits \in SUBSET Nat /\ limits # {}
  <2>1. awake \subseteq Nat
    BY <1>1
  <2>2. wakes \subseteq Nat
    BY WakeSinceType
  <2> HIDE DEF lasts, awake, wakes
  <2> QED
    BY <1>5, <2>1, <2>2
<1>7. Min(limits) \in Nat /\ \A y \in limits : Min(limits) <= y
  <2> HIDE DEF limits
  <2> QED
    BY <1>6, LeastOf
<1>8. \A l \in Logs \ quiescent : LastEpoch(whole[l]) # 0 => LastEpoch(whole[l]) \in limits
  <2> HIDE DEF lasts, wakes
  <2> QED
    OBVIOUS
<1>9. ReplayLimit(whole, quiescent, latest) = Min(limits)
  BY DEF ReplayLimit
<1> HIDE DEF limits
<1> QED
  BY <1>7, <1>8, <1>9

-----------------------------------------------------------------------------
(* What a sequence of records says about the changes.                      *)

\* No change is twice in s.
NoRepeat(s) ==
  \A i, j \in 1..Len(s) : s[i].cmd = "change" /\ s[i] = s[j] => i = j

LEMMA ChangeAt ==
  ASSUME NEW s \in Seq(Records)
  PROVE  /\ ChangesIn(s) \subseteq Nat
         /\ \A i \in 1..Len(s) : s[i].cmd = "change" => s[i].change \in ChangesIn(s)
         /\ \A n \in ChangesIn(s) : \E i \in 1..Len(s) : s[i] = ChangeRecord(n)
<1>1. Places(s, "change") = {i \in 1..Len(s) : s[i].cmd = "change"}
  BY PlacesOf DEF Places
<1>2. \A i \in Places(s, "change") : s[i].change \in Nat /\ s[i] = ChangeRecord(s[i].change)
  BY PlacesOf, RecordForm
<1> QED
  BY <1>1, <1>2 DEF ChangesIn

LEMMA NoneThere ==
  ASSUME NEW s \in Seq(Records), \A i \in 1..Len(s) : s[i].cmd # "change"
  PROVE  ChangesIn(s) = {} /\ NoRepeat(s)
BY PlacesOf DEF ChangesIn, NoRepeat

LEMMA ConcatContents ==
  ASSUME NEW s \in Seq(Records), NEW t \in Seq(Records)
  PROVE  /\ s \o t \in Seq(Records)
         /\ ChangesIn(s \o t) = ChangesIn(s) \cup ChangesIn(t)
         /\ NoRepeat(s) /\ NoRepeat(t) /\ ChangesIn(s) \cap ChangesIn(t) = {} => NoRepeat(s \o t)
<1> DEFINE u == s \o t
<1>1. /\ u \in Seq(Records) /\ Len(u) = Len(s) + Len(t)
      /\ Len(s) \in Nat /\ Len(t) \in Nat
      /\ \A i \in 1..Len(u) : u[i] = IF i <= Len(s) THEN s[i] ELSE t[i - Len(s)]
  BY ConcatProperties, LenProperties
<1>2. /\ \A i \in 1..Len(s) : i \in 1..Len(u) /\ u[i] = s[i]
      /\ \A i \in 1..Len(t) : i + Len(s) \in 1..Len(u) /\ u[i + Len(s)] = t[i]
  BY <1>1
<1>3. \A i \in 1..Len(u) :
        \/ i \in 1..Len(s) /\ u[i] = s[i]
        \/ i - Len(s) \in 1..Len(t) /\ u[i] = t[i - Len(s)] /\ i = (i - Len(s)) + Len(s)
  BY <1>1
<1> HIDE DEF u
<1>4. ChangesIn(u) = ChangesIn(s) \cup ChangesIn(t)
  <2>1. ASSUME NEW n \in ChangesIn(u) PROVE n \in ChangesIn(s) \cup ChangesIn(t)
    <3>1. PICK i \in 1..Len(u) : u[i] = ChangeRecord(n)
      BY <1>1, ChangeAt
    <3>2. n \in Nat
      BY <1>1, ChangeAt
    <3> QED
      BY <1>3, <3>1, <3>2, ChangeAt, RecordTypes
  <2>2. ASSUME NEW n \in ChangesIn(s) PROVE n \in ChangesIn(u)
    <3>1. PICK i \in 1..Len(u) : u[i] = ChangeRecord(n)
      BY <1>2, ChangeAt
    <3>2. n \in Nat
      BY ChangeAt
    <3>3. u[i].cmd = "change" /\ u[i].change = n
      BY <3>1, <3>2, RecordTypes
    <3> QED
      BY <1>1, <3>3, ChangeAt
  <2>3. ASSUME NEW n \in ChangesIn(t) PROVE n \in ChangesIn(u)
    <3>1. PICK i \in 1..Len(u) : u[i] = ChangeRecord(n)
      BY <1>2, ChangeAt
    <3>2. n \in Nat
      BY ChangeAt
    <3>3. u[i].cmd = "change" /\ u[i].change = n
      BY <3>1, <3>2, RecordTypes
    <3> QED
      BY <1>1, <3>3, ChangeAt
  <2> QED
    BY <2>1, <2>2, <2>3
<1>5. ASSUME NoRepeat(s), NoRepeat(t), ChangesIn(s) \cap ChangesIn(t) = {} PROVE NoRepeat(u)
  <2> SUFFICES ASSUME NEW i \in 1..Len(u), NEW j \in 1..Len(u),
                      u[i].cmd = "change", u[i] = u[j]
               PROVE  i = j
    BY DEF NoRepeat
  <2>1. CASE i \in 1..Len(s) /\ u[i] = s[i] /\ j \in 1..Len(s) /\ u[j] = s[j]
    BY <1>5, <2>1 DEF NoRepeat
  <2>2. CASE /\ i - Len(s) \in 1..Len(t) /\ u[i] = t[i - Len(s)]
             /\ j - Len(s) \in 1..Len(t) /\ u[j] = t[j - Len(s)]
    <3>1. i - Len(s) = j - Len(s)
      BY <1>5, <2>2 DEF NoRepeat
    <3> QED
      BY <3>1, <1>1
  <2>3. u[i].change \notin ChangesIn(s) \/ u[j].change \notin ChangesIn(t)
    BY <1>5
  <2>4. u[j].change \notin ChangesIn(s) \/ u[i].change \notin ChangesIn(t)
    BY <1>5
  <2>5. CASE /\ i \in 1..Len(s) /\ u[i] = s[i]
             /\ j - Len(s) \in 1..Len(t) /\ u[j] = t[j - Len(s)]
    BY <2>5, <2>3, ChangeAt
  <2>6. CASE /\ j \in 1..Len(s) /\ u[j] = s[j]
             /\ i - Len(s) \in 1..Len(t) /\ u[i] = t[i - Len(s)]
    BY <2>6, <2>4, ChangeAt
  <2> QED
    BY <1>3, <2>1, <2>2, <2>5, <2>6
<1> QED
  BY <1>1, <1>4, <1>5 DEF u

\* s is a beginning of t.
Begins(s, t) == Len(s) <= Len(t) /\ \A i \in 1..Len(s) : s[i] = t[i]

LEMMA PrefixContents ==
  ASSUME NEW s \in Seq(Records), NEW k \in 0..Len(s)
  PROVE  /\ SubSeq(s, 1, k) \in Seq(Records) /\ Begins(SubSeq(s, 1, k), s)
         /\ ChangesIn(SubSeq(s, 1, k)) \subseteq ChangesIn(s)
         /\ NoRepeat(s) => NoRepeat(SubSeq(s, 1, k))
<1> DEFINE p == SubSeq(s, 1, k)
<1>1. k \in Nat /\ Len(s) \in Nat /\ \A i \in 1..k : i \in 1..Len(s) /\ s[i] \in Records
  BY LenProperties, ElementOfSeq
<1>2. p \in Seq(Records) /\ Len(p) = k /\ \A i \in 1..k : p[i] = s[i]
  <2>1. /\ p \in Seq(Records)
        /\ Len(p) = IF 1 <= k THEN k - 1 + 1 ELSE 0
        /\ \A i \in 1..(k - 1 + 1) : p[i] = s[1 + i - 1]
    BY <1>1, SubSeqProperties
  <2> HIDE DEF p
  <2> QED
    BY <1>1, <2>1
<1> HIDE DEF p
<1>3. ChangesIn(p) \subseteq ChangesIn(s)
  <2> SUFFICES ASSUME NEW n \in ChangesIn(p) PROVE n \in ChangesIn(s)
    OBVIOUS
  <2>1. n \in Nat /\ \E i \in 1..Len(s) : s[i] = ChangeRecord(n)
    BY <1>1, <1>2, ChangeAt
  <2> QED
    BY <2>1, ChangeAt, RecordTypes
<1>4. NoRepeat(s) => NoRepeat(p)
  BY <1>1, <1>2 DEF NoRepeat
<1>5. Begins(p, s)
  BY <1>1, <1>2 DEF Begins
<1> QED
  BY <1>2, <1>3, <1>4, <1>5 DEF p

\* Truncation leaves a beginning of the log.
LEMMA KeptContents ==
  ASSUME NEW s \in Seq(Records), NEW max \in Nat
  PROVE  /\ Kept(s, max) \in Seq(Records)
         /\ ChangesIn(Kept(s, max)) \subseteq ChangesIn(s)
         /\ NoRepeat(s) => NoRepeat(Kept(s, max))
<1> DEFINE beyond == {i \in Places(s, "epoch") : s[i].epoch >= max}
<1>1. CASE beyond = {}
  BY <1>1 DEF Kept
<1>2. CASE beyond # {}
  <2>1. beyond \in SUBSET Nat /\ beyond \subseteq 1..Len(s) /\ Len(s) \in Nat
    BY PlacesOf
  <2>2. Min(beyond) \in 0..Len(s)
    <3> HIDE DEF beyond
    <3>1. Min(beyond) \in beyond
      BY <1>2, <2>1, LeastOf
    <3>2. Min(beyond) \in 1..Len(s)
      BY <2>1, <3>1
    <3>3. \A k \in 1..Len(s) : k \in 0..Len(s)
      BY <2>1
    <3> QED
      BY <3>2, <3>3
  <2>3. Kept(s, max) = SubSeq(s, 1, Min(beyond))
    BY <1>2 DEF Kept
  <2> QED
    BY <2>2, <2>3, PrefixContents
<1> QED
  BY <1>1, <1>2

-----------------------------------------------------------------------------
(* What the writers do.                                                    *)

LEMMA SingleContents ==
  ASSUME NEW n \in Nat
  PROVE  /\ <<ChangeRecord(n)>> \in Seq(Records)
         /\ ChangesIn(<<ChangeRecord(n)>>) = {n} /\ NoRepeat(<<ChangeRecord(n)>>)
<1> DEFINE s == <<ChangeRecord(n)>>
<1>1. s \in Seq(Records) /\ Len(s) = 1 /\ s[1] = ChangeRecord(n)
  BY RecordTypes
<1>2. \A i \in 1..Len(s) : s[i].cmd = "change" /\ s[i].change = n
  BY <1>1, RecordTypes
<1> HIDE DEF s
<1>3. ChangesIn(s) = {n}
  BY <1>1, <1>2, PlacesOf DEF ChangesIn, Places
<1>4. NoRepeat(s)
  BY <1>1 DEF NoRepeat
<1> QED
  BY <1>1, <1>3, <1>4 DEF s

LEMMA EmptyContents ==
  <<>> \in Seq(Records) /\ ChangesIn(<<>>) = {} /\ NoRepeat(<<>>)
<1> DEFINE s == <<>>
<1>1. s \in Seq(Records) /\ \A i \in 1..Len(s) : s[i].cmd # "change"
  BY EmptySeq
<1> HIDE DEF s
<1>2. ChangesIn(s) = {} /\ NoRepeat(s)
  BY <1>1, NoneThere
<1> QED
  BY <1>1, <1>2 DEF s

\* A record of the log itself, or none.
LEMMA MarkContents ==
  ASSUME NEW r \in Records, r.cmd # "change", NEW b \in BOOLEAN
  PROVE  LET s == IF b THEN <<r>> ELSE <<>>
         IN  s \in Seq(Records) /\ ChangesIn(s) = {} /\ NoRepeat(s)
<1> DEFINE t == <<r>>
<1>1. t \in Seq(Records) /\ Len(t) = 1 /\ t[1] = r
  OBVIOUS
<1> HIDE DEF t
<1>2. ChangesIn(t) = {} /\ NoRepeat(t)
  BY <1>1, NoneThere
<1> QED
  BY <1>1, <1>2, EmptyContents DEF t

LEMMA AppendMark ==
  ASSUME NEW s \in Seq(Records), NEW t \in Seq(Records), ChangesIn(t) = {}, NoRepeat(t)
  PROVE  /\ s \o t \in Seq(Records) /\ ChangesIn(s \o t) = ChangesIn(s)
         /\ NoRepeat(s) => NoRepeat(s \o t)
<1>1. ChangesIn(s) \cup ChangesIn(t) = ChangesIn(s) /\ ChangesIn(s) \cap ChangesIn(t) = {}
  OBVIOUS
<1> QED
  BY <1>1, ConcatContents

LEMMA QuietContents ==
  ASSUME NEW e \in Nat
  PROVE  LET s == <<EpochRecord(e), QuiesceRecord>>
         IN  s \in Seq(Records) /\ s # <<>> /\ ChangesIn(s) = {} /\ NoRepeat(s)
<1> DEFINE s == <<EpochRecord(e), QuiesceRecord>>
<1>1. s \in Seq(Records) /\ Len(s) = 2 /\ s[1] = EpochRecord(e) /\ s[2] = QuiesceRecord
  BY RecordTypes
<1>2. \A i \in 1..Len(s) : s[i].cmd # "change"
  BY <1>1, RecordTypes
<1> HIDE DEF s
<1> QED
  BY <1>1, <1>2, NoneThere, EmptySeq DEF s

\* The types of what the logs have, in memory and on disk, and of what the
\* writers bring to them.
LogsOK ==
  /\ globalLogEpoch \in Nat \ {0} /\ globalWakeEpoch \in Nat
  /\ logEpoch \in [Logs -> Nat] /\ quiescentEpoch \in [Logs -> Nat]
  /\ wakeEpoch \in [Logs -> Nat] /\ flushedEpoch \in [Logs -> Nat]
  /\ buf \in [Logs -> Seq(Records)] /\ disk \in [Logs -> Seq(Records)]
  /\ flushing \in [Logs -> [records : Seq(Records), epoch : Nat]]
  /\ change \in [Writers -> Nat] /\ epoch \in [Writers -> Nat]

LEMMA TypesOfLogs == TypeOK => LogsOK
BY DEF TypeOK, LogsOK

LEMMA WakeSeenType ==
  ASSUME LogsOK, NEW w \in Writers
  PROVE  WakeSeen(w) \in Nat
<1>1. globalWakeEpoch \in Nat /\ epoch[w] \in Nat
  BY DEF LogsOK
<1> QED
  BY <1>1 DEF WakeSeen, Greater

\* record() adds the writer's change to its log, and nothing else but marks.
LEMMA StoreEffect ==
  ASSUME LogsOK, NEW w \in Writers, Store(w)
  PROVE  /\ LogOf[w] \in Logs
         /\ buf' \in [Logs -> Seq(Records)]
         /\ \A m \in Logs \ {LogOf[w]} : buf'[m] = buf[m]
         /\ ChangesIn(buf'[LogOf[w]]) = ChangesIn(buf[LogOf[w]]) \cup {change[w]}
         /\ NoRepeat(buf[LogOf[w]]) /\ change[w] \notin ChangesIn(buf[LogOf[w]])
              => NoRepeat(buf'[LogOf[w]])
         /\ buf'[LogOf[w]] # <<>>
<1> DEFINE l == LogOf[w]
           a == IF epoch[w] # logEpoch[l] THEN <<EpochRecord(epoch[w])>> ELSE <<>>
           b == IF WakeSeen(w) # wakeEpoch[l] THEN <<WakeRecord>> ELSE <<>>
           c == <<ChangeRecord(change[w])>>
<1>1. l \in Logs /\ epoch[w] \in Nat /\ change[w] \in Nat
  BY LogOfAssumption DEF LogsOK
<1>2. buf \in [Logs -> Seq(Records)]
  BY DEF LogsOK
<1>3. buf' = [buf EXCEPT ![l] = buf[l] \o a \o b \o c]
  BY <1>1, <1>2 DEF Store
<1>4. a \in Seq(Records) /\ ChangesIn(a) = {} /\ NoRepeat(a)
  BY <1>1, RecordTypes, MarkContents
<1>5. b \in Seq(Records) /\ ChangesIn(b) = {} /\ NoRepeat(b)
  BY RecordTypes, MarkContents
<1>6. c \in Seq(Records) /\ ChangesIn(c) = {change[w]} /\ NoRepeat(c) /\ c # <<>>
  BY <1>1, SingleContents
<1>7. buf[l] \in Seq(Records)
  BY <1>1, <1>2
<1> HIDE DEF a, b, c, l
<1>8. /\ buf[l] \o a \in Seq(Records) /\ ChangesIn(buf[l] \o a) = ChangesIn(buf[l])
      /\ NoRepeat(buf[l]) => NoRepeat(buf[l] \o a)
  BY <1>4, <1>7, AppendMark
<1>9. /\ buf[l] \o a \o b \in Seq(Records) /\ ChangesIn(buf[l] \o a \o b) = ChangesIn(buf[l])
      /\ NoRepeat(buf[l]) => NoRepeat(buf[l] \o a \o b)
  BY <1>5, <1>8, AppendMark
<1> DEFINE d == buf[l] \o a \o b
<1>10. d \in Seq(Records) /\ ChangesIn(d) = ChangesIn(buf[l]) /\ (NoRepeat(buf[l]) => NoRepeat(d))
  BY <1>9
<1>11. buf' = [buf EXCEPT ![l] = d \o c]
  BY <1>3
<1> HIDE DEF d
<1>12. /\ d \o c \in Seq(Records) /\ ChangesIn(d \o c) = ChangesIn(buf[l]) \cup {change[w]}
       /\ NoRepeat(buf[l]) /\ change[w] \notin ChangesIn(buf[l]) => NoRepeat(d \o c)
  BY <1>6, <1>10, ConcatContents
<1>13. buf'[l] = d \o c /\ \A m \in Logs \ {l} : buf'[m] = buf[m]
  BY <1>1, <1>2, <1>11
<1>14. buf' \in [Logs -> Seq(Records)]
  BY <1>1, <1>2, <1>11, <1>12
<1>15. d \o c # <<>>
  BY <1>12, EmptyContents
<1> QED
  BY <1>1, <1>12, <1>13, <1>14, <1>15 DEF l

LEMMA StoreTypes ==
  ASSUME LogsOK, NEW w \in Writers, Store(w)
  PROVE  /\ globalLogEpoch' \in Nat \ {0} /\ globalWakeEpoch' \in Nat
         /\ logEpoch' \in [Logs -> Nat] /\ quiescentEpoch' \in [Logs -> Nat]
         /\ wakeEpoch' \in [Logs -> Nat] /\ flushedEpoch' \in [Logs -> Nat]
         /\ change' \in [Writers -> Nat] /\ epoch' \in [Writers -> Nat]
<1>1. LogOf[w] \in Logs /\ epoch[w] \in Nat /\ WakeSeen(w) \in Nat
  BY LogOfAssumption, WakeSeenType DEF LogsOK
<1>2. /\ globalLogEpoch \in Nat \ {0} /\ globalWakeEpoch \in Nat
      /\ logEpoch \in [Logs -> Nat] /\ quiescentEpoch \in [Logs -> Nat]
      /\ wakeEpoch \in [Logs -> Nat] /\ flushedEpoch \in [Logs -> Nat]
      /\ change \in [Writers -> Nat] /\ epoch \in [Writers -> Nat]
  BY DEF LogsOK
<1>3. globalLogEpoch' = globalLogEpoch /\ globalWakeEpoch' \in Nat
  BY <1>1, <1>2 DEF Store, Greater
<1>4. logEpoch' \in [Logs -> Nat] /\ wakeEpoch' \in [Logs -> Nat] /\ quiescentEpoch' \in [Logs -> Nat]
  BY <1>1, <1>2 DEF Store
<1>5. flushedEpoch' \in [Logs -> Nat]
  BY <1>1, <1>2 DEF Store
<1>6. change' \in [Writers -> Nat] /\ epoch' \in [Writers -> Nat]
  BY <1>2 DEF Store
<1> QED
  BY <1>2, <1>3, <1>4, <1>5, <1>6

\* A change is appended to the history of the tree.
LEMMA ChangeEffect ==
  ASSUME TypeOK, NEW w \in Writers, ChangeTree(w)
  PROVE  /\ LogOf[w] \in Logs
         /\ changes' \in Seq([log : Logs, epoch : Nat, made : Nat])
         /\ Len(changes) \in Nat /\ Len(changes') = Len(changes) + 1
         /\ \A n \in 1..Len(changes) : changes'[n] = changes[n]
         /\ changes'[Len(changes')] =
           [log |-> LogOf[w], epoch |-> epoch[w], made |-> globalLogEpoch]
         /\ change' = [change EXCEPT ![w] = Len(changes')]
<1> DEFINE c == [log |-> LogOf[w], epoch |-> epoch[w], made |-> globalLogEpoch]
<1>1. LogOf[w] \in Logs /\ c \in [log : Logs, epoch : Nat, made : Nat]
  BY LogOfAssumption DEF TypeOK
<1>2. changes \in Seq([log : Logs, epoch : Nat, made : Nat])
  BY DEF TypeOK
<1>3. changes' = Append(changes, c) /\ change' = [change EXCEPT ![w] = Len(changes')]
  BY DEF ChangeTree
<1> QED
  BY <1>1, <1>2, <1>3, AppendProperties, LenProperties

-----------------------------------------------------------------------------
(* The inductive invariant behind RecordedOnce, for logs that may lack room *)
(* and for every number of crashes, in recovery or not.                    *)

InFlight(l) == ChangesIn(flushing[l].records)
InBuffer(l) == ChangesIn(buf[l])
Answered(l) == {n \in answered : changes[n].log = l}

\* The file and the two buffers of a log share no change, have none twice, and
\* together have what was recorded for this log.
Contents(l) ==
  /\ NoRepeat(disk[l]) /\ NoRepeat(flushing[l].records) /\ NoRepeat(buf[l])
  /\ OnDisk(l) \cap InFlight(l) = {}
  /\ OnDisk(l) \cap InBuffer(l) = {}
  /\ InFlight(l) \cap InBuffer(l) = {}
  /\ \A n \in OnDisk(l) \cup InFlight(l) \cup InBuffer(l) :
       n \in 1..Len(changes) /\ changes[n].log = l
  /\ phase = "up" => OnDisk(l) \cup InFlight(l) \cup InBuffer(l) = Answered(l)

\* A writer that has changed the tree has a change of its own, not yet recorded;
\* one that waits is in the list of its log.
Recording(w) ==
  pc[w] \in {"recording", "waiting"} =>
    /\ change[w] \in 1..Len(changes) /\ change[w] \notin answered
    /\ changes[change[w]].log = LogOf[w]
    /\ \A v \in Writers \ {w} : pc[v] \in {"recording", "waiting"} => change[v] # change[w]
    /\ pc[w] = "waiting" =>
         \E i \in 1..Len(waiting[LogOf[w]]) : waiting[LogOf[w]][i] = w

\* Recovery runs alone, and has read what the logs it is done with keep.
Recovering ==
  phase = "replay" =>
    /\ \A l \in Logs : buf[l] = <<>> /\ flushing[l] = Nothing
    /\ \A w \in Writers : pc[w] = "idle"
    /\ replayed = UNION {OnDisk(l) : l \in Logs \ toReplay}

IInv ==
  /\ TypeOK
  /\ answered \subseteq 1..Len(changes)
  /\ \A l \in Logs : Contents(l)
  /\ \A w \in Writers : Recording(w)
  /\ Recovering

LEMMA ContentsFrame ==
  ASSUME NEW l \in Logs, Contents(l), answered \subseteq 1..Len(changes),
         UNCHANGED <<disk, flushing, buf, answered, phase>>,
         \A n \in 1..Len(changes) : n \in 1..Len(changes') /\ changes'[n] = changes[n]
  PROVE  Contents(l)'
<1>1. OnDisk(l)' = OnDisk(l) /\ InFlight(l)' = InFlight(l) /\ InBuffer(l)' = InBuffer(l)
  BY DEF OnDisk, InFlight, InBuffer
<1>2. Answered(l)' = Answered(l)
  BY DEF Answered
<1>3. NoRepeat(disk[l])' /\ NoRepeat(flushing[l].records)' /\ NoRepeat(buf[l])'
  BY DEF Contents, NoRepeat
<1> QED
  BY <1>1, <1>2, <1>3 DEF Contents

LEMMA RecordingFrame ==
  ASSUME NEW w \in Writers, Recording(w),
         UNCHANGED <<pc, change, waiting, changes, answered>>
  PROVE  Recording(w)'
BY DEF Recording

LEMMA InitKeeps == Init => IInv
<1> SUFFICES ASSUME Init PROVE IInv
  OBVIOUS
<1>1. TypeOK
  BY LogOfAssumption, BoundsAssumption DEF Init, TypeOK, Zeros, Idle, None, Nothing
<1>2. answered \subseteq 1..Len(changes)
  BY DEF Init
<1>3. \A l \in Logs : Contents(l)
  <2> SUFFICES ASSUME NEW l \in Logs PROVE Contents(l)
    OBVIOUS
  <2>1. disk[l] = <<>> /\ flushing[l].records = <<>> /\ buf[l] = <<>> /\ answered = {}
    BY DEF Init, Nothing
  <2> QED
    BY <2>1, EmptyContents DEF Contents, OnDisk, InFlight, InBuffer, Answered
<1>4. \A w \in Writers : Recording(w)
  BY DEF Init, Recording, Idle
<1>5. Recovering
  BY DEF Init, Recovering
<1> QED
  BY <1>1, <1>2, <1>3, <1>4, <1>5 DEF IInv

LEMMA ReadEpochKeeps ==
  ASSUME IInv, NEW w \in Writers, ReadEpoch(w)
  PROVE  IInv'
<1>1. /\ TypeOK /\ LogOf[w] \in Logs /\ answered \subseteq 1..Len(changes)
      /\ pc[w] = "idle" /\ pc' = [pc EXCEPT ![w] = "applying"]
      /\ epoch' = [epoch EXCEPT ![w] = globalLogEpoch]
      /\ lock' = [lock EXCEPT ![LogOf[w]] = w]
      /\ UNCHANGED <<epochs, loginfo, waiting, change, disk, history, recovery>>
  BY LogOfAssumption DEF ReadEpoch, IInv
<1>2. TypeOK'
  <2>1. /\ pc' \in [Writers -> {"idle", "applying", "recording", "waiting"}]
        /\ epoch' \in [Writers -> Nat] /\ lock' \in [Logs -> Writers \cup {NoWriter}]
    BY <1>1 DEF TypeOK
  <2> QED
    BY <1>1, <2>1 DEF TypeOK, epochs, loginfo, history, recovery
<1>3. \A m \in Logs : Contents(m)'
  BY <1>1, ContentsFrame DEF IInv, loginfo, history, recovery
<1>4. ASSUME NEW v \in Writers PROVE Recording(v)'
  <2>1. \A u \in Writers : pc'[u] \in {"recording", "waiting"} => pc'[u] = pc[u]
    BY <1>1 DEF TypeOK
  <2>2. Recording(v) /\ UNCHANGED <<change, waiting, changes, answered>>
    BY <1>1 DEF IInv, history
  <2> QED
    BY <2>1, <2>2 DEF Recording
<1>5. Recovering'
  BY DEF ReadEpoch, Recovering, recovery
<1>6. answered' \subseteq 1..Len(changes')
  BY <1>1 DEF history
<1> QED
  BY <1>2, <1>3, <1>4, <1>5, <1>6 DEF IInv

LEMMA ChangeTreeKeeps ==
  ASSUME IInv, NEW w \in Writers, ChangeTree(w)
  PROVE  IInv'
<1>1. TypeOK /\ answered \subseteq 1..Len(changes)
  BY DEF IInv
<1>2. /\ LogOf[w] \in Logs
      /\ changes' \in Seq([log : Logs, epoch : Nat, made : Nat])
      /\ Len(changes) \in Nat /\ Len(changes') = Len(changes) + 1
      /\ \A n \in 1..Len(changes) : changes'[n] = changes[n]
      /\ changes'[Len(changes')] =
           [log |-> LogOf[w], epoch |-> epoch[w], made |-> globalLogEpoch]
      /\ change' = [change EXCEPT ![w] = Len(changes')]
  BY <1>1, ChangeEffect
<1>3. 1..Len(changes) \subseteq 1..Len(changes') /\ Len(changes') \in 1..Len(changes')
  BY <1>2
<1>4. TypeOK'
  <2>1. /\ lock' \in [Logs -> Writers \cup {NoWriter}]
        /\ epoch' \in [Writers -> Nat] /\ change' \in [Writers -> Nat]
        /\ pc' \in [Writers -> {"idle", "applying", "recording", "waiting"}]
    BY <1>1, <1>2 DEF ChangeTree, TypeOK, locks
  <2>2. tree' \subseteq 1..Len(changes')
    BY <1>1, <1>3 DEF ChangeTree, TypeOK
  <2>3. replayed' \subseteq 1..Len(changes')
    BY <1>1, <1>3 DEF ChangeTree, TypeOK, recovery
  <2> QED
    BY <1>1, <1>2, <2>1, <2>2, <2>3
    DEF ChangeTree, TypeOK, epochs, loginfo, locks, recovery
<1>5. UNCHANGED <<disk, flushing, buf, answered, phase, waiting>>
  BY DEF ChangeTree, loginfo, locks, recovery
<1>6. \A l \in Logs : Contents(l)'
  BY <1>1, <1>2, <1>3, <1>5, ContentsFrame DEF IInv
<1>7. ASSUME NEW v \in Writers PROVE Recording(v)'
  <2>1. pc[w] = "applying" /\ pc' = [pc EXCEPT ![w] = "recording"]
    BY DEF ChangeTree
  <2>2. CASE v = w
    <3>1. pc'[w] = "recording" /\ change'[w] = Len(changes')
      BY <1>1, <1>2, <2>1 DEF TypeOK
    <3>2. \A u \in Writers \ {w} : pc'[u] \in {"recording", "waiting"} => change'[u] # change'[w]
      <4> SUFFICES ASSUME NEW u \in Writers \ {w}, pc'[u] \in {"recording", "waiting"} PROVE change'[u] # change'[w]
        OBVIOUS
      <4>1. pc[u] \in {"recording", "waiting"} /\ change'[u] = change[u]
        BY <1>1, <1>2, <2>1 DEF TypeOK
      <4>2. change[u] \in 1..Len(changes)
        BY <4>1 DEF IInv, Recording
      <4> QED
        BY <1>2, <3>1, <4>1, <4>2
    <3>3. Len(changes') \notin answered
      BY <1>1, <1>2
    <3> QED
      BY <1>2, <1>3, <1>5, <2>2, <3>1, <3>2, <3>3 DEF Recording
  <2>3. CASE v # w
    <3>1. pc'[v] = pc[v] /\ change'[v] = change[v] /\ change'[w] = Len(changes')
      BY <1>1, <1>2, <2>1, <2>3 DEF TypeOK
    <3>2. Recording(v)
      BY DEF IInv
    <3>3. ASSUME pc[v] \in {"recording", "waiting"},
                 NEW u \in Writers \ {v}, pc'[u] \in {"recording", "waiting"}
          PROVE  change'[u] # change'[v]
      <4>1. change[v] \in 1..Len(changes)
        BY <3>2, <3>3 DEF Recording
      <4>2. CASE u = w
        BY <1>2, <3>1, <4>1, <4>2
      <4>3. CASE u # w
        <5>1. pc[u] \in {"recording", "waiting"} /\ change'[u] = change[u]
          BY <1>1, <1>2, <2>1, <3>3, <4>3 DEF TypeOK
        <5> QED
          BY <3>1, <3>2, <3>3, <5>1 DEF Recording
      <4> QED
        BY <4>2, <4>3
    <3>4. CASE pc[v] \in {"recording", "waiting"}
      <4>1. /\ change[v] \in 1..Len(changes) /\ change[v] \notin answered
            /\ changes[change[v]].log = LogOf[v]
            /\ pc[v] = "waiting" =>
                 \E i \in 1..Len(waiting[LogOf[v]]) : waiting[LogOf[v]][i] = v
        BY <3>2, <3>4 DEF Recording
      <4>2. change[v] \in 1..Len(changes') /\ changes'[change[v]] = changes[change[v]]
        BY <1>2, <1>3, <4>1
      <4> QED
        BY <1>5, <3>1, <3>3, <3>4, <4>1, <4>2 DEF Recording
    <3> QED
      BY <3>1, <3>4 DEF Recording
  <2> QED
    BY <2>2, <2>3
<1>8. Recovering'
  BY DEF ChangeTree, Recovering, recovery
<1>9. answered' \subseteq 1..Len(changes')
  BY <1>1, <1>3, <1>5
<1> QED
  BY <1>4, <1>6, <1>7, <1>8, <1>9 DEF IInv

\* What record() does, whether it had to wait or not.
LEMMA StoreKeeps ==
  ASSUME IInv, NEW w \in Writers, Store(w), phase = "up", pc[w] \in {"recording", "waiting"},
         lock' \in [Logs -> Writers \cup {NoWriter}], waiting' \in [Logs -> Seq(Writers)],
         \A v \in Writers \ {w} : pc[v] = "waiting" =>
           \E i \in 1..Len(waiting'[LogOf[v]]) : waiting'[LogOf[v]][i] = v
  PROVE  IInv'
<1>1. TypeOK /\ answered \subseteq 1..Len(changes) /\ Recording(w)
  BY DEF IInv
<1>2. /\ change[w] \in 1..Len(changes) /\ change[w] \notin answered
      /\ changes[change[w]].log = LogOf[w]
      /\ \A v \in Writers \ {w} : pc[v] \in {"recording", "waiting"} => change[v] # change[w]
  BY <1>1 DEF Recording
<1>3. /\ LogOf[w] \in Logs
      /\ buf' \in [Logs -> Seq(Records)]
      /\ \A m \in Logs \ {LogOf[w]} : buf'[m] = buf[m]
      /\ ChangesIn(buf'[LogOf[w]]) = ChangesIn(buf[LogOf[w]]) \cup {change[w]}
      /\ NoRepeat(buf[LogOf[w]]) /\ change[w] \notin ChangesIn(buf[LogOf[w]])
           => NoRepeat(buf'[LogOf[w]])
  BY <1>1, TypesOfLogs, StoreEffect
<1>4. /\ UNCHANGED <<globalLogEpoch, flushing, disk, changes, tree, recovered, recovery>>
      /\ answered' = answered \cup {change[w]}
      /\ pc' = [pc EXCEPT ![w] = "idle"] /\ change' = [change EXCEPT ![w] = 0]
  BY DEF Store
<1>5. TypeOK'
  <2>1. /\ globalLogEpoch' \in Nat \ {0} /\ globalWakeEpoch' \in Nat
        /\ logEpoch' \in [Logs -> Nat] /\ quiescentEpoch' \in [Logs -> Nat]
        /\ wakeEpoch' \in [Logs -> Nat] /\ flushedEpoch' \in [Logs -> Nat]
        /\ change' \in [Writers -> Nat] /\ epoch' \in [Writers -> Nat]
    BY <1>1, TypesOfLogs, StoreTypes
  <2>2. pc' \in [Writers -> {"idle", "applying", "recording", "waiting"}]
    BY <1>1, <1>4 DEF TypeOK
  <2> QED
    BY <1>1, <1>3, <1>4, <2>1, <2>2 DEF TypeOK, recovery
<1>6. answered' \subseteq 1..Len(changes')
  BY <1>1, <1>2, <1>4
<1>7. ASSUME NEW l \in Logs PROVE Contents(l)'
  <2>1. Contents(l)
    BY DEF IInv
  <2>2. /\ OnDisk(l)' = OnDisk(l) /\ InFlight(l)' = InFlight(l)
        /\ NoRepeat(disk[l])' /\ NoRepeat(flushing[l].records)'
    BY <1>4, <2>1 DEF OnDisk, InFlight, Contents, NoRepeat
  <2>3. CASE l = LogOf[w]
    <3>1. OnDisk(l) \cup InFlight(l) \cup InBuffer(l) = Answered(l)
      BY <2>1 DEF Contents
    <3>2. /\ change[w] \notin OnDisk(l) /\ change[w] \notin InFlight(l)
          /\ change[w] \notin InBuffer(l)
      BY <1>2, <3>1 DEF Answered
    <3>3. InBuffer(l)' = InBuffer(l) \cup {change[w]} /\ NoRepeat(buf[l])'
      BY <1>3, <2>1, <2>3, <3>2 DEF InBuffer, Contents, NoRepeat
    <3>4. Answered(l)' = Answered(l) \cup {change[w]}
      BY <1>2, <1>4, <2>3 DEF Answered
    <3> QED
      BY <1>2, <1>4, <2>1, <2>2, <2>3, <3>1, <3>2, <3>3, <3>4 DEF Contents
  <2>4. CASE l # LogOf[w]
    <3>1. InBuffer(l)' = InBuffer(l) /\ NoRepeat(buf[l])'
      BY <1>3, <2>1, <2>4 DEF InBuffer, Contents, NoRepeat
    <3>2. Answered(l)' = Answered(l)
      BY <1>2, <1>4, <2>4 DEF Answered
    <3>3. phase' = phase
      BY <1>4 DEF recovery
    <3> QED
      BY <1>4, <2>1, <2>2, <3>1, <3>2, <3>3 DEF Contents
  <2> QED
    BY <2>3, <2>4
<1>8. ASSUME NEW v \in Writers PROVE Recording(v)'
  <2>1. CASE v = w
    BY <1>1, <1>4, <2>1 DEF Recording, TypeOK
  <2>2. CASE v # w
    <3>1. pc'[v] = pc[v] /\ change'[v] = change[v] /\ Recording(v)
      BY <1>1, <1>4, <2>2 DEF TypeOK, IInv
    <3>2. \A u \in Writers \ {v} : pc'[u] \in {"recording", "waiting"} =>
            u # w /\ pc'[u] = pc[u] /\ change'[u] = change[u]
      BY <1>1, <1>4 DEF TypeOK
    <3>3. pc[v] \in {"recording", "waiting"} => change[v] # change[w]
      BY <1>2, <2>2
    <3> QED
      BY <1>4, <2>2, <3>1, <3>2, <3>3 DEF Recording
  <2> QED
    BY <2>1, <2>2
<1>9. Recovering'
  BY <1>4 DEF Recovering, recovery
<1> QED
  BY <1>5, <1>6, <1>7, <1>8, <1>9 DEF IInv

LEMMA RecordKeeps ==
  ASSUME IInv, NEW w \in Writers, Record(w)
  PROVE  IInv'
<1>1. TypeOK /\ phase = "up" /\ pc[w] = "recording" /\ Store(w) /\ waiting' = waiting
  BY DEF Record, IInv
<1>2. lock' \in [Logs -> Writers \cup {NoWriter}] /\ waiting' \in [Logs -> Seq(Writers)]
  BY <1>1 DEF Record, TypeOK
<1>3. \A v \in Writers \ {w} : pc[v] = "waiting" =>
        \E i \in 1..Len(waiting'[LogOf[v]]) : waiting'[LogOf[v]][i] = v
  BY <1>1 DEF IInv, Recording
<1> QED
  BY <1>1, <1>2, <1>3, StoreKeeps

LEMMA RetryKeeps ==
  ASSUME IInv, NEW w \in Writers, Retry(w)
  PROVE  IInv'
<1> DEFINE l == LogOf[w]
           q == waiting[l]
<1>1. /\ TypeOK /\ phase = "up" /\ pc[w] = "waiting" /\ Store(w) /\ lock' = lock
      /\ Head(q) = w /\ waiting' = [waiting EXCEPT ![l] = Tail(waiting[l])]
  BY DEF Retry, IInv
<1>2. l \in Logs /\ waiting \in [Logs -> Seq(Writers)] /\ q \in Seq(Writers)
  BY <1>1, LogOfAssumption DEF TypeOK
<1>3. q # <<>> /\ q[1] = w
  <2>1. \E i \in 1..Len(q) : q[i] = w
    BY <1>1 DEF IInv, Recording
  <2> QED
    BY <1>1, <1>2, <2>1
<1>4. /\ Tail(q) \in Seq(Writers) /\ Len(q) \in Nat /\ Len(Tail(q)) = Len(q) - 1
      /\ \A i \in 1..Len(Tail(q)) : Tail(q)[i] = q[i + 1]
  BY <1>2, <1>3, HeadTailProperties, LenProperties
<1>5. waiting' \in [Logs -> Seq(Writers)] /\ waiting'[l] = Tail(q)
      /\ \A m \in Logs \ {l} : waiting'[m] = waiting[m]
  BY <1>1, <1>2, <1>4
<1>6. ASSUME NEW v \in Writers \ {w}, pc[v] = "waiting"
      PROVE  \E i \in 1..Len(waiting'[LogOf[v]]) : waiting'[LogOf[v]][i] = v
  <2>1. LogOf[v] \in Logs
    BY LogOfAssumption
  <2>2. PICK i \in 1..Len(waiting[LogOf[v]]) : waiting[LogOf[v]][i] = v
    BY <1>6 DEF IInv, Recording
  <2>3. CASE LogOf[v] = l
    <3>1. i \in 1..Len(q) /\ q[i] = v /\ i # 1
      BY <1>3, <2>2, <2>3
    <3>2. i - 1 \in 1..Len(Tail(q)) /\ (i - 1) + 1 = i
      BY <1>4, <3>1
    <3>3. Tail(q)[i - 1] = v
      BY <1>4, <3>1, <3>2
    <3> QED
      BY <1>5, <2>3, <3>2, <3>3
  <2>4. CASE LogOf[v] # l
    BY <1>5, <2>1, <2>2, <2>4
  <2> QED
    BY <2>3, <2>4
<1>7. lock' \in [Logs -> Writers \cup {NoWriter}]
  BY <1>1 DEF TypeOK
<1> QED
  BY <1>1, <1>5, <1>6, <1>7, StoreKeeps

LEMMA StallKeeps ==
  ASSUME IInv, NEW w \in Writers, Stall(w)
  PROVE  IInv'
<1> DEFINE l == LogOf[w]
           q == waiting[l]
<1>1. /\ TypeOK /\ answered \subseteq 1..Len(changes) /\ pc[w] = "recording"
      /\ waiting' = [waiting EXCEPT ![l] = Append(waiting[l], w)]
      /\ pc' = [pc EXCEPT ![w] = "waiting"]
      /\ lock' = [lock EXCEPT ![l] = NoWriter]
      /\ UNCHANGED <<epochs, loginfo, change, epoch, disk, history, recovery>>
  BY DEF Stall, IInv
<1>2. l \in Logs /\ waiting \in [Logs -> Seq(Writers)] /\ q \in Seq(Writers)
  BY <1>1, LogOfAssumption DEF TypeOK
<1>3. /\ Append(q, w) \in Seq(Writers) /\ Len(q) \in Nat /\ Len(Append(q, w)) = Len(q) + 1
      /\ \A i \in 1..Len(q) : Append(q, w)[i] = q[i]
      /\ Append(q, w)[Len(q) + 1] = w
  BY <1>2, AppendProperties, LenProperties
<1>4. waiting' \in [Logs -> Seq(Writers)] /\ waiting'[l] = Append(q, w)
      /\ \A m \in Logs \ {l} : waiting'[m] = waiting[m]
  BY <1>1, <1>2, <1>3
<1>5. TypeOK'
  <2>1. pc' \in [Writers -> {"idle", "applying", "recording", "waiting"}]
        /\ lock' \in [Logs -> Writers \cup {NoWriter}]
    BY <1>1 DEF TypeOK
  <2> QED
    BY <1>1, <1>4, <2>1 DEF TypeOK, epochs, loginfo, history, recovery
<1>6. \A m \in Logs : Contents(m)'
  BY <1>1, ContentsFrame DEF IInv, loginfo, history, recovery
<1>7. ASSUME NEW v \in Writers PROVE Recording(v)'
  <2>1. change' = change /\ changes' = changes /\ answered' = answered
    BY <1>1 DEF history
  <2>2. \A u \in Writers : pc'[u] \in {"recording", "waiting"} => pc[u] \in {"recording", "waiting"}
    BY <1>1 DEF TypeOK
  <2>3. Recording(v) /\ LogOf[v] \in Logs
    BY LogOfAssumption DEF IInv
  <2>4. ASSUME pc'[v] = "waiting"
        PROVE  \E i \in 1..Len(waiting'[LogOf[v]]) : waiting'[LogOf[v]][i] = v
    <3>1. CASE v = w
      <4>1. Len(q) + 1 \in 1..Len(Append(q, w))
        BY <1>3
      <4> QED
        BY <1>3, <1>4, <3>1, <4>1
    <3>2. CASE v # w
      <4>1. pc[v] = "waiting"
        BY <1>1, <2>4, <3>2 DEF TypeOK
      <4>2. PICK i \in 1..Len(waiting[LogOf[v]]) : waiting[LogOf[v]][i] = v
        BY <2>3, <4>1 DEF Recording
      <4>3. CASE LogOf[v] = l
        <5>1. i \in 1..Len(Append(q, w)) /\ Append(q, w)[i] = v
          BY <1>3, <4>2, <4>3
        <5> QED
          BY <1>4, <4>3, <5>1
      <4>4. CASE LogOf[v] # l
        BY <1>4, <2>3, <4>2, <4>4
      <4> QED
        BY <4>3, <4>4
    <3> QED
      BY <3>1, <3>2
  <2> QED
    BY <2>1, <2>2, <2>3, <2>4 DEF Recording
<1>8. Recovering'
  <2>1. phase' = phase /\ phase = "up"
    BY <1>1 DEF recovery, Stall
  <2> QED
    BY <2>1 DEF Recovering
<1>9. answered' \subseteq 1..Len(changes')
  BY <1>1 DEF history
<1> QED
  BY <1>5, <1>6, <1>7, <1>8, <1>9 DEF IInv

\* What the logger takes with it: its own records if the log is quiescent, or
\* else all the buffer has.
Taken(l) ==
  IF Quiesces(l) THEN <<EpochRecord(globalLogEpoch), QuiesceRecord>> ELSE buf[l]

LEMMA PassEffect ==
  ASSUME LogsOK, NEW l \in Logs, LoggerPass(l)
  PROVE  /\ flushing[l] = Nothing
         /\ Taken(l) \in Seq(Records) /\ ChangesIn(Taken(l)) = InBuffer(l)
         /\ NoRepeat(buf[l]) => NoRepeat(Taken(l))
         /\ flushing'[l].records = Taken(l)
         /\ Taken(l) # <<>> => flushing'[l].epoch = logEpoch'[l]
         /\ flushing' \in [Logs -> [records : Seq(Records), epoch : Nat]]
         /\ buf' \in [Logs -> Seq(Records)] /\ buf'[l] = <<>>
         /\ \A m \in Logs \ {l} : buf'[m] = buf[m] /\ flushing'[m] = flushing[m]
         /\ logEpoch' \in [Logs -> Nat] /\ quiescentEpoch' \in [Logs -> Nat]
         /\ wakeEpoch' \in [Logs -> Nat]
         /\ logEpoch'[l] = IF Quiesces(l) THEN globalLogEpoch ELSE logEpoch[l]
<1>1. /\ globalLogEpoch \in Nat /\ globalWakeEpoch \in Nat
      /\ buf \in [Logs -> Seq(Records)]
      /\ flushing \in [Logs -> [records : Seq(Records), epoch : Nat]]
      /\ logEpoch \in [Logs -> Nat] /\ quiescentEpoch \in [Logs -> Nat]
      /\ wakeEpoch \in [Logs -> Nat]
  BY DEF LogsOK
<1>2. /\ Taken(l) \in Seq(Records) /\ ChangesIn(Taken(l)) = InBuffer(l)
      /\ NoRepeat(buf[l]) => NoRepeat(Taken(l))
  <2>1. CASE Quiesces(l)
    <3>1. Taken(l) = <<EpochRecord(globalLogEpoch), QuiesceRecord>>
      BY <2>1 DEF Taken
    <3>2. InBuffer(l) = {}
      BY <2>1, EmptyContents DEF Quiesces, InBuffer
    <3>3. Taken(l) \in Seq(Records) /\ ChangesIn(Taken(l)) = {} /\ NoRepeat(Taken(l))
      BY <1>1, <3>1, QuietContents
    <3> QED
      BY <3>2, <3>3
  <2>2. CASE ~ Quiesces(l)
    BY <1>1, <2>2 DEF Taken, InBuffer
  <2> QED
    BY <2>1, <2>2
<1>3. /\ logEpoch' = [logEpoch EXCEPT ![l] = IF Quiesces(l) THEN globalLogEpoch ELSE logEpoch[l]]
      /\ wakeEpoch' = [wakeEpoch EXCEPT ![l] = globalWakeEpoch]
      /\ buf' = [buf EXCEPT ![l] = <<>>]
      /\ flushing[l] = Nothing
  BY <1>1 DEF LoggerPass
<1>4. quiescentEpoch' \in [Logs -> Nat]
  BY <1>1 DEF LoggerPass
<1>5. /\ logEpoch' \in [Logs -> Nat] /\ wakeEpoch' \in [Logs -> Nat]
      /\ logEpoch'[l] = IF Quiesces(l) THEN globalLogEpoch ELSE logEpoch[l]
      /\ buf' \in [Logs -> Seq(Records)] /\ buf'[l] = <<>>
      /\ \A m \in Logs \ {l} : buf'[m] = buf[m]
  BY <1>1, <1>3
<1>6. flushing' = [flushing EXCEPT ![l] = IF Taken(l) = <<>> THEN Nothing
                     ELSE [records |-> Taken(l), epoch |-> logEpoch'[l]]]
  BY DEF LoggerPass, Taken
<1>7. /\ flushing'[l] = IF Taken(l) = <<>> THEN Nothing
                        ELSE [records |-> Taken(l), epoch |-> logEpoch'[l]]
      /\ \A m \in Logs \ {l} : flushing'[m] = flushing[m]
  BY <1>1, <1>6
<1>8. /\ flushing'[l] \in [records : Seq(Records), epoch : Nat]
      /\ flushing'[l].records = Taken(l)
      /\ Taken(l) # <<>> => flushing'[l].epoch = logEpoch'[l]
  <2>1. CASE Taken(l) = <<>>
    BY <1>2, <1>7, <2>1 DEF Nothing
  <2>2. CASE Taken(l) # <<>>
    <3>1. flushing'[l] = [records |-> Taken(l), epoch |-> logEpoch'[l]]
      BY <1>7, <2>2
    <3>2. logEpoch'[l] \in Nat
      BY <1>5
    <3> HIDE DEF Taken
    <3> QED
      BY <1>2, <3>1, <3>2
  <2> QED
    BY <2>1, <2>2
<1>9. flushing' \in [Logs -> [records : Seq(Records), epoch : Nat]]
  <2>1. DOMAIN flushing' = Logs /\ flushing' = [m \in Logs |-> flushing'[m]]
    BY <1>1, <1>6
  <2>2. \A m \in Logs : flushing'[m] \in [records : Seq(Records), epoch : Nat]
    BY <1>1, <1>7, <1>8
  <2> QED
    BY <2>1, <2>2
<1> QED
  BY <1>2, <1>3, <1>4, <1>5, <1>7, <1>8, <1>9

LEMMA LoggerPassKeeps ==
  ASSUME IInv, NEW l \in Logs, LoggerPass(l)
  PROVE  IInv'
<1>1. TypeOK /\ answered \subseteq 1..Len(changes)
  BY DEF IInv
<1>2. /\ flushing[l] = Nothing
      /\ Taken(l) \in Seq(Records) /\ ChangesIn(Taken(l)) = InBuffer(l)
      /\ NoRepeat(buf[l]) => NoRepeat(Taken(l))
      /\ flushing'[l].records = Taken(l)
      /\ flushing' \in [Logs -> [records : Seq(Records), epoch : Nat]]
      /\ buf' \in [Logs -> Seq(Records)] /\ buf'[l] = <<>>
      /\ \A m \in Logs \ {l} : buf'[m] = buf[m] /\ flushing'[m] = flushing[m]
      /\ logEpoch' \in [Logs -> Nat] /\ quiescentEpoch' \in [Logs -> Nat]
      /\ wakeEpoch' \in [Logs -> Nat]
  BY <1>1, TypesOfLogs, PassEffect
<1>3. phase = "up" /\ UNCHANGED <<epochs, flushedEpoch, locks, writers, disk, history, recovery>>
  BY DEF LoggerPass
<1>4. TypeOK'
  BY <1>1, <1>2, <1>3 DEF TypeOK, epochs, locks, writers, history, recovery
<1>5. ASSUME NEW m \in Logs PROVE Contents(m)'
  <2>1. Contents(m)
    BY DEF IInv
  <2>2. /\ OnDisk(m)' = OnDisk(m) /\ NoRepeat(disk[m])' /\ Answered(m)' = Answered(m)
        /\ changes' = changes /\ phase' = phase
    BY <1>3, <2>1 DEF OnDisk, Contents, NoRepeat, Answered, history, recovery
  <2>3. CASE m = l
    <3>1. InFlight(m) = {}
      BY <1>2, <2>3, EmptyContents DEF InFlight, Nothing
    <3>2. InFlight(m)' = InBuffer(m) /\ NoRepeat(flushing[m].records)'
      BY <1>2, <2>1, <2>3 DEF InFlight, Contents, NoRepeat
    <3>3. InBuffer(m)' = {} /\ NoRepeat(buf[m])'
      BY <1>2, <2>3, EmptyContents DEF InBuffer, NoRepeat
    <3> QED
      BY <2>1, <2>2, <3>1, <3>2, <3>3 DEF Contents
  <2>4. CASE m # l
    <3>1. /\ InFlight(m)' = InFlight(m) /\ InBuffer(m)' = InBuffer(m)
          /\ NoRepeat(flushing[m].records)' /\ NoRepeat(buf[m])'
      BY <1>2, <2>1, <2>4 DEF InFlight, InBuffer, Contents, NoRepeat
    <3> QED
      BY <2>1, <2>2, <3>1 DEF Contents
  <2> QED
    BY <2>3, <2>4
<1>6. \A w \in Writers : Recording(w)'
  BY <1>3, RecordingFrame DEF IInv, writers, locks, history
<1>7. Recovering'
  BY <1>3 DEF Recovering, recovery
<1>8. answered' \subseteq 1..Len(changes')
  BY <1>1, <1>3 DEF history
<1> QED
  BY <1>4, <1>5, <1>6, <1>7, <1>8 DEF IInv

LEMMA FlushKeeps ==
  ASSUME IInv, NEW l \in Logs, Flush(l)
  PROVE  IInv'
<1>1. TypeOK /\ answered \subseteq 1..Len(changes)
  BY DEF IInv
<1>2. /\ disk \in [Logs -> Seq(Records)] /\ flushedEpoch \in [Logs -> Nat]
      /\ flushing \in [Logs -> [records : Seq(Records), epoch : Nat]]
  BY <1>1 DEF TypeOK
<1>3. /\ phase = "up"
      /\ disk' = [disk EXCEPT ![l] = disk[l] \o flushing[l].records]
      /\ flushedEpoch' = [flushedEpoch EXCEPT ![l] = flushing[l].epoch]
      /\ flushing' = [flushing EXCEPT ![l] = Nothing]
      /\ UNCHANGED <<epochs, logEpoch, quiescentEpoch, wakeEpoch, buf, locks, writers,
                     history, recovery>>
  BY <1>2 DEF Flush
<1> DEFINE s == disk[l]
           t == flushing[l].records
<1>4. s \in Seq(Records) /\ t \in Seq(Records) /\ flushing[l].epoch \in Nat
  BY <1>2
<1>5. Contents(l)
  BY DEF IInv
<1>6. /\ s \o t \in Seq(Records)
      /\ ChangesIn(s \o t) = OnDisk(l) \cup InFlight(l)
      /\ NoRepeat(s \o t)
  <2>1. NoRepeat(s) /\ NoRepeat(t) /\ ChangesIn(s) \cap ChangesIn(t) = {}
    BY <1>5 DEF Contents, OnDisk, InFlight
  <2> QED
    BY <1>4, <2>1, ConcatContents DEF OnDisk, InFlight
<1>7. /\ disk' \in [Logs -> Seq(Records)] /\ disk'[l] = s \o t
      /\ flushing' \in [Logs -> [records : Seq(Records), epoch : Nat]]
      /\ flushing'[l] = Nothing /\ Nothing.records = <<>>
      /\ \A m \in Logs \ {l} : disk'[m] = disk[m] /\ flushing'[m] = flushing[m]
  <2>1. Nothing \in [records : Seq(Records), epoch : Nat] /\ Nothing.records = <<>>
    BY EmptyContents DEF Nothing
  <2> HIDE DEF s, t
  <2>2. disk' \in [Logs -> Seq(Records)] /\ disk'[l] = s \o t
        /\ \A m \in Logs \ {l} : disk'[m] = disk[m]
    BY <1>2, <1>3, <1>6 DEF s, t
  <2> HIDE DEF Nothing
  <2> QED
    BY <1>2, <1>3, <2>1, <2>2
<1>8. TypeOK'
  <2>1. flushedEpoch' \in [Logs -> Nat]
    BY <1>2, <1>3, <1>4
  <2>2. /\ disk' \in [Logs -> Seq(Records)]
        /\ flushing' \in [Logs -> [records : Seq(Records), epoch : Nat]]
    BY <1>7
  <2>3. UNCHANGED <<epochs, logEpoch, quiescentEpoch, wakeEpoch, buf, locks, writers,
                    history, recovery>>
    BY <1>3
  <2> QED
    BY <1>1, <2>1, <2>2, <2>3 DEF TypeOK, epochs, locks, writers, history, recovery
<1>9. ASSUME NEW m \in Logs PROVE Contents(m)'
  <2>1. Contents(m)
    BY DEF IInv
  <2>2. /\ InBuffer(m)' = InBuffer(m) /\ NoRepeat(buf[m])' /\ Answered(m)' = Answered(m)
        /\ changes' = changes /\ phase' = phase
    BY <1>3, <2>1 DEF InBuffer, Contents, NoRepeat, Answered, history, recovery
  <2>3. CASE m = l
    <3>1. OnDisk(m)' = OnDisk(m) \cup InFlight(m) /\ NoRepeat(disk[m])'
      BY ZenonT(60), <1>6, <1>7, <2>3 DEF OnDisk, NoRepeat
    <3>2. InFlight(m)' = {} /\ NoRepeat(flushing[m].records)'
      BY <1>7, <2>3, EmptyContents DEF InFlight, NoRepeat
    <3> QED
      BY <2>1, <2>2, <3>1, <3>2 DEF Contents
  <2>4. CASE m # l
    <3>1. /\ InFlight(m)' = InFlight(m) /\ OnDisk(m)' = OnDisk(m)
          /\ NoRepeat(flushing[m].records)' /\ NoRepeat(disk[m])'
      BY <1>7, <2>1, <2>4 DEF InFlight, OnDisk, Contents, NoRepeat
    <3> QED
      BY <2>1, <2>2, <3>1 DEF Contents
  <2> QED
    BY <2>3, <2>4
<1>10. \A w \in Writers : Recording(w)'
  BY <1>3, RecordingFrame DEF IInv, writers, locks, history
<1>11. Recovering'
  BY <1>3 DEF Recovering, recovery
<1>12. answered' \subseteq 1..Len(changes')
  BY <1>1, <1>3 DEF history
<1> QED
  BY <1>8, <1>9, <1>10, <1>11, <1>12 DEF IInv

\* After a crash the file of a log has what it had and a beginning of what was
\* being written.
LEMMA CrashEffect ==
  ASSUME LogsOK, LoseBuffers
  PROVE  /\ disk' \in [Logs -> Seq(Records)]
         /\ \A l \in Logs :
              \E p \in Seq(Records) :
                /\ disk'[l] = disk[l] \o p /\ Begins(p, flushing[l].records)
                /\ ChangesIn(p) \subseteq InFlight(l)
                /\ NoRepeat(flushing[l].records) => NoRepeat(p)
<1> DEFINE lengths == {Len(flushing[l].records) : l \in Logs}
           f == [l \in 1..NLogs |-> Len(flushing[l].records)]
<1>1. /\ disk \in [Logs -> Seq(Records)]
      /\ \A l \in Logs : flushing[l].records \in Seq(Records) /\ Len(flushing[l].records) \in Nat
  BY LenProperties DEF LogsOK
<1>2. PICK cut \in [Logs -> 0..Max(lengths)] :
        /\ \A l \in Logs : cut[l] <= Len(flushing[l].records)
        /\ disk' = [l \in Logs |-> disk[l] \o SubSeq(flushing[l].records, 1, cut[l])]
  BY DEF LoseBuffers
<1>3. ASSUME NEW l \in Logs PROVE Max(lengths) \in Nat
  <2>1. f \in [1..NLogs -> Nat]
    BY <1>1 DEF Logs
  <2>2. PICK b \in Nat : \A m \in 1..NLogs : f[m] <= b
    <3> HIDE DEF f
    <3> QED
      BY <2>1, ValuesBounded, LogOfAssumption
  <2>3. lengths \in SUBSET Nat /\ lengths # {} /\ \A y \in lengths : y <= b
    BY <1>1, <2>2 DEF Logs
  <2> HIDE DEF lengths
  <2>4. Max(lengths) \in lengths
    BY <2>3, GreatestOf
  <2> QED
    BY <2>3, <2>4
<1>4. ASSUME NEW l \in Logs
      PROVE  /\ SubSeq(flushing[l].records, 1, cut[l]) \in Seq(Records)
             /\ Begins(SubSeq(flushing[l].records, 1, cut[l]), flushing[l].records)
             /\ ChangesIn(SubSeq(flushing[l].records, 1, cut[l])) \subseteq InFlight(l)
             /\ NoRepeat(flushing[l].records) => NoRepeat(SubSeq(flushing[l].records, 1, cut[l]))
             /\ disk'[l] = disk[l] \o SubSeq(flushing[l].records, 1, cut[l])
             /\ disk'[l] \in Seq(Records)
  <2>1. cut[l] \in 0..Len(flushing[l].records)
    <3>1. Max(lengths) \in Nat
      BY <1>3
    <3> HIDE DEF lengths
    <3>2. cut[l] \in 0..Max(lengths)
      BY <1>2
    <3> QED
      BY <1>1, <1>2, <3>1, <3>2
  <2>2. /\ SubSeq(flushing[l].records, 1, cut[l]) \in Seq(Records)
        /\ Begins(SubSeq(flushing[l].records, 1, cut[l]), flushing[l].records)
        /\ ChangesIn(SubSeq(flushing[l].records, 1, cut[l])) \subseteq InFlight(l)
        /\ NoRepeat(flushing[l].records) => NoRepeat(SubSeq(flushing[l].records, 1, cut[l]))
    BY <1>1, <2>1, PrefixContents DEF InFlight
  <2>3. disk'[l] = disk[l] \o SubSeq(flushing[l].records, 1, cut[l])
    BY <1>2
  <2> QED
    BY <1>1, <2>2, <2>3, ConcatProperties
<1>5. disk' \in [Logs -> Seq(Records)]
  <2>1. disk' = [l \in Logs |-> disk'[l]]
    BY <1>2
  <2> QED
    BY <1>4, <2>1
<1> QED
  BY <1>4, <1>5

LEMMA CrashKeeps ==
  ASSUME IInv, Crash
  PROVE  IInv'
<1>1. TypeOK /\ answered \subseteq 1..Len(changes)
  BY DEF IInv
<1>2. /\ disk' \in [Logs -> Seq(Records)]
      /\ \A l \in Logs :
           \E p \in Seq(Records) :
             /\ disk'[l] = disk[l] \o p
             /\ ChangesIn(p) \subseteq InFlight(l)
             /\ NoRepeat(flushing[l].records) => NoRepeat(p)
  BY <1>1, TypesOfLogs, CrashEffect DEF Crash
<1>3. /\ crashes < MaxCrashes /\ crashes' = crashes + 1
      /\ phase' = "replay" /\ toReplay' = Logs /\ replayed' = {}
      /\ LoseMemory /\ UNCHANGED history
  BY DEF Crash
<1>4. replayMax' \in Nat
  <2>1. \E quiescent : replayMax' = ReplayLimit(disk', quiescent, 0)
    BY DEF Crash
  <2> QED
    BY <1>2, <2>1, ReplayLimitType
<1>5. Nothing \in [records : Seq(Records), epoch : Nat] /\ Nothing.records = <<>>
  BY EmptyContents DEF Nothing
<1>6. /\ \A l \in Logs : buf'[l] = <<>> /\ flushing'[l] = Nothing
      /\ \A w \in Writers : pc'[w] = "idle"
  BY <1>3 DEF LoseMemory, Idle
<1>7. TypeOK'
  <2>1. /\ globalLogEpoch' \in Nat \ {0} /\ globalWakeEpoch' \in Nat
        /\ \A g \in {logEpoch', quiescentEpoch', wakeEpoch', flushedEpoch'} : g \in [Logs -> Nat]
    BY <1>3 DEF LoseMemory, Zeros
  <2>2. /\ lock' \in [Logs -> Writers \cup {NoWriter}] /\ waiting' \in [Logs -> Seq(Writers)]
        /\ buf' \in [Logs -> Seq(Records)]
    BY <1>3 DEF LoseMemory
  <2>3. flushing' \in [Logs -> [records : Seq(Records), epoch : Nat]]
    <3> HIDE DEF Nothing
    <3> QED
      BY <1>3, <1>5 DEF LoseMemory
  <2>4. /\ pc' \in [Writers -> {"idle", "applying", "recording", "waiting"}]
        /\ change' \in [Writers -> Nat] /\ epoch' \in [Writers -> Nat]
    BY <1>3 DEF LoseMemory, Idle, None
  <2>5. crashes' \in 0..MaxCrashes
    BY <1>1, <1>3, BoundsAssumption DEF TypeOK
  <2>6. changes' \in Seq([log : Logs, epoch : Nat, made : Nat]) /\ tree' \subseteq 1..Len(changes')
    BY <1>1, <1>3 DEF TypeOK, history
  <2> QED
    BY <1>2, <1>3, <1>4, <2>1, <2>2, <2>3, <2>4, <2>5, <2>6 DEF TypeOK
<1>8. ASSUME NEW l \in Logs PROVE Contents(l)'
  <2>1. Contents(l)
    BY DEF IInv
  <2>2. PICK p \in Seq(Records) :
          /\ disk'[l] = disk[l] \o p
          /\ ChangesIn(p) \subseteq InFlight(l)
          /\ NoRepeat(flushing[l].records) => NoRepeat(p)
    BY <1>2
  <2>3. disk[l] \in Seq(Records)
    BY <1>1 DEF TypeOK
  <2>4. NoRepeat(disk[l]) /\ NoRepeat(p) /\ ChangesIn(disk[l]) \cap ChangesIn(p) = {}
    BY <2>1, <2>2 DEF Contents, OnDisk
  <2>5. /\ OnDisk(l)' = OnDisk(l) \cup ChangesIn(p)
        /\ NoRepeat(disk[l])'
    BY <2>2, <2>3, <2>4, ConcatContents DEF OnDisk, NoRepeat
  <2>6. /\ InFlight(l)' = {} /\ NoRepeat(flushing[l].records)'
        /\ InBuffer(l)' = {} /\ NoRepeat(buf[l])'
    <3>1. (flushing'[l]).records = <<>> /\ buf'[l] = <<>>
      BY <1>5, <1>6
    <3> QED
      BY <3>1, EmptyContents DEF InFlight, InBuffer, NoRepeat
  <2>7. changes' = changes
    BY <1>3 DEF history
  <2> QED
    BY <1>3, <2>1, <2>2, <2>5, <2>6, <2>7 DEF Contents
<1>9. \A w \in Writers : Recording(w)'
  BY <1>6 DEF Recording
<1>10. Recovering'
  BY <1>3, <1>6 DEF Recovering
<1>11. answered' \subseteq 1..Len(changes')
  BY <1>1, <1>3 DEF history
<1> QED
  BY <1>7, <1>8, <1>9, <1>10, <1>11 DEF IInv

LEMMA ReplayKeeps ==
  ASSUME IInv, NEW l \in Logs, Replay(l)
  PROVE  IInv'
<1>1. TypeOK /\ answered \subseteq 1..Len(changes) /\ Recovering
  BY DEF IInv
<1>2. disk \in [Logs -> Seq(Records)] /\ disk[l] \in Seq(Records) /\ replayMax \in Nat
  BY <1>1 DEF TypeOK
<1>3. /\ phase = "replay" /\ l \in toReplay
      /\ disk' = [disk EXCEPT ![l] = Kept(disk[l], replayMax)]
      /\ replayed' = replayed \cup ChangesIn(disk'[l])
      /\ toReplay' = toReplay \ {l}
      /\ UNCHANGED <<epochs, loginfo, locks, writers, history, phase, crashes, replayMax>>
  BY <1>2 DEF Replay
<1>4. /\ Kept(disk[l], replayMax) \in Seq(Records)
      /\ ChangesIn(Kept(disk[l], replayMax)) \subseteq OnDisk(l)
      /\ NoRepeat(disk[l]) => NoRepeat(Kept(disk[l], replayMax))
  BY <1>2, KeptContents DEF OnDisk
<1>5. /\ disk' \in [Logs -> Seq(Records)] /\ disk'[l] = Kept(disk[l], replayMax)
      /\ \A m \in Logs \ {l} : disk'[m] = disk[m]
  BY <1>2, <1>3, <1>4
<1>6. ASSUME NEW m \in Logs PROVE Contents(m)'
  <2>1. Contents(m)
    BY DEF IInv
  <2>2. OnDisk(m)' \subseteq OnDisk(m) /\ NoRepeat(disk[m])'
    BY <1>4, <1>5, <2>1 DEF OnDisk, Contents, NoRepeat
  <2>3. /\ InFlight(m)' = InFlight(m) /\ NoRepeat(flushing[m].records)'
        /\ InBuffer(m)' = InBuffer(m) /\ NoRepeat(buf[m])'
        /\ changes' = changes
    BY <1>3, <2>1 DEF InFlight, InBuffer, Contents, NoRepeat, loginfo, history
  <2> QED
    BY <1>3, <2>1, <2>2, <2>3 DEF Contents
<1>7. Recovering'
  <2>1. /\ \A m \in Logs : buf'[m] = <<>> /\ flushing'[m] = Nothing
        /\ \A w \in Writers : pc'[w] = "idle"
    BY <1>1, <1>3 DEF Recovering, loginfo, writers
  <2>2. replayed = UNION {OnDisk(m) : m \in Logs \ toReplay}
    BY <1>1, <1>3 DEF Recovering
  <2>3. \A m \in Logs \ {l} : OnDisk(m)' = OnDisk(m)
    BY <1>5 DEF OnDisk
  <2>4. replayed' = replayed \cup OnDisk(l)'
    BY <1>3 DEF OnDisk
  <2>5. Logs \ toReplay' = (Logs \ toReplay) \cup {l} /\ l \notin Logs \ toReplay
    BY <1>3
  <2>6. replayed' = UNION {OnDisk(m)' : m \in Logs \ toReplay'}
    BY <2>2, <2>3, <2>4, <2>5
  <2> QED
    BY <2>1, <2>6 DEF Recovering
<1>8. TypeOK'
  <2>1. replayed' \subseteq 1..Len(changes')
    <3>1. \A n \in OnDisk(l)' : n \in 1..Len(changes')
      BY <1>6 DEF Contents
    <3>2. replayed \subseteq 1..Len(changes) /\ changes' = changes
      BY <1>1, <1>3 DEF TypeOK, history
    <3> QED
      BY <1>3, <3>1, <3>2 DEF OnDisk
  <2>2. toReplay' \subseteq Logs
    BY <1>1, <1>3 DEF TypeOK
  <2> QED
    BY <1>1, <1>3, <1>5, <2>1, <2>2 DEF TypeOK, epochs, loginfo, locks, writers, history
<1>9. \A w \in Writers : Recording(w)'
  BY <1>3, RecordingFrame DEF IInv, writers, locks, history
<1>10. answered' \subseteq 1..Len(changes')
  BY <1>1, <1>3 DEF history
<1> QED
  BY <1>6, <1>7, <1>8, <1>9, <1>10 DEF IInv

LEMMA RestartKeeps ==
  ASSUME IInv, Restart
  PROVE  IInv'
<1>1. TypeOK /\ answered \subseteq 1..Len(changes) /\ Recovering
  BY DEF IInv
<1>2. /\ phase = "replay" /\ toReplay = {}
      /\ tree' = replayed /\ answered' = replayed /\ recovered' = replayed
      /\ phase' = "up" /\ replayMax' = 0 /\ replayed' = {}
      /\ globalLogEpoch' = replayMax + 1
      /\ UNCHANGED <<globalWakeEpoch, loginfo, locks, writers, disk, changes, crashes, toReplay>>
  BY DEF Restart
<1>3. replayed \subseteq 1..Len(changes) /\ replayMax \in Nat
  BY <1>1 DEF TypeOK
<1>4. TypeOK'
  <2>1. globalLogEpoch' \in Nat \ {0}
    BY <1>2, <1>3
  <2> QED
    BY <1>1, <1>2, <1>3, <2>1 DEF TypeOK, loginfo, locks, writers
<1>5. ASSUME NEW l \in Logs PROVE Contents(l)'
  <2>1. Contents(l)
    BY DEF IInv
  <2>2. /\ OnDisk(l)' = OnDisk(l) /\ NoRepeat(disk[l])'
        /\ InFlight(l)' = InFlight(l) /\ NoRepeat(flushing[l].records)'
        /\ InBuffer(l)' = InBuffer(l) /\ NoRepeat(buf[l])'
    BY <1>2, <2>1 DEF OnDisk, InFlight, InBuffer, Contents, NoRepeat, loginfo
  <2>3. InFlight(l) = {} /\ InBuffer(l) = {}
    BY <1>1, <1>2, EmptyContents DEF Recovering, InFlight, InBuffer, Nothing
  <2>4. Answered(l)' = OnDisk(l)
    <3>1. replayed = UNION {OnDisk(m) : m \in Logs}
      BY <1>1, <1>2 DEF Recovering
    <3>2. \A m \in Logs : \A n \in OnDisk(m) : changes[n].log = m
      BY DEF IInv, Contents
    <3>3. Answered(l)' = {n \in replayed : changes[n].log = l}
      BY <1>2 DEF Answered
    <3> QED
      BY <3>1, <3>2, <3>3
  <2> QED
    BY <1>2, <2>1, <2>2, <2>3, <2>4 DEF Contents
<1>6. \A w \in Writers : Recording(w)'
  <2>1. \A w \in Writers : pc'[w] = "idle"
    BY <1>1, <1>2 DEF Recovering, writers
  <2> QED
    BY <2>1 DEF Recording
<1>7. Recovering'
  BY <1>2 DEF Recovering
<1>8. answered' \subseteq 1..Len(changes')
  BY <1>2, <1>3
<1> QED
  BY <1>4, <1>5, <1>6, <1>7, <1>8 DEF IInv

LEMMA CheckEpochKeeps ==
  ASSUME IInv, CheckEpoch
  PROVE  IInv'
<1>1. TypeOK /\ answered \subseteq 1..Len(changes) /\ Recovering
  BY DEF IInv
<1>2. /\ globalLogEpoch' = globalLogEpoch + 1
      /\ UNCHANGED <<globalWakeEpoch, loginfo, locks, writers, disk, history, recovery>>
  BY DEF CheckEpoch
<1>3. TypeOK'
  <2>1. globalLogEpoch' \in Nat \ {0}
    BY <1>1, <1>2 DEF TypeOK
  <2> QED
    BY <1>1, <1>2, <2>1 DEF TypeOK, loginfo, locks, writers, history, recovery
<1>4. \A l \in Logs : Contents(l)'
  BY <1>1, <1>2, ContentsFrame DEF IInv, loginfo, history, recovery
<1>5. \A w \in Writers : Recording(w)'
  BY <1>2, RecordingFrame DEF IInv, writers, locks, history
<1>6. Recovering'
  <2>1. phase' = phase /\ phase = "up"
    BY <1>2 DEF recovery, CheckEpoch
  <2> QED
    BY <2>1 DEF Recovering
<1>7. answered' \subseteq 1..Len(changes')
  BY <1>1, <1>2 DEF history
<1> QED
  BY <1>3, <1>4, <1>5, <1>6, <1>7 DEF IInv

LEMMA StutterKeeps ==
  ASSUME IInv, UNCHANGED vars
  PROVE  IInv'
<1>1. TypeOK /\ answered \subseteq 1..Len(changes) /\ Recovering
  BY DEF IInv
<1>2. UNCHANGED <<epochs, loginfo, locks, writers, disk, history, recovery>>
  BY DEF vars
<1>3. TypeOK'
  BY <1>1, <1>2 DEF TypeOK, epochs, loginfo, locks, writers, history, recovery
<1>4. \A l \in Logs : Contents(l)'
  BY <1>1, <1>2, ContentsFrame DEF IInv, loginfo, history, recovery
<1>5. \A w \in Writers : Recording(w)'
  BY <1>2, RecordingFrame DEF IInv, writers, locks, history
<1>6. Recovering'
  <2>1. UNCHANGED <<phase, buf, flushing, pc, replayed, toReplay, disk>>
    BY <1>2 DEF recovery, loginfo, writers
  <2>2. \A l \in Logs : OnDisk(l)' = OnDisk(l)
    BY <2>1 DEF OnDisk
  <2> QED
    BY <1>1, <2>1, <2>2 DEF Recovering
<1>7. answered' \subseteq 1..Len(changes')
  BY <1>1, <1>2 DEF history
<1> QED
  BY <1>3, <1>4, <1>5, <1>6, <1>7 DEF IInv

LEMMA NextKeeps ==
  ASSUME IInv, [Next]_vars
  PROVE  IInv'
<1>1. CASE CheckEpoch
  BY <1>1, CheckEpochKeeps
<1>2. CASE \E w \in Writers : ReadEpoch(w) \/ ChangeTree(w) \/ Record(w) \/ Stall(w) \/ Retry(w)
  BY <1>2, ReadEpochKeeps, ChangeTreeKeeps, RecordKeeps, StallKeeps, RetryKeeps
<1>3. CASE \E l \in Logs : LoggerPass(l) \/ Flush(l) \/ Replay(l)
  BY <1>3, LoggerPassKeeps, FlushKeeps, ReplayKeeps
<1>4. CASE Crash \/ Restart
  BY <1>4, CrashKeeps, RestartKeeps
<1>5. CASE UNCHANGED vars
  BY <1>5, StutterKeeps
<1> QED
  BY <1>1, <1>2, <1>3, <1>4, <1>5 DEF Next

LEMMA Invariance == Spec => []IInv
<1>1. IInv /\ [Next]_vars => IInv'
  BY NextKeeps
<1> QED
  BY <1>1, InitKeeps, PTL DEF Spec

\* Every variable keeps its type, the limit that recovery computes from the logs
\* and the sequence numbers of the changes it reads back included.
THEOREM TypeCorrect == Spec => []TypeOK
<1>1. IInv => TypeOK
  BY DEF IInv
<1> QED
  BY <1>1, Invariance, PTL

\* The records of one change in a sequence that repeats none.
LEMMA CountOfOne ==
  ASSUME NEW s \in Seq(Records), NoRepeat(s), NEW n \in Nat
  PROVE  Cardinality({i \in DOMAIN s : s[i] = ChangeRecord(n)}) =
           IF n \in ChangesIn(s) THEN 1 ELSE 0
<1> DEFINE at == {i \in DOMAIN s : s[i] = ChangeRecord(n)}
<1>1. at = {i \in 1..Len(s) : s[i] = ChangeRecord(n)}
  BY PlacesOf
<1>2. CASE n \in ChangesIn(s)
  <2>1. PICK i \in 1..Len(s) : s[i] = ChangeRecord(n)
    BY <1>2, ChangeAt
  <2>2. \A j \in at : j = i
    BY <1>1, <2>1, RecordTypes DEF NoRepeat
  <2>3. at = {i}
    BY <1>1, <2>1, <2>2
  <2>4. Cardinality({i}) = 1
    BY FS_Singleton
  <2> QED
    BY <1>2, <2>3, <2>4
<1>3. CASE n \notin ChangesIn(s)
  <2>1. at = {}
    BY <1>1, <1>3, ChangeAt, RecordTypes
  <2>2. Cardinality({}) = 0
    BY FS_EmptySet
  <2> QED
    BY <1>3, <2>1, <2>2
<1> QED
  BY <1>2, <1>3

\* The swap of the two buffers under the lock, the waiting writers, the
\* truncation of the file by recovery and crashes at any point neither lose the
\* record of an answered change nor write it twice.
THEOREM EachRecordedOnce == Spec => []RecordedOnce
<1>1. ASSUME IInv PROVE RecordedOnce
  <2> SUFFICES ASSUME phase = "up", NEW n \in DOMAIN changes
               PROVE  Copies(n) = IF n \in answered THEN 1 ELSE 0
    BY DEF RecordedOnce
  <2> DEFINE l == changes[n].log
             q == disk[l] \o flushing[l].records
             s == disk[l] \o flushing[l].records \o buf[l]
  <2>1. TypeOK
    BY <1>1 DEF IInv
  <2>2. changes \in Seq([log : Logs, epoch : Nat, made : Nat]) /\ n \in 1..Len(changes)
    BY <2>1, LenProperties DEF TypeOK
  <2>3. l \in Logs /\ n \in Nat
    <3>1. changes[n] \in [log : Logs, epoch : Nat, made : Nat]
      BY <2>2, ElementOfSeq
    <3>2. Len(changes) \in Nat
      BY <2>2, LenProperties
    <3> QED
      BY <2>2, <3>1, <3>2
  <2>4. /\ disk[l] \in Seq(Records) /\ flushing[l].records \in Seq(Records)
        /\ buf[l] \in Seq(Records)
    BY <2>1, <2>3 DEF TypeOK
  <2>5. Contents(l)
    BY <1>1, <2>3 DEF IInv
  <2>6. q \in Seq(Records) /\ NoRepeat(q) /\ ChangesIn(q) = OnDisk(l) \cup InFlight(l)
    BY <2>4, <2>5, ConcatContents DEF Contents, OnDisk, InFlight
  <2>7. ChangesIn(q) \cap ChangesIn(buf[l]) = {} /\ NoRepeat(buf[l])
    BY <2>5, <2>6 DEF Contents, InBuffer
  <2>8. /\ s \in Seq(Records) /\ NoRepeat(s)
        /\ ChangesIn(s) = OnDisk(l) \cup InFlight(l) \cup InBuffer(l)
    <3> HIDE DEF q
    <3>1. /\ q \o buf[l] \in Seq(Records) /\ NoRepeat(q \o buf[l])
          /\ ChangesIn(q \o buf[l]) = ChangesIn(q) \cup ChangesIn(buf[l])
      BY <2>4, <2>6, <2>7, ConcatContents
    <3> QED
      BY <2>6, <3>1 DEF InBuffer, q
  <2>9. n \in ChangesIn(s) <=> n \in answered
    BY <2>5, <2>8 DEF Contents, Answered
  <2>10. Copies(n) = Cardinality({i \in DOMAIN s : s[i] = ChangeRecord(n)})
    BY DEF Copies
  <2> HIDE DEF s
  <2> QED
    BY <2>3, <2>8, <2>9, <2>10, CountOfOne
<1> QED
  BY <1>1, Invariance, PTL

-----------------------------------------------------------------------------
(* Logs whose buffers do not fill: no writer overtakes a waiting one.      *)

\* A writer keeps the lock of its log from the reading of the epoch to its record,
\* so that the log does not move on from the epoch that was read.
Holding(w) ==
  /\ pc[w] # "waiting"
  /\ pc[w] \in {"applying", "recording"} =>
       /\ lock[LogOf[w]] = w /\ 0 < epoch[w]
       /\ logEpoch[LogOf[w]] <= epoch[w] /\ epoch[w] <= globalLogEpoch
  /\ pc[w] = "recording" => epoch[w] = changes[change[w]].epoch

\* The epochs of a log: what is flushed, what is being flushed, and the log's
\* own.  No change still in a buffer is older than what is claimed for the file;
\* a log is quiescent only with nothing but its own records to write.
EpochsInOrder(l) ==
  /\ flushedEpoch[l] <= logEpoch[l] /\ logEpoch[l] <= globalLogEpoch
  /\ flushing[l] # Nothing =>
       flushedEpoch[l] <= flushing[l].epoch /\ flushing[l].epoch <= logEpoch[l]
  /\ \A n \in InFlight(l) : flushedEpoch[l] <= changes[n].epoch
  /\ \A n \in InBuffer(l) :
       /\ flushedEpoch[l] <= changes[n].epoch
       /\ flushing[l] # Nothing => flushing[l].epoch <= changes[n].epoch
  /\ quiescentEpoch[l] # 0 =>
       /\ buf[l] = <<>> /\ InFlight(l) = {}
       /\ flushing[l] # Nothing => flushedEpoch[l] < quiescentEpoch[l]

\* The tree shows what is recorded and what is about to be.
InTree ==
  phase = "up" =>
    \A n \in tree \ answered :
      \E w \in Writers : pc[w] \in {"recording", "waiting"} /\ change[w] = n

OInv ==
  /\ \A w \in Writers : Holding(w)
  /\ \A l \in Logs : EpochsInOrder(l)
  /\ InTree
  /\ phase = "replay" => globalLogEpoch = 1

\* Only the epochs and what the logs have in memory count.
LEMMA EpochsKept ==
  ASSUME NEW l \in Logs, EpochsInOrder(l),
         UNCHANGED <<flushedEpoch, logEpoch, quiescentEpoch, flushing, buf>>,
         globalLogEpoch \in Nat, globalLogEpoch' \in Nat, logEpoch[l] \in Nat,
         globalLogEpoch <= globalLogEpoch',
         \A n \in InFlight(l) \cup InBuffer(l) : changes'[n] = changes[n]
  PROVE  EpochsInOrder(l)'
<1>1. InFlight(l)' = InFlight(l) /\ InBuffer(l)' = InBuffer(l)
  BY DEF InFlight, InBuffer
<1>2. logEpoch[l] <= globalLogEpoch => logEpoch[l] <= globalLogEpoch'
  OBVIOUS
<1> QED
  BY <1>1, <1>2 DEF EpochsInOrder

LEMMA EpochsFrame ==
  ASSUME NEW l \in Logs, EpochsInOrder(l), Contents(l),
         UNCHANGED <<flushedEpoch, logEpoch, quiescentEpoch, flushing, buf>>,
         globalLogEpoch \in Nat, globalLogEpoch' \in Nat, logEpoch[l] \in Nat,
         globalLogEpoch <= globalLogEpoch',
         \A n \in 1..Len(changes) : changes'[n] = changes[n]
  PROVE  EpochsInOrder(l)'
<1>1. \A n \in InFlight(l) \cup InBuffer(l) : changes'[n] = changes[n]
  BY DEF Contents
<1> QED
  BY <1>1, EpochsKept

\* record() raises the epochs of its log to that of the change.
LEMMA StoreEpochs ==
  ASSUME LogsOK, NEW w \in Writers, Store(w), \A m \in Logs : EpochsInOrder(m),
         changes[change[w]].epoch = epoch[w],
         logEpoch[LogOf[w]] <= epoch[w], epoch[w] <= globalLogEpoch
  PROVE  /\ \A m \in Logs : EpochsInOrder(m)'
         /\ \A m \in Logs : logEpoch[m] <= logEpoch'[m] /\ flushedEpoch[m] <= flushedEpoch'[m]
         /\ logEpoch'[LogOf[w]] = epoch[w]
         /\ \A m \in Logs \ {LogOf[w]} : logEpoch'[m] = logEpoch[m]
<1> DEFINE l == LogOf[w]
           e == epoch[w]
<1>1. l \in Logs /\ EpochsInOrder(l)
  BY LogOfAssumption
<1>2. e \in Nat /\ globalLogEpoch \in Nat /\ flushing[l].epoch \in Nat
  BY <1>1 DEF LogsOK
<1>3. logEpoch[l] <= e /\ e <= globalLogEpoch /\ e = changes[change[w]].epoch
  OBVIOUS
<1>4. /\ \A m \in Logs \ {l} : buf'[m] = buf[m]
      /\ ChangesIn(buf'[l]) = ChangesIn(buf[l]) \cup {change[w]}
  BY <1>1, StoreEffect
<1>5. /\ logEpoch \in [Logs -> Nat] /\ flushedEpoch \in [Logs -> Nat]
      /\ quiescentEpoch \in [Logs -> Nat]
  BY DEF LogsOK
<1>6. /\ logEpoch' = [logEpoch EXCEPT ![l] = e]
      /\ flushedEpoch' = [flushedEpoch EXCEPT ![l] =
           IF quiescentEpoch[l] # 0 /\ flushedEpoch[l] = quiescentEpoch[l]
           THEN e ELSE flushedEpoch[l]]
      /\ quiescentEpoch' = [quiescentEpoch EXCEPT ![l] = 0]
      /\ UNCHANGED <<globalLogEpoch, flushing, changes>>
  BY <1>1, <1>5 DEF Store
<1>7. /\ logEpoch'[l] = e /\ quiescentEpoch'[l] = 0
      /\ \A m \in Logs \ {l} : /\ logEpoch'[m] = logEpoch[m]
                               /\ flushedEpoch'[m] = flushedEpoch[m]
                               /\ quiescentEpoch'[m] = quiescentEpoch[m]
      /\ flushedEpoch'[l] = IF quiescentEpoch[l] # 0 /\ flushedEpoch[l] = quiescentEpoch[l]
                            THEN e ELSE flushedEpoch[l]
  BY <1>1, <1>5, <1>6
<1>8. flushedEpoch[l] <= e
  BY <1>1, <1>2, <1>3, <1>5 DEF EpochsInOrder
<1>9. \A m \in Logs : logEpoch[m] <= logEpoch'[m] /\ flushedEpoch[m] <= flushedEpoch'[m]
  BY <1>3, <1>5, <1>7, <1>8
<1> HIDE DEF l, e
<1>10. ASSUME NEW m \in Logs PROVE EpochsInOrder(m)'
  <2>1. EpochsInOrder(m) /\ InFlight(m)' = InFlight(m)
    BY <1>6 DEF InFlight
  <2>2. CASE m # l
    <3>1. InBuffer(m)' = InBuffer(m)
      BY <1>4, <2>2 DEF InBuffer
    <3> QED
      BY <1>4, <1>6, <1>7, <2>1, <2>2, <3>1 DEF EpochsInOrder
  <2>3. CASE m = l
    <3>1. InBuffer(l)' = InBuffer(l) \cup {change[w]}
      BY <1>4 DEF InBuffer
    <3>2. CASE quiescentEpoch[l] # 0 /\ flushedEpoch[l] = quiescentEpoch[l]
      <4>1. buf[l] = <<>> /\ InFlight(l) = {} /\ flushing[l] = Nothing
        BY <1>5, <2>1, <2>3, <3>2 DEF EpochsInOrder
      <4>2. InBuffer(l)' = {change[w]}
        BY <3>1, <4>1, EmptyContents DEF InBuffer
      <4>3. flushedEpoch'[l] = e
        BY <1>7, <3>2
      <4> QED
        BY <1>2, <1>3, <1>6, <1>7, <2>1, <2>3, <4>1, <4>2, <4>3 DEF EpochsInOrder
    <3>3. CASE ~ (quiescentEpoch[l] # 0 /\ flushedEpoch[l] = quiescentEpoch[l])
      <4>1. flushedEpoch'[l] = flushedEpoch[l]
        BY <1>7, <3>3
      <4>2. flushing[l] # Nothing => flushing[l].epoch <= e
        <5>1. logEpoch[l] \in Nat
          BY <1>1, <1>5
        <5> QED
          BY <1>1, <1>2, <1>3, <5>1 DEF EpochsInOrder
      <4> QED
        BY <1>2, <1>3, <1>6, <1>7, <1>8, <2>1, <2>3, <3>1, <4>1, <4>2 DEF EpochsInOrder
    <3> QED
      BY <3>2, <3>3
  <2> QED
    BY <2>2, <2>3
<1> QED
  BY <1>7, <1>9, <1>10 DEF l, e

\* A pass of the logger claims nothing more for the file.
LEMMA PassEpochs ==
  ASSUME LogsOK, NEW l \in Logs, LoggerPass(l), \A m \in Logs : EpochsInOrder(m)
  PROVE  /\ \A m \in Logs : EpochsInOrder(m)'
         /\ \A m \in Logs : logEpoch[m] <= logEpoch'[m]
         /\ \A m \in Logs \ {l} : logEpoch'[m] = logEpoch[m]
<1>1. EpochsInOrder(l)
  OBVIOUS
<1>2. /\ flushing[l] = Nothing
      /\ ChangesIn(Taken(l)) = InBuffer(l)
      /\ flushing'[l].records = Taken(l)
      /\ Taken(l) # <<>> => flushing'[l].epoch = logEpoch'[l]
      /\ buf'[l] = <<>>
      /\ \A m \in Logs \ {l} : buf'[m] = buf[m] /\ flushing'[m] = flushing[m]
      /\ logEpoch'[l] = IF Quiesces(l) THEN globalLogEpoch ELSE logEpoch[l]
  BY PassEffect
<1>3. UNCHANGED <<globalLogEpoch, flushedEpoch, changes>>
  BY DEF LoggerPass, epochs, history
<1>4. /\ globalLogEpoch \in Nat \ {0} /\ logEpoch \in [Logs -> Nat]
      /\ flushedEpoch \in [Logs -> Nat] /\ quiescentEpoch \in [Logs -> Nat]
      /\ DOMAIN flushing = Logs
  BY DEF LogsOK
<1>5. /\ \A m \in Logs \ {l} : logEpoch'[m] = logEpoch[m] /\ quiescentEpoch'[m] = quiescentEpoch[m]
      /\ quiescentEpoch'[l] = IF Quiesces(l) THEN globalLogEpoch
                              ELSE IF wakeEpoch[l] # globalWakeEpoch THEN 0 ELSE quiescentEpoch[l]
  BY <1>4 DEF LoggerPass
<1>6. /\ flushedEpoch[l] <= logEpoch[l] /\ logEpoch[l] <= globalLogEpoch
      /\ logEpoch[l] <= logEpoch'[l] /\ logEpoch'[l] <= globalLogEpoch
      /\ logEpoch'[l] \in Nat /\ flushedEpoch[l] \in Nat
  BY <1>1, <1>2, <1>4 DEF EpochsInOrder
<1>7. Taken(l) = <<>> => flushing'[l] = Nothing
  BY <1>4 DEF LoggerPass, Taken
<1>8. ASSUME NEW m \in Logs PROVE EpochsInOrder(m)'
  <2>1. EpochsInOrder(m) /\ changes' = changes
    BY <1>3
  <2>2. CASE m # l
    <3>1. InFlight(m)' = InFlight(m) /\ InBuffer(m)' = InBuffer(m)
      BY <1>2, <2>2 DEF InFlight, InBuffer
    <3> QED
      BY <1>2, <1>3, <1>5, <2>1, <2>2, <3>1 DEF EpochsInOrder
  <2>3. CASE m = l
    <3>1. InFlight(l)' = InBuffer(l) /\ InBuffer(l)' = {}
      BY <1>2, EmptyContents DEF InFlight, InBuffer
    <3>2. flushing'[l] # Nothing => flushing'[l].epoch = logEpoch'[l]
      BY <1>2, <1>7
    <3>3. \A n \in InFlight(l)' : flushedEpoch'[l] <= changes'[n].epoch
      BY <1>1, <1>3, <2>1, <3>1 DEF EpochsInOrder
    <3>4. ASSUME quiescentEpoch'[l] # 0
          PROVE  /\ buf'[l] = <<>> /\ InFlight(l)' = {}
                 /\ flushing'[l] # Nothing => flushedEpoch'[l] < quiescentEpoch'[l]
      <4>1. CASE Quiesces(l)
        <5>1. InBuffer(l) = {} /\ globalLogEpoch # logEpoch[l]
          BY <4>1, EmptyContents DEF Quiesces, InBuffer
        <5>2. flushedEpoch[l] < globalLogEpoch
          BY <1>4, <1>6, <5>1
        <5> QED
          BY <1>2, <1>3, <1>5, <3>1, <4>1, <5>1, <5>2
      <4>2. CASE ~ Quiesces(l)
        <5>1. quiescentEpoch[l] # 0
          BY <1>5, <3>4, <4>2
        <5>2. buf[l] = <<>>
          BY <1>1, <5>1 DEF EpochsInOrder
        <5>3. Taken(l) = <<>> /\ InBuffer(l) = {}
          BY <4>2, <5>2, EmptyContents DEF Taken, InBuffer
        <5> QED
          BY <1>2, <1>7, <3>1, <5>3
      <4> QED
        BY <4>1, <4>2
    <3>5. flushedEpoch'[l] <= logEpoch'[l] /\ logEpoch'[l] <= globalLogEpoch'
      BY <1>3, <1>4, <1>6
    <3>6. flushing'[l] # Nothing =>
            flushedEpoch'[l] <= flushing'[l].epoch /\ flushing'[l].epoch <= logEpoch'[l]
      BY <1>6, <3>2, <3>5
    <3> QED
      BY <2>3, <3>1, <3>3, <3>4, <3>5, <3>6 DEF EpochsInOrder
  <2> QED
    BY <2>2, <2>3
<1>9. \A m \in Logs : logEpoch[m] <= logEpoch'[m]
  BY <1>4, <1>5, <1>6
<1> QED
  BY <1>5, <1>8, <1>9

\* A flush claims what it has written, and no more than its log does.
LEMMA FlushEpochs ==
  ASSUME LogsOK, NEW l \in Logs, Flush(l), \A m \in Logs : EpochsInOrder(m)
  PROVE  /\ \A m \in Logs : EpochsInOrder(m)'
         /\ \A m \in Logs : flushedEpoch[m] <= flushedEpoch'[m]
<1>1. /\ flushing[l] # Nothing
      /\ flushedEpoch' = [flushedEpoch EXCEPT ![l] = flushing[l].epoch]
      /\ flushing' = [flushing EXCEPT ![l] = Nothing]
      /\ UNCHANGED <<globalLogEpoch, logEpoch, quiescentEpoch, buf, changes>>
  BY DEF Flush, epochs, history
<1>2. /\ logEpoch \in [Logs -> Nat] /\ flushedEpoch \in [Logs -> Nat]
      /\ DOMAIN flushing = Logs
  BY DEF LogsOK
<1>3. /\ flushedEpoch'[l] = flushing[l].epoch /\ flushing'[l] = Nothing
      /\ \A m \in Logs \ {l} : flushedEpoch'[m] = flushedEpoch[m] /\ flushing'[m] = flushing[m]
  BY <1>1, <1>2
<1>4. ASSUME NEW m \in Logs PROVE EpochsInOrder(m)'
  <2>1. EpochsInOrder(m) /\ changes' = changes /\ InBuffer(m)' = InBuffer(m)
    BY <1>1 DEF InBuffer
  <2>2. CASE m # l
    <3>1. InFlight(m)' = InFlight(m)
      BY <1>3, <2>2 DEF InFlight
    <3> QED
      BY <1>1, <1>3, <2>1, <2>2, <3>1 DEF EpochsInOrder
  <2>3. CASE m = l
    <3>1. InFlight(l)' = {}
      <4>1. (flushing'[l]).records = <<>>
        BY <1>3 DEF Nothing
      <4> QED
        BY <4>1, EmptyContents DEF InFlight
    <3> QED
      BY <1>1, <1>3, <2>1, <2>3, <3>1 DEF EpochsInOrder
  <2> QED
    BY <2>2, <2>3
<1>5. \A m \in Logs : flushedEpoch[m] <= flushedEpoch'[m]
  <2>1. flushedEpoch[l] <= flushing[l].epoch
    BY <1>1 DEF EpochsInOrder
  <2> QED
    BY <1>2, <1>3, <2>1
<1> QED
  BY <1>4, <1>5

LEMMA InitOrders == Init => OInv
<1> SUFFICES ASSUME Init PROVE OInv
  OBVIOUS
<1>1. \A w \in Writers : Holding(w)
  BY DEF Init, Idle, Holding
<1>2. \A l \in Logs : EpochsInOrder(l)
  <2> SUFFICES ASSUME NEW l \in Logs PROVE EpochsInOrder(l)
    OBVIOUS
  <2>1. flushing[l] = Nothing /\ flushing[l].records = <<>> /\ buf[l] = <<>>
    BY DEF Init, Nothing
  <2>2. InFlight(l) = {} /\ InBuffer(l) = {}
    BY <2>1, EmptyContents DEF InFlight, InBuffer
  <2>3. flushedEpoch[l] = 0 /\ logEpoch[l] = 0 /\ globalLogEpoch = 1 /\ quiescentEpoch[l] = 0
    BY DEF Init, Zeros
  <2> QED
    BY <2>1, <2>2, <2>3 DEF EpochsInOrder
<1>3. InTree /\ (phase = "replay" => globalLogEpoch = 1)
  BY DEF Init, InTree
<1> QED
  BY <1>1, <1>2, <1>3 DEF OInv

LEMMA CheckEpochOrders ==
  ASSUME IInv, OInv, CheckEpoch
  PROVE  OInv'
<1>1. TypeOK
  BY DEF IInv
<1>2. /\ phase = "up" /\ globalLogEpoch' = globalLogEpoch + 1
      /\ UNCHANGED <<loginfo, locks, writers, history, phase>>
  BY DEF CheckEpoch, recovery
<1>3. globalLogEpoch \in Nat /\ globalLogEpoch' \in Nat /\ globalLogEpoch <= globalLogEpoch'
  BY <1>1, <1>2 DEF TypeOK
<1>4. \A l \in Logs : EpochsInOrder(l)'
  BY <1>1, <1>2, <1>3, EpochsFrame DEF TypeOK, IInv, OInv, loginfo, history
<1>5. ASSUME NEW w \in Writers PROVE Holding(w)'
  <2>1. Holding(w) /\ epoch[w] \in Nat
    BY <1>1 DEF OInv, TypeOK
  <2>2. epoch[w] <= globalLogEpoch => epoch[w] <= globalLogEpoch'
    BY <1>3, <2>1
  <2> QED
    BY <1>2, <2>1, <2>2 DEF Holding, loginfo, locks, writers, history
<1>6. InTree'
  BY <1>2 DEF OInv, InTree, history, writers
<1> QED
  BY <1>2, <1>4, <1>5, <1>6 DEF OInv

LEMMA ReadEpochOrders ==
  ASSUME IInv, OInv, NEW w \in Writers, ReadEpoch(w)
  PROVE  OInv'
<1>1. TypeOK /\ LogOf[w] \in Logs
  BY LogOfAssumption DEF IInv
<1>2. /\ phase = "up" /\ pc[w] = "idle" /\ lock[LogOf[w]] = NoWriter
      /\ lock' = [lock EXCEPT ![LogOf[w]] = w]
      /\ epoch' = [epoch EXCEPT ![w] = globalLogEpoch]
      /\ pc' = [pc EXCEPT ![w] = "applying"]
      /\ UNCHANGED <<globalLogEpoch, loginfo, change, history, phase>>
  BY DEF ReadEpoch, epochs, recovery
<1>3. \A l \in Logs : EpochsInOrder(l)'
  BY <1>2 DEF OInv, EpochsInOrder, InFlight, InBuffer, loginfo, history
<1>4. ASSUME NEW v \in Writers PROVE Holding(v)'
  <2>1. Holding(v) /\ LogOf[v] \in Logs
    BY LogOfAssumption DEF OInv
  <2>2. CASE v = w
    <3>1. pc'[v] = "applying" /\ lock'[LogOf[v]] = v /\ epoch'[v] = globalLogEpoch
      BY <1>1, <1>2, <2>2 DEF TypeOK
    <3>2. logEpoch[LogOf[v]] <= globalLogEpoch /\ globalLogEpoch \in Nat \ {0}
      BY <1>1, <2>1 DEF OInv, EpochsInOrder, TypeOK
    <3> QED
      BY <1>2, <3>1, <3>2 DEF Holding, loginfo
  <2>3. CASE v # w
    <3>1. pc'[v] = pc[v] /\ epoch'[v] = epoch[v] /\ change'[v] = change[v]
      BY <1>1, <1>2, <2>3 DEF TypeOK
    <3>2. ASSUME pc[v] \in {"applying", "recording"} PROVE lock'[LogOf[v]] = v
      <4>1. lock[LogOf[v]] = v
        BY <2>1, <3>2 DEF Holding
      <4>2. LogOf[v] # LogOf[w]
        BY <1>2, <4>1, NoWriterAssumption
      <4> QED
        BY <1>1, <1>2, <2>1, <4>1, <4>2 DEF TypeOK
    <3> QED
      BY <1>2, <2>1, <3>1, <3>2 DEF Holding, loginfo, history
  <2> QED
    BY <2>2, <2>3
<1>5. InTree'
  <2> SUFFICES ASSUME NEW n \in tree \ answered
               PROVE  \E v \in Writers : pc'[v] \in {"recording", "waiting"} /\ change'[v] = n
    BY <1>2 DEF InTree, history
  <2>1. PICK v \in Writers : pc[v] \in {"recording", "waiting"} /\ change[v] = n
    BY <1>2 DEF OInv, InTree
  <2>2. pc'[v] = pc[v] /\ change'[v] = change[v]
    BY <1>1, <1>2, <2>1 DEF TypeOK
  <2> QED
    BY <2>1, <2>2
<1> QED
  BY <1>2, <1>3, <1>4, <1>5 DEF OInv

LEMMA ChangeTreeOrders ==
  ASSUME IInv, OInv, NEW w \in Writers, ChangeTree(w)
  PROVE  OInv'
<1>1. TypeOK /\ answered \subseteq 1..Len(changes)
  BY DEF IInv
<1>2. /\ LogOf[w] \in Logs
      /\ Len(changes) \in Nat /\ Len(changes') = Len(changes) + 1
      /\ \A n \in 1..Len(changes) : changes'[n] = changes[n]
      /\ changes'[Len(changes')] =
           [log |-> LogOf[w], epoch |-> epoch[w], made |-> globalLogEpoch]
      /\ change' = [change EXCEPT ![w] = Len(changes')]
  BY <1>1, ChangeEffect
<1>3. /\ phase = "up" /\ pc[w] = "applying" /\ lock' = lock /\ epoch' = epoch
      /\ tree' = tree \cup {Len(changes')}
      /\ pc' = [pc EXCEPT ![w] = "recording"]
      /\ UNCHANGED <<globalLogEpoch, loginfo, answered, phase>>
  BY DEF ChangeTree, epochs, locks, recovery
<1>4. \A l \in Logs : EpochsInOrder(l)'
  <2>1. /\ UNCHANGED <<flushedEpoch, logEpoch, quiescentEpoch, flushing, buf>>
        /\ globalLogEpoch \in Nat /\ globalLogEpoch' = globalLogEpoch
        /\ \A l \in Logs : logEpoch[l] \in Nat
    BY <1>1, <1>3 DEF TypeOK, loginfo
  <2> QED
    BY <1>2, <2>1, EpochsFrame DEF IInv, OInv
<1>5. ASSUME NEW v \in Writers PROVE Holding(v)'
  <2>1. Holding(v)
    BY DEF OInv
  <2>2. CASE v = w
    <3>1. pc'[v] = "recording" /\ change'[v] = Len(changes') /\ pc[v] = "applying"
      BY <1>1, <1>2, <1>3, <2>2 DEF TypeOK
    <3> QED
      BY <1>2, <1>3, <2>1, <2>2, <3>1 DEF Holding, loginfo
  <2>3. CASE v # w
    <3>1. pc'[v] = pc[v] /\ change'[v] = change[v]
      BY <1>1, <1>2, <1>3, <2>3 DEF TypeOK
    <3>2. pc[v] = "recording" => changes'[change[v]] = changes[change[v]]
      BY <1>2 DEF IInv, Recording
    <3> QED
      BY <1>3, <2>1, <3>1, <3>2 DEF Holding, loginfo
  <2> QED
    BY <2>2, <2>3
<1>6. InTree'
  <2> SUFFICES ASSUME NEW n \in tree' \ answered'
               PROVE  \E v \in Writers : pc'[v] \in {"recording", "waiting"} /\ change'[v] = n
    BY DEF InTree
  <2>1. CASE n = Len(changes')
    <3>1. pc'[w] \in {"recording", "waiting"} /\ change'[w] = n
      BY <1>1, <1>2, <1>3, <2>1 DEF TypeOK
    <3> QED
      BY <3>1
  <2>2. CASE n \in tree
    <3>1. PICK v \in Writers : pc[v] \in {"recording", "waiting"} /\ change[v] = n
      BY <1>3, <2>2 DEF OInv, InTree
    <3>2. v # w
      BY <1>3, <3>1
    <3>3. pc'[v] = pc[v] /\ change'[v] = change[v]
      BY <1>1, <1>2, <1>3, <3>2 DEF TypeOK
    <3> QED
      BY <3>1, <3>3
  <2> QED
    BY <1>3, <2>1, <2>2
<1> QED
  BY <1>3, <1>4, <1>5, <1>6 DEF OInv

LEMMA RecordOrders ==
  ASSUME IInv, OInv, NEW w \in Writers, Record(w)
  PROVE  /\ OInv'
         /\ \A l \in Logs : logEpoch[l] <= logEpoch'[l]
<1> DEFINE l == LogOf[w]
           e == epoch[w]
<1>1. TypeOK /\ Recording(w) /\ Holding(w) /\ l \in Logs
  BY LogOfAssumption DEF IInv, OInv
<1>2. /\ phase = "up" /\ pc[w] = "recording" /\ Store(w)
      /\ lock' = [lock EXCEPT ![l] = NoWriter]
  BY DEF Record
<1>3. /\ change[w] \in 1..Len(changes)
      /\ lock[l] = w /\ e = changes[change[w]].epoch
      /\ logEpoch[l] <= e /\ e <= globalLogEpoch
      /\ e \in Nat /\ globalLogEpoch \in Nat
  BY <1>1, <1>2 DEF Recording, Holding, TypeOK
<1>4. /\ \A m \in Logs : EpochsInOrder(m)'
      /\ \A m \in Logs : logEpoch[m] <= logEpoch'[m]
      /\ \A m \in Logs \ {l} : logEpoch'[m] = logEpoch[m]
  BY <1>1, <1>2, <1>3, TypesOfLogs, StoreEpochs DEF OInv
<1>5. /\ pc' = [pc EXCEPT ![w] = "idle"]
      /\ answered' = answered \cup {change[w]}
      /\ change' = [change EXCEPT ![w] = 0] /\ epoch' = [epoch EXCEPT ![w] = 0]
      /\ UNCHANGED <<globalLogEpoch, flushing, changes, tree, phase>>
  BY <1>2 DEF Store, recovery
<1>6. ASSUME NEW v \in Writers PROVE Holding(v)'
  <2>1. Holding(v) /\ LogOf[v] \in Logs
    BY LogOfAssumption DEF OInv
  <2>2. CASE v = w
    BY <1>1, <1>5, <2>2 DEF Holding, TypeOK
  <2>3. CASE v # w
    <3>1. /\ pc'[v] = pc[v] /\ epoch'[v] = epoch[v] /\ change'[v] = change[v]
      BY <1>1, <1>5, <2>3 DEF TypeOK
    <3>2. ASSUME pc[v] \in {"applying", "recording"}
          PROVE  lock'[LogOf[v]] = v /\ logEpoch'[LogOf[v]] = logEpoch[LogOf[v]]
      <4>1. lock[LogOf[v]] = v
        BY <2>1, <3>2 DEF Holding
      <4>2. LogOf[v] # l
        BY <1>3, <2>3, <4>1
      <4> QED
        BY <1>1, <1>2, <1>4, <2>1, <4>1, <4>2 DEF TypeOK
    <3> QED
      BY <1>5, <2>1, <3>1, <3>2 DEF Holding
  <2> QED
    BY <2>2, <2>3
<1>7. InTree'
  <2> SUFFICES ASSUME NEW n \in tree' \ answered'
               PROVE  \E v \in Writers : pc'[v] \in {"recording", "waiting"} /\ change'[v] = n
    BY DEF InTree
  <2>1. n \in tree \ answered /\ n # change[w]
    BY <1>5
  <2>2. PICK v \in Writers : pc[v] \in {"recording", "waiting"} /\ change[v] = n
    BY <1>2, <2>1 DEF OInv, InTree
  <2>3. v # w
    BY <2>1, <2>2
  <2>4. pc'[v] = pc[v] /\ change'[v] = change[v]
    BY <1>1, <1>5, <2>3 DEF TypeOK
  <2> QED
    BY <2>2, <2>4
<1>8. phase' = "up"
  BY <1>2, <1>5
<1> QED
  BY <1>4, <1>6, <1>7, <1>8 DEF OInv

LEMMA LoggerPassOrders ==
  ASSUME IInv, OInv, NEW l \in Logs, LoggerPass(l)
  PROVE  /\ OInv'
         /\ \A m \in Logs : logEpoch[m] <= logEpoch'[m]
<1>1. /\ \A m \in Logs : EpochsInOrder(m)'
      /\ \A m \in Logs : logEpoch[m] <= logEpoch'[m]
      /\ \A m \in Logs \ {l} : logEpoch'[m] = logEpoch[m]
  BY TypesOfLogs, PassEpochs DEF IInv, OInv
<1>2. /\ phase = "up" /\ lock[l] = NoWriter
      /\ UNCHANGED <<globalLogEpoch, locks, writers, history, phase>>
  BY DEF LoggerPass, epochs, recovery
<1>3. ASSUME NEW w \in Writers PROVE Holding(w)'
  <2>1. Holding(w) /\ LogOf[w] \in Logs
    BY LogOfAssumption DEF OInv
  <2>2. pc[w] \in {"applying", "recording"} => LogOf[w] # l
    BY <1>2, <2>1, NoWriterAssumption DEF Holding
  <2> QED
    BY <1>1, <1>2, <2>1, <2>2 DEF Holding, locks, writers, history
<1>4. InTree'
  BY <1>2 DEF OInv, InTree, history, writers
<1> QED
  BY <1>1, <1>2, <1>3, <1>4 DEF OInv

LEMMA FlushOrders ==
  ASSUME IInv, OInv, NEW l \in Logs, Flush(l)
  PROVE  OInv'
<1>1. \A m \in Logs : EpochsInOrder(m)'
  BY TypesOfLogs, FlushEpochs DEF IInv, OInv
<1>2. /\ phase = "up"
      /\ UNCHANGED <<globalLogEpoch, logEpoch, locks, writers, history, phase>>
  BY DEF Flush, epochs, recovery
<1>3. \A w \in Writers : Holding(w)'
  BY <1>2 DEF OInv, Holding, locks, writers, history
<1>4. InTree'
  BY <1>2 DEF OInv, InTree, history, writers
<1> QED
  BY <1>1, <1>2, <1>3, <1>4 DEF OInv

LEMMA CrashOrders ==
  ASSUME Crash
  PROVE  OInv'
<1>1. /\ globalLogEpoch' = 1 /\ phase' = "replay"
      /\ \A l \in Logs : /\ logEpoch'[l] = 0 /\ flushedEpoch'[l] = 0 /\ quiescentEpoch'[l] = 0
                         /\ buf'[l] = <<>> /\ flushing'[l] = Nothing
      /\ \A w \in Writers : pc'[w] = "idle"
  BY DEF Crash, LoseMemory, Zeros, Idle
<1>2. ASSUME NEW l \in Logs PROVE EpochsInOrder(l)'
  <2>1. InFlight(l)' = {} /\ InBuffer(l)' = {}
    <3>1. (flushing'[l]).records = <<>> /\ buf'[l] = <<>>
      BY <1>1 DEF Nothing
    <3> QED
      BY <3>1, EmptyContents DEF InFlight, InBuffer
  <2> QED
    BY <1>1, <2>1 DEF EpochsInOrder
<1>3. \A w \in Writers : Holding(w)'
  BY <1>1 DEF Holding
<1> QED
  BY <1>1, <1>2, <1>3 DEF OInv, InTree

LEMMA ReplayOrders ==
  ASSUME IInv, OInv, NEW l \in Logs, Replay(l)
  PROVE  OInv'
<1>1. /\ phase = "replay"
      /\ UNCHANGED <<globalLogEpoch, loginfo, locks, writers, history, phase>>
  BY DEF Replay, epochs
<1>2. \A m \in Logs : EpochsInOrder(m)'
  BY <1>1 DEF OInv, EpochsInOrder, InFlight, InBuffer, loginfo, history
<1>3. \A w \in Writers : Holding(w)'
  BY <1>1 DEF OInv, Holding, loginfo, locks, writers, history
<1> QED
  BY <1>1, <1>2, <1>3 DEF OInv, InTree

LEMMA RestartOrders ==
  ASSUME IInv, OInv, Restart
  PROVE  OInv'
<1>1. TypeOK /\ Recovering
  BY DEF IInv
<1>2. /\ phase = "replay" /\ phase' = "up" /\ tree' = replayed /\ answered' = replayed
      /\ globalLogEpoch = 1 /\ globalLogEpoch' = replayMax + 1 /\ replayMax \in Nat
      /\ UNCHANGED <<loginfo, locks, writers, changes>>
  BY <1>1 DEF Restart, OInv, TypeOK
<1>3. UNCHANGED <<flushedEpoch, logEpoch, quiescentEpoch, flushing, buf>>
  BY <1>2 DEF loginfo
<1>4. globalLogEpoch \in Nat /\ globalLogEpoch' \in Nat /\ globalLogEpoch <= globalLogEpoch'
  BY <1>2
<1>5. \A l \in Logs : EpochsInOrder(l)'
  BY <1>1, <1>2, <1>3, <1>4, EpochsFrame DEF IInv, OInv, TypeOK
<1>6. \A w \in Writers : Holding(w)'
  BY <1>1, <1>2 DEF Recovering, Holding, writers
<1> QED
  BY <1>2, <1>5, <1>6 DEF OInv, InTree

LEMMA StutterOrders ==
  ASSUME OInv, UNCHANGED vars
  PROVE  OInv'
<1>1. UNCHANGED <<globalLogEpoch, loginfo, locks, writers, history, phase>>
  BY DEF vars, epochs, recovery
<1>2. \A m \in Logs : EpochsInOrder(m)'
  BY <1>1 DEF OInv, EpochsInOrder, InFlight, InBuffer, loginfo, history
<1>3. \A w \in Writers : Holding(w)'
  BY <1>1 DEF OInv, Holding, loginfo, locks, writers, history
<1>4. InTree'
  BY <1>1 DEF OInv, InTree, history, writers
<1> QED
  BY <1>1, <1>2, <1>3, <1>4 DEF OInv

\* A step, and what it does to the epochs of the logs.
LEMMA NextOrders ==
  ASSUME BufferFills = FALSE, IInv, OInv, [Next]_vars
  PROVE  /\ OInv'
         /\ crashes' = crashes => \A l \in Logs : logEpoch[l] <= logEpoch'[l]
<1>1. \A l \in Logs : logEpoch[l] \in Nat
  BY DEF IInv, TypeOK
<1>2. CASE CheckEpoch
  <2>1. logEpoch' = logEpoch
    BY <1>2 DEF CheckEpoch, loginfo
  <2> QED
    BY <1>1, <1>2, <2>1, CheckEpochOrders
<1>3. ASSUME NEW w \in Writers, ReadEpoch(w) \/ ChangeTree(w)
      PROVE  OInv' /\ \A l \in Logs : logEpoch[l] <= logEpoch'[l]
  <2>1. logEpoch' = logEpoch
    BY <1>3 DEF ReadEpoch, ChangeTree, loginfo
  <2> QED
    BY <1>1, <1>3, <2>1, ReadEpochOrders, ChangeTreeOrders
<1>4. ASSUME NEW w \in Writers, Stall(w) \/ Retry(w) PROVE FALSE
  BY <1>4 DEF Stall, Retry, OInv, Holding
<1>5. ASSUME NEW l \in Logs, Flush(l) PROVE OInv' /\ \A m \in Logs : logEpoch[m] <= logEpoch'[m]
  <2>1. logEpoch' = logEpoch
    BY <1>5 DEF Flush
  <2> QED
    BY <1>1, <1>5, <2>1, FlushOrders
<1>6. ASSUME NEW l \in Logs, Replay(l) PROVE OInv' /\ \A m \in Logs : logEpoch[m] <= logEpoch'[m]
  <2>1. logEpoch' = logEpoch
    BY <1>6 DEF Replay, loginfo
  <2> QED
    BY <1>1, <1>6, <2>1, ReplayOrders
<1>7. CASE Crash
  <2>1. crashes' = crashes + 1 /\ crashes \in Nat
    BY <1>7, BoundsAssumption DEF Crash, IInv, TypeOK
  <2> QED
    BY <1>7, <2>1, CrashOrders
<1>8. CASE Restart
  <2>1. logEpoch' = logEpoch
    BY <1>8 DEF Restart, loginfo
  <2> QED
    BY <1>1, <1>8, <2>1, RestartOrders
<1>9. CASE UNCHANGED vars
  <2>1. logEpoch' = logEpoch
    BY <1>9 DEF vars, loginfo
  <2> QED
    BY <1>1, <1>9, <2>1, StutterOrders
<1> QED
  BY <1>2, <1>3, <1>4, <1>5, <1>6, <1>7, <1>8, <1>9, RecordOrders, LoggerPassOrders DEF Next

LEMMA OrderInvariance ==
  ASSUME BufferFills = FALSE
  PROVE  Spec => [](IInv /\ OInv)
<1>1. Init => IInv /\ OInv
  BY InitKeeps, InitOrders
<1>2. IInv /\ OInv /\ [Next]_vars => (IInv /\ OInv)'
  BY NextKeeps, NextOrders
<1> QED
  BY <1>1, <1>2, PTL DEF Spec

\* What a log says is on disk is there, although flushed_epoch_ is set without
\* the lock from an epoch saved before the write, and record() raises it for a
\* quiescent log while another write may be under way.
THEOREM FlushedStaysDurable ==
  ASSUME BufferFills = FALSE
  PROVE  Spec => []LoggedIsDurable
<1>1. ASSUME IInv, OInv PROVE LoggedIsDurable
  <2>1. ASSUME phase = "up", NEW l \in Logs, NEW n \in Made(l)
        PROVE  \/ n \in OnDisk(l) \cup InFlight(l) \cup InBuffer(l)
               \/ \E w \in Writers : /\ pc[w] = "recording" /\ change[w] = n /\ LogOf[w] = l
                                     /\ changes[n].epoch = epoch[w]
    <3>1. n \in tree /\ changes[n].log = l
      BY DEF Made
    <3>2. CASE n \in answered
      BY <1>1, <2>1, <3>1, <3>2 DEF IInv, Contents, Answered
    <3>3. CASE n \notin answered
      <4>1. PICK w \in Writers : pc[w] \in {"recording", "waiting"} /\ change[w] = n
        BY <1>1, <2>1, <3>1, <3>3 DEF OInv, InTree
      <4>2. pc[w] = "recording"
        BY <1>1, <4>1 DEF OInv, Holding, IInv, TypeOK
      <4> QED
        BY <1>1, <3>1, <4>1, <4>2 DEF OInv, Holding, IInv, Recording
    <3> QED
      BY <3>2, <3>3
  <2>2. \A l \in Logs : logEpoch[l] \in Nat /\ flushedEpoch[l] \in Nat
    BY <1>1 DEF IInv, TypeOK
  <2>3. FlushedIsDurable
    <3> SUFFICES ASSUME phase = "up", NEW l \in Logs, NEW n \in Made(l),
                        changes[n].epoch < flushedEpoch[l], n \notin OnDisk(l)
                 PROVE  FALSE
      BY DEF FlushedIsDurable
    <3>1. EpochsInOrder(l) /\ changes[n].epoch \in Nat
      <4>1. changes \in Seq([log : Logs, epoch : Nat, made : Nat]) /\ n \in 1..Len(changes)
        BY <1>1 DEF IInv, TypeOK, Made
      <4>2. changes[n] \in [log : Logs, epoch : Nat, made : Nat]
        BY <4>1, ElementOfSeq
      <4> QED
        BY <1>1, <4>2 DEF OInv
    <3>2. n \notin InFlight(l) /\ n \notin InBuffer(l)
      BY <2>2, <3>1 DEF EpochsInOrder
    <3>3. PICK w \in Writers : /\ pc[w] = "recording" /\ LogOf[w] = l
                               /\ changes[n].epoch = epoch[w]
      BY <2>1, <3>2
    <3>4. logEpoch[l] <= epoch[w] /\ flushedEpoch[l] <= logEpoch[l]
      BY <1>1, <3>1, <3>3 DEF OInv, Holding, EpochsInOrder
    <3> QED
      BY <2>2, <3>1, <3>3, <3>4
  <2>4. QuiescentIsDurable
    <3> SUFFICES ASSUME phase = "up", NEW l \in Logs,
                        quiescentEpoch[l] # 0, quiescentEpoch[l] = flushedEpoch[l]
                 PROVE  /\ buf[l] = <<>>
                        /\ Made(l) \subseteq OnDisk(l) \cup {change[w] : w \in Writers}
      BY DEF QuiescentIsDurable
    <3>1. EpochsInOrder(l)
      BY <1>1 DEF OInv
    <3>2. buf[l] = <<>> /\ InFlight(l) = {} /\ InBuffer(l) = {}
      BY <3>1, EmptyContents DEF EpochsInOrder, InBuffer
    <3> QED
      BY <2>1, <3>2
  <2> QED
    BY <1>1, <2>3, <2>4 DEF LoggedIsDurable, IInv
<1> QED
  BY <1>1, OrderInvariance, PTL

\* "Log epochs should be recorded in monotonically increasing order": the epoch
\* read under the lock that record() releases is not behind that of the log.
THEOREM EpochsNeverGoBack ==
  ASSUME BufferFills = FALSE
  PROVE  Spec => LogEpochsIncrease
<1>1. IInv /\ OInv /\ [Next]_vars =>
        [crashes' = crashes => \A l \in Logs : logEpoch[l] <= logEpoch'[l]]_vars
  BY NextOrders
<1> QED
  BY <1>1, OrderInvariance, PTL DEF Spec, LogEpochsIncrease

-----------------------------------------------------------------------------
(* The epoch that holds at a place of a log.                               *)

\* j is the last epoch record of s up to place i.
HoldsAt(s, i, j) ==
  j \in Places(s, "epoch") /\ j <= i /\ \A k \in Places(s, "epoch") : k <= i => k <= j

LEMMA EpochAtIs ==
  ASSUME NEW s \in Seq(Records), NEW i \in Nat
  PROVE  \/ EpochAt(s, i) = 0 /\ \A k \in Places(s, "epoch") : k > i
         \/ \E j \in Nat : HoldsAt(s, i, j) /\ EpochAt(s, i) = s[j].epoch
<1> DEFINE before == {j \in Places(s, "epoch") : j <= i}
<1>1. Places(s, "epoch") \subseteq 1..Len(s) /\ Len(s) \in Nat
  BY PlacesOf
<1>2. CASE before = {}
  <2>1. EpochAt(s, i) = 0
    BY <1>2 DEF EpochAt
  <2>2. \A k \in Places(s, "epoch") : k > i
    BY <1>1, <1>2
  <2> QED
    BY <2>1, <2>2
<1>3. CASE before # {}
  <2>1. before \in SUBSET Nat /\ \A y \in before : y <= i
    BY <1>1
  <2>2. Max(before) \in before /\ \A y \in before : y <= Max(before)
    <3> HIDE DEF before
    <3> QED
      BY <1>3, <2>1, GreatestOf
  <2>3. HoldsAt(s, i, Max(before)) /\ Max(before) \in Nat
    BY <2>1, <2>2 DEF HoldsAt
  <2>4. EpochAt(s, i) = s[Max(before)].epoch
    BY <1>3 DEF EpochAt
  <2> QED
    BY <2>3, <2>4
<1> QED
  BY <1>2, <1>3

LEMMA HoldsAtIs ==
  ASSUME NEW s \in Seq(Records), NEW i \in Nat, NEW j, HoldsAt(s, i, j)
  PROVE  EpochAt(s, i) = s[j].epoch
<1>1. Places(s, "epoch") \subseteq 1..Len(s) /\ Len(s) \in Nat
  BY PlacesOf
<1>2. j \in Places(s, "epoch") /\ j <= i
  BY DEF HoldsAt
<1>3. PICK k \in Nat : HoldsAt(s, i, k) /\ EpochAt(s, i) = s[k].epoch
  <2>1. ~ (j > i)
    BY <1>1, <1>2
  <2> QED
    BY <1>2, <2>1, EpochAtIs
<1>4. k = j
  BY <1>1, <1>2, <1>3 DEF HoldsAt
<1> QED
  BY <1>3, <1>4

\* The epoch before the first record of one.
LEMMA NoEpochYet ==
  ASSUME NEW s \in Seq(Records), NEW i \in Nat, \A k \in Places(s, "epoch") : k > i
  PROVE  EpochAt(s, i) = 0
<1>1. Places(s, "epoch") \subseteq 1..Len(s) /\ Len(s) \in Nat
  BY PlacesOf
<1>2. ASSUME NEW j \in Nat, HoldsAt(s, i, j) PROVE FALSE
  BY <1>1, <1>2 DEF HoldsAt
<1> QED
  BY <1>2, EpochAtIs

LEMMA BeginningPlaces ==
  ASSUME NEW s \in Seq(Records), NEW t \in Seq(Records), Begins(s, t), NEW cmd
  PROVE  /\ \A i \in Places(s, cmd) : i \in Places(t, cmd) /\ s[i] = t[i]
         /\ \A i \in Places(t, cmd) : i <= Len(s) => i \in Places(s, cmd)
<1>1. /\ Len(s) \in Nat /\ Len(t) \in Nat
      /\ DOMAIN s = 1..Len(s) /\ DOMAIN t = 1..Len(t)
  BY LenProperties
<1> QED
  BY <1>1 DEF Places, Begins

LEMMA BeginningEpochs ==
  ASSUME NEW s \in Seq(Records), NEW t \in Seq(Records), Begins(s, t),
         NEW i \in 0..Len(s)
  PROVE  EpochAt(s, i) = EpochAt(t, i)
<1>1. Places(s, "epoch") \subseteq 1..Len(s) /\ Len(s) \in Nat /\ i \in Nat
      /\ Places(t, "epoch") \subseteq 1..Len(t) /\ Len(t) \in Nat
  BY PlacesOf
<1>2. /\ \A k \in Places(s, "epoch") : k \in Places(t, "epoch") /\ s[k] = t[k]
      /\ \A k \in Places(t, "epoch") : k <= Len(s) => k \in Places(s, "epoch")
  BY BeginningPlaces
<1>3. CASE EpochAt(s, i) = 0 /\ \A k \in Places(s, "epoch") : k > i
  <2>1. \A k \in Places(t, "epoch") : k > i
    BY <1>1, <1>2, <1>3
  <2> QED
    BY <1>1, <1>3, <2>1, NoEpochYet
<1>4. ASSUME NEW j \in Nat, HoldsAt(s, i, j), EpochAt(s, i) = s[j].epoch
      PROVE  EpochAt(s, i) = EpochAt(t, i)
  <2>1. HoldsAt(t, i, j) /\ t[j] = s[j]
    BY <1>1, <1>2, <1>4 DEF HoldsAt
  <2> QED
    BY <1>1, <1>4, <2>1, HoldsAtIs
<1> QED
  BY <1>1, <1>3, <1>4, EpochAtIs

\* The epochs of a log do not go back.
Rising(s) == \A i, j \in Places(s, "epoch") : i < j => s[i].epoch <= s[j].epoch

LEMMA RisingEpochs ==
  ASSUME NEW s \in Seq(Records), Rising(s), NEW i \in Nat, NEW k \in Nat, i <= k
  PROVE  EpochAt(s, i) <= EpochAt(s, k)
<1>1. Places(s, "epoch") \subseteq 1..Len(s) /\ Len(s) \in Nat
  BY PlacesOf
<1>2. EpochAt(s, i) \in Nat /\ EpochAt(s, k) \in Nat
  BY EpochAtType
<1>3. CASE EpochAt(s, i) = 0
  BY <1>2, <1>3
<1>4. ASSUME NEW j \in Nat, HoldsAt(s, i, j), EpochAt(s, i) = s[j].epoch
      PROVE  EpochAt(s, i) <= EpochAt(s, k)
  <2>1. j \in Places(s, "epoch") /\ j <= i
    BY <1>4 DEF HoldsAt
  <2>2. PICK m \in Nat : HoldsAt(s, k, m) /\ EpochAt(s, k) = s[m].epoch
    <3>1. ~ (j > k)
      BY <2>1
    <3> QED
      BY <2>1, <3>1, EpochAtIs
  <2>3. m \in Places(s, "epoch") /\ j <= m
    BY <2>1, <2>2 DEF HoldsAt
  <2>4. CASE j = m
    BY <1>2, <1>4, <2>2, <2>4
  <2>5. CASE j # m
    <3>1. j < m
      BY <2>3, <2>5
    <3> QED
      BY <1>4, <2>1, <2>2, <2>3, <3>1 DEF Rising
  <2> QED
    BY <2>4, <2>5
<1> QED
  BY <1>3, <1>4, EpochAtIs

\* A log starts with an epoch, and 0 is none.
Leading(s) ==
  (s # <<>> => s[1].cmd = "epoch") /\ \A i \in Places(s, "epoch") : s[i].epoch > 0

\* A log tells the epochs of the changes ch that it has.
Truthful(s, ch) ==
  \A i \in Places(s, "change") :
    s[i].change \in 1..Len(ch) /\ EpochAt(s, i) = ch[s[i].change].epoch

Sound(s, ch) == Truthful(s, ch) /\ Rising(s) /\ Leading(s)

LEMMA EmptySound == ASSUME NEW ch PROVE Sound(<<>>, ch) /\ LastEpoch(<<>>) = 0
<1> DEFINE s == <<>>
<1>1. s \in Seq(Records) /\ Len(s) = 0 /\ \A cmd : Places(s, cmd) = {}
  BY EmptySeq DEF Places
<1>2. Sound(s, ch)
  BY <1>1 DEF Sound, Truthful, Rising, Leading
<1>3. LastEpoch(s) = 0
  <2> HIDE DEF s
  <2>1. 0 \in Nat /\ \A k \in Places(s, "epoch") : k > 0
    BY <1>1
  <2>2. EpochAt(s, 0) = 0
    BY <1>1, <2>1, NoEpochYet
  <2> QED
    BY <1>1, <2>2 DEF LastEpoch
<1> QED
  BY <1>2, <1>3

LEMMA BeginningSound ==
  ASSUME NEW ch, NEW s \in Seq(Records), NEW t \in Seq(Records), Begins(s, t), Sound(t, ch)
  PROVE  Sound(s, ch)
<1>1. /\ Len(s) \in Nat /\ Len(t) \in Nat
      /\ \A cmd : Places(s, cmd) \subseteq 1..Len(s)
  BY PlacesOf
<1>2. \A cmd : \A i \in Places(s, cmd) : i \in Places(t, cmd) /\ s[i] = t[i]
  BY BeginningPlaces
<1>3. Truthful(s, ch)
  <2>1. \A i \in Places(s, "change") : EpochAt(s, i) = EpochAt(t, i)
    <3>1. 1..Len(s) \subseteq 0..Len(s)
      BY <1>1
    <3> QED
      BY <1>1, <3>1, BeginningEpochs
  <2> QED
    BY <1>2, <2>1 DEF Truthful, Sound
<1>4. Rising(s)
  BY <1>2 DEF Rising, Sound
<1>5. Leading(s)
  <2>1. s # <<>> => 1 \in 1..Len(s) /\ t # <<>>
    <3>1. s # <<>> => Len(s) # 0 /\ Len(t) # 0
      BY <1>1, EmptySeq DEF Begins
    <3> QED
      BY <1>1, <3>1
  <2> QED
    BY <1>2, <2>1 DEF Leading, Sound, Begins
<1> QED
  BY <1>3, <1>4, <1>5 DEF Sound

\* A log that has records has an epoch.
LEMMA LeadingEpoch ==
  ASSUME NEW s \in Seq(Records), Leading(s), NEW i \in 1..Len(s)
  PROVE  /\ EpochAt(s, i) > 0
         /\ \E j \in Nat : HoldsAt(s, i, j) /\ EpochAt(s, i) = s[j].epoch
<1>1. Len(s) \in Nat /\ DOMAIN s = 1..Len(s) /\ Len(s) # 0 /\ i \in Nat
  BY LenProperties
<1>2. s # <<>>
  BY <1>1
<1>3. 1 \in Places(s, "epoch") /\ ~ (1 > i)
  BY <1>1, <1>2 DEF Places, Leading
<1>4. PICK j \in Nat : HoldsAt(s, i, j) /\ EpochAt(s, i) = s[j].epoch
  BY <1>1, <1>3, EpochAtIs
<1>5. s[j].epoch > 0
  BY <1>4 DEF HoldsAt, Leading
<1> QED
  BY <1>4, <1>5

LEMMA Extended ==
  ASSUME NEW s \in Seq(Records), NEW r \in Records
  PROVE  /\ s \o <<r>> \in Seq(Records) /\ Len(s \o <<r>>) = Len(s) + 1 /\ Len(s) \in Nat
         /\ \A i \in 1..Len(s) : (s \o <<r>>)[i] = s[i]
         /\ (s \o <<r>>)[Len(s) + 1] = r
<1> DEFINE t == s \o <<r>>
           n == Len(s)
<1>1. <<r>> \in Seq(Records) /\ Len(<<r>>) = 1 /\ <<r>>[1] = r
  OBVIOUS
<1>2. /\ s \o <<r>> \in Seq(Records)
      /\ Len(s \o <<r>>) = Len(s) + Len(<<r>>)
      /\ \A i \in 1..Len(s) + Len(<<r>>) :
           (s \o <<r>>)[i] = IF i <= Len(s) THEN s[i] ELSE <<r>>[i - Len(s)]
  BY <1>1, ConcatProperties
<1>3. n \in Nat
  BY LenProperties
<1> HIDE DEF t
<1>4. t \in Seq(Records) /\ Len(t) = n + 1
  BY <1>1, <1>2 DEF t
<1>5. \A i \in 1..n : t[i] = s[i]
  BY <1>1, <1>2, <1>3 DEF t
<1>6. t[n + 1] = <<r>>[(n + 1) - n]
  BY <1>1, <1>2, <1>3 DEF t
<1> QED
  BY <1>1, <1>3, <1>4, <1>5, <1>6 DEF t

\* One more record at the end of a log: a change belongs to the present epoch.
LEMMA ExtendedTruthful ==
  ASSUME NEW ch, NEW s \in Seq(Records), NEW r \in Records, Truthful(s, ch),
         r.cmd = "change" => r.change \in 1..Len(ch) /\ ch[r.change].epoch = LastEpoch(s)
  PROVE  /\ s \o <<r>> \in Seq(Records) /\ s \o <<r>> # <<>>
         /\ Truthful(s \o <<r>>, ch)
         /\ LastEpoch(s \o <<r>>) = IF r.cmd = "epoch" THEN r.epoch ELSE LastEpoch(s)
<1> DEFINE t == s \o <<r>>
           n == Len(s)
<1>1. /\ t \in Seq(Records) /\ Len(t) = n + 1 /\ n \in Nat
      /\ \A i \in 1..n : t[i] = s[i]
      /\ t[n + 1] = r
  BY Extended
<1> HIDE DEF t
<1>2. Begins(s, t)
  BY <1>1 DEF Begins
<1>3. \A cmd : Places(t, cmd) = Places(s, cmd) \cup (IF r.cmd = cmd THEN {n + 1} ELSE {})
  BY <1>1, LenProperties DEF Places
<1>4. /\ \A cmd : Places(s, cmd) \subseteq 1..n
      /\ \A i \in 1..n : i < n + 1 /\ i <= n /\ i \in 0..n
      /\ n \in 0..n /\ n + 1 \in Nat
  BY <1>1, PlacesOf
<1>5. \A i \in 0..n : EpochAt(t, i) = EpochAt(s, i)
  BY <1>1, <1>2, BeginningEpochs
<1>6. EpochAt(t, n + 1) = IF r.cmd = "epoch" THEN r.epoch ELSE LastEpoch(s)
  <2>1. CASE r.cmd = "epoch"
    <3>1. HoldsAt(t, n + 1, n + 1)
      BY <1>3, <1>4, <2>1 DEF HoldsAt
    <3> QED
      BY <1>1, <1>4, <2>1, <3>1, HoldsAtIs
  <2>2. CASE r.cmd # "epoch"
    <3>1. Places(t, "epoch") = Places(s, "epoch") /\ n \in Nat
      BY <1>1, <1>3, <2>2
    <3>2. LastEpoch(s) = EpochAt(t, n)
      BY <1>4, <1>5 DEF LastEpoch
    <3>3. CASE EpochAt(t, n) = 0 /\ \A k \in Places(t, "epoch") : k > n
      <4>1. \A k \in Places(t, "epoch") : FALSE
        BY <1>1, <1>4, <3>1, <3>3
      <4>2. EpochAt(t, n + 1) = 0
        BY <1>1, <1>4, <4>1, NoEpochYet
      <4> QED
        BY <2>2, <3>2, <3>3, <4>2
    <3>4. ASSUME NEW j \in Nat, HoldsAt(t, n, j), EpochAt(t, n) = t[j].epoch
          PROVE  EpochAt(t, n + 1) = LastEpoch(s)
      <4>1. HoldsAt(t, n + 1, j)
        BY <1>4, <3>1, <3>4 DEF HoldsAt
      <4> QED
        BY <1>1, <1>4, <3>2, <3>4, <4>1, HoldsAtIs
    <3> QED
      BY <1>1, <2>2, <3>1, <3>3, <3>4, EpochAtIs
  <2> QED
    BY <2>1, <2>2
<1>7. Truthful(t, ch)
  <2> SUFFICES ASSUME NEW i \in Places(t, "change")
               PROVE  t[i].change \in 1..Len(ch) /\ EpochAt(t, i) = ch[t[i].change].epoch
    BY DEF Truthful
  <2>1. CASE i \in Places(s, "change")
    <3>1. i \in 1..n /\ t[i] = s[i] /\ EpochAt(t, i) = EpochAt(s, i)
      BY <1>1, <1>4, <1>5, <2>1
    <3> QED
      BY <2>1, <3>1 DEF Truthful
  <2>2. CASE i = n + 1 /\ r.cmd = "change"
    BY <1>1, <1>6, <2>2
  <2> QED
    BY <1>3, <2>1, <2>2
<1>8. t # <<>>
  BY <1>1
<1>9. LastEpoch(t) = IF r.cmd = "epoch" THEN r.epoch ELSE LastEpoch(s)
  BY <1>1, <1>6 DEF LastEpoch
<1> QED
  BY <1>1, <1>7, <1>8, <1>9 DEF t

\* r goes on where s ends: its epoch is not behind, and s is not empty unless r is
\* an epoch.
Follows(s, r, ch) ==
  /\ r.cmd = "epoch" => r.epoch > 0 /\ LastEpoch(s) <= r.epoch
  /\ r.cmd # "epoch" => s # <<>>
  /\ r.cmd = "change" => r.change \in 1..Len(ch) /\ ch[r.change].epoch = LastEpoch(s)

LEMMA ExtendedSound ==
  ASSUME NEW ch, NEW s \in Seq(Records), NEW r \in Records, Sound(s, ch), Follows(s, r, ch)
  PROVE  /\ s \o <<r>> \in Seq(Records) /\ s \o <<r>> # <<>>
         /\ Sound(s \o <<r>>, ch)
         /\ LastEpoch(s \o <<r>>) = IF r.cmd = "epoch" THEN r.epoch ELSE LastEpoch(s)
<1> DEFINE t == s \o <<r>>
           n == Len(s)
<1>1. /\ t \in Seq(Records) /\ Len(t) = n + 1 /\ n \in Nat
      /\ \A i \in 1..n : t[i] = s[i]
      /\ t[n + 1] = r
  BY Extended
<1>2. /\ t # <<>> /\ Truthful(t, ch)
      /\ LastEpoch(t) = IF r.cmd = "epoch" THEN r.epoch ELSE LastEpoch(s)
  BY ExtendedTruthful DEF Sound, Follows
<1> HIDE DEF t
<1>3. \A cmd : Places(t, cmd) = Places(s, cmd) \cup (IF r.cmd = cmd THEN {n + 1} ELSE {})
  BY <1>1, LenProperties DEF Places
<1>4. /\ \A cmd : Places(s, cmd) \subseteq 1..n
      /\ \A i \in 1..n : i < n + 1 /\ i <= n /\ i \in 0..n
      /\ n \in 0..n /\ n + 1 \in Nat
  BY <1>1, PlacesOf
<1>8. \A i \in Places(s, "epoch") : s[i].epoch <= LastEpoch(s) /\ s[i].epoch \in Nat
  <2> SUFFICES ASSUME NEW i \in Places(s, "epoch")
               PROVE  s[i].epoch <= LastEpoch(s) /\ s[i].epoch \in Nat
    OBVIOUS
  <2>1. i \in 1..n /\ i \in Nat /\ i <= n
    BY <1>4
  <2>2. HoldsAt(s, i, i)
    BY <2>1 DEF HoldsAt
  <2>3. EpochAt(s, i) = s[i].epoch
    BY <2>1, <2>2, HoldsAtIs
  <2>4. EpochAt(s, i) <= EpochAt(s, n)
    BY <1>1, <2>1, RisingEpochs DEF Sound
  <2> QED
    BY <2>1, <2>3, <2>4, EpochAtType DEF LastEpoch
<1>9. Rising(t)
  <2> SUFFICES ASSUME NEW i \in Places(t, "epoch"), NEW j \in Places(t, "epoch"), i < j
               PROVE  t[i].epoch <= t[j].epoch
    BY DEF Rising
  <2>1. CASE i \in Places(s, "epoch") /\ j \in Places(s, "epoch")
    BY <1>1, <1>4, <2>1 DEF Sound, Rising
  <2>2. CASE i \in Places(s, "epoch") /\ j = n + 1 /\ r.cmd = "epoch"
    <3>1. s[i].epoch <= LastEpoch(s) /\ s[i].epoch \in Nat /\ t[i] = s[i]
      BY <1>1, <1>4, <1>8, <2>2
    <3>2. LastEpoch(s) <= r.epoch /\ LastEpoch(s) \in Nat /\ r.epoch \in Nat
      BY <2>2, LastEpochType, RecordForm DEF Follows
    <3> QED
      BY <1>1, <2>2, <3>1, <3>2
  <2>3. CASE i = n + 1
    <3>1. j \in 1..(n + 1)
      BY <1>1, PlacesOf
    <3> QED
      BY <1>1, <2>3, <3>1
  <2> QED
    BY <1>3, <2>1, <2>2, <2>3
<1>10. Leading(t)
  <2>1. \A i \in Places(t, "epoch") : t[i].epoch > 0
    <3> SUFFICES ASSUME NEW i \in Places(t, "epoch") PROVE t[i].epoch > 0
      OBVIOUS
    <3>1. CASE i \in Places(s, "epoch")
      BY <1>1, <1>4, <3>1 DEF Sound, Leading
    <3>2. CASE i = n + 1 /\ r.cmd = "epoch"
      BY <1>1, <3>2 DEF Follows
    <3> QED
      BY <1>3, <3>1, <3>2
  <2>2. t[1].cmd = "epoch"
    <3>1. CASE s = <<>>
      <4>1. n = 0 /\ t[1] = r
        BY <1>1, <3>1
      <4> QED
        BY <3>1, <4>1 DEF Follows
    <3>2. CASE s # <<>>
      <4>1. n # 0
        BY <3>2, EmptySeq
      <4>2. 1 \in 1..n
        BY <1>1, <4>1
      <4> QED
        BY <1>1, <3>2, <4>2 DEF Sound, Leading
    <3> QED
      BY <3>1, <3>2
  <2> QED
    BY <2>1, <2>2 DEF Leading
<1> QED
  BY <1>1, <1>2, <1>9, <1>10 DEF Sound, t

\* A beginning of a log has no change that was made after its last epoch.
LEMMA AfterBeginning ==
  ASSUME NEW ch, NEW s \in Seq(Records), NEW t \in Seq(Records), Begins(s, t), Sound(t, ch),
         NEW n \in ChangesIn(t) \ ChangesIn(s)
  PROVE  LastEpoch(s) <= ch[n].epoch
<1>1. PICK i \in Places(t, "change") : n = t[i].change
  BY DEF ChangesIn
<1>2. i \in 1..Len(t) /\ Len(t) \in Nat /\ Len(s) \in Nat /\ i \in Nat
  BY PlacesOf
<1>3. Len(s) <= i
  <2>1. CASE i <= Len(s)
    <3>1. i \in Places(s, "change")
      BY <2>1, BeginningPlaces
    <3>2. s[i] = t[i]
      BY <3>1, BeginningPlaces
    <3> QED
      BY <1>1, <3>1, <3>2 DEF ChangesIn
  <2> QED
    BY <1>2, <2>1
<1>4. EpochAt(t, Len(s)) <= EpochAt(t, i)
  BY <1>2, <1>3, RisingEpochs DEF Sound
<1>5. EpochAt(t, i) = ch[n].epoch
  BY <1>1 DEF Sound, Truthful
<1>6. EpochAt(t, Len(s)) = LastEpoch(s)
  <2>1. Len(s) \in 0..Len(s)
    BY <1>2
  <2> QED
    BY <2>1, BeginningEpochs DEF LastEpoch
<1> QED
  BY <1>4, <1>5, <1>6

\* A log as recovery truncates it: it has no change at or beyond the limit, and
\* if it is shorter, then what it lost is beyond it and it ends with an epoch.
LEMMA KeptSound ==
  ASSUME NEW ch, NEW s \in Seq(Records), Sound(s, ch), NEW max \in Nat
  PROVE  /\ Kept(s, max) \in Seq(Records)
         /\ Begins(Kept(s, max), s)
         /\ \A n \in ChangesIn(Kept(s, max)) : ch[n].epoch < max
         /\ \/ Kept(s, max) = s
            \/ /\ Kept(s, max) # <<>> /\ ~ EndsQuiescent(Kept(s, max))
               /\ max <= LastEpoch(Kept(s, max))
<1> DEFINE beyond == {i \in Places(s, "epoch") : s[i].epoch >= max}
           p == Kept(s, max)
<1>1. /\ beyond \in SUBSET Nat /\ beyond \subseteq 1..Len(s) /\ Len(s) \in Nat
      /\ \A i \in Places(s, "epoch") : s[i].epoch \in Nat
      /\ Places(s, "epoch") \subseteq 1..Len(s)
  BY PlacesOf, RecordForm
<1>2. CASE beyond = {}
  <2>1. p = s
    BY <1>2 DEF Kept
  <2>2. ASSUME NEW n \in ChangesIn(s) PROVE ch[n].epoch < max
    <3>1. PICK i \in Places(s, "change") : n = s[i].change
      BY DEF ChangesIn
    <3>2. i \in 1..Len(s)
      BY PlacesOf
    <3>3. PICK j \in Nat : HoldsAt(s, i, j) /\ EpochAt(s, i) = s[j].epoch
      BY <3>2, LeadingEpoch DEF Sound
    <3>4. j \in Places(s, "epoch") /\ j \notin beyond
      BY <1>2, <3>3 DEF HoldsAt
    <3>5. s[j].epoch < max
      BY <1>1, <3>4
    <3>6. EpochAt(s, i) = ch[n].epoch
      BY <3>1 DEF Sound, Truthful
    <3> QED
      BY <3>3, <3>5, <3>6
  <2>3. Begins(s, s)
    BY <1>1 DEF Begins
  <2> HIDE DEF p
  <2>4. p \in Seq(Records) /\ Begins(p, s) /\ \A n \in ChangesIn(p) : ch[n].epoch < max
    BY <2>1, <2>2, <2>3
  <2> QED
    BY <2>1, <2>4 DEF p
<1>3. CASE beyond # {}
  <2>1. PICK k \in beyond : k = Min(beyond) /\ \A y \in beyond : k <= y
    <3> HIDE DEF beyond
    <3> QED
      BY <1>1, <1>3, LeastOf
  <2>2. k \in 1..Len(s) /\ k \in Places(s, "epoch") /\ s[k].epoch >= max /\ s[k].cmd = "epoch"
    BY <2>1, PlacesOf
  <2>3. p = SubSeq(s, 1, k)
    BY <1>3, <2>1 DEF Kept
  <2>4. p \in Seq(Records) /\ Len(p) = k /\ \A i \in 1..k : p[i] = s[i]
    <3>1. /\ \A i \in 1..k : s[i] \in Records
          /\ k \in Int /\ 1 <= k /\ k - 1 + 1 = k /\ \A i \in 1..k : 1 + i - 1 = i
      BY <1>1, <2>2, ElementOfSeq
    <3>2. /\ SubSeq(s, 1, k) \in Seq(Records)
          /\ Len(SubSeq(s, 1, k)) = IF 1 <= k THEN k - 1 + 1 ELSE 0
          /\ \A i \in 1..(k - 1 + 1) : SubSeq(s, 1, k)[i] = s[1 + i - 1]
      BY <3>1, SubSeqProperties
    <3> HIDE DEF p
    <3> QED
      BY <2>3, <3>1, <3>2
  <2> HIDE DEF p
  <2>5. Begins(p, s)
    BY <1>1, <2>2, <2>4 DEF Begins
  <2>6. Sound(p, ch)
    BY <2>4, <2>5, BeginningSound
  <2>7. k \in Places(p, "epoch") /\ p[k] = s[k] /\ k \in 1..Len(p) /\ k = Len(p)
    BY <1>1, <2>2, <2>4, LenProperties DEF Places
  <2>8. LastEpoch(p) = s[k].epoch
    <3>1. HoldsAt(p, k, k) /\ k \in Nat
      BY <1>1, <2>2, <2>7 DEF HoldsAt
    <3> QED
      BY <2>4, <2>7, <3>1, HoldsAtIs DEF LastEpoch
  <2>9. p # <<>> /\ ~ EndsQuiescent(p)
    BY <2>2, <2>7 DEF EndsQuiescent, Last
  <2>10. ASSUME NEW n \in ChangesIn(p) PROVE ch[n].epoch < max
    <3>1. PICK i \in Places(p, "change") : n = p[i].change
      BY DEF ChangesIn
    <3>2. i \in 1..Len(p) /\ p[i].cmd = "change"
      BY <2>4, PlacesOf
    <3>3. PICK j \in Nat : HoldsAt(p, i, j) /\ EpochAt(p, i) = p[j].epoch
      BY <2>4, <2>6, <3>2, LeadingEpoch DEF Sound
    <3>4. i # k
      BY <2>2, <2>7, <3>2
    <3>5. j \in Places(p, "epoch") /\ j <= i /\ j \in 1..k
      BY <2>4, <3>3, PlacesOf DEF HoldsAt
    <3>6. j < k
      BY <1>1, <2>2, <2>4, <3>2, <3>4, <3>5
    <3>7. j \in Places(s, "epoch") /\ p[j] = s[j]
      BY <2>4, <2>5, <3>5, BeginningPlaces
    <3>8. j \notin beyond
      BY <1>1, <2>1, <2>2, <3>5, <3>6
    <3>9. s[j].epoch < max
      BY <1>1, <3>7, <3>8
    <3>10. EpochAt(p, i) = ch[n].epoch
      BY <2>6, <3>1 DEF Sound, Truthful
    <3> QED
      BY <3>3, <3>7, <3>9, <3>10
  <2>11. max <= LastEpoch(p)
    BY <1>1, <2>2, <2>8
  <2> QED
    BY <2>4, <2>5, <2>9, <2>10, <2>11 DEF p
<1> QED
  BY <1>2, <1>3

-----------------------------------------------------------------------------
(* What the steps do to a log as a whole: its file, what is being written   *)
(* and its buffer.                                                         *)

Whole(l) == disk[l] \o flushing[l].records \o buf[l]

LEMMA WholeType ==
  ASSUME LogsOK, NEW l \in Logs
  PROVE  /\ disk[l] \in Seq(Records) /\ flushing[l].records \in Seq(Records)
         /\ buf[l] \in Seq(Records)
         /\ disk[l] \o flushing[l].records \in Seq(Records)
         /\ Whole(l) \in Seq(Records)
         /\ ChangesIn(Whole(l)) = OnDisk(l) \cup InFlight(l) \cup InBuffer(l)
<1> DEFINE q == disk[l] \o flushing[l].records
<1>1. /\ disk[l] \in Seq(Records) /\ flushing[l].records \in Seq(Records)
      /\ buf[l] \in Seq(Records)
  BY DEF LogsOK
<1>2. q \in Seq(Records) /\ ChangesIn(q) = OnDisk(l) \cup InFlight(l)
  BY <1>1, ConcatContents DEF OnDisk, InFlight
<1> HIDE DEF q
<1>3. q \o buf[l] \in Seq(Records) /\ ChangesIn(q \o buf[l]) = ChangesIn(q) \cup InBuffer(l)
  BY <1>1, <1>2, ConcatContents DEF InBuffer
<1> QED
  BY <1>1, <1>2, <1>3 DEF Whole, q

Joined(s, t) == s \o t

LEMMA Associative ==
  \A s, t, u \in Seq(Records) :
    Joined(s, t) \in Seq(Records) /\ Joined(s, Joined(t, u)) = Joined(Joined(s, t), u)
<1> SUFFICES ASSUME NEW s \in Seq(Records), NEW t \in Seq(Records), NEW u \in Seq(Records)
             PROVE  s \o t \in Seq(Records) /\ s \o (t \o u) = (s \o t) \o u
  BY DEF Joined
<1>1. s \o (t \o u) = (s \o t) \o u
  BY ConcatAssociative
<1> QED
  BY <1>1, ConcatProperties

LEMMA AssociativeInFour ==
  ASSUME NEW q \in Seq(Records), NEW u \in Seq(Records),
         NEW a \in Seq(Records), NEW b \in Seq(Records), NEW c \in Seq(Records)
  PROVE  Joined(q, Joined(Joined(Joined(u, a), b), c)) = Joined(Joined(Joined(Joined(q, u), a), b), c)
<1>1. Joined(u, a) \in Seq(Records) /\ Joined(Joined(u, a), b) \in Seq(Records)
  BY Associative
<1>2. Joined(q, Joined(Joined(Joined(u, a), b), c)) = Joined(Joined(q, Joined(Joined(u, a), b)), c)
  BY <1>1, Associative
<1>3. Joined(q, Joined(Joined(u, a), b)) = Joined(Joined(q, Joined(u, a)), b)
  BY <1>1, Associative
<1>4. Joined(q, Joined(u, a)) = Joined(Joined(q, u), a)
  BY Associative
<1> QED
  BY <1>2, <1>3, <1>4

\* record() adds an epoch if it is a new one, a wake or none, and the change.
LEMMA StoreShape ==
  ASSUME LogsOK, NEW w \in Writers, Store(w)
  PROVE  LET l == LogOf[w]
             p == IF epoch[w] # logEpoch[l] THEN Whole(l) \o <<EpochRecord(epoch[w])>>
                  ELSE Whole(l)
         IN  \/ Whole(l)' = p \o <<ChangeRecord(change[w])>>
             \/ Whole(l)' = (p \o <<WakeRecord>>) \o <<ChangeRecord(change[w])>>
<1> DEFINE l == LogOf[w]
           q == disk[l] \o flushing[l].records
           a == IF epoch[w] # logEpoch[l] THEN <<EpochRecord(epoch[w])>> ELSE <<>>
           b == IF WakeSeen(w) # wakeEpoch[l] THEN <<WakeRecord>> ELSE <<>>
           c == <<ChangeRecord(change[w])>>
<1>1. l \in Logs /\ epoch[w] \in Nat /\ change[w] \in Nat
  BY LogOfAssumption DEF LogsOK
<1>2. buf \in [Logs -> Seq(Records)]
  BY DEF LogsOK
<1>3. buf'[l] = buf[l] \o a \o b \o c /\ disk' = disk /\ flushing' = flushing
  BY <1>1, <1>2 DEF Store
<1>4. a \in Seq(Records) /\ b \in Seq(Records) /\ c \in Seq(Records)
  BY <1>1, RecordTypes, MarkContents, SingleContents
<1>5. q \in Seq(Records) /\ buf[l] \in Seq(Records)
  BY <1>1, WholeType
<1>6. Whole(l) = q \o buf[l] /\ Whole(l)' = q \o buf'[l]
  BY <1>3 DEF Whole
<1>7. \A u \in Seq(Records) : u \o <<>> = u
  BY ConcatEmptySeq
<1>8. a = IF epoch[w] # logEpoch[l] THEN <<EpochRecord(epoch[w])>> ELSE <<>>
  OBVIOUS
<1>9. b = <<WakeRecord>> \/ b = <<>>
  OBVIOUS
<1>10. c = <<ChangeRecord(change[w])>>
  OBVIOUS
<1> HIDE DEF q, a, b, c, l
<1>11. q \o buf[l] \in Seq(Records) /\ (q \o buf[l]) \o a \in Seq(Records)
  BY <1>4, <1>5, ConcatProperties
<1>12. q \o (((buf[l] \o a) \o b) \o c) = (((q \o buf[l]) \o a) \o b) \o c
  <2>1. /\ q \in Seq(Records) /\ buf[l] \in Seq(Records)
        /\ a \in Seq(Records) /\ b \in Seq(Records) /\ c \in Seq(Records)
    BY <1>4, <1>5
  <2>2. Joined(q, Joined(Joined(Joined(buf[l], a), b), c))
          = Joined(Joined(Joined(Joined(q, buf[l]), a), b), c)
    BY <2>1, AssociativeInFour
  <2> QED
    BY Zenon, <2>2 DEF Joined
<1>13. Whole(l)' = ((Whole(l) \o a) \o b) \o c
  BY <1>3, <1>6, <1>12
<1>14. Whole(l) \o a = IF epoch[w] # logEpoch[l] THEN Whole(l) \o <<EpochRecord(epoch[w])>>
                       ELSE Whole(l)
  BY <1>6, <1>7, <1>8, <1>11
<1>15. Whole(l) \o a \in Seq(Records)
  BY <1>6, <1>11
<1>16. (Whole(l) \o a) \o b = (Whole(l) \o a) \o <<WakeRecord>> \/ (Whole(l) \o a) \o b = Whole(l) \o a
  BY <1>7, <1>9, <1>15
<1> QED
  BY <1>10, <1>13, <1>14, <1>16 DEF l

\* A pass of the logger adds the records of a quiescent log, or none.
LEMMA PassShape ==
  ASSUME LogsOK, NEW l \in Logs, LoggerPass(l)
  PROVE  Whole(l)' = IF Quiesces(l)
                     THEN (Whole(l) \o <<EpochRecord(globalLogEpoch)>>) \o <<QuiesceRecord>>
                     ELSE Whole(l)
<1>1. /\ flushing[l] = Nothing /\ buf'[l] = <<>> /\ flushing'[l].records = Taken(l)
      /\ Taken(l) \in Seq(Records)
  BY PassEffect
<1>2. disk' = disk /\ flushing[l].records = <<>>
  BY <1>1 DEF LoggerPass, Nothing
<1>3. disk[l] \in Seq(Records) /\ buf[l] \in Seq(Records)
  BY DEF LogsOK
<1>4. \A u \in Seq(Records) : u \o <<>> = u
  BY ConcatEmptySeq
<1>5. disk[l] \o Taken(l) \in Seq(Records)
  BY <1>1, <1>3, ConcatProperties
<1>6. Whole(l)' = disk[l] \o Taken(l)
  BY <1>1, <1>2, <1>4, <1>5 DEF Whole
<1>7. Whole(l) = disk[l] \o buf[l]
  BY <1>2, <1>3, <1>4 DEF Whole
<1>8. CASE Quiesces(l)
  <2> DEFINE a == <<EpochRecord(globalLogEpoch)>>
             b == <<QuiesceRecord>>
  <2>1. Taken(l) = a \o b /\ a \in Seq(Records) /\ b \in Seq(Records)
    <3>1. EpochRecord(globalLogEpoch) \in Records /\ QuiesceRecord \in Records
      BY RecordTypes DEF LogsOK
    <3>2. Taken(l) = <<EpochRecord(globalLogEpoch), QuiesceRecord>>
      BY <1>8 DEF Taken
    <3> QED
      BY <3>1, <3>2
  <2>2. buf[l] = <<>>
    BY <1>8 DEF Quiesces
  <2> HIDE DEF a, b
  <2>3. disk[l] \o (a \o b) = (disk[l] \o a) \o b
    BY Zenon, <1>3, <2>1, Associative DEF Joined
  <2> QED
    BY <1>3, <1>4, <1>6, <1>7, <1>8, <2>1, <2>2, <2>3 DEF a, b
<1>9. CASE ~ Quiesces(l)
  BY <1>6, <1>7, <1>9 DEF Taken
<1> QED
  BY <1>8, <1>9

LEMMA FlushShape ==
  ASSUME LogsOK, NEW l \in Logs, Flush(l)
  PROVE  Whole(l)' = Whole(l)
<1>1. disk \in [Logs -> Seq(Records)] /\ flushing \in [Logs -> [records : Seq(Records), epoch : Nat]]
  BY DEF LogsOK
<1>2. /\ disk'[l] = disk[l] \o flushing[l].records
      /\ flushing'[l] = Nothing /\ buf' = buf
  BY <1>1 DEF Flush
<1>3. disk[l] \o flushing[l].records \in Seq(Records)
  BY WholeType
<1>4. (disk[l] \o flushing[l].records) \o <<>> = disk[l] \o flushing[l].records
  BY <1>3, ConcatEmptySeq
<1>5. flushing'[l].records = <<>>
  BY <1>2 DEF Nothing
<1> QED
  BY <1>2, <1>4, <1>5 DEF Whole

LEMMA MiddleBegins ==
  ASSUME NEW s \in Seq(Records), NEW f \in Seq(Records), NEW p \in Seq(Records),
         NEW b \in Seq(Records), Begins(p, f)
  PROVE  s \o p \in Seq(Records) /\ Begins(s \o p, (s \o f) \o b)
<1>1. /\ Len(s) \in Nat /\ Len(f) \in Nat /\ Len(p) \in Nat /\ Len(b) \in Nat
      /\ Len(p) <= Len(f) /\ \A i \in 1..Len(p) : p[i] = f[i]
  BY LenProperties DEF Begins
<1>2. PICK x \in Seq(Records) : x = s \o p
  BY ConcatProperties
<1>3. /\ Len(x) = Len(s) + Len(p)
      /\ \A i \in 1..Len(s) + Len(p) : x[i] = IF i <= Len(s) THEN s[i] ELSE p[i - Len(s)]
  BY <1>2, ConcatProperties
<1>4. PICK q \in Seq(Records) : q = s \o f
  BY ConcatProperties
<1>5. /\ Len(q) = Len(s) + Len(f)
      /\ \A i \in 1..Len(s) + Len(f) : q[i] = IF i <= Len(s) THEN s[i] ELSE f[i - Len(s)]
  BY <1>4, ConcatProperties
<1>6. PICK y \in Seq(Records) : y = q \o b
  BY ConcatProperties
<1>7. /\ Len(y) = Len(q) + Len(b)
      /\ \A i \in 1..Len(q) + Len(b) : y[i] = IF i <= Len(q) THEN q[i] ELSE b[i - Len(q)]
  BY <1>6, ConcatProperties
<1>8. Len(x) <= Len(y)
  BY <1>1, <1>3, <1>5, <1>7
<1>9. ASSUME NEW i \in 1..Len(x) PROVE x[i] = y[i]
  <2>1. /\ i \in 1..Len(s) + Len(p) /\ i \in 1..Len(s) + Len(f)
        /\ i \in 1..Len(q) + Len(b) /\ i <= Len(q)
    BY <1>1, <1>3, <1>5
  <2>2. y[i] = q[i]
    BY <1>7, <2>1
  <2>3. CASE i <= Len(s)
    BY <1>3, <1>5, <2>1, <2>2, <2>3
  <2>4. CASE ~ (i <= Len(s))
    <3>1. i - Len(s) \in 1..Len(p)
      BY <1>1, <2>1, <2>4
    <3> QED
      BY <1>1, <1>3, <1>5, <2>1, <2>2, <2>4, <3>1
  <2> QED
    BY <2>3, <2>4
<1> QED
  BY <1>2, <1>4, <1>6, <1>8, <1>9 DEF Begins

LEMMA CrashShape ==
  ASSUME LogsOK, LoseBuffers, NEW l \in Logs
  PROVE  disk'[l] \in Seq(Records) /\ Begins(disk'[l], Whole(l))
<1>1. /\ disk[l] \in Seq(Records) /\ flushing[l].records \in Seq(Records)
      /\ buf[l] \in Seq(Records)
  BY WholeType
<1>2. PICK p \in Seq(Records) : disk'[l] = disk[l] \o p /\ Begins(p, flushing[l].records)
  BY CrashEffect
<1> QED
  BY <1>1, <1>2, MiddleBegins DEF Whole

\* Changes that are added later do not matter to a log.
LEMMA SoundFrame ==
  ASSUME NEW s, NEW ch, NEW later, Sound(s, ch),
         \A n \in 1..Len(ch) : n \in 1..Len(later) /\ later[n] = ch[n]
  PROVE  Sound(s, later)
BY DEF Sound, Truthful

\* record() leaves a sound log if the change was made in the epoch of its record
\* and that epoch is not behind the log.
LEMMA StoreSound ==
  ASSUME LogsOK, NEW w \in Writers, Store(w), NEW ch,
         Sound(Whole(LogOf[w]), ch), LastEpoch(Whole(LogOf[w])) = logEpoch[LogOf[w]],
         0 < epoch[w], logEpoch[LogOf[w]] <= epoch[w],
         change[w] \in 1..Len(ch), ch[change[w]].epoch = epoch[w]
  PROVE  Sound(Whole(LogOf[w])', ch) /\ LastEpoch(Whole(LogOf[w])') = epoch[w]
<1> DEFINE l == LogOf[w]
           e == epoch[w]
           E == EpochRecord(e)
           C == ChangeRecord(change[w])
<1>1. l \in Logs /\ e \in Nat /\ change[w] \in Nat /\ Whole(l) \in Seq(Records)
  BY LogOfAssumption, WholeType DEF LogsOK
<1>2. /\ E \in Records /\ E.cmd = "epoch" /\ E.epoch = e
      /\ C \in Records /\ C.cmd = "change" /\ C.change = change[w]
      /\ WakeRecord \in Records /\ WakeRecord.cmd = "wake"
  BY <1>1, RecordTypes DEF EpochRecord, WakeRecord
<1>3. PICK p : /\ p = IF e # logEpoch[l] THEN Whole(l) \o <<E>> ELSE Whole(l)
               /\ \/ Whole(l)' = p \o <<C>>
                  \/ Whole(l)' = (p \o <<WakeRecord>>) \o <<C>>
  BY StoreShape
<1> HIDE DEF C, E, l
<1>4. p \in Seq(Records) /\ Sound(p, ch) /\ LastEpoch(p) = e /\ p # <<>>
  <2>1. CASE e # logEpoch[l]
    <3>1. Follows(Whole(l), E, ch)
      BY <1>2 DEF Follows, l
    <3>2. p = Whole(l) \o <<E>>
      BY <1>3, <2>1
    <3>3. Sound(Whole(l), ch)
      BY DEF l
    <3>4. /\ Whole(l) \o <<E>> \in Seq(Records) /\ Whole(l) \o <<E>> # <<>>
          /\ Sound(Whole(l) \o <<E>>, ch)
          /\ LastEpoch(Whole(l) \o <<E>>) = E.epoch
      BY <1>1, <1>2, <3>1, <3>3, ExtendedSound
    <3> QED
      BY <1>2, <3>2, <3>4
  <2>2. CASE e = logEpoch[l]
    <3>1. p = Whole(l) /\ LastEpoch(p) = e
      BY <1>3, <2>2 DEF l
    <3>2. p # <<>>
      BY <1>1, <3>1, EmptySound
    <3> QED
      BY <1>1, <3>1, <3>2 DEF l
  <2> QED
    BY <2>1, <2>2
<1>5. ASSUME NEW q \in Seq(Records), Sound(q, ch), LastEpoch(q) = e, q # <<>>
      PROVE  Sound(q \o <<C>>, ch) /\ LastEpoch(q \o <<C>>) = e
  <2>1. Follows(q, C, ch)
    BY <1>2, <1>5 DEF Follows
  <2> QED
    BY <1>2, <1>5, <2>1, ExtendedSound
<1>6. PICK q \in Seq(Records) : q = p \o <<WakeRecord>> /\ Sound(q, ch) /\ LastEpoch(q) = e /\ q # <<>>
  <2>1. Follows(p, WakeRecord, ch)
    BY <1>2, <1>4 DEF Follows
  <2> QED
    BY <1>2, <1>4, <2>1, ExtendedSound
<1>7. CASE Whole(l)' = p \o <<C>>
  <2>1. Sound(p \o <<C>>, ch) /\ LastEpoch(p \o <<C>>) = e
    BY <1>4, <1>5
  <2> QED
    BY <1>7, <2>1 DEF l
<1>8. CASE Whole(l)' = (p \o <<WakeRecord>>) \o <<C>>
  <2>1. Sound(q \o <<C>>, ch) /\ LastEpoch(q \o <<C>>) = e
    BY <1>5, <1>6
  <2> QED
    BY <1>6, <1>8, <2>1 DEF l
<1> QED
  BY <1>3, <1>7, <1>8

\* So does a pass of the logger.
LEMMA PassSound ==
  ASSUME LogsOK, NEW l \in Logs, LoggerPass(l), NEW ch, Sound(Whole(l), ch),
         LastEpoch(Whole(l)) = logEpoch[l], logEpoch[l] <= globalLogEpoch
  PROVE  Sound(Whole(l)', ch) /\ LastEpoch(Whole(l)') = logEpoch'[l]
<1> DEFINE E == EpochRecord(globalLogEpoch)
<1>1. globalLogEpoch \in Nat /\ 0 < globalLogEpoch /\ Whole(l) \in Seq(Records)
  <2>1. globalLogEpoch \in Nat \ {0}
    BY DEF LogsOK
  <2>2. Whole(l) \in Seq(Records)
    BY WholeType
  <2> QED
    BY <2>1, <2>2
<1>2. /\ E \in Records /\ E.cmd = "epoch" /\ E.epoch = globalLogEpoch
      /\ QuiesceRecord \in Records /\ QuiesceRecord.cmd = "quiesce"
  BY <1>1, RecordTypes DEF EpochRecord, QuiesceRecord
<1>3. /\ Whole(l)' = IF Quiesces(l) THEN (Whole(l) \o <<E>>) \o <<QuiesceRecord>> ELSE Whole(l)
      /\ logEpoch'[l] = IF Quiesces(l) THEN globalLogEpoch ELSE logEpoch[l]
  BY PassShape, PassEffect
<1> HIDE DEF E
<1>4. CASE Quiesces(l)
  <2>1. Follows(Whole(l), E, ch)
    BY <1>1, <1>2 DEF Follows
  <2>2. PICK q \in Seq(Records) : /\ q = Whole(l) \o <<E>> /\ q # <<>> /\ Sound(q, ch)
                                  /\ LastEpoch(q) = globalLogEpoch
    BY <1>1, <1>2, <2>1, ExtendedSound
  <2>3. Follows(q, QuiesceRecord, ch)
    BY <1>2, <2>2 DEF Follows
  <2>4. Sound(q \o <<QuiesceRecord>>, ch) /\ LastEpoch(q \o <<QuiesceRecord>>) = globalLogEpoch
    BY <1>2, <2>2, <2>3, ExtendedSound
  <2> QED
    BY <1>3, <1>4, <2>2, <2>4
<1>5. CASE ~ Quiesces(l)
  BY <1>3, <1>5
<1> QED
  BY <1>4, <1>5

-----------------------------------------------------------------------------
(* The inductive invariant: what the logs say until the first crash, and    *)
(* what the recovery after it makes of that.  Later recoveries find epochs  *)
(* in the logs that go back, behind the first record they must not replay.  *)

\* The epochs in which changes are made do not go back either, and no change is
\* recorded with an epoch that is yet to come.
Chronological ==
  /\ \A m, n \in 1..Len(changes) : m < n => changes[m].made <= changes[n].made
  /\ \A n \in 1..Len(changes) : changes[n].epoch <= changes[n].made

Timely == \A n \in 1..Len(changes) : changes[n].made <= globalLogEpoch

FirstLog(l) == Sound(Whole(l), changes) /\ LastEpoch(Whole(l)) = logEpoch[l]

\* A log before it is replayed: what its file lacks was made in its last epoch
\* or later, and recovery does not go beyond that epoch unless the log is silent.
ToRead(l) ==
  /\ Sound(disk[l], changes)
  /\ \A n \in Made(l) \ OnDisk(l) : LastEpoch(disk[l]) <= changes[n].epoch
  /\ Silent(l) \/ replayMax <= LastEpoch(disk[l])

\* And afterwards: it keeps what was made before the limit, and nothing else.
WasRead(l) ==
  /\ \A n \in OnDisk(l) : changes[n].epoch < replayMax
  /\ Silent(l) \/ \A n \in Made(l) \ OnDisk(l) : replayMax <= changes[n].epoch

CInv ==
  /\ crashes = 0 => phase = "up" /\ Chronological /\ Timely /\ \A l \in Logs : FirstLog(l)
  /\ crashes = 1 /\ phase = "replay" =>
       Chronological /\ \A l \in Logs : IF l \in toReplay THEN ToRead(l) ELSE WasRead(l)

\* While the process is up only the time before the first crash counts.
LEMMA UpReads ==
  ASSUME CInv, phase = "up", UNCHANGED <<phase, crashes>>,
         crashes = 0 => (Chronological /\ Timely /\ \A l \in Logs : FirstLog(l))'
  PROVE  CInv'
BY DEF CInv

LEMMA FirstLogFrame ==
  ASSUME NEW l \in Logs, FirstLog(l), Whole(l)' = Whole(l), logEpoch'[l] = logEpoch[l],
         changes' = changes
  PROVE  FirstLog(l)'
BY DEF FirstLog

LEMMA InitReads == Init => CInv
<1> SUFFICES ASSUME Init PROVE CInv
  OBVIOUS
<1>1. crashes = 0 /\ phase = "up" /\ changes = <<>>
  BY DEF Init
<1>2. Chronological /\ Timely
  BY <1>1 DEF Chronological, Timely
<1>3. ASSUME NEW l \in Logs PROVE FirstLog(l)
  <2>1. /\ disk[l] = <<>> /\ flushing[l].records = <<>> /\ buf[l] = <<>>
        /\ logEpoch[l] = 0
    BY DEF Init, Nothing, Zeros
  <2>2. Whole(l) = <<>>
    <3>1. <<>> \in Seq(Records) /\ <<>> \o <<>> = <<>>
      OBVIOUS
    <3> QED
      BY <2>1, <3>1 DEF Whole
  <2> QED
    BY <2>1, <2>2, EmptySound DEF FirstLog
<1> QED
  BY <1>1, <1>2, <1>3 DEF CInv

LEMMA CheckEpochReads ==
  ASSUME IInv, CInv, CheckEpoch
  PROVE  CInv'
<1>1. /\ phase = "up" /\ globalLogEpoch' = globalLogEpoch + 1 /\ globalLogEpoch \in Nat
      /\ UNCHANGED <<loginfo, disk, history, phase, crashes>>
  BY DEF CheckEpoch, recovery, IInv, TypeOK
<1>2. ASSUME crashes = 0 PROVE (Chronological /\ Timely /\ \A l \in Logs : FirstLog(l))'
  <2>1. Chronological /\ Timely /\ \A l \in Logs : FirstLog(l)
    BY <1>2 DEF CInv
  <2>2. Chronological' /\ changes' = changes
    BY <1>1, <2>1 DEF Chronological, history
  <2>3. \A n \in 1..Len(changes) : changes[n].made \in Nat
    <3> SUFFICES ASSUME NEW n \in 1..Len(changes) PROVE changes[n].made \in Nat
      OBVIOUS
    <3>1. changes \in Seq([log : Logs, epoch : Nat, made : Nat])
      BY DEF IInv, TypeOK
    <3>2. changes[n] \in [log : Logs, epoch : Nat, made : Nat]
      BY <3>1, ElementOfSeq
    <3> QED
      BY <3>2
  <2>4. Timely'
    BY <1>1, <2>1, <2>2, <2>3 DEF Timely
  <2>5. \A l \in Logs : FirstLog(l)'
    BY <1>1, <2>1, <2>2 DEF FirstLog, Whole, loginfo
  <2> QED
    BY <2>2, <2>4, <2>5
<1> QED
  BY <1>1, <1>2, UpReads

LEMMA ReadEpochReads ==
  ASSUME CInv, NEW w \in Writers, ReadEpoch(w)
  PROVE  CInv'
<1>1. /\ phase = "up" /\ UNCHANGED <<globalLogEpoch, loginfo, disk, changes, phase, crashes>>
  BY DEF ReadEpoch, epochs, history, recovery
<1>2. ASSUME crashes = 0 PROVE (Chronological /\ Timely /\ \A l \in Logs : FirstLog(l))'
  <2>1. Chronological /\ Timely /\ \A l \in Logs : FirstLog(l)
    BY <1>2 DEF CInv
  <2>2. \A l \in Logs : Whole(l)' = Whole(l) /\ logEpoch' = logEpoch
    BY <1>1 DEF Whole, loginfo
  <2> QED
    BY <1>1, <2>1, <2>2, FirstLogFrame DEF Chronological, Timely
<1> QED
  BY <1>1, <1>2, UpReads

LEMMA ChangeTreeReads ==
  ASSUME IInv, OInv, CInv, NEW w \in Writers, ChangeTree(w)
  PROVE  CInv'
<1>1. /\ phase = "up" /\ UNCHANGED <<globalLogEpoch, loginfo, disk, phase, crashes>>
      /\ globalLogEpoch \in Nat
  BY DEF ChangeTree, epochs, recovery, IInv, TypeOK
<1>2. /\ Len(changes) \in Nat /\ Len(changes') = Len(changes) + 1
      /\ \A n \in 1..Len(changes) : changes'[n] = changes[n]
      /\ changes'[Len(changes')] =
           [log |-> LogOf[w], epoch |-> epoch[w], made |-> globalLogEpoch]
  BY ChangeEffect DEF IInv
<1>3. /\ changes'[Len(changes')].epoch <= globalLogEpoch
      /\ changes'[Len(changes')].made = globalLogEpoch
  <2>1. epoch[w] <= globalLogEpoch
    BY DEF ChangeTree, OInv, Holding
  <2> QED
    BY <1>2, <2>1
<1>4. ASSUME crashes = 0 PROVE (Chronological /\ Timely /\ \A l \in Logs : FirstLog(l))'
  <2>1. Chronological /\ Timely /\ \A l \in Logs : FirstLog(l)
    BY <1>4 DEF CInv
  <2>2. \A n \in 1..Len(changes') : n \in 1..Len(changes) \/ n = Len(changes')
    BY <1>2
  <2>3. Timely'
    BY <1>1, <1>2, <1>3, <2>1, <2>2 DEF Timely
  <2>4. Chronological'
    <3>1. ASSUME NEW m \in 1..Len(changes'), NEW n \in 1..Len(changes'), m < n
          PROVE  changes'[m].made <= changes'[n].made
      <4>1. m \in 1..Len(changes)
        BY <1>2, <3>1
      <4>2. CASE n \in 1..Len(changes)
        BY <1>2, <2>1, <3>1, <4>1, <4>2 DEF Chronological
      <4>3. CASE n = Len(changes')
        BY <1>2, <1>3, <2>1, <4>1, <4>3 DEF Timely
      <4> QED
        BY <2>2, <4>2, <4>3
    <3>2. \A n \in 1..Len(changes') : changes'[n].epoch <= changes'[n].made
      BY <1>2, <1>3, <2>1, <2>2 DEF Chronological
    <3> QED
      BY <3>1, <3>2 DEF Chronological
  <2>5. ASSUME NEW l \in Logs PROVE FirstLog(l)'
    <3>1. Whole(l)' = Whole(l) /\ logEpoch' = logEpoch
      BY <1>1 DEF Whole, loginfo
    <3>2. \A n \in 1..Len(changes) : n \in 1..Len(changes') /\ changes'[n] = changes[n]
      BY <1>2
    <3>3. Sound(Whole(l), changes')
      BY <2>1, <3>2, SoundFrame DEF FirstLog
    <3> QED
      BY <2>1, <3>1, <3>3 DEF FirstLog
  <2> QED
    BY <2>3, <2>4, <2>5
<1> QED
  BY <1>1, <1>4, UpReads

LEMMA RecordReads ==
  ASSUME IInv, OInv, CInv, NEW w \in Writers, Record(w)
  PROVE  CInv'
<1>1. /\ phase = "up" /\ pc[w] = "recording" /\ Store(w) /\ LogsOK
      /\ UNCHANGED <<globalLogEpoch, changes, flushing, disk, phase, crashes>>
  BY TypesOfLogs DEF Record, Store, recovery, IInv
<1>2. ASSUME crashes = 0 PROVE (Chronological /\ Timely /\ \A l \in Logs : FirstLog(l))'
  <2>1. Chronological /\ Timely /\ \A l \in Logs : FirstLog(l)
    BY <1>2 DEF CInv
  <2>2. Chronological' /\ Timely'
    BY <1>1, <2>1 DEF Chronological, Timely
  <2>3. /\ LogOf[w] \in Logs /\ change[w] \in 1..Len(changes)
        /\ changes[change[w]].epoch = epoch[w] /\ logEpoch[LogOf[w]] <= epoch[w]
    BY <1>1, LogOfAssumption DEF IInv, OInv, Recording, Holding
  <2>4. 0 < epoch[w]
    BY <1>1 DEF OInv, Holding
  <2>5. Sound(Whole(LogOf[w])', changes) /\ LastEpoch(Whole(LogOf[w])') = epoch[w]
    BY <1>1, <2>1, <2>3, <2>4, StoreSound DEF FirstLog
  <2>6. /\ logEpoch'[LogOf[w]] = epoch[w]
        /\ \A m \in Logs \ {LogOf[w]} : logEpoch'[m] = logEpoch[m]
    BY <1>1, <2>3 DEF Store, LogsOK
  <2>7. \A m \in Logs \ {LogOf[w]} : buf'[m] = buf[m]
    BY <1>1, StoreEffect
  <2>8. ASSUME NEW m \in Logs \ {LogOf[w]} PROVE FirstLog(m)'
    <3>1. Whole(m)' = Whole(m)
      BY <1>1, <2>7 DEF Whole
    <3> QED
      BY <1>1, <2>1, <2>6, <3>1, FirstLogFrame
  <2>9. FirstLog(LogOf[w])'
    BY <1>1, <2>5, <2>6 DEF FirstLog
  <2> QED
    BY <2>2, <2>8, <2>9
<1> QED
  BY <1>1, <1>2, UpReads

LEMMA LoggerPassReads ==
  ASSUME IInv, OInv, CInv, NEW l \in Logs, LoggerPass(l)
  PROVE  CInv'
<1>1. /\ phase = "up" /\ LogsOK
      /\ UNCHANGED <<globalLogEpoch, changes, disk, phase, crashes>>
  BY TypesOfLogs DEF LoggerPass, epochs, history, recovery, IInv
<1>2. /\ \A m \in Logs \ {l} : buf'[m] = buf[m] /\ flushing'[m] = flushing[m]
      /\ \A m \in Logs \ {l} : logEpoch'[m] = logEpoch[m]
  BY <1>1, PassEffect DEF LoggerPass, LogsOK
<1>3. ASSUME crashes = 0 PROVE (Chronological /\ Timely /\ \A m \in Logs : FirstLog(m))'
  <2>1. Chronological /\ Timely /\ \A m \in Logs : FirstLog(m)
    BY <1>3 DEF CInv
  <2>2. Chronological' /\ Timely'
    BY <1>1, <2>1 DEF Chronological, Timely
  <2>3. logEpoch[l] <= globalLogEpoch
    BY DEF OInv, EpochsInOrder
  <2>4. FirstLog(l)'
    BY <1>1, <2>1, <2>3, PassSound DEF FirstLog
  <2>5. ASSUME NEW m \in Logs \ {l} PROVE FirstLog(m)'
    <3>1. Whole(m)' = Whole(m)
      BY <1>1, <1>2 DEF Whole
    <3> QED
      BY <1>1, <1>2, <2>1, <3>1, FirstLogFrame
  <2> QED
    BY <2>2, <2>4, <2>5
<1> QED
  BY <1>1, <1>3, UpReads

LEMMA FlushReads ==
  ASSUME IInv, CInv, NEW l \in Logs, Flush(l)
  PROVE  CInv'
<1>1. /\ phase = "up" /\ LogsOK
      /\ UNCHANGED <<globalLogEpoch, logEpoch, changes, buf, phase, crashes>>
  BY TypesOfLogs DEF Flush, epochs, history, recovery, IInv
<1>2. \A m \in Logs : Whole(m)' = Whole(m)
  <2>1. \A m \in Logs \ {l} : disk'[m] = disk[m] /\ flushing'[m] = flushing[m]
    BY <1>1 DEF Flush, LogsOK
  <2>2. Whole(l)' = Whole(l)
    BY <1>1, FlushShape
  <2> QED
    BY <1>1, <2>1, <2>2 DEF Whole
<1>3. ASSUME crashes = 0 PROVE (Chronological /\ Timely /\ \A m \in Logs : FirstLog(m))'
  <2>1. Chronological /\ Timely /\ \A m \in Logs : FirstLog(m)
    BY <1>3 DEF CInv
  <2>2. Chronological' /\ Timely'
    BY <1>1, <2>1 DEF Chronological, Timely
  <2>3. \A m \in Logs : FirstLog(m)'
    BY <1>1, <1>2, <2>1, FirstLogFrame
  <2> QED
    BY <2>2, <2>3
<1> QED
  BY <1>1, <1>3, UpReads

LEMMA CrashReads ==
  ASSUME IInv, OInv, CInv, Crash
  PROVE  CInv'
<1>1. /\ crashes \in Nat /\ crashes' = crashes + 1 /\ phase' = "replay" /\ toReplay' = Logs
      /\ LoseBuffers /\ LogsOK /\ UNCHANGED <<changes, tree, answered>>
  <2>1. TypeOK
    BY DEF IInv
  <2>2. crashes \in Nat
    BY <2>1, BoundsAssumption DEF TypeOK
  <2> QED
    BY <2>1, <2>2, TypesOfLogs DEF Crash, history
<1>2. CASE crashes # 0
  BY <1>1, <1>2 DEF CInv
<1>3. CASE crashes = 0
  <2>1. Chronological /\ phase = "up" /\ \A l \in Logs : FirstLog(l)
    BY <1>3 DEF CInv
  <2>2. Chronological'
    BY <1>1, <2>1 DEF Chronological
  <2>3. disk' \in [Logs -> Seq(Records)]
    BY <1>1, CrashEffect
  <2>4. PICK unset \in SUBSET {l \in Logs : disk'[l] = <<>>} :
          replayMax' = ReplayLimit(disk', unset \cup {l \in Logs : EndsQuiescent(disk'[l])}, 0)
    BY DEF Crash
  <2>5. ASSUME NEW l \in Logs PROVE ToRead(l)'
    <3>1. /\ disk'[l] \in Seq(Records) /\ Begins(disk'[l], Whole(l)) /\ Whole(l) \in Seq(Records)
          /\ ChangesIn(Whole(l)) = OnDisk(l) \cup InFlight(l) \cup InBuffer(l)
      BY <1>1, CrashShape, WholeType
    <3>2. Sound(Whole(l), changes) /\ LastEpoch(Whole(l)) = logEpoch[l]
      BY <2>1 DEF FirstLog
    <3>3. Sound(disk'[l], changes)
      BY <3>1, <3>2, BeginningSound
    <3>4. ASSUME NEW n \in Made(l)' \ OnDisk(l)' PROVE LastEpoch(disk'[l]) <= changes[n].epoch
      <4>1. n \in tree /\ changes[n].log = l /\ n \notin ChangesIn(disk'[l])
        BY <1>1 DEF Made, OnDisk
      <4>2. CASE n \in answered
        <5>1. n \in OnDisk(l) \cup InFlight(l) \cup InBuffer(l)
          BY <2>1, <4>1, <4>2 DEF IInv, Contents, Answered
        <5>2. n \in ChangesIn(Whole(l)) \ ChangesIn(disk'[l])
          BY <3>1, <4>1, <5>1
        <5> QED
          BY <3>1, <3>2, <5>2, AfterBeginning
      <4>3. CASE n \notin answered
        <5>1. PICK w \in Writers : pc[w] \in {"recording", "waiting"} /\ change[w] = n
          BY <2>1, <4>1, <4>3 DEF OInv, InTree
        <5>2. pc[w] = "recording" /\ LogOf[w] = l
          BY <4>1, <5>1 DEF OInv, Holding, IInv, TypeOK, Recording
        <5>3. logEpoch[l] <= changes[n].epoch /\ changes[n].epoch = epoch[w]
          BY <5>1, <5>2 DEF OInv, Holding
        <5>4. LastEpoch(disk'[l]) <= LastEpoch(Whole(l))
          <6>1. /\ Len(disk'[l]) \in Nat /\ Len(Whole(l)) \in Nat
                /\ Len(disk'[l]) <= Len(Whole(l)) /\ Len(disk'[l]) \in 0..Len(disk'[l])
            BY <3>1, LenProperties DEF Begins
          <6>2. EpochAt(Whole(l), Len(disk'[l])) <= EpochAt(Whole(l), Len(Whole(l)))
            BY <3>1, <3>2, <6>1, RisingEpochs DEF Sound
          <6>3. EpochAt(disk'[l], Len(disk'[l])) = EpochAt(Whole(l), Len(disk'[l]))
            BY <3>1, <6>1, BeginningEpochs
          <6> QED
            BY <6>2, <6>3 DEF LastEpoch
        <5>5. LastEpoch(disk'[l]) \in Nat /\ logEpoch[l] \in Nat /\ epoch[w] \in Nat
          BY <1>1, <3>1, LastEpochType DEF LogsOK
        <5> QED
          BY <3>2, <5>3, <5>4, <5>5
      <4> QED
        BY <4>2, <4>3
    <3>5. ASSUME ~ Silent(l)' PROVE replayMax' <= LastEpoch(disk'[l])
      <4>1. disk'[l] # <<>> /\ ~ EndsQuiescent(disk'[l])
        BY <3>5 DEF Silent
      <4>2. l \in Logs \ (unset \cup {m \in Logs : EndsQuiescent(disk'[m])})
        BY <4>1
      <4>3. LastEpoch(disk'[l]) # 0
        <5>1. Len(disk'[l]) \in 1..Len(disk'[l])
          BY <3>1, <4>1, EmptySeq, LenProperties
        <5>2. EpochAt(disk'[l], Len(disk'[l])) > 0
          BY <3>1, <3>3, <5>1, LeadingEpoch DEF Sound
        <5> QED
          BY <5>2 DEF LastEpoch
      <4> QED
        BY <2>3, <2>4, <4>2, <4>3, ReplayLimitType
    <3> QED
      BY <1>1, <3>3, <3>4, <3>5 DEF ToRead
  <2> QED
    BY <1>1, <1>3, <2>2, <2>5 DEF CInv
<1> QED
  BY <1>2, <1>3

LEMMA ReplayReads ==
  ASSUME IInv, CInv, NEW l \in Logs, Replay(l)
  PROVE  CInv'
<1>1. /\ phase = "replay" /\ l \in toReplay /\ toReplay' = toReplay \ {l} /\ toReplay \subseteq Logs
      /\ UNCHANGED <<changes, tree, phase, crashes, replayMax>>
      /\ LogsOK /\ replayMax \in Nat
  BY TypesOfLogs DEF Replay, history, IInv, TypeOK
<1>2. /\ disk'[l] = Kept(disk[l], replayMax) /\ disk[l] \in Seq(Records)
      /\ \A m \in Logs \ {l} : disk'[m] = disk[m]
  BY <1>1 DEF Replay, LogsOK
<1>3. crashes # 0
  BY <1>1 DEF CInv
<1>4. CASE crashes = 1
  <2>1. /\ Chronological /\ ToRead(l)
        /\ \A m \in Logs : IF m \in toReplay THEN ToRead(m) ELSE WasRead(m)
    BY <1>1, <1>4 DEF CInv
  <2>2. Chronological'
    BY <1>1, <2>1 DEF Chronological
  <2>3. ASSUME NEW m \in Logs \ {l} PROVE IF m \in toReplay' THEN ToRead(m)' ELSE WasRead(m)'
    <3>1. disk'[m] = disk[m] /\ (m \in toReplay' <=> m \in toReplay)
      BY <1>1, <1>2
    <3>2. Silent(m)' = Silent(m) /\ Made(m)' = Made(m) /\ OnDisk(m)' = OnDisk(m)
      BY <1>1, <3>1 DEF Silent, Made, OnDisk
    <3>3. ToRead(m) => ToRead(m)'
      BY <1>1, <3>1, <3>2 DEF ToRead
    <3>4. WasRead(m) => WasRead(m)'
      BY <1>1, <3>1, <3>2 DEF WasRead
    <3> QED
      BY <2>1, <3>1, <3>3, <3>4
  <2>4. /\ disk'[l] \in Seq(Records) /\ Begins(disk'[l], disk[l])
        /\ \A n \in ChangesIn(disk'[l]) : changes[n].epoch < replayMax
        /\ \/ disk'[l] = disk[l]
           \/ /\ disk'[l] # <<>> /\ ~ EndsQuiescent(disk'[l])
              /\ replayMax <= LastEpoch(disk'[l])
    BY <1>1, <1>2, <2>1, KeptSound DEF ToRead
  <2>5. /\ LastEpoch(disk[l]) \in Nat /\ LastEpoch(disk'[l]) \in Nat
        /\ \A n \in Made(l) : changes[n].epoch \in Nat
    <3>1. ASSUME NEW n \in Made(l) PROVE changes[n].epoch \in Nat
      <4>1. n \in 1..Len(changes) /\ changes \in Seq([log : Logs, epoch : Nat, made : Nat])
        BY DEF Made, IInv, TypeOK
      <4>2. changes[n] \in [log : Logs, epoch : Nat, made : Nat]
        BY <4>1, ElementOfSeq
      <4> QED
        BY <4>2
    <3> QED
      BY <1>2, <2>4, <3>1, LastEpochType
  <2>6. ASSUME ~ Silent(l)', NEW n \in Made(l)' \ OnDisk(l)'
        PROVE  replayMax <= changes[n].epoch
    <3>1. n \in Made(l) /\ n \notin ChangesIn(disk'[l])
      BY <1>1 DEF Made, OnDisk
    <3>2. CASE disk'[l] = disk[l]
      <4>1. replayMax <= LastEpoch(disk[l])
        BY <2>1, <2>6, <3>2 DEF ToRead, Silent
      <4>2. LastEpoch(disk[l]) <= changes[n].epoch
        BY <2>1, <3>1, <3>2 DEF ToRead, OnDisk
      <4> QED
        BY <1>1, <2>5, <3>1, <4>1, <4>2
    <3>3. CASE replayMax <= LastEpoch(disk'[l])
      <4>1. LastEpoch(disk'[l]) <= changes[n].epoch
        <5>1. CASE n \in ChangesIn(disk[l])
          <6>1. Sound(disk[l], changes) /\ n \in ChangesIn(disk[l]) \ ChangesIn(disk'[l])
            BY <2>1, <3>1, <5>1 DEF ToRead
          <6> QED
            BY <1>2, <2>4, <6>1, AfterBeginning
        <5>2. CASE n \notin ChangesIn(disk[l])
          <6>1. LastEpoch(disk[l]) <= changes[n].epoch
            BY <2>1, <3>1, <5>2 DEF ToRead, OnDisk
          <6>2. LastEpoch(disk'[l]) <= LastEpoch(disk[l])
            <7>1. /\ Len(disk'[l]) \in Nat /\ Len(disk[l]) \in Nat
                  /\ Len(disk'[l]) <= Len(disk[l]) /\ Len(disk'[l]) \in 0..Len(disk'[l])
              BY <1>2, <2>4, LenProperties DEF Begins
            <7>2. EpochAt(disk[l], Len(disk'[l])) <= EpochAt(disk[l], Len(disk[l]))
              BY <1>2, <2>1, <7>1, RisingEpochs DEF ToRead, Sound
            <7>3. EpochAt(disk'[l], Len(disk'[l])) = EpochAt(disk[l], Len(disk'[l]))
              BY <1>2, <2>4, <7>1, BeginningEpochs
            <7> QED
              BY <7>2, <7>3 DEF LastEpoch
          <6> QED
            BY <2>5, <3>1, <6>1, <6>2
        <5> QED
          BY <5>1, <5>2
      <4> QED
        BY <1>1, <2>5, <3>1, <3>3, <4>1
    <3> QED
      BY <2>4, <3>2, <3>3
  <2>7. WasRead(l)'
    <3>1. OnDisk(l)' = ChangesIn(disk'[l])
      BY DEF OnDisk
    <3> QED
      BY <1>1, <2>4, <2>6, <3>1 DEF WasRead
  <2>8. l \notin toReplay'
    BY <1>1
  <2> QED
    BY <1>1, <1>4, <2>2, <2>3, <2>7, <2>8 DEF CInv
<1>5. CASE crashes # 1
  BY <1>1, <1>3, <1>5 DEF CInv
<1> QED
  BY <1>4, <1>5

LEMMA RestartReads ==
  ASSUME CInv, Restart
  PROVE  CInv'
<1>1. phase = "replay" /\ phase' = "up" /\ crashes' = crashes
  BY DEF Restart
<1> QED
  BY <1>1 DEF CInv

LEMMA StutterReads ==
  ASSUME CInv, UNCHANGED vars
  PROVE  CInv'
<1>1. UNCHANGED <<globalLogEpoch, logEpoch, buf, flushing, disk, changes, tree,
                  phase, crashes, replayMax, toReplay>>
  BY DEF vars, epochs, loginfo, history, recovery
<1>2. /\ Chronological' = Chronological /\ Timely' = Timely
      /\ \A l \in Logs : FirstLog(l)' = FirstLog(l)
  BY <1>1 DEF Chronological, Timely, FirstLog, Whole
<1>3. \A l \in Logs : ToRead(l)' = ToRead(l) /\ WasRead(l)' = WasRead(l)
  BY <1>1 DEF ToRead, WasRead, Silent, Made, OnDisk
<1> QED
  BY <1>1, <1>2, <1>3 DEF CInv

LEMMA NextReads ==
  ASSUME BufferFills = FALSE, IInv, OInv, CInv, [Next]_vars
  PROVE  CInv'
<1>1. CASE CheckEpoch
  BY <1>1, CheckEpochReads
<1>2. CASE \E w \in Writers : ReadEpoch(w) \/ ChangeTree(w) \/ Record(w)
  BY <1>2, ReadEpochReads, ChangeTreeReads, RecordReads
<1>3. ASSUME NEW w \in Writers, Stall(w) \/ Retry(w) PROVE FALSE
  BY <1>3 DEF Stall, Retry, OInv, Holding
<1>4. CASE \E l \in Logs : LoggerPass(l) \/ Flush(l) \/ Replay(l)
  BY <1>4, LoggerPassReads, FlushReads, ReplayReads
<1>5. CASE Crash \/ Restart
  BY <1>5, CrashReads, RestartReads
<1>6. CASE UNCHANGED vars
  BY <1>6, StutterReads
<1> QED
  BY <1>1, <1>2, <1>3, <1>4, <1>5, <1>6 DEF Next

\* What the first recovery brings back is, but for late changes, the tree of an
\* earlier moment, also of the changes that nobody was told of, when no log that is
\* silent about its last epoch has missed a change.  A change is late when the epoch
\* moved on between its reading and the change of the tree.  The logs are written,
\* cut by the crash and replayed apart from each other; the epochs are all that they
\* have in common.
THEOREM FirstRecoveryIsConsistent ==
  ASSUME BufferFills = FALSE
  PROVE  Spec => []CompleteLogsReplayConsistently
<1>1. ASSUME IInv, CInv PROVE CompleteLogsReplayConsistently
  <2> SUFFICES ASSUME phase = "replay", toReplay = {}, crashes = 1,
                      \A l \in Logs : Silent(l) => Made(l) \subseteq OnDisk(l),
                      NEW lost \in tree \ replayed, NEW kept \in replayed \ Late
               PROVE  kept < lost
    BY DEF CompleteLogsReplayConsistently
  <2>1. Chronological /\ \A l \in Logs : WasRead(l)
    BY <1>1 DEF CInv
  <2>2. replayed = UNION {OnDisk(l) : l \in Logs}
    BY <1>1 DEF IInv, Recovering
  <2>3. /\ changes \in Seq([log : Logs, epoch : Nat, made : Nat]) /\ replayMax \in Nat
        /\ lost \in 1..Len(changes) /\ kept \in 1..Len(changes) /\ Len(changes) \in Nat
        /\ DOMAIN changes = 1..Len(changes)
    BY <1>1, LenProperties DEF IInv, TypeOK
  <2>4. /\ changes[lost] \in [log : Logs, epoch : Nat, made : Nat]
        /\ changes[kept] \in [log : Logs, epoch : Nat, made : Nat]
    BY <2>3, ElementOfSeq
  <2>5. changes[kept].epoch < replayMax /\ changes[kept].made = changes[kept].epoch
    BY <2>1, <2>2, <2>3 DEF WasRead, Late
  <2>6. replayMax <= changes[lost].epoch
    <3>1. PICK l \in Logs : l = changes[lost].log
      BY <2>4
    <3>2. lost \in Made(l) \ OnDisk(l)
      BY <2>2, <3>1 DEF Made
    <3>3. ~ Silent(l)
      BY <3>2
    <3> QED
      BY <2>1, <3>2, <3>3 DEF WasRead
  <2>7. ~ (changes[lost].made <= changes[kept].made)
    <3>1. changes[lost].epoch <= changes[lost].made
      BY <2>1, <2>3 DEF Chronological
    <3> QED
      BY <2>3, <2>4, <2>5, <2>6, <3>1
  <2>8. lost # kept
    BY <2>4, <2>7
  <2> QED
    BY <2>1, <2>3, <2>7, <2>8 DEF Chronological
<1>2. Init => IInv /\ OInv /\ CInv
  BY InitKeeps, InitOrders, InitReads
<1>3. BufferFills = FALSE /\ IInv /\ OInv /\ CInv /\ [Next]_vars => (IInv /\ OInv /\ CInv)'
  BY NextKeeps, NextOrders, NextReads
<1> QED
  BY <1>1, <1>2, <1>3, PTL DEF Spec

-----------------------------------------------------------------------------
(* Logs that tell the epochs of their changes.  Epochs that go back, as they *)
(* do behind the end of an earlier recovery, do no harm to this.            *)

LEMMA BeginningTruthful ==
  ASSUME NEW ch, NEW s \in Seq(Records), NEW t \in Seq(Records), Begins(s, t), Truthful(t, ch)
  PROVE  Truthful(s, ch) /\ ChangesIn(s) \subseteq ChangesIn(t)
<1>1. Len(s) \in Nat /\ Places(s, "change") \subseteq 1..Len(s)
  BY PlacesOf
<1>2. \A i \in Places(s, "change") : i \in Places(t, "change") /\ s[i] = t[i]
  BY BeginningPlaces
<1>3. \A i \in Places(s, "change") : EpochAt(s, i) = EpochAt(t, i)
  <2>1. 1..Len(s) \subseteq 0..Len(s)
    BY <1>1
  <2> QED
    BY <1>1, <2>1, BeginningEpochs
<1> QED
  BY <1>2, <1>3 DEF Truthful, ChangesIn

LEMMA TruthfulFrame ==
  ASSUME NEW s, NEW ch, NEW later, Truthful(s, ch),
         \A n \in 1..Len(ch) : n \in 1..Len(later) /\ later[n] = ch[n]
  PROVE  Truthful(s, later)
BY DEF Truthful

LEMMA TruthfulChanges ==
  ASSUME NEW s, NEW ch, Truthful(s, ch)
  PROVE  ChangesIn(s) \subseteq 1..Len(ch)
BY DEF Truthful, ChangesIn

\* record() tells the epoch of its change.
LEMMA StoreTruthful ==
  ASSUME LogsOK, NEW w \in Writers, Store(w), NEW ch, Truthful(Whole(LogOf[w]), ch),
         logEpoch[LogOf[w]] # 0 => LastEpoch(Whole(LogOf[w])) = logEpoch[LogOf[w]],
         0 < epoch[w], change[w] \in 1..Len(ch), ch[change[w]].epoch = epoch[w]
  PROVE  Truthful(Whole(LogOf[w])', ch) /\ LastEpoch(Whole(LogOf[w])') = epoch[w]
<1> DEFINE l == LogOf[w]
           e == epoch[w]
           E == EpochRecord(e)
           C == ChangeRecord(change[w])
<1>1. l \in Logs /\ e \in Nat /\ change[w] \in Nat /\ Whole(l) \in Seq(Records)
  BY LogOfAssumption, WholeType DEF LogsOK
<1>2. /\ E \in Records /\ E.cmd = "epoch" /\ E.epoch = e
      /\ C \in Records /\ C.cmd = "change" /\ C.change = change[w]
      /\ WakeRecord \in Records /\ WakeRecord.cmd = "wake"
  BY <1>1, RecordTypes DEF EpochRecord, WakeRecord
<1>3. PICK p : /\ p = IF e # logEpoch[l] THEN Whole(l) \o <<E>> ELSE Whole(l)
               /\ \/ Whole(l)' = p \o <<C>>
                  \/ Whole(l)' = (p \o <<WakeRecord>>) \o <<C>>
  BY StoreShape
<1>4. Truthful(Whole(l), ch)
  OBVIOUS
<1>5. e = logEpoch[l] => LastEpoch(Whole(l)) = e
  BY <1>1
<1> HIDE DEF C, E, l
<1>6. p \in Seq(Records) /\ Truthful(p, ch) /\ LastEpoch(p) = e
  <2>1. CASE e # logEpoch[l]
    <3>1. p = Whole(l) \o <<E>>
      BY <1>3, <2>1
    <3>2. /\ Whole(l) \o <<E>> \in Seq(Records)
          /\ Truthful(Whole(l) \o <<E>>, ch)
          /\ LastEpoch(Whole(l) \o <<E>>) = E.epoch
      BY <1>1, <1>2, <1>4, ExtendedTruthful
    <3> QED
      BY <1>2, <3>1, <3>2
  <2>2. CASE e = logEpoch[l]
    BY <1>1, <1>3, <1>4, <1>5, <2>2
  <2> QED
    BY <2>1, <2>2
<1>7. ASSUME NEW q \in Seq(Records), Truthful(q, ch), LastEpoch(q) = e
      PROVE  Truthful(q \o <<C>>, ch) /\ LastEpoch(q \o <<C>>) = e
  BY <1>2, <1>7, ExtendedTruthful
<1>8. PICK q \in Seq(Records) : q = p \o <<WakeRecord>> /\ Truthful(q, ch) /\ LastEpoch(q) = e
  BY <1>2, <1>6, ExtendedTruthful
<1>9. CASE Whole(l)' = p \o <<C>>
  <2>1. Truthful(p \o <<C>>, ch) /\ LastEpoch(p \o <<C>>) = e
    BY <1>6, <1>7
  <2> QED
    BY <1>9, <2>1 DEF l
<1>10. CASE Whole(l)' = (p \o <<WakeRecord>>) \o <<C>>
  <2>1. Truthful(q \o <<C>>, ch) /\ LastEpoch(q \o <<C>>) = e
    BY <1>7, <1>8
  <2> QED
    BY <1>8, <1>10, <2>1 DEF l
<1> QED
  BY <1>3, <1>9, <1>10

LEMMA PassTruthful ==
  ASSUME LogsOK, NEW l \in Logs, LoggerPass(l), NEW ch, Truthful(Whole(l), ch),
         logEpoch[l] # 0 => LastEpoch(Whole(l)) = logEpoch[l]
  PROVE  /\ Truthful(Whole(l)', ch)
         /\ logEpoch'[l] # 0 => LastEpoch(Whole(l)') = logEpoch'[l]
<1> DEFINE E == EpochRecord(globalLogEpoch)
<1>1. globalLogEpoch \in Nat /\ Whole(l) \in Seq(Records)
  BY WholeType DEF LogsOK
<1>2. /\ E \in Records /\ E.cmd = "epoch" /\ E.epoch = globalLogEpoch
      /\ QuiesceRecord \in Records /\ QuiesceRecord.cmd = "quiesce"
  BY <1>1, RecordTypes DEF EpochRecord, QuiesceRecord
<1>3. /\ Whole(l)' = IF Quiesces(l) THEN (Whole(l) \o <<E>>) \o <<QuiesceRecord>> ELSE Whole(l)
      /\ logEpoch'[l] = IF Quiesces(l) THEN globalLogEpoch ELSE logEpoch[l]
  BY PassShape, PassEffect
<1> HIDE DEF E
<1>4. CASE Quiesces(l)
  <2>1. PICK q \in Seq(Records) : /\ q = Whole(l) \o <<E>> /\ Truthful(q, ch)
                                  /\ LastEpoch(q) = globalLogEpoch
    BY <1>1, <1>2, ExtendedTruthful
  <2>2. Truthful(q \o <<QuiesceRecord>>, ch) /\ LastEpoch(q \o <<QuiesceRecord>>) = globalLogEpoch
    BY <1>2, <2>1, ExtendedTruthful
  <2> QED
    BY <1>3, <1>4, <2>1, <2>2
<1>5. CASE ~ Quiesces(l)
  BY <1>3, <1>5
<1> QED
  BY <1>4, <1>5

-----------------------------------------------------------------------------
(* What recovery keeps of a log.                                           *)

\* The end of s, from place k on.
LEMMA EndOf ==
  ASSUME NEW s \in Seq(Records), NEW k \in 1..Len(s)
  PROVE  /\ SubSeq(s, k, Len(s)) \in Seq(Records)
         /\ Len(SubSeq(s, k, Len(s))) = Len(s) - k + 1
         /\ \A i \in 1..(Len(s) - k + 1) : SubSeq(s, k, Len(s))[i] = s[i + k - 1]
<1>1. Len(s) \in Nat /\ k \in Nat /\ k <= Len(s) /\ \A i \in k..Len(s) : s[i] \in Records
  BY LenProperties, ElementOfSeq
<1>2. /\ SubSeq(s, k, Len(s)) \in Seq(Records)
      /\ Len(SubSeq(s, k, Len(s))) = IF k <= Len(s) THEN Len(s) - k + 1 ELSE 0
      /\ \A i \in 1..(Len(s) - k + 1) : SubSeq(s, k, Len(s))[i] = s[k + i - 1]
  BY <1>1, SubSeqProperties
<1>3. \A i \in 1..(Len(s) - k + 1) : k + i - 1 = i + k - 1
  BY <1>1
<1> QED
  BY <1>1, <1>2, <1>3

\* An end that starts with an epoch is as truthful as the log.
LEMMA EndTruthful ==
  ASSUME NEW ch, NEW s \in Seq(Records), Truthful(s, ch), NEW k \in Places(s, "epoch"), NEW t,
         t = SubSeq(s, k, Len(s))
  PROVE  /\ t \in Seq(Records) /\ t # <<>> /\ Truthful(t, ch)
         /\ ChangesIn(t) \subseteq ChangesIn(s)
         /\ \A i \in Places(s, "change") : k < i => s[i].change \in ChangesIn(t)
         /\ EndsQuiescent(t) <=> EndsQuiescent(s)
<1>1. /\ k \in 1..Len(s) /\ s[k].cmd = "epoch" /\ Len(s) \in Nat /\ DOMAIN s = 1..Len(s)
      /\ \A cmd : Places(s, cmd) \subseteq 1..Len(s)
  BY PlacesOf
<1>2. /\ t \in Seq(Records) /\ Len(t) = Len(s) - k + 1
      /\ \A i \in 1..(Len(s) - k + 1) : t[i] = s[i + k - 1]
  BY <1>1, EndOf
<1>3. /\ k \in Nat /\ Len(t) \in Nat /\ Len(t) # 0 /\ DOMAIN t = 1..Len(t)
      /\ \A i \in 1..Len(t) : i + k - 1 \in 1..Len(s) /\ t[i] = s[i + k - 1] /\ i + k - 1 \in Nat
      /\ \A i \in k..Len(s) : i - k + 1 \in 1..Len(t) /\ t[i - k + 1] = s[i]
  <2>1. k \in Nat /\ Len(t) \in Nat /\ Len(t) # 0 /\ DOMAIN t = 1..Len(t)
    BY <1>1, <1>2, LenProperties
  <2>2. \A i \in 1..Len(t) : i + k - 1 \in 1..Len(s) /\ t[i] = s[i + k - 1] /\ i + k - 1 \in Nat
    BY <1>1, <1>2
  <2>3. \A i \in k..Len(s) : i - k + 1 \in 1..Len(t) /\ (i - k + 1) + k - 1 = i
    BY <1>1, <1>2
  <2> QED
    BY <2>1, <2>2, <2>3
<1>4. t # <<>>
  BY <1>3
<1>5. \A cmd : \A i \in Places(t, cmd) : i \in 1..Len(t) /\ i + k - 1 \in Places(s, cmd)
  BY <1>1, <1>3 DEF Places
<1>6. ASSUME NEW i \in Places(t, "change") PROVE EpochAt(t, i) = EpochAt(s, i + k - 1)
  <2>1. i \in 1..Len(t) /\ i + k - 1 \in 1..Len(s) /\ i + k - 1 \in Nat /\ k <= i + k - 1
        /\ i \in Nat
    BY <1>1, <1>3, <1>5
  <2>2. PICK j \in Nat : HoldsAt(s, i + k - 1, j) /\ EpochAt(s, i + k - 1) = s[j].epoch
    <3>1. ~ (k > i + k - 1)
      BY <1>3, <2>1
    <3> QED
      BY <2>1, <3>1, EpochAtIs
  <2>3. j \in Places(s, "epoch") /\ j <= i + k - 1 /\ k <= j /\ j \in 1..Len(s)
    BY <1>1, <2>1, <2>2 DEF HoldsAt
  <2>4. j - k + 1 \in 1..Len(t) /\ t[j - k + 1] = s[j] /\ j - k + 1 <= i
    BY <1>1, <1>3, <2>1, <2>3
  <2>5. s[j].cmd = "epoch"
    BY <2>3 DEF Places
  <2>6. HoldsAt(t, i, j - k + 1)
    <3>1. j - k + 1 \in Places(t, "epoch")
      BY <1>3, <2>4, <2>5 DEF Places
    <3>2. ASSUME NEW m \in Places(t, "epoch"), m <= i PROVE m <= j - k + 1
      <4>1. m + k - 1 \in Places(s, "epoch") /\ m \in 1..Len(t)
        BY <1>5
      <4>2. m + k - 1 <= i + k - 1
        BY <1>3, <2>1, <3>2, <4>1
      <4>3. m + k - 1 <= j
        BY <2>2, <4>1, <4>2 DEF HoldsAt
      <4> QED
        BY <1>3, <2>2, <4>1, <4>3
    <3> QED
      BY <2>4, <3>1, <3>2 DEF HoldsAt
  <2>7. EpochAt(t, i) = t[j - k + 1].epoch
    BY <1>2, <2>1, <2>6, HoldsAtIs
  <2> QED
    BY <2>2, <2>4, <2>7
<1>7. Truthful(t, ch)
  BY <1>3, <1>5, <1>6 DEF Truthful
<1>8. ChangesIn(t) \subseteq ChangesIn(s)
  BY <1>3, <1>5 DEF ChangesIn
<1>9. ASSUME NEW i \in Places(s, "change"), k < i PROVE s[i].change \in ChangesIn(t)
  <2>1. i \in k..Len(s) /\ s[i].cmd = "change"
    BY <1>1, <1>3, <1>9 DEF Places
  <2>2. i - k + 1 \in 1..Len(t) /\ t[i - k + 1] = s[i]
    BY <1>3, <2>1
  <2>3. i - k + 1 \in Places(t, "change")
    BY <1>3, <2>1, <2>2 DEF Places
  <2> QED
    BY <2>2, <2>3 DEF ChangesIn
<1>10. EndsQuiescent(t) <=> EndsQuiescent(s)
  <2>1. s # <<>> /\ Len(s) \in k..Len(s)
    BY <1>1, <1>3
  <2>2. t[Len(s) - k + 1] = s[Len(s)]
    BY <1>3, <2>1
  <2> QED
    BY <1>2, <1>4, <2>1, <2>2 DEF EndsQuiescent, Last
<1> QED
  BY <1>2, <1>4, <1>7, <1>8, <1>9, <1>10


\* A log up to its first epoch at or beyond a limit has no change beyond it.
LEMMA KeptTruthful ==
  ASSUME NEW ch, NEW s \in Seq(Records), Truthful(s, ch), NEW max \in Nat
  PROVE  /\ Kept(s, max) \in Seq(Records) /\ Begins(Kept(s, max), s)
         /\ Truthful(Kept(s, max), ch)
         /\ \A n \in ChangesIn(Kept(s, max)) : ch[n].epoch = 0 \/ ch[n].epoch < max
<1> DEFINE beyond == {i \in Places(s, "epoch") : s[i].epoch >= max}
<1>1. /\ beyond \in SUBSET Nat /\ beyond \subseteq 1..Len(s) /\ Len(s) \in Nat
      /\ \A i \in Places(s, "epoch") : s[i].epoch \in Nat
      /\ \A cmd : Places(s, cmd) \subseteq 1..Len(s)
  BY PlacesOf, RecordForm
<1>2. PICK m \in 0..Len(s) : /\ Kept(s, max) = SubSeq(s, 1, m) \/ (m = Len(s) /\ Kept(s, max) = s)
                             /\ \A i \in Places(s, "epoch") : i < m => s[i].epoch < max
                             /\ m \in Places(s, "epoch") => s[m].epoch >= max \/ m = Len(s)
                             /\ \/ m \in Places(s, "epoch")
                                \/ \A i \in Places(s, "epoch") : s[i].epoch < max
  <2>1. CASE beyond = {}
    <3>1. Kept(s, max) = s /\ Len(s) \in 0..Len(s)
      BY <1>1, <2>1 DEF Kept
    <3>2. \A i \in Places(s, "epoch") : s[i].epoch < max
      BY <1>1, <2>1
    <3> QED
      BY <3>1, <3>2
  <2>2. CASE beyond # {}
    <3>1. PICK m \in beyond : m = Min(beyond) /\ \A y \in beyond : m <= y
      <4> HIDE DEF beyond
      <4> QED
        BY <1>1, <2>2, LeastOf
    <3>2. m \in Places(s, "epoch") /\ s[m].epoch >= max /\ m \in 0..Len(s)
      BY <1>1, <3>1
    <3>3. ASSUME NEW i \in Places(s, "epoch"), i < m PROVE s[i].epoch < max
      <4>1. i \in Nat /\ m \in Nat
        BY <1>1, <3>1
      <4>2. i \notin beyond
        BY <3>1, <3>3, <4>1
      <4> QED
        BY <1>1, <4>2
    <3>4. Kept(s, max) = SubSeq(s, 1, m)
      BY <2>2, <3>1 DEF Kept
    <3> QED
      BY <3>2, <3>3, <3>4
  <2> QED
    BY <2>1, <2>2
<1>3. PICK p : p = Kept(s, max)
  OBVIOUS
<1>4. p \in Seq(Records) /\ Begins(p, s) /\ Len(p) = m
  <2>1. CASE p = SubSeq(s, 1, m)
    <3>1. SubSeq(s, 1, m) \in Seq(Records) /\ Begins(SubSeq(s, 1, m), s)
      BY PrefixContents
    <3>2. Len(SubSeq(s, 1, m)) = m
      BY <1>1, SubSeqProperties
    <3> QED
      BY <2>1, <3>1, <3>2
  <2>2. CASE m = Len(s) /\ p = s
    BY <1>1, <2>2 DEF Begins
  <2> QED
    BY <1>2, <1>3, <2>1, <2>2
<1>5. Truthful(p, ch)
  BY <1>4, BeginningTruthful
<1>6. ASSUME NEW n \in ChangesIn(p) PROVE ch[n].epoch = 0 \/ ch[n].epoch < max
  <2>1. PICK i \in Places(p, "change") : n = p[i].change
    BY DEF ChangesIn
  <2>2. /\ i \in 1..m /\ i \in Nat /\ m \in Nat /\ i \in Places(s, "change")
        /\ ch[n].epoch = EpochAt(p, i)
    BY <1>1, <1>4, <1>5, <2>1, PlacesOf, BeginningPlaces DEF Truthful
  <2>3. CASE EpochAt(p, i) = 0
    BY <2>2, <2>3
  <2>4. ASSUME NEW j \in Nat, HoldsAt(p, i, j), EpochAt(p, i) = p[j].epoch
        PROVE  ch[n].epoch < max
    <3>1. j \in Places(p, "epoch") /\ j <= i
      BY <2>4 DEF HoldsAt
    <3>2. j \in Places(s, "epoch") /\ p[j] = s[j]
      BY <1>4, <3>1, BeginningPlaces
    <3>3. j # i
      BY <2>2, <3>2 DEF Places
    <3>4. j < m
      BY <2>2, <3>1, <3>3
    <3> QED
      BY <1>2, <2>2, <2>4, <3>2, <3>4
  <2> QED
    BY <1>4, <2>2, <2>3, <2>4, EpochAtIs
<1> QED
  BY <1>3, <1>4, <1>5, <1>6

\* What KeptFrom() returns is empty, or starts at the last epoch before min.
LEMMA KeptFromIs ==
  ASSUME NEW s \in Seq(Records), NEW min \in Nat \ {0}, NEW max \in Nat,
         Kept(s, max) \in Seq(Records), Begins(Kept(s, max), s)
  PROVE  \/ /\ KeptFrom(s, min, max) = <<>>
            /\ \/ \A i \in Places(s, "epoch") : s[i].epoch >= min
               \/ \E k \in Places(s, "epoch") : s[k].epoch < min /\ k > Len(Kept(s, max))
         \/ \E k \in Places(Kept(s, max), "epoch") :
              /\ s[k].epoch < min /\ k \in Places(s, "epoch")
              /\ KeptFrom(s, min, max) = SubSeq(Kept(s, max), k, Len(Kept(s, max)))
<1> DEFINE older == {i \in Places(s, "epoch") : s[i].epoch < min}
<1>1. /\ older \in SUBSET Nat /\ older \subseteq 1..Len(s) /\ Len(s) \in Nat
      /\ \A i \in older : i <= Len(s)
      /\ \A i \in Places(s, "epoch") : s[i].epoch \in Nat
  BY PlacesOf, RecordForm
<1>2. PICK K \in Seq(Records) : K = Kept(s, max)
  OBVIOUS
<1>3. Len(K) \in Nat /\ Begins(K, s)
  BY <1>2, LenProperties
<1>4. CASE older = {}
  <2>1. KeptFrom(s, min, max) = <<>>
    BY <1>4 DEF KeptFrom
  <2>2. \A i \in Places(s, "epoch") : s[i].epoch >= min
    BY <1>1, <1>4
  <2> QED
    BY <2>1, <2>2
<1>5. CASE older # {}
  <2>1. PICK k \in older : k = Max(older)
    <3> HIDE DEF older
    <3> QED
      BY <1>1, <1>5, GreatestOf
  <2>2. k \in Places(s, "epoch") /\ s[k].epoch < min /\ k \in 1..Len(s)
    BY <1>1, <2>1
  <2>3. KeptFrom(s, min, max) = SubSeq(K, k, Len(K))
    BY <1>2, <1>5, <2>1 DEF KeptFrom
  <2>4. CASE k <= Len(K)
    <3>1. k \in Places(K, "epoch")
      BY <1>3, <2>2, <2>4, BeginningPlaces
    <3> QED
      BY <1>2, <2>2, <2>3, <3>1
  <2>5. CASE k > Len(K)
    <3>1. SubSeq(K, k, Len(K)) = <<>>
      <4>1. /\ SubSeq(K, k, Len(K)) \in Seq(Records)
            /\ Len(SubSeq(K, k, Len(K))) = IF k <= Len(K) THEN Len(K) - k + 1 ELSE 0
        <5>1. \A i \in k..Len(K) : K[i] \in Records
          BY <1>1, <1>3, <2>2, <2>5
        <5> QED
          BY <1>1, <1>3, <2>2, <5>1, SubSeqProperties
      <4>2. Len(SubSeq(K, k, Len(K))) = 0
        BY <1>1, <1>3, <2>2, <2>5, <4>1
      <4> QED
        BY <4>1, <4>2, EmptySeq
    <3> QED
      BY <1>2, <2>2, <2>3, <2>5, <3>1
  <2> QED
    BY <1>1, <1>3, <2>2, <2>4, <2>5
<1> QED
  BY <1>4, <1>5

LEMMA KeptFromTruthful ==
  ASSUME NEW ch, NEW s \in Seq(Records), Truthful(s, ch), NEW min \in Nat, NEW max \in Nat
  PROVE  /\ KeptFrom(s, min, max) \in Seq(Records)
         /\ Truthful(KeptFrom(s, min, max), ch)
         /\ ChangesIn(KeptFrom(s, min, max)) \subseteq ChangesIn(s)
         /\ \A n \in ChangesIn(KeptFrom(s, min, max)) : ch[n].epoch = 0 \/ ch[n].epoch < max
<1>1. PICK K \in Seq(Records) : K = Kept(s, max)
  BY KeptTruthful
<1>2. /\ Begins(K, s) /\ Truthful(K, ch) /\ ChangesIn(K) \subseteq ChangesIn(s)
      /\ \A n \in ChangesIn(K) : ch[n].epoch = 0 \/ ch[n].epoch < max
  BY <1>1, KeptTruthful, BeginningTruthful
<1>3. PICK d : d = KeptFrom(s, min, max)
  OBVIOUS
<1>4. \/ d = K
      \/ d = <<>>
      \/ \E k \in Places(K, "epoch") : d = SubSeq(K, k, Len(K))
  <2>1. CASE min = 0
    BY <1>1, <1>3, <2>1 DEF KeptFrom
  <2>2. CASE min # 0
    BY <1>1, <1>2, <1>3, <2>2, KeptFromIs
  <2> QED
    BY <2>1, <2>2
<1>5. CASE d = <<>>
  BY <1>3, <1>5, EmptySound, EmptyContents DEF Sound
<1>6. ASSUME NEW k \in Places(K, "epoch"), d = SubSeq(K, k, Len(K))
      PROVE  d \in Seq(Records) /\ Truthful(d, ch) /\ ChangesIn(d) \subseteq ChangesIn(K)
  BY <1>2, <1>6, EndTruthful
<1> QED
  BY <1>2, <1>3, <1>4, <1>5, <1>6

\* Of a sound log that begins before min, only changes made before min or at or
\* beyond the limit are lost; it is silent then only if it was, or is lost.
LEMMA KeptBehindSound ==
  ASSUME NEW ch, NEW s \in Seq(Records), Sound(s, ch), NEW min \in Nat \ {0}, NEW max \in Nat,
         min < max, s # <<>> => s[1].epoch < min
  PROVE  /\ \A n \in ChangesIn(s) \ ChangesIn(KeptFrom(s, min, max)) :
              ch[n].epoch >= min => max <= ch[n].epoch
         /\ \/ KeptFrom(s, min, max) = <<>> \/ EndsQuiescent(KeptFrom(s, min, max))
            \/ max <= LastEpoch(s) \/ (s # <<>> /\ ~ EndsQuiescent(s))
<1>0. max \in Nat \ {0} /\ Truthful(s, ch) /\ Rising(s) /\ Leading(s)
  BY DEF Sound
<1>1. PICK K \in Seq(Records) : K = Kept(s, max)
  BY <1>0, KeptTruthful
<1>2. /\ Begins(K, s) /\ Truthful(K, ch) /\ ChangesIn(K) \subseteq ChangesIn(s)
  BY <1>0, <1>1, KeptTruthful, BeginningTruthful
<1>3. K = s \/ max <= LastEpoch(K)
  BY <1>1, KeptSound
<1>4. /\ Len(K) \in Nat /\ Len(s) \in Nat /\ Len(K) <= Len(s) /\ DOMAIN s = 1..Len(s)
      /\ LastEpoch(K) = EpochAt(s, Len(K)) /\ LastEpoch(K) \in Nat /\ LastEpoch(s) \in Nat
  <2>1. Len(K) \in Nat /\ Len(s) \in Nat /\ Len(K) <= Len(s) /\ DOMAIN s = 1..Len(s)
    BY <1>2, LenProperties DEF Begins
  <2>2. Len(K) \in 0..Len(K)
    BY <2>1
  <2> QED
    BY <1>2, <2>1, <2>2, BeginningEpochs, LastEpochType DEF LastEpoch
<1>5. LastEpoch(K) <= LastEpoch(s)
  BY <1>0, <1>4, RisingEpochs DEF LastEpoch
<1>6. PICK d : d = KeptFrom(s, min, max)
  OBVIOUS
<1>7. \/ s = <<>> /\ d = <<>>
      \/ \E k \in Places(K, "epoch") : s[k].epoch < min /\ k \in Places(s, "epoch")
                                       /\ d = SubSeq(K, k, Len(K))
  <2>1. ASSUME \A i \in Places(s, "epoch") : s[i].epoch >= min, s # <<>> PROVE FALSE
    <3>1. Len(s) # 0
      BY <2>1, EmptySeq
    <3>2. 1 \in Places(s, "epoch")
      BY <1>0, <1>4, <2>1, <3>1 DEF Leading, Places
    <3>3. s[1].epoch >= min /\ s[1].epoch < min /\ s[1].epoch \in Nat
      BY <2>1, <3>2, PlacesOf, RecordForm
    <3> QED
      BY <3>3
  <2>2. ASSUME NEW k \in Places(s, "epoch"), s[k].epoch < min, k > Len(K) PROVE FALSE
    <3>1. k \in Nat /\ k \in 1..Len(s) /\ s[k].epoch \in Nat
      BY PlacesOf, RecordForm
    <3>2. EpochAt(s, k) = s[k].epoch
      BY <3>1, HoldsAtIs DEF HoldsAt
    <3>3. EpochAt(s, Len(K)) <= EpochAt(s, k)
      BY <1>0, <1>4, <2>2, <3>1, RisingEpochs
    <3>4. K # s
      BY <1>4, <2>2, <3>1
    <3> QED
      BY <1>3, <1>4, <2>2, <3>1, <3>2, <3>3, <3>4
  <2>3. \/ /\ d = <<>>
           /\ \/ \A i \in Places(s, "epoch") : s[i].epoch >= min
              \/ \E k \in Places(s, "epoch") : s[k].epoch < min /\ k > Len(K)
        \/ \E k \in Places(K, "epoch") : /\ s[k].epoch < min /\ k \in Places(s, "epoch")
                                         /\ d = SubSeq(K, k, Len(K))
    BY <1>1, <1>2, <1>6, KeptFromIs
  <2>4. CASE \A i \in Places(s, "epoch") : s[i].epoch >= min
    <3>1. s = <<>>
      BY <2>1, <2>4
    <3>2. Places(s, "epoch") = {}
      BY <3>1 DEF Places
    <3> QED
      BY <2>3, <3>1, <3>2
  <2> QED
    BY <2>2, <2>3, <2>4
<1>8. ASSUME NEW n \in ChangesIn(s) \ ChangesIn(d), ch[n].epoch >= min PROVE max <= ch[n].epoch
  <2>1. PICK i \in Places(s, "change") : n = s[i].change
    BY DEF ChangesIn
  <2>2. i \in 1..Len(s) /\ i \in Nat /\ ch[n].epoch = EpochAt(s, i) /\ ch[n].epoch \in Nat
    <3>1. i \in 1..Len(s)
      BY <2>1, PlacesOf
    <3>2. i \in Nat
      BY <1>4, <3>1
    <3>3. ch[n].epoch = EpochAt(s, i)
      BY <1>0, <2>1 DEF Truthful
    <3> QED
      BY <3>1, <3>2, <3>3, EpochAtType
  <2>3. CASE n \in ChangesIn(K)
    <3>1. PICK m \in Places(K, "change") : n = K[m].change
      BY <2>3 DEF ChangesIn
    <3>2. ChangesIn(s) # {} => s # <<>>
      BY EmptyContents
    <3>3. PICK k \in Places(K, "epoch") : s[k].epoch < min /\ k \in Places(s, "epoch")
                                          /\ d = SubSeq(K, k, Len(K))
      BY <1>7, <3>2
    <3>4. ~ (k < m)
      BY <1>2, <3>1, <3>3, EndTruthful
    <3>5. /\ m \in Places(s, "change") /\ K[m] = s[m] /\ m \in Nat /\ k \in Nat
          /\ EpochAt(s, m) = ch[n].epoch /\ s[k].epoch \in Nat
      <4>1. m \in Places(s, "change") /\ K[m] = s[m]
        BY <1>2, <3>1, BeginningPlaces
      <4>2. m \in Nat /\ k \in Nat /\ s[k].epoch \in Nat
        BY <3>3, <4>1, PlacesOf, RecordForm
      <4> QED
        BY <1>0, <3>1, <4>1, <4>2 DEF Truthful
    <3>6. m <= k
      BY <3>4, <3>5
    <3>7. EpochAt(s, k) = s[k].epoch
      BY <3>3, <3>5, HoldsAtIs DEF HoldsAt
    <3>8. EpochAt(s, m) <= EpochAt(s, k)
      BY <1>0, <3>5, <3>6, RisingEpochs
    <3> QED
      BY <1>8, <2>2, <3>3, <3>5, <3>7, <3>8
  <2>4. CASE n \notin ChangesIn(K)
    <3>1. LastEpoch(K) <= ch[n].epoch
      BY <1>2, <2>4, AfterBeginning
    <3>2. K # s
      BY <2>1, <2>4 DEF ChangesIn
    <3>3. max <= LastEpoch(K)
      BY <1>3, <3>2
    <3>4. LastEpoch(K) \in Nat /\ ch[n].epoch \in Nat
      BY <1>4, <2>2
    <3> QED
      BY <3>1, <3>3, <3>4
  <2> QED
    BY <2>3, <2>4
<1>9. ASSUME d # <<>>, ~ EndsQuiescent(d), ~ (max <= LastEpoch(s)) PROVE s # <<>> /\ ~ EndsQuiescent(s)
  <2>1. K = s
    BY <1>3, <1>4, <1>5, <1>9
  <2>2. PICK k \in Places(K, "epoch") : d = SubSeq(K, k, Len(K))
    BY <1>7, <1>9
  <2>3. EndsQuiescent(d) <=> EndsQuiescent(s)
    BY <1>2, <2>1, <2>2, EndTruthful
  <2>4. s # <<>>
    BY <2>1, <2>2 DEF Places
  <2> QED
    BY <1>9, <2>3, <2>4
<1> QED
  BY <1>6, <1>8, <1>9

\* The same without a checkpoint.
LEMMA KeptFromSound ==
  ASSUME NEW ch, NEW s \in Seq(Records), Sound(s, ch), NEW min \in Nat, NEW max \in Nat,
         min # 0 => min < max, min # 0 /\ s # <<>> => s[1].epoch < min
  PROVE  /\ \A n \in ChangesIn(s) \ ChangesIn(KeptFrom(s, min, max)) :
              ch[n].epoch >= min => max <= ch[n].epoch
         /\ \/ KeptFrom(s, min, max) = <<>> \/ EndsQuiescent(KeptFrom(s, min, max))
            \/ max <= LastEpoch(s) \/ (s # <<>> /\ ~ EndsQuiescent(s))
<1>1. CASE min # 0
  BY <1>1, KeptBehindSound
<1>2. CASE min = 0
  <2>1. PICK K \in Seq(Records) : K = Kept(s, max)
    BY KeptSound
  <2>2. K = KeptFrom(s, min, max) /\ Begins(K, s) /\ (K = s \/ max <= LastEpoch(K))
    BY <1>2, <2>1, KeptSound DEF KeptFrom
  <2>3. LastEpoch(K) \in Nat /\ LastEpoch(s) \in Nat /\ LastEpoch(K) <= LastEpoch(s)
    <3>1. Len(K) \in Nat /\ Len(s) \in Nat /\ Len(K) <= Len(s) /\ Len(K) \in 0..Len(K)
      BY <2>2, LenProperties DEF Begins
    <3>2. LastEpoch(K) = EpochAt(s, Len(K))
      BY <2>2, <3>1, BeginningEpochs DEF LastEpoch
    <3> QED
      BY <3>1, <3>2, LastEpochType, RisingEpochs DEF Sound, LastEpoch
  <2>4. ASSUME NEW n \in ChangesIn(s) \ ChangesIn(K) PROVE max <= ch[n].epoch
    <3>1. LastEpoch(K) <= ch[n].epoch /\ K # s
      BY <2>2, <2>4, AfterBeginning
    <3>2. ch[n].epoch \in Nat
      <4>1. PICK i \in Places(s, "change") : n = s[i].change
        BY <2>4 DEF ChangesIn
      <4>2. i \in Nat /\ ch[n].epoch = EpochAt(s, i)
        BY <4>1, PlacesOf, LenProperties DEF Sound, Truthful
      <4> QED
        BY <4>2, EpochAtType
    <3> QED
      BY <2>2, <2>3, <3>1, <3>2
  <2>5. \/ K = <<>> \/ EndsQuiescent(K)
        \/ max <= LastEpoch(s) \/ (s # <<>> /\ ~ EndsQuiescent(s))
    BY <2>2, <2>3
  <2> QED
    BY <2>2, <2>4, <2>5
<1> QED
  BY <1>1, <1>2

-----------------------------------------------------------------------------
(* The invariant, in two parts.  The logs first.                           *)

ChangeForm == [log : Logs, epoch : Nat \ {0}, made : Nat]

LogTypes ==
  /\ LogsOK
  /\ lock \in [Logs -> Writers \cup {NoWriter}]
  /\ pc \in [Writers -> {"idle", "applying", "recording"}]
  /\ changes \in Seq(ChangeForm)
  /\ tree \subseteq 1..Len(changes) /\ answered \subseteq tree
  /\ recovered \subseteq 1..Len(changes) /\ replayed \subseteq 1..Len(changes)
  /\ phase \in {"up", "replay", "aborted"} /\ crashes \in Nat /\ replayMax \in Nat
  /\ toReplay \subseteq Logs

\* A writer keeps the lock of its log from reading the epoch to the record, so
\* that the log does not move on from that epoch.
Busy(w) ==
  /\ pc[w] # "idle" =>
       /\ lock[LogOf[w]] = w
       /\ 0 < epoch[w] /\ logEpoch[LogOf[w]] <= epoch[w] /\ epoch[w] <= globalLogEpoch
  /\ pc[w] = "recording" =>
       /\ change[w] \in 1..Len(changes) /\ change[w] \in tree
       /\ changes[change[w]].log = LogOf[w] /\ changes[change[w]].epoch = epoch[w]

\* A log tells the epochs of its changes, and has what was answered since the
\* process started.
Told(l) ==
  /\ Truthful(Whole(l), changes)
  /\ logEpoch[l] # 0 => LastEpoch(Whole(l)) = logEpoch[l]
  /\ phase = "up" => Answered(l) \ recovered \subseteq ChangesIn(Whole(l))

\* Until it is up, a new process has nothing in memory.
Down ==
  phase # "up" =>
    /\ globalLogEpoch = 1 /\ \A w \in Writers : pc[w] = "idle"
    /\ \A l \in Logs : logEpoch[l] = 0 /\ buf[l] = <<>> /\ flushing[l] = Nothing

LInv ==
  /\ LogTypes
  /\ \A w \in Writers : Busy(w)
  /\ \A l \in Logs : Told(l) /\ EpochsInOrder(l)
  /\ Down

\* The key of each change, and of the one that a writer is about to make.
Keyed ==
  /\ keyOf \in Seq(Keys) /\ Len(keyOf) = Len(changes)
  /\ row \in [Writers -> Keys \cup {Unread}]
  /\ \A w \in Writers : pc[w] = "applying" => row[w] \in Keys

\* The checkpoints.  There is none while gen is 0.
CkpTypes ==
  /\ ckpGen \in 0..MaxGen /\ ckpPhase \in {"ready", "scan", "prepared", "committed"}
  /\ minEpoch \in Nat /\ maxEpoch \in Nat
  /\ scan = [k \in Keys |-> scan[k]]
  /\ ckState \in [Ckps -> {"Ready", "Go", "writing"}]
  /\ files = [g \in Gens |-> [c \in Ckps |-> files[g][c]]]
  /\ committed \in [gen : 0..MaxGen, min : Nat, max : Nat]
  /\ IF committed.gen = 0 THEN committed.min = 0 /\ committed.max = 0 ELSE committed.min # 0

Making == ckpPhase \in {"scan", "prepared"}

\* Recovery leaves everything it brought back behind the new epoch.
Past ==
  /\ phase = "up" =>
       /\ \A n \in recovered : changes[n].epoch < globalLogEpoch
       /\ \A n \in tree : changes[n].epoch <= globalLogEpoch
       /\ committed.min <= globalLogEpoch
  /\ phase = "replay" =>
       /\ committed.gen # 0 => committed.min < replayMax /\ committed.max < replayMax
       /\ \A n \in replayed : changes[n].epoch \in committed.min..(replayMax - 1)

\* What is in S was made before the end of the scan.
Bound == IF ckpPhase = "prepared" THEN maxEpoch ELSE globalLogEpoch
Within(S) == \A n \in S : n \in 1..Len(changes) /\ changes[n].epoch <= Bound

\* The changes of row k that the checkpoint being made must have.
Older(k) == {n \in tree \ Late : keyOf[n] = k /\ changes[n].epoch < minEpoch}

Committed ==
  /\ \A n \in CheckpointRows : n \in 1..Len(changes) /\ changes[n].epoch <= committed.max
  /\ \A n \in tree \ Late : changes[n].epoch < committed.min => n \in CheckpointRows
  /\ ckpGen = IF Making THEN committed.gen + 1 ELSE committed.gen
  /\ ckpPhase # "scan" => \A c \in Ckps : ckState[c] = "Ready"
  /\ ckpPhase = "committed" => committed.gen # 0
  /\ phase # "up" => ckpPhase = "ready"

Scanning ==
  Making =>
    /\ 0 < minEpoch /\ minEpoch <= Bound /\ Bound <= globalLogEpoch
    /\ \A n \in recovered : changes[n].epoch < minEpoch
    /\ \A k \in Keys : ckState[RangeOf[k]] = "Ready" => Older(k) \subseteq files[ckpGen][RangeOf[k]]
    /\ \A k \in Keys : ckState[RangeOf[k]] # "Ready" =>
         \/ ckState[RangeOf[k]] = "Go" /\ scan[k] = Unread
         \/ Older(k) \subseteq scan[k] /\ Within(scan[k])
    /\ \A c \in Ckps : ckState[c] = "Ready" => Within(files[ckpGen][c])

\* A thread at rest has emptied its part of the scan.
Unscanned == \A k \in Keys : ckState[RangeOf[k]] = "Ready" => scan[k] = Unread

KInv == Keyed /\ CkpTypes /\ Past /\ Committed /\ Scanning /\ Unscanned

-----------------------------------------------------------------------------
(* The logs keep their invariant.                                          *)

LEMMA BusyFrame ==
  ASSUME NEW w \in Writers, Busy(w), pc'[w] = pc[w], change'[w] = change[w], epoch'[w] = epoch[w],
         pc[w] # "idle" => lock'[LogOf[w]] = lock[LogOf[w]] /\ logEpoch'[LogOf[w]] = logEpoch[LogOf[w]],
         globalLogEpoch \in Nat, globalLogEpoch' \in Nat, epoch[w] \in Nat,
         globalLogEpoch <= globalLogEpoch', tree \subseteq tree',
         \A n \in 1..Len(changes) : n \in 1..Len(changes') /\ changes'[n] = changes[n]
  PROVE  Busy(w)'
BY DEF Busy

LEMMA ToldFrame ==
  ASSUME NEW l \in Logs, Told(l), answered \subseteq 1..Len(changes),
         Whole(l)' = Whole(l), logEpoch'[l] = logEpoch[l],
         UNCHANGED <<answered, recovered, phase>>,
         \A n \in 1..Len(changes) : n \in 1..Len(changes') /\ changes'[n] = changes[n]
  PROVE  Told(l)'
<1>1. Answered(l)' = Answered(l)
  BY DEF Answered
<1>2. Truthful(Whole(l), changes')
  BY TruthfulFrame DEF Told
<1> QED
  BY <1>1, <1>2 DEF Told

LEMMA LaterContents ==
  ASSUME LogsOK', NEW l \in Logs
  PROVE  ChangesIn(Whole(l))' = (OnDisk(l) \cup InFlight(l) \cup InBuffer(l))'
<1>1. PICK s \in Seq(Records), t \in Seq(Records), u \in Seq(Records) :
        s = disk'[l] /\ t = flushing'[l].records /\ u = buf'[l]
  BY DEF LogsOK
<1>2. s \o t \in Seq(Records) /\ ChangesIn(s \o t) = ChangesIn(s) \cup ChangesIn(t)
  BY <1>1, ConcatContents
<1>3. ChangesIn((s \o t) \o u) = ChangesIn(s \o t) \cup ChangesIn(u)
  BY <1>1, <1>2, ConcatContents
<1> QED
  BY <1>1, <1>2, <1>3 DEF Whole, OnDisk, InFlight, InBuffer

LEMMA AnsweredMade == ASSUME LogTypes PROVE answered \subseteq 1..Len(changes)
BY DEF LogTypes

\* A step that does not touch the logs, and adds changes at most.
LEMMA QuietLogs ==
  ASSUME LogTypes, \A l \in Logs : Told(l) /\ EpochsInOrder(l),
         UNCHANGED <<loginfo, disk, answered, recovered, phase>>,
         globalLogEpoch' \in Nat, globalLogEpoch <= globalLogEpoch',
         \A n \in 1..Len(changes) : n \in 1..Len(changes') /\ changes'[n] = changes[n]
  PROVE  \A l \in Logs : Told(l)' /\ EpochsInOrder(l)'
<1>1. globalLogEpoch \in Nat /\ logEpoch \in [Logs -> Nat] /\ answered \subseteq 1..Len(changes)
  BY DEF LogTypes, LogsOK
<1>2. UNCHANGED <<logEpoch, quiescentEpoch, flushedEpoch, buf, flushing>>
  BY DEF loginfo
<1> TAKE l \in Logs
<1>3. Told(l)'
  BY <1>1, <1>2, ToldFrame DEF Whole
<1>4. InFlight(l) \cup InBuffer(l) \subseteq 1..Len(changes)
  <2>1. ChangesIn(Whole(l)) \subseteq 1..Len(changes)
    BY TruthfulChanges DEF Told
  <2> QED
    BY <2>1, WholeType DEF LogTypes
<1>5. EpochsInOrder(l)'
  BY <1>1, <1>2, <1>4, EpochsKept
<1> QED
  BY <1>3, <1>5

LEMMA CheckEpochLogs ==
  ASSUME LInv, CheckEpoch
  PROVE  LInv'
<1>1. /\ phase = "up" /\ globalLogEpoch' = globalLogEpoch + 1
      /\ UNCHANGED <<globalWakeEpoch, loginfo, locks, writers, disk, history, recovery>>
  BY DEF CheckEpoch
<1>2. globalLogEpoch \in Nat \ {0} /\ epoch \in [Writers -> Nat]
  BY DEF LInv, LogTypes, LogsOK
<1>3. LogTypes'
  <2>1. LogTypes /\ UNCHANGED <<lock, pc, change, epoch, changes, tree, answered, recovered, phase,
                                crashes, replayMax, toReplay, replayed>>
    BY <1>1 DEF LInv, locks, writers, history, recovery
  <2>2. LogsOK'
    <3>1. globalLogEpoch' \in Nat \ {0}
      BY <1>1, <1>2
    <3> QED
      BY <1>1, <2>1, <3>1 DEF LogTypes, LogsOK, loginfo
  <2> QED
    BY <2>1, <2>2 DEF LogTypes
<1>4. \A w \in Writers : Busy(w)'
  BY <1>1, <1>2, BusyFrame DEF LInv, locks, writers, loginfo, history
<1>5. \A l \in Logs : Told(l)' /\ EpochsInOrder(l)'
  BY <1>1, <1>2, QuietLogs DEF LInv, history, recovery
<1>6. Down'
  BY <1>1 DEF Down, recovery
<1> QED
  BY <1>3, <1>4, <1>5, <1>6 DEF LInv

LEMMA ReadEpochLogs ==
  ASSUME LInv, NEW w \in Writers, ReadEpoch(w)
  PROVE  LInv'
<1>1. LogTypes /\ globalLogEpoch \in Nat \ {0} /\ epoch \in [Writers -> Nat] /\ LogOf[w] \in Logs
  BY LogOfAssumption DEF LInv, LogTypes, LogsOK
<1>2. /\ phase = "up" /\ pc[w] = "idle" /\ lock[LogOf[w]] = NoWriter
      /\ lock' = [lock EXCEPT ![LogOf[w]] = w]
      /\ epoch' = [epoch EXCEPT ![w] = globalLogEpoch]
      /\ pc' = [pc EXCEPT ![w] = "applying"]
      /\ UNCHANGED <<epochs, loginfo, waiting, change, disk, history, recovery>>
  BY DEF ReadEpoch
<1>3. /\ globalLogEpoch' = globalLogEpoch /\ globalWakeEpoch' = globalWakeEpoch
      /\ UNCHANGED <<logEpoch, quiescentEpoch, wakeEpoch, flushedEpoch, buf, flushing, disk, phase,
                     changes, tree, answered, recovered, crashes, replayMax, toReplay, replayed>>
  BY <1>2 DEF epochs, loginfo, history, recovery
<1>4. LogTypes'
  <2>1. LogsOK'
    <3>1. epoch' \in [Writers -> Nat]
      BY <1>1, <1>2
    <3> QED
      BY <1>1, <1>2, <1>3, <3>1 DEF LogTypes, LogsOK
  <2>2. pc' \in [Writers -> {"idle", "applying", "recording"}]
        /\ lock' \in [Logs -> Writers \cup {NoWriter}]
    BY <1>1, <1>2 DEF LogTypes
  <2> QED
    BY <1>1, <1>3, <2>1, <2>2 DEF LogTypes
<1>5. ASSUME NEW v \in Writers PROVE Busy(v)'
  <2>1. CASE v = w
    <3>1. lock'[LogOf[w]] = w /\ epoch'[w] = globalLogEpoch /\ pc'[w] = "applying"
      BY <1>1, <1>2 DEF LogTypes, LogsOK
    <3>2. logEpoch[LogOf[w]] <= globalLogEpoch
      BY <1>1 DEF LInv, EpochsInOrder
    <3> QED
      BY <1>1, <1>3, <2>1, <3>1, <3>2 DEF Busy
  <2>2. CASE v # w
    <3>1. pc'[v] = pc[v] /\ change'[v] = change[v] /\ epoch'[v] = epoch[v] /\ epoch[v] \in Nat
      BY <1>1, <1>2, <2>2 DEF LogTypes, LogsOK
    <3>2. ASSUME pc[v] # "idle" PROVE LogOf[v] # LogOf[w] /\ LogOf[v] \in Logs
      BY <1>2, <3>2, NoWriterAssumption, LogOfAssumption DEF LInv, Busy
    <3>3. pc[v] # "idle" => lock'[LogOf[v]] = lock[LogOf[v]]
      BY <1>1, <1>2, <3>2 DEF LogTypes
    <3> QED
      BY <1>1, <1>3, <3>1, <3>3, BusyFrame DEF LInv
  <2> QED
    BY <2>1, <2>2
<1>6. \A l \in Logs : Told(l)' /\ EpochsInOrder(l)'
  BY <1>1, <1>2, <1>3, QuietLogs DEF LInv
<1>7. Down'
  BY <1>2, <1>3 DEF Down
<1> QED
  BY <1>4, <1>5, <1>6, <1>7 DEF LInv

\* A change is appended to the history of the tree, perhaps late.
LEMMA ChangeMade ==
  ASSUME LInv, NEW w \in Writers, ChangeTree(w)
  PROVE  /\ changes' \in Seq(ChangeForm)
         /\ Len(changes) \in Nat /\ Len(changes') = Len(changes) + 1
         /\ \A n \in 1..Len(changes) : n \in 1..Len(changes') /\ changes'[n] = changes[n]
         /\ changes'[Len(changes')].log = LogOf[w] /\ LogOf[w] \in Logs
         /\ changes'[Len(changes')].epoch = epoch[w] /\ epoch[w] \in Nat /\ 0 < epoch[w]
         /\ epoch[w] <= globalLogEpoch
         /\ changes'[Len(changes')].made = globalLogEpoch
<1>1. /\ changes \in Seq(ChangeForm) /\ globalLogEpoch \in Nat /\ epoch[w] \in Nat
      /\ LogOf[w] \in Logs
  BY LogOfAssumption DEF LInv, LogTypes, LogsOK
<1>2. 0 < epoch[w] /\ epoch[w] <= globalLogEpoch
  BY DEF ChangeTree, LInv, Busy
<1>3. PICK c \in ChangeForm : /\ changes' = Append(changes, c)
                              /\ c.log = LogOf[w] /\ c.epoch = epoch[w] /\ c.made = globalLogEpoch
  <2>1. PICK c : c = [log |-> LogOf[w], epoch |-> epoch[w], made |-> globalLogEpoch]
    OBVIOUS
  <2>2. changes' = Append(changes, c)
    BY <2>1 DEF ChangeTree
  <2>3. c \in ChangeForm
    BY <1>1, <1>2, <2>1 DEF ChangeForm
  <2> QED
    BY <2>1, <2>2, <2>3
<1>4. /\ changes' \in Seq(ChangeForm)
      /\ Len(changes) \in Nat /\ Len(changes') = Len(changes) + 1
      /\ \A n \in 1..Len(changes) : changes'[n] = changes[n]
      /\ changes'[Len(changes')] = c
  BY <1>1, <1>3, AppendProperties, LenProperties
<1>5. \A n \in 1..Len(changes) : n \in 1..Len(changes')
  BY <1>4
<1> QED
  BY <1>1, <1>2, <1>3, <1>4, <1>5

LEMMA ChangeTreeLogs ==
  ASSUME LInv, NEW w \in Writers, ChangeTree(w)
  PROVE  LInv'
<1>1. LogTypes /\ globalLogEpoch \in Nat \ {0} /\ epoch \in [Writers -> Nat] /\ Busy(w)
  BY DEF LInv, LogTypes, LogsOK
<1>2. /\ phase = "up" /\ pc[w] = "applying" /\ pc' = [pc EXCEPT ![w] = "recording"]
      /\ change' = [change EXCEPT ![w] = Len(changes')]
      /\ tree' = tree \cup {Len(changes')}
      /\ UNCHANGED <<epochs, loginfo, locks, epoch, disk, answered, recovered, recovery>>
  BY DEF ChangeTree
<1>3. /\ changes' \in Seq(ChangeForm)
      /\ Len(changes) \in Nat /\ Len(changes') = Len(changes) + 1
      /\ \A n \in 1..Len(changes) : n \in 1..Len(changes') /\ changes'[n] = changes[n]
      /\ changes'[Len(changes')].log = LogOf[w] /\ changes'[Len(changes')].epoch = epoch[w]
  BY ChangeMade
<1>4. /\ UNCHANGED <<globalLogEpoch, globalWakeEpoch, logEpoch, quiescentEpoch, wakeEpoch,
                     flushedEpoch, buf, flushing, lock, phase, crashes, replayMax, toReplay, replayed>>
  BY <1>2 DEF epochs, loginfo, locks, recovery
<1>5. LogTypes'
  <2>1. LogsOK'
    <3>1. change' \in [Writers -> Nat]
      <4>1. Len(changes') \in Nat /\ change \in [Writers -> Nat]
        BY <1>1, <1>3 DEF LogTypes, LogsOK
      <4> QED
        BY <1>2, <4>1
    <3> QED
      BY <1>1, <1>2, <1>4, <3>1 DEF LogTypes, LogsOK
  <2>2. pc' \in [Writers -> {"idle", "applying", "recording"}]
    BY <1>1, <1>2 DEF LogTypes
  <2>3. 1..Len(changes) \subseteq 1..Len(changes') /\ Len(changes') \in 1..Len(changes')
    BY <1>3
  <2>4. tree' \subseteq 1..Len(changes') /\ answered \subseteq tree'
    BY <1>1, <1>2, <2>3 DEF LogTypes
  <2> QED
    BY <1>1, <1>2, <1>3, <1>4, <2>1, <2>2, <2>3, <2>4 DEF LogTypes
<1>6. ASSUME NEW v \in Writers PROVE Busy(v)'
  <2>1. CASE v = w
    <3>1. pc'[w] = "recording" /\ change'[w] = Len(changes') /\ Len(changes') \in 1..Len(changes')
      BY <1>1, <1>2, <1>3 DEF LogTypes, LogsOK
    <3> QED
      BY <1>1, <1>2, <1>3, <1>4, <2>1, <3>1 DEF Busy
  <2>2. CASE v # w
    <3>1. pc'[v] = pc[v] /\ change'[v] = change[v] /\ epoch[v] \in Nat
      BY <1>1, <1>2, <2>2 DEF LogTypes, LogsOK
    <3> QED
      BY <1>1, <1>2, <1>3, <1>4, <3>1, BusyFrame DEF LInv
  <2> QED
    BY <2>1, <2>2
<1>7. \A l \in Logs : Told(l)' /\ EpochsInOrder(l)'
  BY <1>1, <1>2, <1>3, <1>4, QuietLogs DEF LInv
<1>8. Down'
  BY <1>2, <1>4 DEF Down
<1> QED
  BY <1>5, <1>6, <1>7, <1>8 DEF LInv

LEMMA RecordLogs ==
  ASSUME LInv, NEW w \in Writers, Record(w)
  PROVE  LInv'
<1> DEFINE l == LogOf[w]
<1>1. LogTypes /\ LogsOK /\ l \in Logs /\ Busy(w) /\ answered \subseteq 1..Len(changes)
  BY LogOfAssumption, AnsweredMade DEF LInv, LogTypes
<1>2. /\ phase = "up" /\ pc[w] = "recording" /\ Store(w)
      /\ lock' = [lock EXCEPT ![l] = NoWriter] /\ UNCHANGED waiting
  BY DEF Record
<1>3. /\ pc' = [pc EXCEPT ![w] = "idle"] /\ answered' = answered \cup {change[w]}
      /\ change' = [change EXCEPT ![w] = 0] /\ epoch' = [epoch EXCEPT ![w] = 0]
      /\ UNCHANGED <<globalLogEpoch, flushing, disk, changes, tree, recovered, phase, crashes,
                     replayMax, toReplay, replayed>>
  BY <1>2 DEF Store, recovery
<1>4. /\ lock[l] = w /\ change[w] \in 1..Len(changes) /\ change[w] \in tree
      /\ changes[change[w]].log = l /\ changes[change[w]].epoch = epoch[w]
      /\ 0 < epoch[w] /\ logEpoch[l] <= epoch[w] /\ epoch[w] <= globalLogEpoch
  BY <1>1, <1>2 DEF Busy
<1>5. /\ buf' \in [Logs -> Seq(Records)] /\ \A m \in Logs \ {l} : buf'[m] = buf[m]
      /\ ChangesIn(buf'[l]) = ChangesIn(buf[l]) \cup {change[w]}
  BY <1>1, <1>2, StoreEffect
<1>6. LogsOK'
  BY <1>1, <1>2, <1>3, <1>5, StoreTypes DEF LogsOK
<1>7. LogTypes'
  <2>1. pc' \in [Writers -> {"idle", "applying", "recording"}]
        /\ lock' \in [Logs -> Writers \cup {NoWriter}]
    BY <1>1, <1>2, <1>3 DEF LogTypes
  <2> QED
    BY <1>1, <1>3, <1>4, <1>6, <2>1 DEF LogTypes
<1>8. /\ \A m \in Logs : EpochsInOrder(m)'
      /\ logEpoch'[l] = epoch[w]
      /\ \A m \in Logs \ {l} : logEpoch'[m] = logEpoch[m]
  BY <1>1, <1>2, <1>4, StoreEpochs DEF LInv
<1>9. ASSUME NEW v \in Writers PROVE Busy(v)'
  <2>1. CASE v = w
    BY <1>1, <1>3, <2>1 DEF Busy, LogTypes
  <2>2. CASE v # w
    <3>1. /\ pc'[v] = pc[v] /\ change'[v] = change[v] /\ epoch'[v] = epoch[v] /\ epoch[v] \in Nat
          /\ globalLogEpoch \in Nat
      BY <1>1, <1>3, <2>2 DEF LogTypes, LogsOK
    <3>2. ASSUME pc[v] # "idle" PROVE LogOf[v] # l /\ LogOf[v] \in Logs
      BY <1>4, <2>2, <3>2, LogOfAssumption DEF LInv, Busy
    <3>3. pc[v] # "idle" => lock'[LogOf[v]] = lock[LogOf[v]] /\ logEpoch'[LogOf[v]] = logEpoch[LogOf[v]]
      BY <1>1, <1>2, <1>8, <3>2 DEF LogTypes
    <3> QED
      BY <1>3, <3>1, <3>3, BusyFrame DEF LInv
  <2> QED
    BY <2>1, <2>2
<1>10. ASSUME NEW m \in Logs PROVE Told(m)'
  <2>1. CASE m = l
    <3>1. Told(l)
      BY <1>1 DEF LInv
    <3>2. Truthful(Whole(l)', changes) /\ LastEpoch(Whole(l)') = epoch[w]
      BY <1>1, <1>2, <1>4, <3>1, StoreTruthful DEF Told
    <3>3. Answered(l) \ recovered \subseteq ChangesIn(Whole(l))
      BY <1>2, <3>1 DEF Told
    <3>4. ChangesIn(Whole(l)') = ChangesIn(Whole(l)) \cup {change[w]}
      <4>1. ChangesIn(Whole(l)) = OnDisk(l) \cup InFlight(l) \cup InBuffer(l)
        BY <1>1, WholeType
      <4>2. ChangesIn(Whole(l))' = (OnDisk(l) \cup InFlight(l) \cup InBuffer(l))'
        BY <1>1, <1>6, LaterContents
      <4> QED
        BY <1>3, <1>5, <4>1, <4>2 DEF OnDisk, InFlight, InBuffer
    <3>5. Answered(l)' \subseteq Answered(l) \cup {change[w]}
      BY <1>3 DEF Answered
    <3> QED
      BY <1>3, <1>8, <2>1, <3>2, <3>3, <3>4, <3>5 DEF Told
  <2>2. CASE m # l
    <3>1. Told(m) /\ Whole(m)' = Whole(m) /\ logEpoch'[m] = logEpoch[m]
      BY <1>3, <1>5, <1>8, <2>2 DEF LInv, Whole
    <3>2. Answered(m)' = Answered(m)
      BY <1>3, <1>4, <2>2 DEF Answered
    <3> QED
      BY <1>3, <3>1, <3>2 DEF Told
  <2> QED
    BY <2>1, <2>2
<1>11. Down'
  BY <1>2, <1>3 DEF Down
<1> QED
  BY <1>7, <1>8, <1>9, <1>10, <1>11 DEF LInv

LEMMA LoggerPassLogs ==
  ASSUME LInv, NEW l \in Logs, LoggerPass(l)
  PROVE  LInv'
<1>1. LogTypes /\ LogsOK /\ answered \subseteq 1..Len(changes) /\ Told(l)
  BY AnsweredMade DEF LInv, LogTypes
<1>2. /\ phase = "up" /\ lock[l] = NoWriter
      /\ UNCHANGED <<globalLogEpoch, globalWakeEpoch, flushedEpoch, lock, pc, change, epoch, disk,
                     changes, tree, answered, recovered, phase, crashes, replayMax, toReplay, replayed>>
  BY DEF LoggerPass, epochs, locks, writers, history, recovery
<1>3. /\ flushing[l] = Nothing /\ ChangesIn(Taken(l)) = InBuffer(l) /\ flushing'[l].records = Taken(l)
      /\ flushing' \in [Logs -> [records : Seq(Records), epoch : Nat]]
      /\ buf' \in [Logs -> Seq(Records)] /\ buf'[l] = <<>>
      /\ \A m \in Logs \ {l} : buf'[m] = buf[m] /\ flushing'[m] = flushing[m]
      /\ logEpoch' \in [Logs -> Nat] /\ quiescentEpoch' \in [Logs -> Nat]
      /\ wakeEpoch' \in [Logs -> Nat]
  BY <1>1, PassEffect
<1>4. LogsOK'
  BY <1>1, <1>2, <1>3 DEF LogsOK
<1>5. LogTypes'
  BY <1>1, <1>2, <1>4 DEF LogTypes
<1>6. /\ \A m \in Logs : EpochsInOrder(m)'
      /\ \A m \in Logs \ {l} : logEpoch'[m] = logEpoch[m]
  BY <1>1, PassEpochs DEF LInv
<1>7. ASSUME NEW v \in Writers PROVE Busy(v)'
  <2>1. epoch[v] \in Nat /\ globalLogEpoch \in Nat
    BY <1>1 DEF LogsOK
  <2>2. ASSUME pc[v] # "idle" PROVE LogOf[v] # l /\ LogOf[v] \in Logs
    BY <1>2, <2>2, LogOfAssumption, NoWriterAssumption DEF LInv, Busy
  <2> QED
    BY <1>2, <1>6, <2>1, <2>2, BusyFrame DEF LInv
<1>8. ASSUME NEW m \in Logs PROVE Told(m)'
  <2>1. CASE m = l
    <3>1. Truthful(Whole(l)', changes) /\ (logEpoch'[l] # 0 => LastEpoch(Whole(l)') = logEpoch'[l])
      BY <1>1, PassTruthful DEF Told
    <3>2. Answered(l) \ recovered \subseteq ChangesIn(Whole(l))
      BY <1>1, <1>2 DEF Told
    <3>3. ChangesIn(Whole(l)) \subseteq ChangesIn(Whole(l)')
      <4>1. ChangesIn(Whole(l)) = OnDisk(l) \cup InFlight(l) \cup InBuffer(l)
        BY <1>1, WholeType
      <4>2. ChangesIn(Whole(l))' = (OnDisk(l) \cup InFlight(l) \cup InBuffer(l))'
        BY <1>4, LaterContents
      <4>3. InFlight(l) = {}
        BY <1>3, EmptyContents DEF InFlight, Nothing
      <4> QED
        BY <1>2, <1>3, <4>1, <4>2, <4>3 DEF OnDisk, InFlight
    <3>4. Answered(l)' = Answered(l)
      BY <1>2 DEF Answered
    <3> QED
      BY <1>2, <2>1, <3>1, <3>2, <3>3, <3>4 DEF Told
  <2>2. CASE m # l
    <3>1. Told(m) /\ Whole(m)' = Whole(m) /\ logEpoch'[m] = logEpoch[m]
      BY <1>2, <1>3, <1>6, <2>2 DEF LInv, Whole
    <3> QED
      BY <1>1, <1>2, <3>1, ToldFrame
  <2> QED
    BY <2>1, <2>2
<1>9. Down'
  BY <1>2 DEF Down
<1> QED
  BY <1>5, <1>6, <1>7, <1>8, <1>9 DEF LInv

LEMMA FlushLogs ==
  ASSUME LInv, NEW l \in Logs, Flush(l)
  PROVE  LInv'
<1>1. LogTypes /\ LogsOK /\ answered \subseteq 1..Len(changes)
  BY AnsweredMade DEF LInv, LogTypes
<1>2. /\ phase = "up"
      /\ disk' = [disk EXCEPT ![l] = disk[l] \o flushing[l].records]
      /\ flushedEpoch' = [flushedEpoch EXCEPT ![l] = flushing[l].epoch]
      /\ flushing' = [flushing EXCEPT ![l] = Nothing]
      /\ UNCHANGED <<globalLogEpoch, globalWakeEpoch, logEpoch, quiescentEpoch, wakeEpoch, buf, lock,
                     pc, change, epoch, changes, tree, answered, recovered, phase, crashes, replayMax,
                     toReplay, replayed>>
  BY <1>1 DEF Flush, epochs, locks, writers, history, recovery, LogsOK
<1>3. LogsOK'
  <2>1. /\ disk[l] \o flushing[l].records \in Seq(Records) /\ flushing[l].epoch \in Nat
        /\ Nothing \in [records : Seq(Records), epoch : Nat]
    BY <1>1, WholeType, EmptyContents DEF LogsOK, Nothing
  <2> HIDE DEF Nothing
  <2>2. disk' \in [Logs -> Seq(Records)]
    BY <1>1, <1>2, <2>1 DEF LogsOK
  <2>3. flushing' \in [Logs -> [records : Seq(Records), epoch : Nat]] /\ flushedEpoch' \in [Logs -> Nat]
    BY <1>1, <1>2, <2>1 DEF LogsOK
  <2> QED
    BY <1>1, <1>2, <2>2, <2>3 DEF LogsOK
<1>4. LogTypes'
  BY <1>1, <1>2, <1>3 DEF LogTypes
<1>5. \A m \in Logs : EpochsInOrder(m)'
  BY <1>1, FlushEpochs DEF LInv
<1>6. \A v \in Writers : Busy(v)'
  <2>1. globalLogEpoch \in Nat /\ epoch \in [Writers -> Nat]
    BY <1>1 DEF LogsOK
  <2> QED
    BY <1>2, <2>1, BusyFrame DEF LInv
<1>7. ASSUME NEW m \in Logs PROVE Told(m)'
  <2>1. Whole(m)' = Whole(m)
    <3>1. CASE m = l
      BY <1>1, <3>1, FlushShape
    <3>2. CASE m # l
      BY <1>1, <1>2, <3>2 DEF Whole, LogsOK
    <3> QED
      BY <3>1, <3>2
  <2> QED
    BY <1>1, <1>2, <2>1, ToldFrame DEF LInv
<1>8. Down'
  BY <1>2 DEF Down
<1> QED
  BY <1>4, <1>5, <1>6, <1>7, <1>8 DEF LInv

LEMMA BareWhole ==
  ASSUME NEW l \in Logs
  PROVE  /\ LogsOK /\ buf[l] = <<>> /\ flushing[l] = Nothing => Whole(l) = disk[l]
         /\ LogsOK' /\ buf'[l] = <<>> /\ flushing'[l] = Nothing => Whole(l)' = disk'[l]
<1>1. ASSUME NEW d \in Seq(Records) PROVE d \o <<>> \o <<>> = d
  BY ConcatEmptySeq
<1>2. Nothing.records = <<>>
  BY DEF Nothing
<1> HIDE DEF Nothing
<1>3. ASSUME LogsOK, buf[l] = <<>>, flushing[l] = Nothing PROVE Whole(l) = disk[l]
  BY <1>1, <1>2, <1>3 DEF Whole, LogsOK
<1>4. ASSUME LogsOK', buf'[l] = <<>>, flushing'[l] = Nothing PROVE Whole(l)' = disk'[l]
  BY <1>1, <1>2, <1>4 DEF Whole, LogsOK
<1> QED
  BY <1>3, <1>4

LEMMA StutterLogs == ASSUME LInv, UNCHANGED vars PROVE LInv'
<1>1. UNCHANGED <<globalLogEpoch, globalWakeEpoch, logEpoch, quiescentEpoch, wakeEpoch, flushedEpoch,
                  buf, flushing, lock, pc, change, epoch, disk, changes, tree, answered, recovered,
                  phase, crashes, replayMax, toReplay, replayed>>
  BY DEF vars, epochs, loginfo, locks, writers, history, recovery
<1>2. LogTypes'
  BY <1>1 DEF LInv, LogTypes, LogsOK
<1>3. \A w \in Writers : Busy(w)'
  BY <1>1 DEF LInv, Busy
<1>4. \A l \in Logs : Told(l)' /\ EpochsInOrder(l)'
  <2>1. globalLogEpoch \in Nat
    BY DEF LInv, LogTypes, LogsOK
  <2> QED
    BY <1>1, <2>1, QuietLogs DEF LInv, loginfo
<1>5. Down'
  BY <1>1 DEF LInv, Down
<1> QED
  BY <1>2, <1>3, <1>4, <1>5 DEF LInv

LEMMA CrashLogs ==
  ASSUME LInv, CkpTypes, CkpCrash
  PROVE  LInv'
<1>1. LogTypes /\ LogsOK /\ LoseBuffers /\ crashes' = crashes + 1 /\ toReplay' = Logs /\ replayed' = {}
      /\ UNCHANGED <<changes, tree, answered, recovered>> /\ phase' \in {"replay", "aborted"}
  BY DEF LInv, LogTypes, CkpCrash, history
<1>2. disk' \in [Logs -> Seq(Records)]
  BY <1>1, CrashEffect
<1>3. /\ globalLogEpoch' = 1 /\ globalWakeEpoch' = 0
      /\ logEpoch' = Zeros /\ quiescentEpoch' = Zeros /\ wakeEpoch' = Zeros /\ flushedEpoch' = Zeros
      /\ buf' = [l \in Logs |-> <<>>] /\ flushing' = [l \in Logs |-> Nothing]
      /\ lock' = [l \in Logs |-> NoWriter] /\ pc' = Idle /\ change' = None /\ epoch' = None
  BY DEF CkpCrash, LoseMemory
<1>4. replayMax' \in Nat
  <2>1. PICK unset \in SUBSET {l \in Logs : disk'[l] = <<>>} :
          replayMax' = ReplayLimit(disk', unset \cup {l \in Logs : EndsQuiescent(disk'[l])},
                                   IF committed.max = 0 THEN 0 ELSE committed.max + 1)
    BY DEF CkpCrash
  <2>2. (IF committed.max = 0 THEN 0 ELSE committed.max + 1) \in Nat
    BY DEF CkpTypes
  <2> QED
    BY <1>2, <2>1, <2>2, ReplayLimitType
<1>5. Nothing \in [records : Seq(Records), epoch : Nat] /\ Nothing.records = <<>>
      /\ <<>> \in Seq(Records) /\ ChangesIn(<<>>) = {}
  BY EmptyContents DEF Nothing
<1> HIDE DEF Nothing
<1>6. LogsOK'
  BY <1>2, <1>3, <1>5 DEF LogsOK, Zeros, None
<1>7. LogTypes'
  BY <1>1, <1>3, <1>4, <1>6 DEF LogTypes, Idle
<1>8. \A w \in Writers : Busy(w)'
  BY <1>3 DEF Busy, Idle
<1>9. ASSUME NEW l \in Logs PROVE Told(l)' /\ EpochsInOrder(l)'
  <2>1. /\ buf'[l] = <<>> /\ flushing'[l] = Nothing /\ logEpoch'[l] = 0 /\ flushedEpoch'[l] = 0
        /\ quiescentEpoch'[l] = 0
    BY <1>3 DEF Zeros
  <2>2. Whole(l)' = disk'[l]
    BY <1>6, <2>1, BareWhole
  <2>3. Truthful(disk'[l], changes)
    <3>1. disk'[l] \in Seq(Records) /\ Begins(disk'[l], Whole(l)) /\ Whole(l) \in Seq(Records)
      BY <1>1, CrashShape, WholeType
    <3>2. Truthful(Whole(l), changes)
      BY DEF LInv, Told
    <3> QED
      BY <3>1, <3>2, BeginningTruthful
  <2>4. InFlight(l)' = {} /\ InBuffer(l)' = {}
    BY <1>5, <2>1 DEF InFlight, InBuffer
  <2> QED
    BY <1>1, <1>3, <2>1, <2>2, <2>3, <2>4 DEF Told, EpochsInOrder
<1>10. Down'
  BY <1>3 DEF Down, Zeros, Idle
<1> QED
  BY <1>7, <1>8, <1>9, <1>10 DEF LInv

\* What one log replays, and what of it is kept.
LEMMA ReplayedHere ==
  ASSUME LInv, KInv, NEW l \in Logs, ReplayFrom(l)
  PROVE  /\ disk'[l] = KeptFrom(disk[l], committed.min, replayMax)
         /\ disk'[l] \in Seq(Records) /\ Truthful(disk'[l], changes)
         /\ ChangesIn(disk'[l]) \subseteq ChangesIn(disk[l])
         /\ \A n \in ChangesIn(disk'[l]) : changes[n].epoch < replayMax
         /\ \A n \in ReplayedOf(disk'[l], committed.min) :
              n \in ChangesIn(disk'[l]) /\ changes[n].epoch >= committed.min
         /\ \A n \in ChangesIn(disk'[l]) :
              changes[n].epoch >= committed.min => n \in ReplayedOf(disk'[l], committed.min)
<1>1. LogTypes /\ LogsOK /\ phase = "replay" /\ disk[l] \in Seq(Records)
  BY DEF LInv, LogTypes, LogsOK, ReplayFrom
<1>2. disk'[l] = KeptFrom(disk[l], committed.min, replayMax)
  BY <1>1 DEF ReplayFrom, LogsOK
<1>3. committed.min \in Nat /\ replayMax \in Nat
  BY <1>1 DEF KInv, CkpTypes, LogTypes
<1>4. Truthful(disk[l], changes)
  BY <1>1, BareWhole DEF LInv, Told, Down
<1>5. PICK d : d = disk'[l]
  OBVIOUS
<1>6. /\ d \in Seq(Records) /\ Truthful(d, changes) /\ ChangesIn(d) \subseteq ChangesIn(disk[l])
      /\ \A n \in ChangesIn(d) : changes[n].epoch < replayMax
  <2>1. /\ d \in Seq(Records) /\ Truthful(d, changes) /\ ChangesIn(d) \subseteq ChangesIn(disk[l])
        /\ \A n \in ChangesIn(d) : changes[n].epoch = 0 \/ changes[n].epoch < replayMax
    <3>1. PICK s \in Seq(Records), min \in Nat, max \in Nat :
               s = disk[l] /\ min = committed.min /\ max = replayMax
      BY <1>1, <1>3
    <3>2. PICK ch : ch = changes
      OBVIOUS
    <3>3. d = KeptFrom(s, min, max) /\ Truthful(s, ch)
      BY <1>2, <1>4, <1>5, <3>1, <3>2
    <3> QED
      BY <3>1, <3>2, <3>3, KeptFromTruthful
  <2>2. ASSUME NEW n \in ChangesIn(d) PROVE changes[n].epoch # 0
    <3>1. n \in 1..Len(changes)
      BY <2>1, <2>2, TruthfulChanges
    <3>2. changes[n] \in ChangeForm
      BY <1>1, <3>1, ElementOfSeq DEF LogTypes
    <3> QED
      BY <3>2 DEF ChangeForm
  <2> QED
    BY <2>1, <2>2
<1>7. /\ \A n \in ReplayedOf(d, committed.min) : n \in ChangesIn(d) /\ changes[n].epoch >= committed.min
      /\ \A n \in ChangesIn(d) : changes[n].epoch >= committed.min => n \in ReplayedOf(d, committed.min)
  BY <1>6 DEF Truthful, ReplayedOf, ChangesIn
<1> QED
  BY <1>2, <1>5, <1>6, <1>7

LEMMA ReplayFromLogs ==
  ASSUME LInv, KInv, NEW l \in Logs, ReplayFrom(l)
  PROVE  LInv'
<1>1. LogTypes /\ LogsOK /\ answered \subseteq 1..Len(changes) /\ globalLogEpoch \in Nat
  BY AnsweredMade DEF LInv, LogTypes, LogsOK
<1>2. /\ phase = "replay" /\ toReplay' = toReplay \ {l}
      /\ disk' = [disk EXCEPT ![l] = KeptFrom(disk[l], committed.min, replayMax)]
      /\ replayed' = replayed \cup ReplayedOf(disk'[l], committed.min)
      /\ UNCHANGED <<globalLogEpoch, globalWakeEpoch, logEpoch, quiescentEpoch, wakeEpoch, flushedEpoch,
                     buf, flushing, lock, pc, change, epoch, changes, tree, answered, recovered,
                     phase, crashes, replayMax>>
  BY <1>1 DEF ReplayFrom, epochs, loginfo, locks, writers, history, LogsOK
<1>3. /\ disk'[l] \in Seq(Records) /\ Truthful(disk'[l], changes)
      /\ ReplayedOf(disk'[l], committed.min) \subseteq ChangesIn(disk'[l])
  BY ReplayedHere
<1>4. \A m \in Logs \ {l} : disk'[m] = disk[m]
  BY <1>1, <1>2 DEF LogsOK
<1>5. LogsOK'
  <2>1. disk' \in [Logs -> Seq(Records)]
    BY <1>1, <1>2, <1>3, <1>4 DEF LogsOK
  <2> QED
    BY <1>1, <1>2, <2>1 DEF LogsOK
<1>6. LogTypes'
  <2>1. replayed' \subseteq 1..Len(changes) /\ toReplay' \subseteq Logs
    BY <1>1, <1>2, <1>3, TruthfulChanges DEF LogTypes
  <2> QED
    BY <1>1, <1>2, <1>5, <2>1 DEF LogTypes
<1>7. \A w \in Writers : Busy(w)'
  BY <1>2 DEF LInv, Busy
<1>8. ASSUME NEW m \in Logs PROVE Told(m)' /\ EpochsInOrder(m)'
  <2>1. buf[m] = <<>> /\ flushing[m] = Nothing /\ logEpoch[m] = 0 /\ Told(m) /\ EpochsInOrder(m)
    BY <1>2 DEF LInv, Down
  <2>2. Whole(m)' = disk'[m] /\ Whole(m) = disk[m]
    BY <1>1, <1>2, <1>5, <2>1, BareWhole
  <2>3. Truthful(disk'[m], changes)
    <3>1. CASE m = l
      BY <1>3, <3>1
    <3>2. CASE m # l
      BY <1>4, <2>1, <2>2, <3>2 DEF Told
    <3> QED
      BY <3>1, <3>2
  <2>4. Told(m)'
    BY <1>2, <2>1, <2>2, <2>3 DEF Told
  <2>5. EpochsInOrder(m)'
    BY <1>1, <1>2, <2>1, EpochsKept
  <2> QED
    BY <2>4, <2>5
<1>9. Down'
  BY <1>2 DEF LInv, Down
<1> QED
  BY <1>6, <1>7, <1>8, <1>9 DEF LInv

LEMMA RestartLogs ==
  ASSUME LInv, KInv, RestartFromCheckpoint
  PROVE  LInv'
<1>1. LogTypes /\ LogsOK /\ globalLogEpoch \in Nat /\ replayMax \in Nat
  BY DEF LInv, LogTypes, LogsOK
<1>2. /\ phase = "replay" /\ phase' = "up" /\ replayMax' = 0 /\ replayed' = {}
      /\ globalLogEpoch' = replayMax + 1
      /\ tree' = Restored /\ answered' = Restored /\ recovered' = Restored
      /\ UNCHANGED <<globalWakeEpoch, logEpoch, quiescentEpoch, wakeEpoch, flushedEpoch, buf, flushing,
                     lock, pc, change, epoch, disk, changes, crashes, toReplay>>
  BY DEF RestartFromCheckpoint, loginfo, locks, writers
<1>3. Restored \subseteq 1..Len(changes)
  BY <1>1 DEF KInv, Committed, Restored, LogTypes
<1>4. LogsOK'
  <2>1. globalLogEpoch' \in Nat \ {0}
    BY <1>1, <1>2
  <2> QED
    BY <1>1, <1>2, <2>1 DEF LogsOK
<1>5. LogTypes'
  BY <1>1, <1>2, <1>3, <1>4 DEF LogTypes
<1>6. \A w \in Writers : Busy(w)'
  BY <1>2 DEF LInv, Down, Busy
<1>7. ASSUME NEW l \in Logs PROVE Told(l)' /\ EpochsInOrder(l)'
  <2>1. globalLogEpoch = 1 /\ Told(l) /\ EpochsInOrder(l)
    BY <1>2 DEF LInv, Down
  <2>2. globalLogEpoch' \in Nat /\ globalLogEpoch <= globalLogEpoch' /\ logEpoch[l] \in Nat
    BY <1>1, <1>2, <2>1 DEF LogsOK
  <2>3. Whole(l)' = Whole(l)
    BY <1>2 DEF Whole
  <2>4. Answered(l)' \ recovered' = {}
    BY <1>2 DEF Answered
  <2>5. Told(l)'
    BY <1>2, <2>1, <2>3, <2>4 DEF Told
  <2>6. EpochsInOrder(l)'
    BY <1>1, <1>2, <2>1, <2>2, EpochsKept
  <2> QED
    BY <2>5, <2>6
<1>8. Down'
  BY <1>2 DEF Down
<1> QED
  BY <1>5, <1>6, <1>7, <1>8 DEF LInv

-----------------------------------------------------------------------------
(* The checkpoints keep theirs.                                            *)

LEMMA ChangeEpochs ==
  ASSUME LogTypes, NEW n \in 1..Len(changes)
  PROVE  /\ changes[n].log \in Logs /\ changes[n].epoch \in Nat \ {0} /\ changes[n].made \in Nat
         /\ n \in DOMAIN changes
<1>1. changes \in Seq(ChangeForm)
  BY DEF LogTypes
<1>2. changes[n] \in ChangeForm /\ DOMAIN changes = 1..Len(changes)
  BY <1>1, ElementOfSeq, LenProperties
<1> QED
  BY <1>2 DEF ChangeForm

LEMMA KeyedFrame ==
  ASSUME Keyed, UNCHANGED <<rows, changes>>,
         \A w \in Writers : pc'[w] = "applying" => pc[w] = "applying"
  PROVE  Keyed'
BY DEF Keyed, rows

\* Steps that leave the checkpoints and the tree alone: time may go on.
LEMMA CkpFrame ==
  ASSUME LInv, KInv, Keyed',
         UNCHANGED <<ckp, keyOf, changes, tree, recovered, phase, replayMax, replayed>>,
         globalLogEpoch' \in Nat, globalLogEpoch <= globalLogEpoch'
  PROVE  KInv'
<1>1. /\ globalLogEpoch \in Nat /\ maxEpoch \in Nat
      /\ committed.min \in Nat /\ committed.max \in Nat
      /\ tree \subseteq 1..Len(changes) /\ recovered \subseteq 1..Len(changes)
      /\ \A n \in 1..Len(changes) : changes[n].epoch \in Nat
  <2>1. \A n \in 1..Len(changes) : changes[n].epoch \in Nat
    BY ChangeEpochs DEF LInv
  <2> QED
    BY <2>1 DEF LInv, LogTypes, LogsOK, KInv, CkpTypes
<1>2. UNCHANGED <<ckpGen, ckpPhase, minEpoch, maxEpoch, scan, ckState, files, committed>>
  BY DEF ckp
<1>3. CkpTypes'
  BY <1>2 DEF KInv, CkpTypes
<1>4. Past'
  <2>1. ASSUME phase = "up"
        PROVE  /\ \A n \in recovered : changes[n].epoch < globalLogEpoch'
               /\ \A n \in tree : changes[n].epoch <= globalLogEpoch'
               /\ committed.min <= globalLogEpoch'
    BY <1>1, <2>1 DEF KInv, Past
  <2> QED
    BY <1>2, <2>1 DEF KInv, Past
<1>5. CheckpointRows' = CheckpointRows /\ Late' = Late
  BY <1>2 DEF CheckpointRows, Late
<1>6. Committed'
  BY <1>2, <1>5 DEF KInv, Committed, Making
<1>7. Scanning'
  <2> SUFFICES ASSUME Making PROVE Scanning'
    BY <1>2 DEF Scanning, Making
  <2>1. /\ 0 < minEpoch /\ minEpoch <= Bound /\ Bound <= globalLogEpoch
        /\ \A n \in recovered : changes[n].epoch < minEpoch
        /\ \A k \in Keys : ckState[RangeOf[k]] = "Ready" => Older(k) \subseteq files[ckpGen][RangeOf[k]]
        /\ \A k \in Keys : ckState[RangeOf[k]] # "Ready" =>
             \/ ckState[RangeOf[k]] = "Go" /\ scan[k] = Unread
             \/ Older(k) \subseteq scan[k] /\ Within(scan[k])
        /\ \A c \in Ckps : ckState[c] = "Ready" => Within(files[ckpGen][c])
    BY DEF KInv, Scanning
  <2>2. Bound \in Nat /\ Bound' \in Nat /\ minEpoch \in Nat /\ Bound <= Bound' /\ Bound' <= globalLogEpoch'
    BY <1>1, <1>2, <2>1 DEF Bound, KInv, CkpTypes
  <2>3. \A k \in Keys : Older(k)' = Older(k)
    BY <1>2, <1>5 DEF Older
  <2>4. ASSUME NEW S, Within(S) PROVE \A n \in S : n \in 1..Len(changes) /\ changes[n].epoch <= Bound'
    BY <1>1, <2>2, <2>4 DEF Within
  <2>5. \A k \in Keys : Within(scan[k]) => Within(scan[k])'
    BY <1>2, <2>4 DEF Within
  <2>6. \A c \in Ckps : Within(files[ckpGen][c]) => Within(files[ckpGen][c])'
    BY <1>2, <2>4 DEF Within
  <2>7. minEpoch' <= Bound'
    BY <1>2, <2>1, <2>2
  <2> QED
    BY <1>2, <2>1, <2>2, <2>3, <2>5, <2>6, <2>7 DEF Scanning
<1>8. Unscanned'
  BY <1>2 DEF KInv, Unscanned
<1> QED
  BY <1>3, <1>4, <1>6, <1>7, <1>8 DEF KInv

LEMMA LoggingCkp ==
  ASSUME LInv, KInv, Logging
  PROVE  KInv'
<1>1. /\ globalLogEpoch \in Nat /\ Keyed /\ pc \in [Writers -> {"idle", "applying", "recording"}]
      /\ UNCHANGED <<ckp, rows, keyOf>>
  BY DEF LInv, LogTypes, LogsOK, KInv, Logging, rows
<1>2. CASE CheckEpoch
  <2>1. Keyed'
    BY <1>1, <1>2, KeyedFrame DEF CheckEpoch, writers, history
  <2> QED
    BY <1>1, <1>2, <2>1, CkpFrame DEF CheckEpoch, history, recovery
<1>3. ASSUME NEW w \in Writers, Record(w) PROVE KInv'
  <2>1. /\ pc' = [pc EXCEPT ![w] = "idle"]
        /\ UNCHANGED <<globalLogEpoch, changes, tree, recovered, phase, replayMax, replayed>>
    BY <1>3 DEF Record, Store, recovery
  <2>2. Keyed'
    <3>1. \A v \in Writers : pc'[v] = "applying" => pc[v] = "applying"
      BY <1>1, <2>1
    <3> QED
      BY <1>1, <2>1, <3>1, KeyedFrame
  <2> QED
    BY <1>1, <2>1, <2>2, CkpFrame
<1>4. ASSUME NEW l \in Logs, LoggerPass(l) \/ Flush(l) PROVE KInv'
  <2>1. UNCHANGED <<globalLogEpoch, pc, changes, tree, recovered, phase, replayMax, replayed>>
    BY <1>4 DEF LoggerPass, Flush, epochs, writers, history, recovery
  <2>2. Keyed'
    BY <1>1, <2>1, KeyedFrame
  <2> QED
    BY <1>1, <2>1, <2>2, CkpFrame
<1> QED
  BY <1>2, <1>3, <1>4 DEF Logging

LEMMA StutterCkp == ASSUME LInv, KInv, UNCHANGED cvars PROVE KInv'
<1>1. /\ UNCHANGED <<ckp, rows, keyOf, globalLogEpoch, pc, changes, tree, recovered, phase,
                     replayMax, replayed>>
      /\ globalLogEpoch \in Nat
  BY DEF cvars, rows, vars, epochs, writers, history, recovery, LInv, LogTypes, LogsOK
<1>2. Keyed'
  BY <1>1, KeyedFrame DEF KInv
<1> QED
  BY <1>1, <1>2, CkpFrame

LEMMA TakeEpochCkp ==
  ASSUME LInv, KInv, NEW w \in Writers, NEW k \in Keys, TakeEpoch(w, k)
  PROVE  KInv'
<1>1. /\ UNCHANGED <<ckp, keyOf, globalLogEpoch, changes, tree, recovered, phase, replayMax, replayed>>
      /\ globalLogEpoch \in Nat
      /\ pc' = [pc EXCEPT ![w] = "applying"] /\ row' = [row EXCEPT ![w] = k]
  BY DEF TakeEpoch, ReadEpoch, epochs, history, recovery, LInv, LogTypes, LogsOK
<1>2. Keyed /\ pc \in [Writers -> {"idle", "applying", "recording"}]
  BY DEF KInv, LInv, LogTypes
<1>3. Keyed'
  <2>1. row' \in [Writers -> Keys \cup {Unread}]
    BY <1>1, <1>2 DEF Keyed
  <2>2. ASSUME NEW v \in Writers, pc'[v] = "applying" PROVE row'[v] \in Keys
    BY <1>1, <1>2, <2>2 DEF Keyed
  <2> QED
    BY <1>1, <1>2, <2>1, <2>2 DEF Keyed
<1> QED
  BY <1>1, <1>3, CkpFrame

\* A row that changes after min_epoch, in the epoch of its record, is not for
\* this checkpoint to have.
LEMMA ChangeRowCkp ==
  ASSUME LInv, KInv, NEW w \in Writers, ChangeRow(w)
  PROVE  KInv'
<1> DEFINE new == Len(changes')
<1>1. /\ phase = "up" /\ tree' = tree \cup {new}
      /\ pc[w] = "applying" /\ pc' = [pc EXCEPT ![w] = "recording"]
      /\ keyOf' = Append(keyOf, row[w]) /\ row' = [row EXCEPT ![w] = Unread]
      /\ UNCHANGED <<ckp, globalLogEpoch, recovered, phase, replayMax, replayed>>
  BY DEF ChangeRow, ChangeTree, epochs, recovery
<1>2. UNCHANGED <<ckpGen, ckpPhase, minEpoch, maxEpoch, scan, ckState, files, committed>>
  BY <1>1 DEF ckp
<1>3. /\ changes' \in Seq(ChangeForm) /\ Len(changes) \in Nat /\ new = Len(changes) + 1
      /\ \A n \in 1..Len(changes) : n \in 1..Len(changes') /\ changes'[n] = changes[n]
      /\ changes'[new].epoch = epoch[w] /\ epoch[w] \in Nat
      /\ epoch[w] <= globalLogEpoch /\ changes'[new].made = globalLogEpoch
      /\ globalLogEpoch \in Nat
  <2>1. ChangeTree(w) /\ globalLogEpoch \in Nat
    BY DEF ChangeRow, LInv, LogTypes, LogsOK
  <2> QED
    BY <2>1, ChangeMade
<1> HIDE DEF new
<1>4. /\ tree \subseteq 1..Len(changes) /\ recovered \subseteq 1..Len(changes)
      /\ replayed \subseteq 1..Len(changes) /\ LogTypes /\ Keyed
  BY DEF LInv, LogTypes, KInv
<1>5. /\ keyOf' \in Seq(Keys) /\ Len(keyOf') = new
      /\ \A n \in 1..Len(changes) : keyOf'[n] = keyOf[n]
  <2>1. keyOf \in Seq(Keys) /\ Len(keyOf) = Len(changes) /\ row[w] \in Keys
    BY <1>1, <1>4 DEF Keyed
  <2> QED
    BY <1>1, <1>3, <2>1, AppendProperties
<1>6. Keyed'
  <2>1. row' \in [Writers -> Keys \cup {Unread}]
    BY <1>1, <1>4 DEF Keyed
  <2>2. ASSUME NEW v \in Writers, pc'[v] = "applying" PROVE row'[v] \in Keys
    <3>1. v # w /\ pc[v] = "applying"
      BY <1>1, <1>4, <2>2 DEF LogTypes
    <3> QED
      BY <1>1, <1>4, <3>1 DEF Keyed
  <2>3. Len(keyOf') = Len(changes')
    BY <1>5 DEF new
  <2> QED
    BY <1>5, <2>1, <2>2, <2>3 DEF Keyed
<1>7. ASSUME NEW n \in tree' \ Late'
      PROVE  /\ n \in tree \ Late /\ changes'[n] = changes[n] /\ keyOf'[n] = keyOf[n]
             \/ changes'[n].epoch = globalLogEpoch
  <2>1. DOMAIN changes' = 1..Len(changes') /\ DOMAIN changes = 1..Len(changes)
    BY <1>3, <1>4, LenProperties DEF LogTypes
  <2>2. n \in 1..Len(changes')
    BY <1>1, <1>3, <1>4 DEF new
  <2>3. changes'[n].made = changes'[n].epoch
    BY <1>7, <2>1, <2>2 DEF Late
  <2>4. CASE n = new
    BY <1>3, <2>3, <2>4
  <2>5. CASE n # new
    <3>1. n \in tree /\ n \in 1..Len(changes) /\ changes'[n] = changes[n]
      BY <1>1, <1>3, <1>4, <2>5
    <3>2. n \notin Late
      BY <2>3, <3>1 DEF Late
    <3> QED
      BY <1>5, <3>1, <3>2
  <2> QED
    BY <2>4, <2>5
<1>8. Past /\ committed.min \in Nat /\ minEpoch \in Nat /\ maxEpoch \in Nat
  BY DEF KInv, CkpTypes
<1>9. Past'
  <2>1. \A n \in recovered : changes'[n].epoch < globalLogEpoch
    BY <1>1, <1>3, <1>4, <1>8 DEF Past
  <2>2. \A n \in tree' : changes'[n].epoch <= globalLogEpoch
    BY <1>1, <1>3, <1>4, <1>8 DEF Past
  <2>3. committed.min <= globalLogEpoch
    BY <1>1, <1>8 DEF Past
  <2> QED
    BY <1>1, <1>2, <2>1, <2>2, <2>3 DEF Past
<1>10. CkpTypes' /\ Unscanned'
  BY <1>2 DEF KInv, CkpTypes, Unscanned
<1>11. CheckpointRows' = CheckpointRows
  BY <1>2 DEF CheckpointRows
<1>12. Committed'
  <2>1. ASSUME NEW n \in tree' \ Late', changes'[n].epoch < committed.min PROVE n \in CheckpointRows
    <3>1. ~ (changes'[n].epoch = globalLogEpoch)
      BY <1>1, <1>3, <1>8, <2>1 DEF Past
    <3> QED
      BY <1>7, <2>1, <3>1 DEF KInv, Committed
  <2>2. \A n \in CheckpointRows : n \in 1..Len(changes') /\ changes'[n].epoch <= committed.max
    BY <1>3 DEF KInv, Committed
  <2> QED
    BY <1>1, <1>2, <1>11, <2>1, <2>2 DEF KInv, Committed, Making
<1>13. Scanning'
  <2> SUFFICES ASSUME Making PROVE Scanning'
    BY <1>2 DEF Scanning, Making
  <2>1. minEpoch <= Bound /\ Bound <= globalLogEpoch /\ Bound \in Nat /\ Bound' = Bound
    BY <1>1, <1>2, <1>3, <1>8 DEF KInv, Scanning, Bound
  <2>2. ASSUME NEW k \in Keys PROVE Older(k)' \subseteq Older(k)
    <3>1. ASSUME NEW n \in tree' \ Late', keyOf'[n] = k, changes'[n].epoch < minEpoch
          PROVE  n \in tree \ Late /\ keyOf[n] = k /\ changes[n].epoch < minEpoch
      <4>1. ~ (changes'[n].epoch = globalLogEpoch)
        BY <1>3, <1>8, <2>1, <3>1
      <4> QED
        BY <1>7, <3>1, <4>1
    <3> QED
      BY <1>2, <3>1 DEF Older
  <2>3. ASSUME NEW S, Within(S) PROVE \A n \in S : n \in 1..Len(changes') /\ changes'[n].epoch <= Bound'
    BY <1>3, <2>1, <2>3 DEF Within
  <2>4. \A k \in Keys : Within(scan[k]) => Within(scan[k])'
    BY <1>2, <2>3 DEF Within
  <2>5. \A c \in Ckps : Within(files[ckpGen][c]) => Within(files[ckpGen][c])'
    BY <1>2, <2>3 DEF Within
  <2>6. /\ 0 < minEpoch /\ \A n \in recovered : changes'[n].epoch < minEpoch
    BY <1>3, <1>4 DEF KInv, Scanning
  <2>7. ASSUME NEW k \in Keys
        PROVE  /\ ckState[RangeOf[k]] = "Ready" => Older(k)' \subseteq files[ckpGen][RangeOf[k]]
               /\ ckState[RangeOf[k]] # "Ready" =>
                    \/ ckState[RangeOf[k]] = "Go" /\ scan[k] = Unread
                    \/ Older(k)' \subseteq scan[k] /\ Within(scan[k])'
    <3>1. /\ ckState[RangeOf[k]] = "Ready" => Older(k) \subseteq files[ckpGen][RangeOf[k]]
          /\ ckState[RangeOf[k]] # "Ready" =>
               \/ ckState[RangeOf[k]] = "Go" /\ scan[k] = Unread
               \/ Older(k) \subseteq scan[k] /\ Within(scan[k])
      BY DEF KInv, Scanning
    <3> QED
      BY <2>2, <2>4, <3>1
  <2>8. \A c \in Ckps : ckState[c] = "Ready" => Within(files[ckpGen][c])'
    BY <2>5 DEF KInv, Scanning
  <2> QED
    BY <1>1, <1>2, <2>1, <2>6, <2>7, <2>8 DEF Scanning
<1> QED
  BY <1>6, <1>9, <1>10, <1>12, <1>13 DEF KInv

FilesForm(F) == F = [g \in Gens |-> [c \in Ckps |-> F[g][c]]]
FileSet(F, G, g, c, v) == G = [F EXCEPT ![g][c] = v]

LEMMA FilesUpdate ==
  ASSUME NEW F, FilesForm(F), NEW g \in Gens, NEW c \in Ckps, NEW v, NEW G, FileSet(F, G, g, c, v)
  PROVE  /\ FilesForm(G)
         /\ G[g][c] = v
         /\ \A d \in Ckps \ {c} : G[g][d] = F[g][d]
         /\ \A h \in Gens \ {g} : G[h] = F[h]
<1>0. F = [h \in Gens |-> [d \in Ckps |-> F[h][d]]] /\ G = [F EXCEPT ![g][c] = v]
  BY DEF FilesForm, FileSet
<1>1. F[g] = [d \in Ckps |-> F[g][d]]
  BY <1>0
<1>2. G = [F EXCEPT ![g] = [F[g] EXCEPT ![c] = v]] /\ DOMAIN F = Gens
  BY <1>0
<1>3. PICK f : f = [F[g] EXCEPT ![c] = v]
  OBVIOUS
<1>4. f = [d \in Ckps |-> f[d]] /\ f[c] = v /\ \A d \in Ckps \ {c} : f[d] = F[g][d]
  BY <1>1, <1>3
<1>5. DOMAIN G = Gens /\ G[g] = f /\ \A h \in Gens \ {g} : G[h] = F[h]
  BY <1>2, <1>3
<1>6. ASSUME NEW h \in Gens PROVE G[h] = [d \in Ckps |-> G[h][d]]
  <2>1. F[h] = [d \in Ckps |-> F[h][d]]
    BY <1>0
  <2> QED
    BY <1>4, <1>5, <2>1
<1>7. G = [h \in Gens |-> G[h]]
  BY <1>2
<1>8. FilesForm(G)
  BY <1>6, <1>7 DEF FilesForm
<1> QED
  BY <1>4, <1>5, <1>8

\* A step of a checkpoint thread.
LEMMA ThreadFrame ==
  ASSUME LInv, KInv, UNCHANGED <<vars, rows>>
  PROVE  /\ UNCHANGED <<globalLogEpoch, changes, tree, recovered, phase, replayMax, replayed, keyOf>>
         /\ Late' = Late /\ Keyed'
         /\ \A k \in Keys : minEpoch' = minEpoch => Older(k)' = Older(k)
         /\ UNCHANGED committed => Past'
         /\ \A n \in tree : n \in 1..Len(changes) /\ changes[n].epoch \in Nat
         /\ globalLogEpoch \in Nat \ {0}
<1>1. UNCHANGED <<globalLogEpoch, changes, tree, recovered, phase, replayMax, replayed, keyOf, pc>>
  BY DEF vars, rows, epochs, writers, history, recovery
<1>2. UNCHANGED committed => Past'
  BY <1>1 DEF KInv, Past
<1>3. Late' = Late
  BY <1>1 DEF Late
<1>4. \A k \in Keys : minEpoch' = minEpoch => Older(k)' = Older(k)
  BY <1>1, <1>3 DEF Older
<1>5. \A n \in tree : n \in 1..Len(changes) /\ changes[n].epoch \in Nat
  <2>1. LogTypes /\ tree \subseteq 1..Len(changes)
    BY DEF LInv, LogTypes
  <2> QED
    BY <2>1, ChangeEpochs
<1>6. globalLogEpoch \in Nat \ {0}
  BY DEF LInv, LogTypes, LogsOK
<1>7. Keyed'
  BY <1>1, KeyedFrame DEF KInv
<1> QED
  BY <1>1, <1>2, <1>3, <1>4, <1>5, <1>6, <1>7

LEMMA BeginCkp ==
  ASSUME LInv, KInv, BeginCheckpoint
  PROVE  KInv'
<1>1. /\ phase = "up" /\ ckpPhase = "ready" /\ ckpGen < MaxGen
      /\ minEpoch' = globalLogEpoch /\ ckpGen' = ckpGen + 1 /\ ckState' = AllThreads("Go")
      /\ ckpPhase' = "scan" /\ UNCHANGED <<vars, maxEpoch, scan, files, committed, rows>>
  BY DEF BeginCheckpoint
<1>2. /\ UNCHANGED <<globalLogEpoch, changes, tree, recovered, phase>> /\ Late' = Late /\ Keyed'
      /\ Past' /\ globalLogEpoch \in Nat \ {0}
  BY <1>1, ThreadFrame
<1>3. \A c \in Ckps : ckState'[c] = "Go" /\ ckState[c] = "Ready"
  BY <1>1 DEF AllThreads, KInv, Committed
<1>4. CkpTypes'
  <2>1. ckpGen' \in 0..MaxGen
    BY <1>1, MaxGenAssumption DEF KInv, CkpTypes
  <2>2. ckState' \in [Ckps -> {"Ready", "Go", "writing"}]
    BY <1>1 DEF AllThreads
  <2> QED
    BY <1>1, <1>2, <2>1, <2>2 DEF KInv, CkpTypes
<1>5. Committed'
  <2>1. CheckpointRows' = CheckpointRows
    BY <1>1 DEF CheckpointRows
  <2> QED
    BY <1>1, <1>2, <2>1 DEF KInv, Committed, Making
<1>6. RangeOf \in [Keys -> Ckps]
  BY RangeOfAssumption
<1>7. \A k \in Keys : scan[k] = Unread
  BY <1>3, <1>6 DEF KInv, Unscanned
<1>8. Scanning'
  <2>1. 0 < minEpoch' /\ minEpoch' <= Bound' /\ Bound' <= globalLogEpoch'
    BY <1>1, <1>2 DEF Bound
  <2>3. \A n \in recovered' : changes'[n].epoch < minEpoch'
    BY <1>1, <1>2 DEF KInv, Past
  <2>4. \A k \in Keys : ckState'[RangeOf[k]] = "Go" /\ scan'[k] = Unread
    BY <1>1, <1>3, <1>6, <1>7
  <2>5. \A c \in Ckps : ckState'[c] # "Ready"
    BY <1>3
  <2> QED
    BY <1>6, <2>1, <2>3, <2>4, <2>5 DEF Scanning
<1>9. Unscanned'
  BY <1>3, <1>6 DEF Unscanned
<1> QED
  BY <1>2, <1>4, <1>5, <1>8, <1>9 DEF KInv

\* The scan reads what the row has.
LEMMA VisitValueCkp ==
  ASSUME LInv, KInv, NEW k \in Keys, VisitValue(k)
  PROVE  KInv'
<1>1. /\ phase = "up" /\ ckState[RangeOf[k]] = "Go" /\ scan' = [scan EXCEPT ![k] = Row(k)]
      /\ UNCHANGED <<vars, ckpGen, ckpPhase, minEpoch, maxEpoch, ckState, files, committed, rows>>
  BY DEF VisitValue
<1>2. /\ UNCHANGED <<globalLogEpoch, changes, tree, recovered, phase>> /\ Late' = Late /\ Keyed'
      /\ Past' /\ \A j \in Keys : Older(j)' = Older(j)
      /\ \A n \in tree : n \in 1..Len(changes) /\ changes[n].epoch \in Nat
  BY <1>1, ThreadFrame
<1>3. RangeOf[k] \in Ckps /\ RangeOf \in [Keys -> Ckps]
  BY RangeOfAssumption
<1>4. ckpPhase = "scan"
  BY <1>1, <1>3 DEF KInv, Committed
<1>5. scan = [j \in Keys |-> scan[j]]
  BY DEF KInv, CkpTypes
<1>6. scan' = [j \in Keys |-> scan'[j]] /\ scan'[k] = Row(k) /\ \A j \in Keys \ {k} : scan'[j] = scan[j]
  BY <1>1, <1>5
<1>7. CkpTypes'
  BY <1>1, <1>6 DEF KInv, CkpTypes
<1>8. CheckpointRows' = CheckpointRows
  BY <1>1 DEF CheckpointRows
<1>9. Committed'
  BY <1>1, <1>2, <1>8 DEF KInv, Committed, Making
<1>10. Bound = globalLogEpoch /\ Bound' = globalLogEpoch
  BY <1>1, <1>2, <1>4 DEF Bound
<1>11. Older(k) \subseteq Row(k) /\ Within(Row(k))
  BY <1>1, <1>2, <1>10 DEF Older, Row, Within, KInv, Past
<1>12. Scanning'
  <2>1. /\ 0 < minEpoch /\ minEpoch <= Bound /\ Bound <= globalLogEpoch
        /\ \A n \in recovered : changes[n].epoch < minEpoch
        /\ \A j \in Keys : ckState[RangeOf[j]] = "Ready" => Older(j) \subseteq files[ckpGen][RangeOf[j]]
        /\ \A c \in Ckps : ckState[c] = "Ready" => Within(files[ckpGen][c])
    BY <1>4 DEF KInv, Scanning, Making
  <2>2. ASSUME NEW j \in Keys, ckState[RangeOf[j]] # "Ready"
        PROVE  \/ ckState[RangeOf[j]] = "Go" /\ scan'[j] = Unread
               \/ Older(j) \subseteq scan'[j] /\ Within(scan'[j])
    <3>1. \/ ckState[RangeOf[j]] = "Go" /\ scan[j] = Unread
          \/ Older(j) \subseteq scan[j] /\ Within(scan[j])
      BY <1>4, <2>2 DEF KInv, Scanning, Making
    <3> QED
      BY <1>6, <1>11, <3>1
  <2>3. \A j \in Keys : Within(scan[j])' <=> Within(scan'[j])
    BY <1>2, <1>10 DEF Within
  <2>4. \A c \in Ckps : Within(files[ckpGen][c])' <=> Within(files[ckpGen][c])
    BY <1>1, <1>2, <1>10 DEF Within
  <2> QED
    BY <1>1, <1>2, <1>10, <2>1, <2>2, <2>3, <2>4 DEF Scanning
<1>13. Unscanned'
  <2>1. \A j \in Keys : ckState[RangeOf[j]] = "Ready" => j # k
    BY <1>1
  <2> QED
    BY <1>1, <1>6, <2>1 DEF KInv, Unscanned
<1> QED
  BY <1>2, <1>7, <1>9, <1>12, <1>13 DEF KInv

LEMMA CreateFileCkp ==
  ASSUME LInv, KInv, NEW c \in Ckps, CreateFile(c)
  PROVE  KInv'
<1>1. /\ phase = "up" /\ ckState[c] = "Go" /\ \A k \in RangeKeys(c) : scan[k] # Unread
      /\ files' = [files EXCEPT ![ckpGen][c] = Torn] /\ ckState' = [ckState EXCEPT ![c] = "writing"]
      /\ UNCHANGED <<vars, ckpGen, ckpPhase, minEpoch, maxEpoch, scan, committed, rows>>
  BY DEF CreateFile
<1>2. /\ UNCHANGED <<globalLogEpoch, changes, tree, recovered, phase>> /\ Late' = Late /\ Keyed'
      /\ Past' /\ \A k \in Keys : Older(k)' = Older(k)
  BY <1>1, ThreadFrame
<1>3. /\ ckState \in [Ckps -> {"Ready", "Go", "writing"}] /\ RangeOf \in [Keys -> Ckps]
      /\ ckpGen \in 0..MaxGen /\ committed.gen \in 0..MaxGen /\ MaxGen \in Nat
  BY RangeOfAssumption, MaxGenAssumption DEF KInv, CkpTypes
<1>4. /\ ckpPhase = "scan" /\ ckpGen # committed.gen /\ ckpGen \in Gens
      /\ committed.gen # 0 => committed.gen \in Gens
  BY <1>1, <1>3 DEF KInv, Committed, Making, Gens
<1>5. /\ FilesForm(files')
      /\ \A d \in Ckps \ {c} : files'[ckpGen][d] = files[ckpGen][d]
      /\ \A g \in Gens \ {ckpGen} : files'[g] = files[g]
  <2>1. FilesForm(files) /\ FileSet(files, files', ckpGen, c, Torn)
    BY <1>1 DEF FilesForm, FileSet, KInv, CkpTypes
  <2> QED
    BY <1>3, <1>4, <2>1, FilesUpdate
<1>6. ckState' \in [Ckps -> {"Ready", "Go", "writing"}] /\ ckState'[c] = "writing"
      /\ \A d \in Ckps \ {c} : ckState'[d] = ckState[d]
  BY <1>1, <1>3
<1>7. CkpTypes'
  BY <1>1, <1>5, <1>6 DEF KInv, CkpTypes, FilesForm
<1>8. CheckpointRows' = CheckpointRows
  <2>1. committed.gen # 0 => files'[committed.gen] = files[committed.gen]
    BY <1>3, <1>4, <1>5
  <2> QED
    BY <1>1, <2>1 DEF CheckpointRows
<1>9. Committed'
  BY <1>1, <1>2, <1>4, <1>8 DEF KInv, Committed, Making
<1>10. /\ \A k \in Keys : Within(scan[k])' <=> Within(scan[k])
       /\ \A d \in Ckps \ {c} : Within(files[ckpGen][d])' <=> Within(files[ckpGen][d])
       /\ Bound' = Bound
  BY <1>1, <1>2, <1>5 DEF Within, Bound
<1>11. Scanning'
  <2>1. /\ 0 < minEpoch /\ minEpoch <= Bound /\ Bound <= globalLogEpoch
        /\ \A n \in recovered : changes[n].epoch < minEpoch
    BY <1>4 DEF KInv, Scanning, Making
  <2>2. ASSUME NEW k \in Keys, ckState'[RangeOf[k]] # "Ready"
        PROVE  \/ ckState'[RangeOf[k]] = "Go" /\ scan[k] = Unread
               \/ Older(k) \subseteq scan[k] /\ Within(scan[k])
    <3>1. ckState[RangeOf[k]] # "Ready" /\ RangeOf[k] \in Ckps
      BY <1>1, <1>3, <1>6, <2>2
    <3>2. \/ ckState[RangeOf[k]] = "Go" /\ scan[k] = Unread
          \/ Older(k) \subseteq scan[k] /\ Within(scan[k])
      BY <1>4, <3>1 DEF KInv, Scanning, Making
    <3>3. RangeOf[k] = c => scan[k] # Unread
      BY <1>1 DEF RangeKeys
    <3> QED
      BY <1>6, <3>1, <3>2, <3>3
  <2>3. ASSUME NEW k \in Keys, ckState'[RangeOf[k]] = "Ready"
        PROVE  Older(k) \subseteq files'[ckpGen][RangeOf[k]]
    <3>1. RangeOf[k] \in Ckps \ {c} /\ ckState[RangeOf[k]] = "Ready"
      BY <1>3, <1>6, <2>3
    <3>2. Older(k) \subseteq files[ckpGen][RangeOf[k]]
      BY <1>4, <3>1 DEF KInv, Scanning, Making
    <3> QED
      BY <1>5, <3>1, <3>2
  <2>4. ASSUME NEW d \in Ckps, ckState'[d] = "Ready" PROVE Within(files[ckpGen][d])'
    <3>1. d # c /\ ckState[d] = "Ready"
      BY <1>6, <2>4
    <3>2. Within(files[ckpGen][d])
      BY <1>4, <3>1 DEF KInv, Scanning, Making
    <3> QED
      BY <1>10, <3>1, <3>2
  <2> QED
    BY <1>1, <1>2, <1>10, <2>1, <2>2, <2>3, <2>4 DEF Scanning
<1>12. Unscanned'
  BY <1>1, <1>3, <1>6 DEF KInv, Unscanned
<1> QED
  BY <1>2, <1>7, <1>9, <1>11, <1>12 DEF KInv

\* A file has what the scan read of its rows.
LEMMA WriteFileCkp ==
  ASSUME LInv, KInv, NEW c \in Ckps, WriteFile(c)
  PROVE  KInv'
<1> DEFINE read == UNION {scan[k] : k \in RangeKeys(c)}
<1>1. /\ phase = "up" /\ ckState[c] = "writing"
      /\ files' = [files EXCEPT ![ckpGen][c] = read] /\ ckState' = [ckState EXCEPT ![c] = "Ready"]
      /\ scan' = [k \in Keys |-> IF RangeOf[k] = c THEN Unread ELSE scan[k]]
      /\ UNCHANGED <<vars, ckpGen, ckpPhase, minEpoch, maxEpoch, committed, rows>>
  BY DEF WriteFile
<1>2. /\ UNCHANGED <<globalLogEpoch, changes, tree, recovered, phase>> /\ Late' = Late /\ Keyed'
      /\ Past' /\ \A k \in Keys : Older(k)' = Older(k)
  BY <1>1, ThreadFrame
<1>3. /\ ckState \in [Ckps -> {"Ready", "Go", "writing"}] /\ RangeOf \in [Keys -> Ckps]
      /\ ckpGen \in 0..MaxGen /\ committed.gen \in 0..MaxGen /\ MaxGen \in Nat
  BY RangeOfAssumption, MaxGenAssumption DEF KInv, CkpTypes
<1>4. /\ ckpPhase = "scan" /\ ckpGen # committed.gen /\ ckpGen \in Gens
      /\ committed.gen # 0 => committed.gen \in Gens
  BY <1>1, <1>3 DEF KInv, Committed, Making, Gens
<1>5. \A k \in RangeKeys(c) : k \in Keys /\ Older(k) \subseteq read /\ Within(scan[k])
  <2>1. ASSUME NEW k \in RangeKeys(c) PROVE k \in Keys /\ Older(k) \subseteq scan[k] /\ Within(scan[k])
    BY <1>1, <1>4 DEF RangeKeys, KInv, Scanning, Making
  <2> QED
    BY <2>1
<1>6. Within(read)
  BY <1>5 DEF Within
<1>7. PICK v : v = read
  OBVIOUS
<1>8. /\ files' = [files EXCEPT ![ckpGen][c] = v] /\ Within(v)
      /\ \A k \in Keys : RangeOf[k] = c => Older(k) \subseteq v
  <2>1. Within(v)
    BY <1>6, <1>7
  <2>2. \A k \in RangeKeys(c) : Older(k) \subseteq v
    BY <1>5, <1>7
  <2> QED
    BY <1>1, <1>7, <2>1, <2>2 DEF RangeKeys
<1> HIDE DEF read
<1>9. /\ FilesForm(files') /\ files'[ckpGen][c] = v
      /\ \A d \in Ckps \ {c} : files'[ckpGen][d] = files[ckpGen][d]
      /\ \A g \in Gens \ {ckpGen} : files'[g] = files[g]
  <2>1. FilesForm(files) /\ FileSet(files, files', ckpGen, c, v)
    BY <1>8 DEF FilesForm, FileSet, KInv, CkpTypes
  <2> QED
    BY <1>3, <1>4, <2>1, FilesUpdate
<1>10. ckState' \in [Ckps -> {"Ready", "Go", "writing"}] /\ ckState'[c] = "Ready"
      /\ \A d \in Ckps \ {c} : ckState'[d] = ckState[d]
  BY <1>1, <1>3
<1>11. /\ scan' = [k \in Keys |-> scan'[k]] /\ \A k \in Keys : RangeOf[k] # c => scan'[k] = scan[k]
       /\ \A k \in Keys : RangeOf[k] = c => scan'[k] = Unread
  BY <1>1
<1>12. CkpTypes'
  BY <1>1, <1>9, <1>10, <1>11 DEF KInv, CkpTypes, FilesForm
<1>13. CheckpointRows' = CheckpointRows
  <2>1. committed.gen # 0 => files'[committed.gen] = files[committed.gen]
    BY <1>3, <1>4, <1>9
  <2> QED
    BY <1>1, <2>1 DEF CheckpointRows
<1>14. Committed'
  BY <1>1, <1>2, <1>4, <1>13 DEF KInv, Committed, Making
<1>15. Bound' = Bound
  BY <1>1, <1>2 DEF Bound
<1>16. Scanning'
  <2>1. /\ 0 < minEpoch /\ minEpoch <= Bound /\ Bound <= globalLogEpoch
        /\ \A n \in recovered : changes[n].epoch < minEpoch
    BY <1>4 DEF KInv, Scanning, Making
  <2>2. ASSUME NEW k \in Keys, ckState'[RangeOf[k]] # "Ready"
        PROVE  \/ ckState'[RangeOf[k]] = "Go" /\ scan'[k] = Unread
               \/ Older(k) \subseteq scan'[k] /\ Within(scan[k])'
    <3>1. RangeOf[k] # c /\ RangeOf[k] \in Ckps
      BY <1>3, <1>10, <2>2
    <3>2. ckState'[RangeOf[k]] = ckState[RangeOf[k]] /\ scan'[k] = scan[k]
      BY <1>10, <1>11, <3>1
    <3>3. \/ ckState[RangeOf[k]] = "Go" /\ scan[k] = Unread
          \/ Older(k) \subseteq scan[k] /\ Within(scan[k])
      BY <1>4, <2>2, <3>2 DEF KInv, Scanning, Making
    <3>4. Within(scan[k]) => Within(scan[k])'
      BY <1>2, <1>15, <3>2 DEF Within
    <3> QED
      BY <3>2, <3>3, <3>4
  <2>3. ASSUME NEW k \in Keys, ckState'[RangeOf[k]] = "Ready"
        PROVE  Older(k) \subseteq files'[ckpGen][RangeOf[k]]
    <3>1. CASE RangeOf[k] = c
      BY <1>8, <1>9, <3>1
    <3>2. CASE RangeOf[k] # c
      <4>1. RangeOf[k] \in Ckps \ {c} /\ ckState[RangeOf[k]] = "Ready"
        BY <1>3, <1>10, <2>3, <3>2
      <4>2. Older(k) \subseteq files[ckpGen][RangeOf[k]]
        BY <1>4, <4>1 DEF KInv, Scanning, Making
      <4> QED
        BY <1>9, <4>1, <4>2
    <3> QED
      BY <3>1, <3>2
  <2>4. ASSUME NEW d \in Ckps, ckState'[d] = "Ready" PROVE Within(files[ckpGen][d])'
    <3>1. CASE d = c
      BY <1>1, <1>2, <1>8, <1>9, <1>15, <3>1 DEF Within
    <3>2. CASE d # c
      <4>1. ckState[d] = "Ready" /\ files'[ckpGen][d] = files[ckpGen][d]
        BY <1>9, <1>10, <2>4, <3>2
      <4>2. Within(files[ckpGen][d])
        BY <1>4, <4>1 DEF KInv, Scanning, Making
      <4> QED
        BY <1>1, <1>2, <1>15, <4>1, <4>2 DEF Within
    <3> QED
      BY <3>1, <3>2
  <2> QED
    BY <1>1, <1>2, <1>15, <2>1, <2>2, <2>3, <2>4 DEF Scanning
<1>17. Unscanned'
  <2> SUFFICES ASSUME NEW k \in Keys, ckState'[RangeOf[k]] = "Ready" PROVE scan'[k] = Unread
    BY <1>1 DEF Unscanned
  <2>1. CASE RangeOf[k] = c
    BY <1>11, <2>1
  <2>2. CASE RangeOf[k] # c
    <3>1. ckState[RangeOf[k]] = "Ready"
      BY <1>3, <1>10, <2>2
    <3> QED
      BY <1>11, <2>2, <3>1 DEF KInv, Unscanned
  <2> QED
    BY <2>1, <2>2
<1> QED
  BY <1>2, <1>12, <1>14, <1>16, <1>17 DEF KInv

LEMMA PrepareCkp ==
  ASSUME LInv, KInv, Prepare
  PROVE  KInv'
<1>1. /\ phase = "up" /\ ckpPhase = "scan" /\ ckState = AllThreads("Ready")
      /\ maxEpoch' = globalLogEpoch /\ ckpPhase' = "prepared"
      /\ UNCHANGED <<vars, ckpGen, minEpoch, scan, ckState, files, committed, rows>>
  BY DEF Prepare
<1>2. /\ UNCHANGED <<globalLogEpoch, changes, tree, recovered, phase>> /\ Late' = Late /\ Keyed'
      /\ Past' /\ (\A k \in Keys : Older(k)' = Older(k)) /\ globalLogEpoch \in Nat
  BY <1>1, ThreadFrame
<1>3. \A c \in Ckps : ckState[c] = "Ready"
  BY <1>1 DEF AllThreads
<1>4. CkpTypes'
  BY <1>1, <1>2 DEF KInv, CkpTypes
<1>5. Committed'
  <2>1. CheckpointRows' = CheckpointRows
    BY <1>1 DEF CheckpointRows
  <2> QED
    BY <1>1, <1>2, <1>3, <2>1 DEF KInv, Committed, Making
<1>6. Bound' = Bound
  BY <1>1, <1>2 DEF Bound
<1>7. Scanning'
  <2>1. /\ 0 < minEpoch /\ minEpoch <= Bound /\ Bound <= globalLogEpoch
        /\ \A n \in recovered : changes[n].epoch < minEpoch
        /\ \A k \in Keys : ckState[RangeOf[k]] = "Ready" => Older(k) \subseteq files[ckpGen][RangeOf[k]]
        /\ \A c \in Ckps : ckState[c] = "Ready" => Within(files[ckpGen][c])
    BY <1>1 DEF KInv, Scanning, Making
  <2>2. \A c \in Ckps : Within(files[ckpGen][c])' <=> Within(files[ckpGen][c])
    BY <1>1, <1>2, <1>6 DEF Within
  <2>3. \A k \in Keys : ckState[RangeOf[k]] = "Ready"
    BY <1>3, RangeOfAssumption
  <2> QED
    BY <1>1, <1>2, <1>6, <2>1, <2>2, <2>3 DEF Scanning
<1>8. Unscanned'
  BY <1>1 DEF KInv, Unscanned
<1> QED
  BY <1>2, <1>4, <1>5, <1>7, <1>8 DEF KInv

\* The checkpoint that is committed has all that it must.
LEMMA CommitCkp ==
  ASSUME LInv, KInv, Commit
  PROVE  KInv'
<1>1. /\ phase = "up" /\ ckpPhase = "prepared" /\ ckpPhase' = "committed"
      /\ committed' = [gen |-> ckpGen, min |-> minEpoch, max |-> maxEpoch]
      /\ UNCHANGED <<vars, ckpGen, minEpoch, maxEpoch, scan, ckState, files, rows>>
  BY DEF Commit
<1>2. /\ UNCHANGED <<globalLogEpoch, changes, tree, recovered, phase, replayMax, replayed>>
      /\ Late' = Late /\ Keyed'
      /\ \A n \in tree : n \in 1..Len(changes)
  BY <1>1, ThreadFrame
<1>3. /\ 0 < minEpoch /\ minEpoch <= Bound /\ Bound <= globalLogEpoch /\ Bound = maxEpoch
      /\ \A n \in recovered : changes[n].epoch < minEpoch
      /\ \A k \in Keys : ckState[RangeOf[k]] = "Ready" => Older(k) \subseteq files[ckpGen][RangeOf[k]]
      /\ \A c \in Ckps : ckState[c] = "Ready" => Within(files[ckpGen][c])
  BY <1>1 DEF KInv, Scanning, Making, Bound
<1>4. /\ \A c \in Ckps : ckState[c] = "Ready"
      /\ ckpGen \in 0..MaxGen /\ ckpGen # 0
      /\ minEpoch \in Nat /\ maxEpoch \in Nat /\ globalLogEpoch \in Nat
  <2>1. committed.gen \in 0..MaxGen /\ MaxGen \in Nat /\ ckpGen = committed.gen + 1
    BY <1>1, MaxGenAssumption DEF KInv, Committed, CkpTypes, Making
  <2> QED
    BY <1>1, <2>1 DEF KInv, Committed, CkpTypes, LInv, LogTypes, LogsOK
<1>5. committed'.gen = ckpGen /\ committed'.min = minEpoch /\ committed'.max = maxEpoch
  BY <1>1
<1>6. CkpTypes'
  <2>1. committed' \in [gen : 0..MaxGen, min : Nat, max : Nat] /\ committed'.min # 0
    BY <1>1, <1>3, <1>4
  <2> QED
    BY <1>1, <1>4, <1>5, <2>1 DEF KInv, CkpTypes
<1>7. Past'
  BY <1>1, <1>2, <1>3, <1>4, <1>5 DEF KInv, Past
<1>8. CheckpointRows' = UNION {files[ckpGen][c] : c \in Ckps}
  BY <1>1, <1>4, <1>5 DEF CheckpointRows
<1>9. ASSUME NEW n \in CheckpointRows' PROVE n \in 1..Len(changes) /\ changes[n].epoch <= maxEpoch
  <2>1. PICK c \in Ckps : n \in files[ckpGen][c]
    BY <1>8
  <2> QED
    BY <1>3, <1>4, <2>1 DEF Within
<1>10. ASSUME NEW n \in tree \ Late, changes[n].epoch < minEpoch PROVE n \in CheckpointRows'
  <2>1. keyOf[n] \in Keys
    <3>1. keyOf \in Seq(Keys) /\ n \in 1..Len(keyOf)
      BY <1>2 DEF KInv, Keyed
    <3> QED
      BY <3>1, ElementOfSeq
  <2>2. RangeOf[keyOf[n]] \in Ckps
    BY <2>1, RangeOfAssumption
  <2>3. n \in Older(keyOf[n])
    BY <1>10 DEF Older
  <2>4. n \in files[ckpGen][RangeOf[keyOf[n]]]
    BY <1>3, <1>4, <2>1, <2>2, <2>3
  <2> QED
    BY <1>8, <2>2, <2>4
<1>11. Committed'
  <2>1. ~ Making' /\ phase' = "up"
    BY <1>1, <1>2 DEF Making
  <2> QED
    BY <1>1, <1>2, <1>4, <1>5, <1>9, <1>10, <2>1 DEF Committed
<1>12. Scanning'
  BY <1>1 DEF Scanning, Making
<1>13. Unscanned'
  BY <1>1 DEF KInv, Unscanned
<1> QED
  BY <1>2, <1>6, <1>7, <1>11, <1>12, <1>13 DEF KInv

LEMMA UnlinkCkp ==
  ASSUME LInv, KInv, Unlink
  PROVE  KInv'
<1>1. /\ phase = "up" /\ ckpPhase = "committed" /\ ckpPhase' = "ready"
      /\ files' = [g \in Gens |-> IF g = ckpGen - 1 THEN [c \in Ckps |-> Absent] ELSE files[g]]
      /\ UNCHANGED <<vars, ckpGen, minEpoch, maxEpoch, scan, ckState, committed, rows>>
  BY DEF Unlink
<1>2. UNCHANGED <<changes, tree, phase>> /\ Late' = Late /\ Keyed' /\ Past'
  BY <1>1, ThreadFrame
<1>3. committed.gen \in Gens /\ ckpGen = committed.gen /\ FilesForm(files)
  BY <1>1, MaxGenAssumption DEF KInv, CkpTypes, Committed, Making, FilesForm, Gens
<1>4. FilesForm(files') /\ files'[committed.gen] = files[committed.gen]
  <2>1. committed.gen # ckpGen - 1
    BY <1>3 DEF Gens
  <2>2. files'[committed.gen] = files[committed.gen]
    BY <1>1, <1>3, <2>1
  <2>3. ASSUME NEW g \in Gens PROVE files'[g] = [c \in Ckps |-> files'[g][c]]
    <3>1. files[g] = [c \in Ckps |-> files[g][c]]
      BY <1>3 DEF FilesForm
    <3> QED
      BY <1>1, <3>1
  <2>4. files' = [g \in Gens |-> files'[g]]
    BY <1>1
  <2> QED
    BY <2>2, <2>3, <2>4 DEF FilesForm
<1>5. CkpTypes'
  BY <1>1, <1>4 DEF KInv, CkpTypes, FilesForm
<1>6. CheckpointRows' = CheckpointRows
  BY <1>1, <1>4 DEF CheckpointRows
<1>7. Committed'
  BY <1>1, <1>2, <1>6 DEF KInv, Committed, Making
<1>8. Scanning'
  BY <1>1 DEF Scanning, Making
<1>9. Unscanned'
  BY <1>1 DEF KInv, Unscanned
<1> QED
  BY <1>2, <1>5, <1>7, <1>8, <1>9 DEF KInv

LEMMA CrashCkp ==
  ASSUME LInv, KInv, CkpCrash
  PROVE  KInv'
<1>1. /\ replayed' = {} /\ ckpGen' = committed.gen /\ ckpPhase' = "ready" /\ minEpoch' = 0
      /\ maxEpoch' = 0 /\ scan' = NoRows /\ ckState' = AllThreads("Ready")
      /\ UNCHANGED <<changes, tree, files, committed, keyOf>>
      /\ row' = [w \in Writers |-> Unread] /\ pc' = Idle
      /\ phase' = IF ChecksPass(Max({FirstEpoch(disk'[l]) : l \in Logs}), replayMax')
                  THEN "replay" ELSE "aborted"
  BY DEF CkpCrash, ReadGeneration, LoseMemory, history
<1>2. Keyed' /\ Late' = Late
  BY <1>1 DEF KInv, Keyed, Idle, Late
<1>3. CkpTypes'
  BY <1>1, <1>2 DEF KInv, CkpTypes, NoRows, AllThreads
<1>4. phase' = "replay" /\ committed.gen # 0 => committed.min < replayMax' /\ committed.max < replayMax'
  BY <1>1 DEF ChecksPass
<1>5. Past'
  BY <1>1, <1>4 DEF Past
<1>6. CheckpointRows' = CheckpointRows
  BY <1>1 DEF CheckpointRows
<1>7. Committed'
  BY <1>1, <1>2, <1>6 DEF KInv, Committed, Making, AllThreads
<1>8. Scanning' /\ Unscanned'
  BY <1>1 DEF Scanning, Making, Unscanned, NoRows
<1> QED
  BY <1>2, <1>3, <1>5, <1>7, <1>8 DEF KInv

LEMMA ReplayFromCkp ==
  ASSUME LInv, KInv, NEW l \in Logs, ReplayFrom(l)
  PROVE  KInv'
<1>1. /\ phase = "replay" /\ replayed' = replayed \cup ReplayedOf(disk'[l], committed.min)
      /\ UNCHANGED <<changes, tree, phase, replayMax, pc, rows>>
      /\ UNCHANGED <<ckpGen, ckpPhase, minEpoch, maxEpoch, scan, ckState, files, committed>>
      /\ Late' = Late
  BY DEF ReplayFrom, history, writers, ckp, Late
<1>2. ASSUME NEW n \in ReplayedOf(disk'[l], committed.min)
      PROVE  changes[n].epoch \in committed.min..(replayMax - 1)
  <2>1. n \in ChangesIn(disk'[l]) /\ changes[n].epoch >= committed.min /\ changes[n].epoch < replayMax
        /\ n \in 1..Len(changes)
    BY ReplayedHere, TruthfulChanges
  <2>2. changes[n].epoch \in Nat
    BY <2>1, ChangeEpochs DEF LInv
  <2>3. changes[n].epoch \in Nat /\ committed.min \in Nat /\ replayMax \in Nat
    BY <2>2 DEF KInv, CkpTypes, LInv, LogTypes
  <2> QED
    BY <2>1, <2>3
<1>3. Past'
  BY <1>1, <1>2 DEF KInv, Past
<1>4. CheckpointRows' = CheckpointRows
  BY <1>1 DEF CheckpointRows
<1>5. CkpTypes' /\ Unscanned'
  BY <1>1 DEF KInv, CkpTypes, Unscanned
<1>6. Committed'
  BY <1>1, <1>4 DEF KInv, Committed, Making
<1>7. Scanning'
  BY <1>1 DEF KInv, Committed, Scanning, Making
<1>8. Keyed'
  BY <1>1, KeyedFrame DEF KInv
<1> QED
  BY <1>3, <1>5, <1>6, <1>7, <1>8 DEF KInv

LEMMA RestartCkp ==
  ASSUME LInv, KInv, RestartFromCheckpoint
  PROVE  KInv'
<1>1. /\ phase = "replay" /\ phase' = "up" /\ tree' = Restored /\ recovered' = Restored
      /\ replayed' = {} /\ globalLogEpoch' = replayMax + 1 /\ UNCHANGED <<changes, pc, rows>>
      /\ UNCHANGED <<ckpGen, ckpPhase, minEpoch, maxEpoch, scan, ckState, files, committed>>
      /\ Late' = Late
  BY DEF RestartFromCheckpoint, writers, ckp, Late
<1>2. /\ committed.gen # 0 => committed.min < replayMax /\ committed.max < replayMax
      /\ committed.gen = 0 => committed.min = 0
      /\ \A n \in replayed : changes[n].epoch \in committed.min..(replayMax - 1)
      /\ committed.min \in Nat /\ committed.max \in Nat /\ replayMax \in Nat
  BY <1>1 DEF KInv, Past, CkpTypes, LInv, LogTypes
<1>3. ASSUME NEW n \in Restored PROVE changes[n].epoch < replayMax /\ changes[n].epoch \in Nat
  <2>1. CASE n \in CheckpointRows
    <3>1. n \in 1..Len(changes) /\ changes[n].epoch <= committed.max /\ committed.gen # 0
      BY <2>1 DEF KInv, Committed, CheckpointRows
    <3>2. changes[n].epoch \in Nat
      BY <3>1, ChangeEpochs DEF LInv
    <3> QED
      BY <1>2, <3>1, <3>2
  <2>2. CASE n \in replayed
    BY <1>2, <2>2
  <2> QED
    BY <2>1, <2>2 DEF Restored
<1>4. Past'
  <2>1. committed.min <= replayMax + 1
    BY <1>2
  <2>2. \A n \in Restored : changes[n].epoch < replayMax + 1
    BY <1>2, <1>3
  <2> QED
    BY <1>1, <1>2, <1>3, <2>1, <2>2 DEF Past
<1>5. CheckpointRows' = CheckpointRows
  BY <1>1 DEF CheckpointRows
<1>6. CkpTypes' /\ Unscanned'
  BY <1>1 DEF KInv, CkpTypes, Unscanned
<1>7. Committed'
  <2>1. ASSUME NEW n \in Restored, changes[n].epoch < committed.min PROVE n \in CheckpointRows
    <3>1. n \notin replayed
      BY <1>2, <2>1
    <3> QED
      BY <3>1 DEF Restored
  <2> QED
    BY <1>1, <1>5, <2>1 DEF KInv, Committed, Making
<1>8. Scanning'
  BY <1>1 DEF KInv, Committed, Scanning, Making
<1>9. Keyed'
  BY <1>1, KeyedFrame DEF KInv
<1> QED
  BY <1>4, <1>6, <1>7, <1>8, <1>9 DEF KInv

-----------------------------------------------------------------------------
(* The invariant holds.                                                    *)

LEMMA QuiescedSound ==
  ASSUME NEW ch
  PROVE  /\ Quiesced \in Seq(Records) /\ ChangesIn(Quiesced) = {}
         /\ Sound(Quiesced, ch) /\ LastEpoch(Quiesced) = 1
<1>1. Quiesced \in Seq(Records) /\ ChangesIn(Quiesced) = {}
  BY QuietContents DEF Quiesced
<1>2. PICK E \in Records, Q \in Records : /\ E = EpochRecord(1) /\ E.cmd = "epoch" /\ E.epoch = 1
                                          /\ Q = QuiesceRecord /\ Q.cmd = "quiesce"
  BY RecordTypes DEF EpochRecord, QuiesceRecord
<1>3. PICK s \in Seq(Records) : s = <<>> \o <<E>> /\ s # <<>> /\ Sound(s, ch) /\ LastEpoch(s) = 1
  <2>1. <<>> \in Seq(Records) /\ Sound(<<>>, ch) /\ LastEpoch(<<>>) = 0
    BY EmptySound
  <2>2. Follows(<<>>, E, ch)
    BY <1>2, <2>1 DEF Follows
  <2> QED
    BY <1>2, <2>1, <2>2, ExtendedSound
<1>4. Sound(s \o <<Q>>, ch) /\ LastEpoch(s \o <<Q>>) = 1
  <2>1. Follows(s, Q, ch)
    BY <1>2, <1>3 DEF Follows
  <2> QED
    BY <1>2, <1>3, <2>1, ExtendedSound
<1>5. Quiesced = s \o <<Q>>
  BY <1>2, <1>3 DEF Quiesced
<1> QED
  BY <1>1, <1>4, <1>5

\* The logs of a new database and of one that has been idle.
LEMMA CkpInitShape ==
  ASSUME CkpInit
  PROVE  /\ phase = "up" /\ changes = <<>> /\ tree = {} /\ answered = {} /\ recovered = {}
         /\ crashes = 0 /\ buf = [l \in Logs |-> <<>>] /\ flushing = [l \in Logs |-> Nothing]
         /\ \/ disk = [l \in Logs |-> <<>>] /\ logEpoch = Zeros /\ flushedEpoch = Zeros
            \/ disk = [l \in Logs |-> Quiesced] /\ logEpoch = Ones /\ flushedEpoch = Ones
         /\ LogsOK
<1>1. Nothing \in [records : Seq(Records), epoch : Nat]
      /\ <<>> \in Seq(Records) /\ Quiesced \in Seq(Records)
  BY EmptyContents, QuiescedSound DEF Nothing
<1> HIDE DEF Nothing
<1>2. /\ phase = "up" /\ changes = <<>> /\ tree = {} /\ answered = {} /\ recovered = {}
      /\ crashes = 0 /\ buf = [l \in Logs |-> <<>>] /\ flushing = [l \in Logs |-> Nothing]
      /\ change = None /\ epoch = None /\ wakeEpoch = Zeros /\ globalWakeEpoch = 0
      /\ \/ /\ globalLogEpoch = 1 /\ disk = [l \in Logs |-> <<>>] /\ logEpoch = Zeros
            /\ flushedEpoch = Zeros /\ quiescentEpoch = Zeros
         \/ /\ globalLogEpoch = 3 /\ disk = [l \in Logs |-> Quiesced] /\ logEpoch = Ones
            /\ flushedEpoch = Ones /\ quiescentEpoch = Ones
  BY DEF CkpInit, Init, IdleLogs
<1>3. /\ Zeros \in [Logs -> Nat] /\ Ones \in [Logs -> Nat] /\ None \in [Writers -> Nat]
      /\ [l \in Logs |-> <<>>] \in [Logs -> Seq(Records)]
      /\ [l \in Logs |-> Quiesced] \in [Logs -> Seq(Records)]
      /\ [l \in Logs |-> Nothing] \in [Logs -> [records : Seq(Records), epoch : Nat]]
  BY <1>1 DEF Zeros, Ones, None
<1>4. LogsOK
  <2>1. globalLogEpoch \in Nat \ {0} /\ globalWakeEpoch \in Nat
    BY <1>2
  <2>2. /\ logEpoch \in [Logs -> Nat] /\ quiescentEpoch \in [Logs -> Nat]
        /\ wakeEpoch \in [Logs -> Nat] /\ flushedEpoch \in [Logs -> Nat]
    BY <1>2, <1>3
  <2>3. /\ buf \in [Logs -> Seq(Records)] /\ disk \in [Logs -> Seq(Records)]
        /\ flushing \in [Logs -> [records : Seq(Records), epoch : Nat]]
    BY <1>2, <1>3
  <2>4. change \in [Writers -> Nat] /\ epoch \in [Writers -> Nat]
    BY <1>2, <1>3
  <2> QED
    BY <2>1, <2>2, <2>3, <2>4 DEF LogsOK
<1> QED
  BY <1>2, <1>4

LEMMA CkpInitStart ==
  ASSUME CkpInit, NEW l \in Logs
  PROVE  /\ buf[l] = <<>> /\ flushing[l] = Nothing /\ Whole(l) = disk[l]
         /\ Sound(disk[l], changes) /\ LastEpoch(disk[l]) = logEpoch[l]
         /\ logEpoch[l] \in {0, 1} /\ flushedEpoch[l] = logEpoch[l]
<1>1. /\ buf[l] = <<>> /\ flushing[l] = Nothing /\ LogsOK
      /\ \/ disk[l] = <<>> /\ logEpoch[l] = 0 /\ flushedEpoch[l] = 0
         \/ disk[l] = Quiesced /\ logEpoch[l] = 1 /\ flushedEpoch[l] = 1
  BY CkpInitShape DEF Ones, Zeros
<1>2. Whole(l) = disk[l]
  BY <1>1, BareWhole
<1>3. Sound(disk[l], changes) /\ LastEpoch(disk[l]) = logEpoch[l]
  BY <1>1, EmptySound, QuiescedSound
<1> QED
  BY <1>1, <1>2, <1>3

LEMMA CkpInitLogs == CkpInit => LInv
<1> SUFFICES ASSUME CkpInit PROVE LInv
  OBVIOUS
<1>1. /\ lock = [l \in Logs |-> NoWriter] /\ pc = Idle
      /\ globalLogEpoch \in {1, 3}
      /\ changes = <<>> /\ tree = {} /\ answered = {} /\ recovered = {}
      /\ phase = "up" /\ crashes = 0 /\ replayMax = 0 /\ toReplay = {} /\ replayed = {}
      /\ logEpoch \in {Zeros, Ones} /\ flushedEpoch \in {Zeros, Ones}
  BY DEF CkpInit, Init, IdleLogs
<1>2. LogsOK
  BY CkpInitShape
<1>3. LogTypes
  BY <1>1, <1>2 DEF LogTypes, Idle
<1>4. \A w \in Writers : Busy(w)
  BY <1>1 DEF Busy, Idle
<1>5. ASSUME NEW l \in Logs PROVE Told(l) /\ EpochsInOrder(l)
  <2>1. /\ buf[l] = <<>> /\ flushing[l] = Nothing /\ Whole(l) = disk[l]
        /\ Truthful(disk[l], changes) /\ LastEpoch(disk[l]) = logEpoch[l]
        /\ logEpoch[l] \in {0, 1} /\ flushedEpoch[l] = logEpoch[l]
    BY CkpInitStart DEF Sound
  <2>2. Told(l)
    BY <1>1, <2>1 DEF Told, Answered
  <2>3. InFlight(l) = {} /\ InBuffer(l) = {}
    BY <2>1, EmptyContents DEF InFlight, InBuffer, Nothing
  <2>4. EpochsInOrder(l)
    BY <1>1, <2>1, <2>3 DEF EpochsInOrder
  <2> QED
    BY <2>2, <2>4
<1>6. Down
  BY <1>1 DEF Down
<1> QED
  BY <1>3, <1>4, <1>5, <1>6 DEF LInv

LEMMA CkpInitKeeps == CkpInit => KInv
<1> SUFFICES ASSUME CkpInit PROVE KInv
  OBVIOUS
<1>1. /\ phase = "up" /\ ckpPhase = "ready" /\ scan = NoRows /\ ckState = AllThreads("Ready")
      /\ row = [w \in Writers |-> Unread] /\ keyOf = <<>> /\ pc = Idle
      /\ changes = <<>> /\ tree = {} /\ recovered = {}
  BY DEF CkpInit, Resting, Init, IdleLogs
<1>2. \/ /\ ckpGen = 0 /\ minEpoch = 0 /\ maxEpoch = 0 /\ globalLogEpoch = 1
         /\ files = [g \in Gens |-> [c \in Ckps |-> Absent]]
         /\ committed = [gen |-> 0, min |-> 0, max |-> 0]
      \/ /\ ckpGen = 1 /\ minEpoch = 2 /\ maxEpoch = 2 /\ globalLogEpoch = 3
         /\ files = [g \in Gens |-> [c \in Ckps |-> IF g = 1 THEN {} ELSE Absent]]
         /\ committed = [gen |-> 1, min |-> 2, max |-> 2]
  BY DEF CkpInit, Init, IdleLogs, AllThreads
<1>3. Keyed
  BY <1>1, EmptySeq DEF Keyed, Idle
<1>4. MaxGen \in Nat /\ 1 \in 0..MaxGen /\ 0 \in 0..MaxGen /\ 1 \in Gens
  BY MaxGenAssumption DEF Gens
<1>5. CkpTypes
  <2>1. scan = [k \in Keys |-> scan[k]] /\ ckState \in [Ckps -> {"Ready", "Go", "writing"}]
    BY <1>1 DEF NoRows, AllThreads
  <2>2. files = [g \in Gens |-> [c \in Ckps |-> files[g][c]]]
    BY <1>2
  <2> QED
    BY <1>1, <1>2, <1>4, <2>1, <2>2 DEF CkpTypes
<1>6. CheckpointRows = {}
  BY <1>2, <1>4 DEF CheckpointRows
<1>7. Past /\ Committed
  BY <1>1, <1>2, <1>6 DEF Past, Committed, Making, AllThreads
<1>8. Scanning /\ Unscanned
  BY <1>1 DEF Scanning, Making, Unscanned, NoRows
<1> QED
  BY <1>3, <1>5, <1>7, <1>8 DEF KInv

LEMMA CkpNextKeeps ==
  ASSUME LInv, KInv, [CkpNext]_cvars
  PROVE  LInv' /\ KInv'
<1>1. ASSUME UNCHANGED vars PROVE LInv'
  BY <1>1, StutterLogs
<1>2. CASE UNCHANGED cvars
  BY <1>1, <1>2, StutterCkp DEF cvars
<1>3. CASE Logging
  <2>1. LInv'
    BY <1>3, CheckEpochLogs, RecordLogs, LoggerPassLogs, FlushLogs DEF Logging
  <2> QED
    BY <1>3, <2>1, LoggingCkp
<1>4. CASE Checkpointing
  <2>1. UNCHANGED vars
    BY <1>4 DEF Checkpointing, BeginCheckpoint, Prepare, Commit, Unlink, VisitValue, CreateFile, WriteFile
  <2> QED
    BY <1>1, <1>4, <2>1, BeginCkp, PrepareCkp, CommitCkp, UnlinkCkp, VisitValueCkp, CreateFileCkp,
       WriteFileCkp DEF Checkpointing
<1>5. ASSUME NEW w \in Writers, ChangeRow(w) \/ \E k \in Keys : TakeEpoch(w, k) PROVE LInv' /\ KInv'
  BY <1>5, ChangeTreeLogs, ChangeRowCkp, ReadEpochLogs, TakeEpochCkp DEF ChangeRow, TakeEpoch
<1>6. CASE CkpCrash
  BY <1>6, CrashLogs, CrashCkp DEF KInv
<1>7. ASSUME NEW l \in Logs, ReplayFrom(l) PROVE LInv' /\ KInv'
  BY <1>7, ReplayFromLogs, ReplayFromCkp
<1>8. CASE RestartFromCheckpoint
  BY <1>8, RestartLogs, RestartCkp
<1> QED
  BY <1>2, <1>3, <1>4, <1>5, <1>6, <1>7, <1>8 DEF CkpNext

LEMMA CkpInvariance == CkpSpec => [](LInv /\ KInv)
<1>1. LInv /\ KInv /\ [CkpNext]_cvars => LInv' /\ KInv'
  BY CkpNextKeeps
<1> QED
  BY <1>1, CkpInitLogs, CkpInitKeeps, PTL DEF CkpSpec

\* min_epoch is read before the scan and the checkpoint only replaces the one
\* before when all its files are written: what the logs are not asked for is in
\* it, whatever the writers did meanwhile, and after any number of recoveries.
THEOREM CheckpointCovers == CkpSpec => []CheckpointCoversOlder
<1>1. LInv /\ KInv => CheckpointCoversOlder
  BY DEF KInv, Committed, CheckpointCoversOlder
<1> QED
  BY <1>1, CkpInvariance, PTL

\* max_flushed_epoch() beyond max_epoch means that every log that counts is flushed
\* beyond it or has nothing to flush.
LEMMA FlushedBeyond ==
  ASSUME LInv, NEW l \in Counted, NEW e \in Nat, MaxFlushedEpoch = 0 \/ MaxFlushedEpoch > e
  PROVE  (quiescentEpoch[l] # 0 /\ quiescentEpoch[l] = flushedEpoch[l]) \/ e < flushedEpoch[l]
<1>1. /\ globalLogEpoch \in Nat /\ flushedEpoch \in [Logs -> Nat]
      /\ l \in Logs /\ Counted \subseteq Logs /\ Logs \subseteq Nat
  BY DEF LInv, LogTypes, LogsOK, Counted, Logs
<1>2. \A m \in Counted : FlushedOf(m) \in Nat /\ FlushedOf(m) # 0
  <2>1. \A m \in Logs : FlushedOf(m) \in Nat
    BY <1>1 DEF FlushedOf
  <2>2. \A m \in Counted : m >= m
    BY <1>1
  <2> QED
    BY <1>1, <2>1, <2>2 DEF Counted
<1> DEFINE all == {FlushedOf(m) : m \in Counted}
<1>3. MaxFlushedEpoch = Min(all)
  BY DEF MaxFlushedEpoch
<1>4. Min(all) \in all /\ Min(all) <= FlushedOf(l)
  <2>1. all \in SUBSET Nat /\ all # {} /\ FlushedOf(l) \in all
    BY <1>2
  <2> HIDE DEF all
  <2> QED
    BY <2>1, LeastOf
<1>5. Min(all) \in Nat /\ Min(all) # 0
  BY <1>2, <1>4
<1> HIDE DEF all
<1>6. e < FlushedOf(l)
  BY <1>2, <1>3, <1>4, <1>5
<1> QED
  BY <1>6 DEF FlushedOf

\* When a checkpoint is committed, what was answered and is left to the logs that
\* count is in their files: the epochs that recovery compares with max_epoch are
\* on disk.  The other logs are not waited for (mtd.cc:1589, :1632).
THEOREM CommitsLogged == CkpSpec => CommitsOnlyLogged
<1>1. ASSUME LInv, KInv, [CkpNext]_cvars, committed' # committed
      PROVE  \A n \in CheckpointRows' \cap answered :
               changes[n].epoch >= committed'.min /\ changes[n].log \in Counted =>
                 n \in OnDisk(changes[n].log)
  <2>1. Commit
    BY <1>1 DEF CkpNext, Logging, Checkpointing, BeginCheckpoint, Prepare, Unlink, VisitValue, CreateFile,
         WriteFile, ChangeRow, TakeEpoch, CkpCrash, ReplayFrom, RestartFromCheckpoint, ckp, cvars
  <2> SUFFICES ASSUME NEW n \in CheckpointRows' \cap answered, changes[n].epoch >= committed'.min,
                      changes[n].log \in Counted
               PROVE  n \in OnDisk(changes[n].log)
    OBVIOUS
  <2>2. /\ phase = "up" /\ ckpPhase = "prepared" /\ ckpPhase' = "committed"
        /\ MaxFlushedEpoch = 0 \/ MaxFlushedEpoch > maxEpoch
        /\ committed'.min = minEpoch /\ committed'.max = maxEpoch
        /\ UNCHANGED vars
    BY <2>1 DEF Commit
  <2>3. /\ \A m \in recovered : changes[m].epoch < minEpoch
        /\ maxEpoch \in Nat /\ minEpoch \in Nat
    BY <1>1, <2>2 DEF KInv, Scanning, Making, CkpTypes
  <2>4. UNCHANGED changes
    BY <2>2 DEF vars, history
  <2>5. n \in 1..Len(changes) /\ changes[n].epoch <= maxEpoch
    <3>1. KInv'
      BY <1>1, CkpNextKeeps
    <3>2. n \in 1..Len(changes') /\ changes'[n].epoch <= committed'.max
      BY <3>1 DEF KInv, Committed
    <3> QED
      BY <2>2, <2>4, <3>2
  <2>6. PICK l \in Counted : l = changes[n].log
    OBVIOUS
  <2>7. l \in Logs /\ changes[n].epoch \in Nat
    BY <1>1, <2>5, <2>6, ChangeEpochs DEF LInv
  <2>8. n \in Answered(l) \ recovered
    BY <2>2, <2>3, <2>6, <2>7 DEF Answered
  <2>9. n \in OnDisk(l) \cup InFlight(l) \cup InBuffer(l)
    <3>1. n \in ChangesIn(Whole(l))
      BY <1>1, <2>2, <2>7, <2>8 DEF LInv, Told
    <3> QED
      BY <1>1, <2>7, <3>1, WholeType DEF LInv, LogTypes
  <2>10. EpochsInOrder(l) /\ flushedEpoch[l] \in Nat
    BY <1>1, <2>7 DEF LInv, LogTypes, LogsOK
  <2>11. CASE quiescentEpoch[l] # 0 /\ quiescentEpoch[l] = flushedEpoch[l]
    BY <2>6, <2>7, <2>9, <2>10, <2>11, EmptyContents DEF EpochsInOrder, InBuffer
  <2>12. CASE maxEpoch < flushedEpoch[l]
    BY <2>3, <2>5, <2>6, <2>7, <2>9, <2>10, <2>12 DEF EpochsInOrder
  <2> QED
    BY <1>1, <2>2, <2>3, <2>11, <2>12, FlushedBeyond
<1>2. LInv /\ KInv /\ [CkpNext]_cvars =>
        [committed' # committed =>
           \A n \in CheckpointRows' \cap answered :
             changes[n].epoch >= committed'.min /\ changes[n].log \in Counted =>
               n \in OnDisk(changes[n].log)]_cvars
  BY <1>1
<1> QED
  BY <1>2, CkpInvariance, PTL DEF CkpSpec, CommitsOnlyLogged

-----------------------------------------------------------------------------
(* The first recovery.  The logs are sound until the first crash; a log that *)
(* is silent then may stand for one that was lost.                          *)

\* A log before it is replayed from the checkpoint on, and afterwards.
CkpToRead(l) ==
  /\ Sound(disk[l], changes)
  /\ \A n \in Answered(l) \ OnDisk(l) : LastEpoch(disk[l]) <= changes[n].epoch
  /\ Silent(l) \/ replayMax <= LastEpoch(disk[l])
  /\ disk[l] # <<>> /\ committed.gen # 0 => disk[l][1].epoch < committed.min

CkpWasRead(l) ==
  /\ Silent(l) \/ \A n \in Answered(l) \ OnDisk(l) :
       changes[n].epoch >= committed.min => replayMax <= changes[n].epoch
  /\ \A n \in OnDisk(l) : changes[n].epoch >= committed.min => n \in replayed

FInv ==
  /\ crashes = 0 =>
       phase = "up" /\ Chronological /\ Timely /\ recovered = {} /\ \A l \in Logs : FirstLog(l)
  /\ crashes = 1 /\ phase = "replay" =>
       Chronological /\ \A l \in Logs : IF l \in toReplay THEN CkpToRead(l) ELSE CkpWasRead(l)

LEMMA FirstEpochIs ==
  ASSUME NEW s \in Seq(Records)
  PROVE  /\ FirstEpoch(s) \in Nat
         /\ Leading(s) /\ s # <<>> => FirstEpoch(s) = s[1].epoch
<1>1. /\ Places(s, "epoch") \subseteq 1..Len(s) /\ Len(s) \in Nat /\ DOMAIN s = 1..Len(s)
      /\ \A i \in Places(s, "epoch") : s[i].epoch \in Nat
  BY PlacesOf, RecordForm
<1>2. PICK at : at = Places(s, "epoch")
  OBVIOUS
<1>3. at \in SUBSET Nat
  BY <1>1, <1>2
<1>4. at # {} => Min(at) \in at /\ \A y \in at : Min(at) <= y
  BY <1>3, LeastOf
<1>5. FirstEpoch(s) = IF at = {} THEN 0 ELSE s[Min(at)].epoch
  BY <1>2 DEF FirstEpoch
<1>6. FirstEpoch(s) \in Nat
  BY <1>1, <1>2, <1>4, <1>5
<1>7. ASSUME Leading(s), s # <<>> PROVE FirstEpoch(s) = s[1].epoch
  <2>1. Len(s) # 0
    BY <1>7, EmptySeq
  <2>2. 1 \in at
    BY <1>1, <1>2, <1>7, <2>1 DEF Leading, Places
  <2>3. Min(at) \in at /\ Min(at) <= 1 /\ Min(at) \in 1..Len(s)
    BY <1>1, <1>2, <1>4, <2>2
  <2>4. Min(at) = 1
    BY <1>1, <2>3
  <2> QED
    BY <1>5, <2>2, <2>4
<1> QED
  BY <1>6, <1>7

\* The assertion that logs start before the checkpoint holds for each of them.
LEMMA FirstEpochs ==
  ASSUME NEW d \in [Logs -> Seq(Records)], NEW l \in Logs
  PROVE  /\ Max({FirstEpoch(d[m]) : m \in Logs}) \in Nat
         /\ FirstEpoch(d[l]) <= Max({FirstEpoch(d[m]) : m \in Logs})
<1>1. \A m \in Logs : FirstEpoch(d[m]) \in Nat
  BY FirstEpochIs
<1>2. PICK b \in Nat : \A m \in Logs : FirstEpoch(d[m]) <= b
  <2> DEFINE f == [m \in 1..NLogs |-> FirstEpoch(d[m])]
  <2>1. f \in [1..NLogs -> Nat] /\ \A m \in 1..NLogs : f[m] = FirstEpoch(d[m])
    BY <1>1 DEF Logs
  <2> HIDE DEF f
  <2>2. PICK b \in Nat : \A m \in 1..NLogs : f[m] <= b
    BY <2>1, ValuesBounded, LogOfAssumption
  <2> QED
    BY <2>1, <2>2 DEF Logs
<1> DEFINE firsts == {FirstEpoch(d[m]) : m \in Logs}
<1>3. firsts \in SUBSET Nat /\ firsts # {} /\ FirstEpoch(d[l]) \in firsts /\ \A y \in firsts : y <= b
  BY <1>1, <1>2
<1>4. Max(firsts) \in firsts /\ \A y \in firsts : y <= Max(firsts)
  <2> HIDE DEF firsts
  <2> QED
    BY <1>3, GreatestOf
<1> HIDE DEF firsts
<1>5. Max(firsts) \in Nat /\ FirstEpoch(d[l]) <= Max(firsts)
  BY <1>3, <1>4
<1> QED
  BY <1>5 DEF firsts

\* While the process is up only the time before the first crash counts.
LEMMA UpFirst ==
  ASSUME FInv, phase = "up", UNCHANGED <<phase, crashes, recovered>>,
         crashes = 0 => (Chronological /\ Timely /\ \A l \in Logs : FirstLog(l))'
  PROVE  FInv'
BY DEF FInv

\* A step that does not touch the logs.
LEMMA QuietFirst ==
  ASSUME LInv, FInv, phase = "up",
         UNCHANGED <<phase, crashes, recovered, changes, disk, flushing, buf, logEpoch>>,
         globalLogEpoch' \in Nat, globalLogEpoch <= globalLogEpoch'
  PROVE  FInv'
<1> SUFFICES ASSUME crashes = 0 PROVE (Chronological /\ Timely /\ \A l \in Logs : FirstLog(l))'
  BY UpFirst
<1>1. Chronological /\ Timely /\ \A l \in Logs : FirstLog(l)
  BY DEF FInv
<1>2. globalLogEpoch \in Nat /\ \A n \in 1..Len(changes) : changes[n].made \in Nat
  BY ChangeEpochs DEF LInv, LogTypes, LogsOK
<1>3. Chronological'
  BY <1>1 DEF Chronological
<1>4. Timely'
  <2> SUFFICES ASSUME NEW n \in 1..Len(changes) PROVE changes[n].made <= globalLogEpoch'
    BY DEF Timely
  <2>1. changes[n].made \in Nat /\ changes[n].made <= globalLogEpoch
    BY <1>1, <1>2 DEF Timely
  <2> QED
    BY <1>2, <2>1
<1>5. \A l \in Logs : Whole(l)' = Whole(l)
  BY DEF Whole
<1> QED
  BY <1>1, <1>3, <1>4, <1>5, FirstLogFrame

LEMMA ChangeRowFirst ==
  ASSUME LInv, FInv, NEW w \in Writers, ChangeRow(w)
  PROVE  FInv'
<1>1. /\ phase = "up"
      /\ UNCHANGED <<phase, crashes, recovered, disk, flushing, buf, logEpoch, globalLogEpoch>>
  BY DEF ChangeRow, ChangeTree, epochs, loginfo, recovery
<1>2. /\ Len(changes) \in Nat /\ Len(changes') = Len(changes) + 1
      /\ \A n \in 1..Len(changes) : n \in 1..Len(changes') /\ changes'[n] = changes[n]
      /\ changes'[Len(changes')].epoch <= globalLogEpoch
      /\ changes'[Len(changes')].made = globalLogEpoch
      /\ globalLogEpoch \in Nat
  <2>1. ChangeTree(w) /\ globalLogEpoch \in Nat
    BY DEF ChangeRow, LInv, LogTypes, LogsOK
  <2> QED
    BY <2>1, ChangeMade
<1> SUFFICES ASSUME crashes = 0 PROVE (Chronological /\ Timely /\ \A l \in Logs : FirstLog(l))'
  BY <1>1, UpFirst
<1>3. Chronological /\ Timely /\ \A l \in Logs : FirstLog(l)
  BY DEF FInv
<1>4. \A n \in 1..Len(changes') : n \in 1..Len(changes) \/ n = Len(changes')
  BY <1>2
<1>5. Timely'
  BY <1>1, <1>2, <1>3, <1>4 DEF Timely
<1>6. Chronological'
  <2>1. ASSUME NEW m \in 1..Len(changes'), NEW n \in 1..Len(changes'), m < n
        PROVE  changes'[m].made <= changes'[n].made
    <3>1. m \in 1..Len(changes)
      BY <1>2, <2>1
    <3>2. CASE n \in 1..Len(changes)
      BY <1>2, <1>3, <2>1, <3>1, <3>2 DEF Chronological
    <3>3. CASE n = Len(changes')
      BY <1>2, <1>3, <3>1, <3>3 DEF Timely
    <3> QED
      BY <1>4, <3>2, <3>3
  <2>2. \A n \in 1..Len(changes') : changes'[n].epoch <= changes'[n].made
    BY <1>2, <1>3, <1>4 DEF Chronological
  <2> QED
    BY <2>1, <2>2 DEF Chronological
<1>7. ASSUME NEW l \in Logs PROVE FirstLog(l)'
  <2>1. FirstLog(l) /\ Whole(l)' = Whole(l)
    BY <1>1, <1>3 DEF Whole
  <2>2. Sound(Whole(l), changes')
    BY <1>2, <2>1, SoundFrame DEF FirstLog
  <2> QED
    BY <1>1, <2>1, <2>2 DEF FirstLog
<1> QED
  BY <1>5, <1>6, <1>7

LEMMA LoggingFirst ==
  ASSUME LInv, FInv, Logging
  PROVE  FInv'
<1>1. LogsOK /\ LogTypes /\ globalLogEpoch \in Nat
  BY DEF LInv, LogTypes, LogsOK
<1>2. CASE CheckEpoch
  BY <1>1, <1>2, QuietFirst DEF CheckEpoch, loginfo, history, recovery
<1>3. ASSUME NEW w \in Writers, Record(w) PROVE FInv'
  <2>1. /\ phase = "up" /\ pc[w] = "recording" /\ Store(w) /\ LogOf[w] \in Logs
        /\ UNCHANGED <<globalLogEpoch, changes, recovered, flushing, disk, phase, crashes>>
    BY <1>3, LogOfAssumption DEF Record, Store, recovery
  <2> SUFFICES ASSUME crashes = 0 PROVE (Chronological /\ Timely /\ \A l \in Logs : FirstLog(l))'
    BY <2>1, UpFirst
  <2>2. Chronological /\ Timely /\ \A l \in Logs : FirstLog(l)
    BY DEF FInv
  <2>3. /\ change[w] \in 1..Len(changes) /\ changes[change[w]].epoch = epoch[w] /\ 0 < epoch[w]
        /\ logEpoch[LogOf[w]] <= epoch[w] /\ epoch[w] <= globalLogEpoch
    BY <2>1 DEF LInv, Busy
  <2>4. /\ logEpoch'[LogOf[w]] = epoch[w]
        /\ \A m \in Logs \ {LogOf[w]} : logEpoch'[m] = logEpoch[m]
        /\ \A m \in Logs \ {LogOf[w]} : buf'[m] = buf[m]
    BY <1>1, <2>1, <2>3, StoreEpochs, StoreEffect DEF LInv
  <2>5. ASSUME NEW m \in Logs PROVE FirstLog(m)'
    <3>1. CASE m = LogOf[w]
      <4>1. Sound(Whole(m), changes) /\ LastEpoch(Whole(m)) = logEpoch[m]
        BY <2>2 DEF FirstLog
      <4>2. Sound(Whole(m)', changes) /\ LastEpoch(Whole(m)') = epoch[w]
        BY <1>1, <2>1, <2>3, <3>1, <4>1, StoreSound
      <4> QED
        BY <2>1, <2>4, <3>1, <4>2 DEF FirstLog
    <3>2. CASE m # LogOf[w]
      <4>1. Whole(m)' = Whole(m)
        BY <2>1, <2>4, <3>2 DEF Whole
      <4> QED
        BY <2>1, <2>2, <2>4, <3>2, <4>1, FirstLogFrame
    <3> QED
      BY <3>1, <3>2
  <2> QED
    BY <2>1, <2>2, <2>5 DEF Chronological, Timely
<1>4. ASSUME NEW l \in Logs, LoggerPass(l) PROVE FInv'
  <2>1. /\ phase = "up"
        /\ UNCHANGED <<globalLogEpoch, changes, recovered, disk, phase, crashes>>
    BY <1>4 DEF LoggerPass, epochs, history, recovery
  <2> SUFFICES ASSUME crashes = 0 PROVE (Chronological /\ Timely /\ \A m \in Logs : FirstLog(m))'
    BY <2>1, UpFirst
  <2>2. Chronological /\ Timely /\ \A m \in Logs : FirstLog(m)
    BY DEF FInv
  <2>3. /\ \A m \in Logs \ {l} : buf'[m] = buf[m] /\ flushing'[m] = flushing[m]
        /\ \A m \in Logs \ {l} : logEpoch'[m] = logEpoch[m]
    BY <1>1, <1>4, PassEffect, PassEpochs DEF LInv
  <2>4. ASSUME NEW m \in Logs PROVE FirstLog(m)'
    <3>1. CASE m = l
      <4>1. Sound(Whole(l), changes) /\ LastEpoch(Whole(l)) = logEpoch[l] /\ logEpoch[l] <= globalLogEpoch
        BY <2>2 DEF FirstLog, LInv, EpochsInOrder
      <4>2. Sound(Whole(l)', changes) /\ LastEpoch(Whole(l)') = logEpoch'[l]
        BY <1>1, <1>4, <4>1, PassSound
      <4> QED
        BY <2>1, <3>1, <4>2 DEF FirstLog
    <3>2. CASE m # l
      <4>1. Whole(m)' = Whole(m)
        BY <2>1, <2>3, <3>2 DEF Whole
      <4> QED
        BY <2>1, <2>2, <2>3, <3>2, <4>1, FirstLogFrame
    <3> QED
      BY <3>1, <3>2
  <2> QED
    BY <2>1, <2>2, <2>4 DEF Chronological, Timely
<1>5. ASSUME NEW l \in Logs, Flush(l) PROVE FInv'
  <2>1. /\ phase = "up"
        /\ UNCHANGED <<globalLogEpoch, logEpoch, changes, recovered, buf, phase, crashes>>
        /\ \A m \in Logs \ {l} : disk'[m] = disk[m] /\ flushing'[m] = flushing[m]
    BY <1>1, <1>5 DEF Flush, epochs, history, recovery, LogsOK
  <2> SUFFICES ASSUME crashes = 0 PROVE (Chronological /\ Timely /\ \A m \in Logs : FirstLog(m))'
    BY <2>1, UpFirst
  <2>2. Chronological /\ Timely /\ \A m \in Logs : FirstLog(m)
    BY DEF FInv
  <2>3. ASSUME NEW m \in Logs PROVE Whole(m)' = Whole(m)
    <3>1. CASE m = l
      BY <1>1, <1>5, <3>1, FlushShape
    <3>2. CASE m # l
      BY <2>1, <3>2 DEF Whole
    <3> QED
      BY <3>1, <3>2
  <2>4. \A m \in Logs : FirstLog(m)'
    BY <2>1, <2>2, <2>3, FirstLogFrame
  <2> QED
    BY <2>1, <2>2, <2>4 DEF Chronological, Timely
<1> QED
  BY <1>2, <1>3, <1>4, <1>5 DEF Logging

\* A crash takes the end of a sound log: what is lost comes behind what is left.
LEMMA CrashFirst ==
  ASSUME LInv, KInv, FInv, CkpCrash
  PROVE  FInv'
<1>1. /\ crashes \in Nat /\ crashes' = crashes + 1 /\ toReplay' = Logs
      /\ LoseBuffers /\ LogsOK /\ UNCHANGED <<changes, tree, answered, committed>>
      /\ phase' = IF ChecksPass(Max({FirstEpoch(disk'[l]) : l \in Logs}), replayMax')
                  THEN "replay" ELSE "aborted"
  BY DEF CkpCrash, history, LInv, LogTypes
<1>2. CASE crashes # 0
  BY <1>1, <1>2 DEF FInv
<1>3. CASE phase' # "replay"
  BY <1>1, <1>3 DEF FInv
<1>4. CASE crashes = 0 /\ phase' = "replay"
  <2>1. Chronological /\ phase = "up" /\ recovered = {} /\ \A l \in Logs : FirstLog(l)
    BY <1>4 DEF FInv
  <2>2. Chronological'
    BY <1>1, <2>1 DEF Chronological
  <2>3. disk' \in [Logs -> Seq(Records)]
    BY <1>1, CrashEffect
  <2>4. PICK unset \in SUBSET {l \in Logs : disk'[l] = <<>>} :
          replayMax' = ReplayLimit(disk', unset \cup {l \in Logs : EndsQuiescent(disk'[l])},
                                   IF committed.max = 0 THEN 0 ELSE committed.max + 1)
    BY DEF CkpCrash
  <2>5. (IF committed.max = 0 THEN 0 ELSE committed.max + 1) \in Nat
        /\ committed.min \in Nat
    BY DEF KInv, CkpTypes
  <2>6. committed.gen # 0 => Max({FirstEpoch(disk'[l]) : l \in Logs}) < committed.min
    BY <1>1, <1>4, <2>5 DEF ChecksPass
  <2>7. ASSUME NEW l \in Logs PROVE CkpToRead(l)'
    <3>1. /\ disk'[l] \in Seq(Records) /\ Begins(disk'[l], Whole(l)) /\ Whole(l) \in Seq(Records)
      BY <1>1, CrashShape, WholeType
    <3>2. Sound(Whole(l), changes) /\ Answered(l) \ recovered \subseteq ChangesIn(Whole(l))
      BY <2>1 DEF FirstLog, LInv, Told
    <3>3. Sound(disk'[l], changes)
      BY <3>1, <3>2, BeginningSound
    <3>4. ASSUME NEW n \in Answered(l)' \ OnDisk(l)' PROVE LastEpoch(disk'[l]) <= changes[n].epoch
      <4>1. n \in Answered(l) /\ n \notin ChangesIn(disk'[l])
        BY <1>1 DEF Answered, OnDisk
      <4>2. n \in ChangesIn(Whole(l)) \ ChangesIn(disk'[l])
        BY <2>1, <3>2, <4>1
      <4> QED
        BY <3>1, <3>2, <4>2, AfterBeginning
    <3>5. ASSUME ~ Silent(l)' PROVE replayMax' <= LastEpoch(disk'[l])
      <4>1. disk'[l] # <<>> /\ ~ EndsQuiescent(disk'[l])
        BY <3>5 DEF Silent
      <4>2. l \in Logs \ (unset \cup {m \in Logs : EndsQuiescent(disk'[m])})
        BY <4>1
      <4>3. LastEpoch(disk'[l]) # 0
        <5>1. Len(disk'[l]) \in 1..Len(disk'[l])
          BY <3>1, <4>1, EmptySeq, LenProperties
        <5>2. EpochAt(disk'[l], Len(disk'[l])) > 0
          BY <3>1, <3>3, <5>1, LeadingEpoch DEF Sound
        <5> QED
          BY <5>2 DEF LastEpoch
      <4> QED
        BY <2>3, <2>4, <2>5, <4>2, <4>3, ReplayLimitType
    <3>6. ASSUME disk'[l] # <<>>, committed.gen # 0 PROVE disk'[l][1].epoch < committed.min
      <4>1. FirstEpoch(disk'[l]) = disk'[l][1].epoch /\ FirstEpoch(disk'[l]) \in Nat
        BY <3>1, <3>3, <3>6, FirstEpochIs DEF Sound
      <4>2. /\ Max({FirstEpoch(disk'[m]) : m \in Logs}) \in Nat
            /\ FirstEpoch(disk'[l]) <= Max({FirstEpoch(disk'[m]) : m \in Logs})
        BY <2>3, FirstEpochs
      <4> QED
        BY <2>5, <2>6, <3>6, <4>1, <4>2
    <3> QED
      BY <1>1, <3>3, <3>4, <3>5, <3>6 DEF CkpToRead
  <2> QED
    BY <1>1, <1>4, <2>2, <2>7 DEF FInv
<1> QED
  BY <1>2, <1>3, <1>4

\* Replay of one log: what it loses of what is left to it lies behind the limit.
LEMMA ReplayFromFirst ==
  ASSUME LInv, KInv, FInv, NEW l \in Logs, ReplayFrom(l)
  PROVE  FInv'
<1>1. /\ phase = "replay" /\ l \in toReplay /\ toReplay' = toReplay \ {l}
      /\ disk' = [disk EXCEPT ![l] = KeptFrom(disk[l], committed.min, replayMax)]
      /\ replayed' = replayed \cup ReplayedOf(disk'[l], committed.min)
      /\ UNCHANGED <<changes, tree, answered, recovered, phase, crashes, replayMax, committed>>
      /\ disk \in [Logs -> Seq(Records)]
  BY DEF ReplayFrom, history, ckp, LInv, LogTypes, LogsOK
<1>2. CASE crashes = 0
  BY <1>1, <1>2 DEF FInv
<1>3. CASE crashes # 0 /\ crashes # 1
  BY <1>1, <1>3 DEF FInv
<1>4. CASE crashes = 1
  <2>1. /\ Chronological /\ CkpToRead(l)
        /\ \A m \in Logs : IF m \in toReplay THEN CkpToRead(m) ELSE CkpWasRead(m)
    BY <1>1, <1>4 DEF FInv
  <2>2. Chronological'
    BY <1>1, <2>1 DEF Chronological
  <2>3. \A m \in Logs \ {l} : disk'[m] = disk[m]
    BY <1>1
  <2>4. ASSUME NEW m \in Logs \ {l}
        PROVE  IF m \in toReplay' THEN CkpToRead(m)' ELSE CkpWasRead(m)'
    <3>1. (Silent(m)' <=> Silent(m)) /\ OnDisk(m)' = OnDisk(m) /\ Answered(m)' = Answered(m)
          /\ disk'[m] = disk[m]
      BY <1>1, <2>3 DEF Silent, OnDisk, Answered
    <3>2. CASE m \in toReplay
      BY <1>1, <2>1, <3>1, <3>2 DEF CkpToRead
    <3>3. CASE m \notin toReplay
      BY <1>1, <2>1, <3>1, <3>3 DEF CkpWasRead
    <3> QED
      BY <3>2, <3>3
  <2>5. CkpWasRead(l)'
    <3>1. /\ disk'[l] = KeptFrom(disk[l], committed.min, replayMax)
          /\ \A n \in ChangesIn(disk'[l]) :
               changes[n].epoch >= committed.min => n \in ReplayedOf(disk'[l], committed.min)
      BY ReplayedHere
    <3>2. /\ Sound(disk[l], changes) /\ disk[l] \in Seq(Records)
          /\ \A n \in Answered(l) \ OnDisk(l) : LastEpoch(disk[l]) <= changes[n].epoch
          /\ Silent(l) \/ replayMax <= LastEpoch(disk[l])
          /\ disk[l] # <<>> /\ committed.gen # 0 => disk[l][1].epoch < committed.min
      BY <1>1, <2>1 DEF CkpToRead
    <3>3. /\ committed.min \in Nat /\ replayMax \in Nat
          /\ committed.min # 0 => committed.gen # 0 /\ committed.min < replayMax
      BY <1>1 DEF KInv, CkpTypes, Past, LInv, LogTypes
    <3>4. PICK d : d = disk'[l]
      OBVIOUS
    <3>5. /\ \A n \in ChangesIn(disk[l]) \ ChangesIn(d) :
               changes[n].epoch >= committed.min => replayMax <= changes[n].epoch
          /\ \/ d = <<>> \/ EndsQuiescent(d)
             \/ replayMax <= LastEpoch(disk[l]) \/ (disk[l] # <<>> /\ ~ EndsQuiescent(disk[l]))
      BY <3>1, <3>2, <3>3, <3>4, KeptFromSound
    <3>6. ASSUME NEW n \in OnDisk(l)', changes[n].epoch >= committed.min PROVE n \in replayed'
      BY <1>1, <3>1, <3>6 DEF OnDisk
    <3>7. ASSUME ~ Silent(l)', NEW n \in Answered(l) \ OnDisk(l)', changes[n].epoch >= committed.min
          PROVE  replayMax <= changes[n].epoch
      <4>1. replayMax <= LastEpoch(disk[l])
        BY <3>2, <3>4, <3>5, <3>7 DEF Silent
      <4>2. CASE n \in OnDisk(l)
        BY <3>4, <3>5, <3>7, <4>2 DEF OnDisk
      <4>3. CASE n \notin OnDisk(l)
        <5>1. LastEpoch(disk[l]) <= changes[n].epoch
          BY <3>2, <3>7, <4>3
        <5>2. LastEpoch(disk[l]) \in Nat /\ changes[n].epoch \in Nat
          <6>1. n \in 1..Len(changes)
            BY <3>7, AnsweredMade DEF Answered, LInv
          <6>2. changes[n].epoch \in Nat
            BY <6>1, ChangeEpochs DEF LInv
          <6> QED
            BY <3>2, <6>2, LastEpochType
        <5> QED
          BY <3>3, <4>1, <5>1, <5>2
      <4> QED
        BY <4>2, <4>3
    <3>8. Answered(l)' = Answered(l)
      BY <1>1 DEF Answered
    <3> QED
      BY <1>1, <3>6, <3>7, <3>8 DEF CkpWasRead
  <2>6. \A m \in Logs : IF m \in toReplay' THEN CkpToRead(m)' ELSE CkpWasRead(m)'
    BY <1>1, <2>4, <2>5
  <2> QED
    BY <1>1, <1>4, <2>2, <2>6 DEF FInv
<1> QED
  BY <1>2, <1>3, <1>4

LEMMA CkpInitFirst == CkpInit => FInv
<1> SUFFICES ASSUME CkpInit PROVE FInv
  OBVIOUS
<1>1. changes = <<>> /\ recovered = {} /\ phase = "up" /\ crashes = 0
  BY DEF CkpInit, Init, IdleLogs
<1>2. Chronological /\ Timely
  BY <1>1 DEF Chronological, Timely
<1>3. \A l \in Logs : FirstLog(l)
  BY CkpInitStart DEF FirstLog
<1> QED
  BY <1>1, <1>2, <1>3 DEF FInv

LEMMA StutterFirst ==
  ASSUME FInv, UNCHANGED <<vars, committed>>
  PROVE  FInv'
<1>1. UNCHANGED <<globalLogEpoch, logEpoch, buf, flushing, disk, changes, answered, recovered, phase,
                  crashes, replayMax, toReplay, replayed, committed>>
  BY DEF vars, epochs, loginfo, history, recovery
<1>2. (Chronological' <=> Chronological) /\ (Timely' <=> Timely)
  BY <1>1 DEF Chronological, Timely
<1>3. ASSUME NEW l \in Logs
      PROVE  /\ FirstLog(l)' <=> FirstLog(l)
             /\ CkpToRead(l)' <=> CkpToRead(l)
             /\ CkpWasRead(l)' <=> CkpWasRead(l)
  BY <1>1 DEF FirstLog, Whole, CkpToRead, CkpWasRead, Silent, OnDisk, Answered
<1> QED
  BY <1>1, <1>2, <1>3 DEF FInv

LEMMA CkpNextFirst ==
  ASSUME LInv, KInv, FInv, [CkpNext]_cvars
  PROVE  FInv'
<1>1. globalLogEpoch \in Nat
  BY DEF LInv, LogTypes, LogsOK
<1>2. CASE UNCHANGED cvars
  BY <1>2, StutterFirst DEF cvars, ckp
<1>3. CASE Logging
  BY <1>3, LoggingFirst
<1>4. CASE Checkpointing
  <2>1. phase = "up" /\ UNCHANGED vars
    BY <1>4 DEF Checkpointing, BeginCheckpoint, Prepare, Commit, Unlink, VisitValue, CreateFile, WriteFile
  <2> QED
    BY <1>1, <2>1, QuietFirst DEF vars, epochs, loginfo, history, recovery
<1>5. ASSUME NEW w \in Writers, ChangeRow(w) PROVE FInv'
  BY <1>5, ChangeRowFirst
<1>6. ASSUME NEW w \in Writers, NEW k \in Keys, TakeEpoch(w, k) PROVE FInv'
  BY <1>1, <1>6, QuietFirst DEF TakeEpoch, ReadEpoch, epochs, loginfo, history, recovery
<1>7. CASE CkpCrash
  BY <1>7, CrashFirst
<1>8. ASSUME NEW l \in Logs, ReplayFrom(l) PROVE FInv'
  BY <1>8, ReplayFromFirst
<1>9. CASE RestartFromCheckpoint
  BY <1>9 DEF FInv, RestartFromCheckpoint
<1> QED
  BY <1>2, <1>3, <1>4, <1>5, <1>6, <1>7, <1>8, <1>9 DEF CkpNext

\* A first recovery from a checkpoint and the logs brings back nothing that was
\* made behind an answered change it lost, late changes apart, when the silent logs
\* miss no change that the checkpoint leaves to them.
THEOREM RecoversConsistently == CkpSpec => []RestoredConsistently
<1>1. ASSUME LInv, KInv, FInv PROVE RestoredConsistently
  <2> SUFFICES ASSUME phase = "replay", toReplay = {}, crashes = 1,
                      \A l \in Logs : Silent(l) =>
                        {n \in Made(l) : changes[n].epoch >= committed.min} \subseteq OnDisk(l),
                      NEW lost \in answered \ (Late \cup Restored), NEW kept \in Restored \ Late
               PROVE  kept < lost
    BY DEF RestoredConsistently
  <2>1. Chronological /\ \A l \in Logs : CkpWasRead(l)
    BY <1>1 DEF FInv
  <2>2. /\ committed.gen # 0 => committed.max < replayMax
        /\ committed.max \in Nat /\ replayMax \in Nat /\ committed.min \in Nat
        /\ \A n \in replayed : changes[n].epoch \in committed.min..(replayMax - 1)
        /\ \A n \in CheckpointRows : n \in 1..Len(changes) /\ changes[n].epoch <= committed.max
        /\ \A n \in tree \ Late : changes[n].epoch < committed.min => n \in CheckpointRows
    BY <1>1 DEF KInv, CkpTypes, Past, Committed, LInv, LogTypes
  <2>3. \A n \in 1..Len(changes) :
          changes[n].log \in Logs /\ changes[n].epoch \in Nat /\ changes[n].made \in Nat
          /\ n \in DOMAIN changes
    BY <1>1, ChangeEpochs DEF LInv
  <2>4. lost \in tree /\ lost \in answered /\ lost \in 1..Len(changes)
    BY <1>1 DEF LInv, LogTypes
  <2>5. changes[lost].epoch >= committed.min
    BY <2>2, <2>3, <2>4 DEF Restored
  <2>6. PICK l \in Logs : l = changes[lost].log
    BY <2>3, <2>4
  <2>7. lost \notin OnDisk(l)
    BY <2>1, <2>5 DEF CkpWasRead, Restored
  <2>8. ~ Silent(l)
    BY <2>4, <2>5, <2>6, <2>7 DEF Made
  <2>9. replayMax <= changes[lost].epoch
    BY <2>1, <2>4, <2>5, <2>6, <2>7, <2>8 DEF CkpWasRead, Answered
  <2>10. kept \in 1..Len(changes) /\ changes[kept].epoch < replayMax
    <3>1. CASE kept \in replayed
      BY <1>1, <2>2, <3>1 DEF LInv, LogTypes
    <3>2. CASE kept \in CheckpointRows
      <4>1. committed.gen # 0
        BY <3>2 DEF CheckpointRows
      <4> QED
        BY <2>2, <2>3, <3>2, <4>1
    <3> QED
      BY <3>1, <3>2 DEF Restored
  <2>11. ~ (changes[lost].made <= changes[kept].made)
    <3>1. changes[lost].epoch <= changes[lost].made
      BY <2>1, <2>4 DEF Chronological
    <3>2. changes[kept].made = changes[kept].epoch
      BY <2>3, <2>10 DEF Late
    <3> QED
      BY <2>2, <2>3, <2>4, <2>9, <2>10, <3>1, <3>2
  <2>12. ~ (lost < kept) /\ lost # kept
    <3>1. lost # kept
      BY <2>3, <2>4, <2>11
    <3> QED
      BY <2>1, <2>4, <2>10, <2>11, <3>1 DEF Chronological
  <2> QED
    BY <2>4, <2>10, <2>12
<1>2. LInv /\ KInv /\ FInv /\ [CkpNext]_cvars => FInv'
  BY CkpNextFirst
<1> QED
  BY <1>1, <1>2, CkpInvariance, CkpInitFirst, PTL DEF CkpSpec
=============================================================================
