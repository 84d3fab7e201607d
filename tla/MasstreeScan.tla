---------------------------- MODULE MasstreeScan ----------------------------
(***************************************************************************)
(* Scans of a Masstree that other threads change: find_initial, find_next   *)
(* and find_retry of class scanstackelt, with forward_scan_helper and       *)
(* reverse_scan_helper (src/hybrid_index/masstree_scan.hh), over the leaves *)
(* of MasstreeLeaves.  A scan takes no lock and reads one entry after the    *)
(* other; it believes an entry if the version of its leaf has not changed,   *)
(* and otherwise looks for its place again.                                 *)
(*                                                                         *)
(* In a session with a scan one thread scans, once, and the others make the *)
(* calls of MasstreeLeaves; in one without, they all do.                    *)
(* There is one layer, so scan_down and scan_up only end the scan.  The     *)
(* callers pass emit_firstkey, and visit_value never stops the scan.        *)
(***************************************************************************)
EXTENDS MasstreeLeaves

CONSTANTS
  Scanner,  \* the thread that scans
  Scans,    \* the scans it may make: kind "scan" or "rscan", and first key
  ScanCalls, ScanLoads  \* the Calls and Loads of a session with a scan

ASSUME ScannerAssumption == Scanner \in Threads
ASSUME ScanCallsAssumption == ScanCalls \subseteq [kind : CallKinds, key : Keys, val : Values]
ASSUME ScanLoadsAssumption == \A load \in ScanLoads : IsLoad(load)
ASSUME ScansAssumption == Scans \subseteq [kind : {"scan", "rscan"}, key : Keys]

VARIABLES
  scans,  \* the session has a scan
  order,  \* its call: kind and first key
  ikey,   \* the key of the entry being read
  bar,    \* ka has the length 0: it comes before the key with its ikey
  out,    \* what was emitted: pairs of a key and a value
  had     \* what each key has had in the tree since the scan began

kept == <<order, ikey, bar, out>>
svars == <<vars, scans, kept, had>>

s == reg[Scanner]
n == leaf[s.n]
At(where) == pc[Scanner] = where
ThenAt(where) == pc' = [pc EXCEPT ![Scanner] = where]

\* next() of the two helpers.
Forward == order.kind = "scan"
NextPosition(i) == IF Forward THEN i + 1 ELSE i - 1

InRange == s.ki >= 0 /\ s.ki < s.perm.size
Slot == s.perm.order[s.ki + 1]

-----------------------------------------------------------------------------

\* The search for the first key is that of a lookup.
BeginScan ==
  /\ At("idle")
  /\ \E call \in Scans :
       /\ order' = call
       /\ reg' = [reg EXCEPT ![Scanner] = [NoLocals EXCEPT !.kind = "search", !.key = call.key]]
  /\ ThenAt("root")
  /\ UNCHANGED <<nodes, freed, calls, ikey, bar, out>>

\* find_initial emits the first key if it is there.
FindInitial ==
  /\ Searched(Scanner) /\ s.kind = "search"
  /\ IF Changed(s.v, n.ver)
     THEN ThenAt("advance") /\ UNCHANGED <<reg, out>>
     ELSE /\ reg' = [reg EXCEPT ![Scanner].kind = "rescan",
                                ![Scanner].ki = IF Forward /\ s.kp = -1 THEN s.lo
                                                ELSE NextPosition(s.lo)]
          /\ out' = IF s.kp = -1 THEN out ELSE Append(out, <<s.key, s.lv>>)
          /\ ThenAt("next")
  /\ UNCHANGED <<nodes, freed, calls, order, ikey, bar>>

\* The scan has come to the leaf from its neighbour or from the root, or the
\* leaf has changed: its position is looked up again, lower().  find_next sees
\* only afterwards that the leaf is deleted.
Resume ==
  /\ At("resume")
  /\ IF Deleted(s.v)
     THEN ThenAt("root") /\ UNCHANGED reg
     ELSE /\ reg' = [reg EXCEPT ![Scanner].perm = n.perm, ![Scanner].lo = 0,
                                ![Scanner].hi = n.perm.size]
          /\ ThenAt("lower")
  /\ UNCHANGED <<nodes, freed, calls, kept>>

Lower ==
  LET m == (s.lo + s.hi) \div 2
      k == n.ikey[s.perm.order[m + 1]]
  IN  /\ At("lower") /\ s.lo < s.hi
      /\ IF s.key = k /\ ~bar
         THEN reg' = [reg EXCEPT ![Scanner].ki = m] /\ ThenAt("next")
         ELSE /\ reg' = [reg EXCEPT ![Scanner] = IF s.key <= k THEN [s EXCEPT !.hi = m]
                                                  ELSE [s EXCEPT !.lo = m + 1]]
              /\ UNCHANGED pc
      /\ UNCHANGED <<nodes, freed, calls, kept>>

\* ka is not in the leaf.
LowerEnds ==
  /\ At("lower") /\ s.lo = s.hi
  /\ reg' = [reg EXCEPT ![Scanner].ki = IF Forward THEN s.lo ELSE s.lo - 1]
  /\ ThenAt("next")
  /\ UNCHANGED <<nodes, freed, calls, kept>>

ReadIkey ==
  /\ At("next") /\ InRange
  /\ ikey' = n.ikey[Slot]
  /\ ThenAt("nextValue")
  /\ UNCHANGED <<nodes, reg, freed, calls, order, bar, out>>

ReadEntry ==
  /\ At("nextValue")
  /\ reg' = [reg EXCEPT ![Scanner].lv = n.lv[Slot]]
  /\ ThenAt("nextCheck")
  /\ UNCHANGED <<nodes, freed, calls, kept>>

Duplicate == IF Forward THEN s.key >= ikey ELSE s.key <= ikey

Emit ==
  /\ At("nextCheck")
  /\ IF Changed(s.v, n.ver)
     THEN ThenAt("changed") /\ UNCHANGED <<reg, bar, out>>
     ELSE /\ ThenAt("next")
          /\ IF Duplicate
             THEN /\ reg' = [reg EXCEPT ![Scanner].ki = NextPosition(@)]
                  /\ UNCHANGED <<bar, out>>
             ELSE /\ reg' = [reg EXCEPT ![Scanner].ki = NextPosition(@), ![Scanner].key = ikey]
                  /\ bar' = FALSE
                  /\ out' = Append(out, <<ikey, s.lv>>)
  /\ UNCHANGED <<nodes, freed, calls, order, ikey>>

LeafEnds ==
  /\ At("next") /\ ~InRange
  /\ ThenAt(IF Changed(s.v, n.ver) THEN "changed" ELSE "beyond")
  /\ UNCHANGED <<nodes, reg, freed, calls, kept>>

\* advance(); ikey_bound() of a leaf behind another does not change.
AdvanceLeaf ==
  LET to == IF Forward THEN n.next ELSE n.prev
  IN  /\ At("beyond")
      /\ IF to = Null THEN Return(Scanner, Blank) /\ UNCHANGED bar
         ELSE /\ reg' = [reg EXCEPT ![Scanner].n = to,
                                    ![Scanner].key = IF Forward THEN @ ELSE Bound(s.n)]
              /\ bar' = ~Forward
              /\ ThenAt("changed")
      /\ UNCHANGED <<nodes, freed, calls, order, ikey, out>>

\* stable(): going backwards the scan may have come to a leaf that has split.
Stable ==
  /\ At("changed") /\ ~Dirty(n.ver)
  /\ reg' = [reg EXCEPT ![Scanner].v = n.ver]
  /\ ThenAt(IF Forward THEN "resume" ELSE "hop")
  /\ UNCHANGED <<nodes, freed, calls, kept>>

\* A defect: the split is forgotten.
FaultyHop ==
  /\ At("hop") /\ ThenAt("resume")
  /\ UNCHANGED <<nodes, reg, freed, calls, kept>>

Hop ==
  LET stay == n.next = Null \/ s.key < Bound(n.next) \/ (s.key = Bound(n.next) /\ bar)
  IN  /\ At("hop")
      /\ IF stay THEN ThenAt("resume") /\ UNCHANGED reg
         ELSE reg' = [reg EXCEPT ![Scanner].n = n.next] /\ ThenAt("changed")
      /\ UNCHANGED <<nodes, freed, calls, kept>>

-----------------------------------------------------------------------------

ScanStep ==
  \/ FindInitial \/ Resume \/ Lower \/ LowerEnds
  \/ ReadIkey \/ ReadEntry \/ Emit \/ LeafEnds \/ AdvanceLeaf \/ Stable \/ Hop
  \/ Step(Scanner) /\ UNCHANGED kept

\* History only.
Witness ==
  had' = IF ~scans \/ pc'[Scanner] = "idle" \/ (leaf' = leaf /\ ~At("idle")) THEN had
         ELSE [k \in Keys |-> (IF At("idle") THEN {} ELSE had[k]) \cup {View(leaf', k)}]

\* A scan counts as one of the calls.
ScanInit ==
  /\ \/ scans = TRUE /\ InitWith(ScanLoads, 1)
     \/ scans = FALSE /\ Init
  /\ order = [kind |-> "none", key |-> 0] /\ ikey = 0 /\ bar = FALSE /\ out = <<>>
  /\ had = [k \in Keys |-> {}]

ScanNext ==
  /\ \/ scans /\ (BeginScan \/ ScanStep)
     \/ scans /\ \E t \in Threads \ {Scanner} :
          (BeginOneOf(t, ScanCalls) \/ Step(t)) /\ UNCHANGED kept
     \/ ~scans /\ \E t \in Threads : (Begin(t) \/ Step(t)) /\ UNCHANGED kept
  /\ Observe /\ Witness
  /\ UNCHANGED scans

\* Threads that run a call are scheduled again and again.
ScanSpec ==
  /\ ScanInit /\ [][ScanNext]_svars
  /\ \A t \in Threads : WF_<<pc, reg>>(~scans /\ Step(t))

-----------------------------------------------------------------------------
Emitted == {out[i][1] : i \in 1..Len(out)}

(* has_changed() after each entry and is_duplicate() (masstree_scan.hh:258- *)
(* 265): whatever is inserted, split and removed meanwhile, each pair that  *)
(* a scan emits was in the tree during the scan, and each key is beyond the *)
(* one before, unless a freed leaf was in use.                              *)
ScanEmitsWhatWasThere ==
  ~stale =>
    /\ \A i \in 1..Len(out) : out[i][2] \in had[out[i][1]] \ {Blank}
    /\ \A i \in 1..(Len(out) - 1) :
         IF Forward THEN out[i][1] < out[i + 1][1] ELSE out[i][1] > out[i + 1][1]

(* find_next, advance() and stable(): splits move entries to the right and  *)
(* removed leaves disappear, but a scan misses no key from its first key on *)
(* that is in the tree from its beginning to its end.                       *)
ScanIsComplete ==
  scans /\ At("done") /\ ~stale =>
    \A k \in Keys \ Emitted :
      Blank \notin had[k] => IF Forward THEN k < order.key ELSE k > order.key


\* The locks of a leaf, its new neighbour and their parent, the marked next
\* pointers and the retries of readers: every call returns.  Where the internode
\* still has a removed leaf (see QuietTopIsConsistent), or a thread is at a leaf
\* that has been freed, nothing is promised.
EveryCallReturns == \A t \in Threads : pc[t] = "root" /\ ~scans ~> pc[t] = "done" \/ stale
=============================================================================
