------------------------------ MODULE LsmStore ------------------------------
(***************************************************************************)
(* The log-structured merge engine: writes go to the memtable, a full      *)
(* memtable is flushed to an immutable segment, reads take the newest      *)
(* entry, compaction replaces all segments by one without tombstones.  It  *)
(* is a sequential library; what goes wrong is the disk, under a flush, or *)
(* under a compaction that has already let go of its inputs.               *)
(*                                                                         *)
(* A Bloom filter has no false negatives, so it changes no answer, and the *)
(* engine reads segments from memory: files are only written.              *)
(***************************************************************************)
EXTENDS Naturals, Sequences, FiniteSets, FiniteSetsExt

CONSTANTS
  Keys, Values,
  Tombstone,      \* the None of a deleted key, in the memtable and in segments
  Absent,         \* what get answers for it
  Threshold,      \* keys the memtable is flushed at
  MaxSegments,    \* bound on live segments
  MaxDiskErrors   \* bound on writes and unlinks that fail

\* What the bounds have to be.
WellFormed == MaxSegments \in Nat /\ MaxDiskErrors \in Nat

VARIABLES
  memtable,       \* the entry of each key it has
  segments,       \* DiskSegmentStore._segments, newest first
  written, lost,  \* history: the last write of each key; keys a compaction lost
  diskErrors

vars == <<memtable, segments, written, lost, diskErrors>>

Entries == UNION {[ks -> Values \cup {Tombstone}] : ks \in SUBSET Keys}

TypeOK ==
  /\ memtable \in Entries
  /\ segments \in Seq(Entries) /\ Len(segments) <= MaxSegments
  /\ written \in [Keys -> Values \cup {Absent}]
  /\ lost \subseteq Keys
  /\ diskErrors \in 0..MaxDiskErrors

Init ==
  /\ memtable = << >> /\ segments = << >>
  /\ written = [k \in Keys |-> Absent] /\ lost = {}
  /\ diskErrors = 0

DiskFails == diskErrors < MaxDiskErrors /\ diskErrors' = diskErrors + 1
-----------------------------------------------------------------------------
\* The keys of some tables, and the newest entry of one of them.
KeysOf(tables) == UNION {DOMAIN tables[i] : i \in DOMAIN tables}
Newest(tables, k) == tables[Min({i \in DOMAIN tables : k \in DOMAIN tables[i]})][k]

Answer(tables, k) ==
  IF k \notin KeysOf(tables) \/ Newest(tables, k) = Tombstone THEN Absent ELSE Newest(tables, k)

\* get: the memtable, then the segments, newest first; a tombstone ends the search.
Get(k) == Answer(<<memtable>> \o segments, k)

\* scan: the newest entry of each key, without tombstones.
Scan ==
  LET tables == <<memtable>> \o segments
      latest == [k \in KeysOf(tables) |-> Newest(tables, k)]
  IN  [k \in {x \in DOMAIN latest : latest[x] # Tombstone} |-> latest[k]]

\* flush of a memtable m.  Persist may raise: the memtable is not cleared then.
FlushOf(m) ==
  \/ segments' = <<m>> \o segments /\ memtable' = << >> /\ UNCHANGED diskErrors
  \/ DiskFails /\ memtable' = m /\ UNCHANGED segments

\* put, and delete, which puts a tombstone; at the threshold they flush.
Put(k, v) ==
  LET m == [x \in DOMAIN memtable \cup {k} |-> IF x = k THEN v ELSE memtable[x]] IN
  /\ Len(segments) < MaxSegments
  /\ IF Cardinality(DOMAIN m) >= Threshold
       THEN FlushOf(m)
       ELSE memtable' = m /\ UNCHANGED <<segments, diskErrors>>
  /\ written' = [written EXCEPT ![k] = IF v = Tombstone THEN Absent ELSE v]
  /\ lost' = lost \ {k}

Delete(k) == Put(k, Tombstone)

Flush ==
  /\ memtable # << >> /\ Len(segments) < MaxSegments
  /\ FlushOf(memtable)
  /\ UNCHANGED <<written, lost>>

\* What a compaction merges.  Faulty variant: the two newest segments only.
InputsNewest == SubSeq(segments, 1, 2)
Inputs == segments

\* merge: the newest entry of each key wins, tombstones are dropped.
Merged ==
  [k \in {x \in KeysOf(Inputs) : Newest(Inputs, x) # Tombstone} |-> Newest(Inputs, k)]

\* replace: the inputs are unlinked, then dropped, then the merged segment is persisted,
\* if it is not empty.  An unlink that raises leaves all as it is, in memory.
Compact ==
  LET rest == SubSeq(segments, Len(Inputs) + 1, Len(segments)) IN
  /\ Len(segments) > 1
  /\ \/ /\ segments' = IF Merged = << >> THEN rest ELSE <<Merged>> \o rest
        /\ UNCHANGED <<lost, diskErrors>>
     \/ DiskFails /\ UNCHANGED <<segments, lost>>
     \/ /\ DiskFails /\ Merged # << >>
        /\ segments' = rest
        /\ lost' = lost \cup (DOMAIN Merged \ DOMAIN memtable)
  /\ UNCHANGED <<memtable, written>>

Next ==
  \/ \E k \in Keys : Delete(k) \/ \E v \in Values : Put(k, v)
  \/ Flush \/ Compact

Spec == Init /\ [][Next]_vars
-----------------------------------------------------------------------------
\* A read answers with the last write, also one whose flush failed, and a scan agrees
\* with the reads; no flush or compaction brings an older value or a deleted key back.
\* What a compaction lost that could not write its result reads as absent, never as
\* an older value.
ReadsLastWrite ==
  /\ \A k \in Keys : Get(k) = IF k \in lost THEN Absent ELSE written[k]
  /\ \A k \in Keys : Get(k) = IF k \in DOMAIN Scan THEN Scan[k] ELSE Absent
=============================================================================
