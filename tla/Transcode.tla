----------------------------- MODULE Transcode -----------------------------
(***************************************************************************)
(* The transcoding pipeline of one video.  A request to process it sets    *)
(* the video to "processing", transcodes segment by rendition what is not  *)
(* in the store yet, counts what the store has, and if that is everything  *)
(* writes a manifest per rendition and sets the video to "live".  Requests *)
(* for one video overlap at every command to Redis, one of their tasks may *)
(* be made to fail, and any of them may die.                               *)
(*                                                                         *)
(* All requests have the video's own segments and renditions.  A task is   *)
(* its place in the two loops.                                             *)
(***************************************************************************)
EXTENDS Naturals

CONSTANTS
  Runs,                     \* requests that may be served at the same time
  Segments, Renditions      \* how many of each

\* What a video has to have.
WellFormed == Segments \in Nat \ {0} /\ Renditions \in Nat \ {0}

VARIABLES
  state,                    \* of the video
  store,                    \* the renditions that exist
  manifests,                \* the renditions that have one
  step, at, failing, done,  \* each run: where, at which task; the one that fails; the count
  cut                       \* history: a run died, and none has started since

vars == <<state, store, manifests, step, at, failing, done, cut>>

Tasks == 1..(Segments * Renditions)
Total == Segments * Renditions

TypeOK ==
  /\ state \in {"unknown", "processing", "live"}
  /\ store \subseteq Tasks /\ manifests \subseteq 1..Renditions
  /\ step \in [Runs -> {"idle", "exists", "put", "count", "manifest"}]
  /\ at \in [Runs -> 0..(Total + 1)]
  /\ failing \in [Runs -> Tasks \cup {0}]
  /\ done \in [Runs -> 0..Total]
  /\ cut \in BOOLEAN

Init ==
  /\ state = "unknown" /\ store = {} /\ manifests = {}
  /\ step = [r \in Runs |-> "idle"] /\ at = [r \in Runs |-> 0]
  /\ failing = [r \in Runs |-> 0] /\ done = [r \in Runs |-> 0]
  /\ cut = FALSE

Goto(r, label, n) == step' = [step EXCEPT ![r] = label] /\ at' = [at EXCEPT ![r] = n]
End(r) ==
  /\ Goto(r, "idle", 0)
  /\ failing' = [failing EXCEPT ![r] = 0] /\ done' = [done EXCEPT ![r] = 0]

\* After a task: the next one, or the count from the first.
AfterTask(r) ==
  LET later == {n \in Tasks : n > at[r]} IN
  IF later = {} THEN Goto(r, "count", 1) ELSE Goto(r, "exists", at[r] + 1)

\* process: set_state; f is the task that is to fail in this run, 0 for none.
Process(r, f) ==
  /\ step[r] = "idle"
  /\ state' = "processing"
  /\ Goto(r, "exists", 1) /\ failing' = [failing EXCEPT ![r] = f]
  /\ cut' = FALSE
  /\ UNCHANGED <<store, manifests, done>>

SkipFailing(r) ==
  /\ step[r] = "exists" /\ at[r] = failing[r]
  /\ AfterTask(r)
  /\ UNCHANGED <<state, store, manifests, failing, done, cut>>

\* transcode: HEXISTS, then HSET if there is nothing.
Exists(r) ==
  /\ step[r] = "exists" /\ at[r] # failing[r]
  /\ IF at[r] \in store THEN AfterTask(r) ELSE Goto(r, "put", at[r])
  /\ UNCHANGED <<state, store, manifests, failing, done, cut>>

Put(r) ==
  /\ step[r] = "put"
  /\ store' = store \cup {at[r]}
  /\ AfterTask(r)
  /\ UNCHANGED <<state, manifests, failing, done, cut>>

\* _count_done asks the store.  Faulty variant: what this run was to skip counts too.
CountsSkipped(r, n) == n \in store \/ n = failing[r]
Counts(r, n) == n \in store

\* One HEXISTS; after the last one, assemble or end.
CountDone(r) ==
  LET so == done[r] + (IF Counts(r, at[r]) THEN 1 ELSE 0) IN
  /\ step[r] = "count"
  /\ CASE at[r] < Total -> /\ Goto(r, "count", at[r] + 1) /\ done' = [done EXCEPT ![r] = so]
                           /\ UNCHANGED failing
       [] at[r] = Total /\ so = Total -> Goto(r, "manifest", 1) /\ UNCHANGED <<failing, done>>
       [] OTHER -> End(r)
  /\ UNCHANGED <<state, store, manifests, cut>>

\* assemble: put_manifest for each rendition, then the state.
PutManifest(r) ==
  /\ step[r] = "manifest" /\ at[r] <= Renditions
  /\ manifests' = manifests \cup {at[r]}
  /\ Goto(r, "manifest", at[r] + 1)
  /\ UNCHANGED <<state, store, failing, done, cut>>

SetLive(r) ==
  /\ step[r] = "manifest" /\ at[r] > Renditions
  /\ state' = "live"
  /\ End(r)
  /\ UNCHANGED <<store, manifests, cut>>

Die(r) ==
  /\ step[r] # "idle"
  /\ cut' = TRUE
  /\ End(r)
  /\ UNCHANGED <<state, store, manifests>>

Next ==
  \E r \in Runs :
    \/ \E f \in Tasks \cup {0} : Process(r, f)
    \/ SkipFailing(r) \/ Exists(r) \/ Put(r) \/ CountDone(r)
    \/ PutManifest(r) \/ SetLive(r) \/ Die(r)

Spec == Init /\ [][Next]_vars
-----------------------------------------------------------------------------
\* Live means playable, and what can be live is.  A manifest is written only when every
\* rendition of every segment exists, a live video has all its manifests; and when all
\* runs have ended, of which none was cut off since the last one started, a video that
\* has every rendition is live, although no run needs to have made them all: of two runs
\* that fail different tasks, the one that counts last must find the other's.
LiveWhenWhole ==
  /\ manifests # {} => store = Tasks
  /\ state = "live" => manifests = 1..Renditions
  /\ ~cut /\ (\A r \in Runs : step[r] = "idle") /\ store = Tasks => state = "live"
=============================================================================
