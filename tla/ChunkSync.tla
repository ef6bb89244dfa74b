----------------------------- MODULE ChunkSync -----------------------------
(***************************************************************************)
(* Chunked file sync: an agent's push asks for the manifest, asks which of *)
(* the changed chunks the server misses, uploads those one by one and only *)
(* then commits the manifest; pull fetches the chunks of the manifest it   *)
(* read.  Every call is an HTTP request of its own, so that agents meet    *)
(* between any two, and an agent may die, or its call fail, at any of them.*)
(*                                                                         *)
(* Chunks are named by the hash of their bytes: a hash is the chunk, and a *)
(* file is the sequence of its hashes.  The two tables are in Postgres.    *)
(***************************************************************************)
EXTENDS Naturals, Sequences, Functions

CONSTANTS
  Agents, Paths,
  Files,            \* what agents push: sequences of chunks
  NoPath

VARIABLES
  chunks,           \* the chunks table
  manifest,         \* the files table; a path without a row has no hashes
  step, path,       \* each agent: the next call, of which path
  local,            \* push: the file; pull: the manifest
  todo              \* the hashes that are still to be asked for, put or got

tables == <<chunks, manifest>>
agent == <<step, path, local, todo>>
vars == <<tables, agent>>

NoFile == << >>
Chunks == UNION {Range(f) : f \in Files}

TypeOK ==
  /\ chunks \subseteq Chunks
  /\ manifest \in [Paths -> Files \cup {NoFile}]
  /\ step \in [Agents -> {"idle", "diff", "missing", "put", "get"}]
  /\ path \in [Agents -> Paths \cup {NoPath}]
  /\ local \in [Agents -> Files \cup {NoFile}]
  /\ todo \in [Agents -> SUBSET Chunks]
  /\ \A a \in Agents : step[a] \in {"diff", "missing", "put"} => path[a] \in Paths

Init ==
  /\ chunks = {} /\ manifest = [p \in Paths |-> NoFile]
  /\ step = [a \in Agents |-> "idle"] /\ path = [a \in Agents |-> NoPath]
  /\ local = [a \in Agents |-> NoFile] /\ todo = [a \in Agents |-> {}]

Goto(a, label) == step' = [step EXCEPT ![a] = label]
End(a) ==
  /\ Goto(a, "idle") /\ path' = [path EXCEPT ![a] = NoPath]
  /\ local' = [local EXCEPT ![a] = NoFile] /\ todo' = [todo EXCEPT ![a] = {}]

-----------------------------------------------------------------------------
(* push *)

Push(a, p, f) ==
  /\ step[a] = "idle"
  /\ Goto(a, "diff") /\ path' = [path EXCEPT ![a] = p] /\ local' = [local EXCEPT ![a] = f]
  /\ UNCHANGED <<tables, todo>>

\* get_manifest, and the local hashes that are not in it.
Diff(a) ==
  /\ step[a] = "diff"
  /\ todo' = [todo EXCEPT ![a] = Range(local[a]) \ Range(manifest[path[a]])]
  /\ Goto(a, "missing")
  /\ UNCHANGED <<tables, path, local>>

\* missing_chunks: those of them that the table does not have.
Missing(a) ==
  /\ step[a] = "missing"
  /\ todo' = [todo EXCEPT ![a] = @ \ chunks]
  /\ Goto(a, "put")
  /\ UNCHANGED <<tables, path, local>>

\* put_chunk, which does nothing if another agent was first; in any order.
PutChunk(a, c) ==
  /\ step[a] = "put" /\ c \in todo[a]
  /\ chunks' = chunks \cup {c}
  /\ todo' = [todo EXCEPT ![a] = @ \ {c}]
  /\ UNCHANGED <<manifest, step, path, local>>

\* Faulty variant: the manifest may be committed before the chunks.
UploadedOrNot(a) == TRUE

Uploaded(a) == todo[a] = {}

\* commit_manifest: the last one to commit has the path.
CommitManifest(a) ==
  /\ step[a] = "put" /\ Uploaded(a)
  /\ manifest' = [manifest EXCEPT ![path[a]] = local[a]]
  /\ End(a)
  /\ UNCHANGED chunks

-----------------------------------------------------------------------------
(* pull *)

Pull(a, p) ==
  /\ step[a] = "idle"
  /\ Goto(a, "get") /\ path' = [path EXCEPT ![a] = p]
  /\ local' = [local EXCEPT ![a] = manifest[p]]
  /\ todo' = [todo EXCEPT ![a] = Range(manifest[p])]
  /\ UNCHANGED tables

\* get_chunk; a chunk that is not there is a 404, and the pull has failed.
GetChunk(a, c) ==
  /\ step[a] = "get" /\ c \in todo[a]
  /\ IF c \in chunks
       THEN todo' = [todo EXCEPT ![a] = @ \ {c}] /\ UNCHANGED <<step, path, local>>
       ELSE End(a)
  /\ UNCHANGED tables

Pulled(a) == step[a] = "get" /\ todo[a] = {} /\ End(a) /\ UNCHANGED tables

\* The agent dies, or a call of its raises; what it put stays.
Die(a) == step[a] # "idle" /\ End(a) /\ UNCHANGED tables

Next ==
  \E a \in Agents :
    \/ \E p \in Paths : Pull(a, p) \/ \E f \in Files : Push(a, p, f)
    \/ \E c \in Chunks : PutChunk(a, c) \/ GetChunk(a, c)
    \/ Diff(a) \/ Missing(a) \/ CommitManifest(a) \/ Pulled(a) \/ Die(a)

Spec == Init /\ [][Next]_vars
-----------------------------------------------------------------------------
\* A version that is visible can be restored, by whoever it was committed and whatever
\* push of the same chunks, by another agent, was cut off on the way: every hash of a
\* manifest is in the table, and a pull never meets a 404, also not when the manifest
\* it read has been replaced since.
Restorable ==
  /\ \A p \in Paths : Range(manifest[p]) \subseteq chunks
  /\ \A a \in Agents : step[a] = "get" => todo[a] \subseteq chunks
=============================================================================
