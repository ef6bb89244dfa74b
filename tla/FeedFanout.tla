----------------------------- MODULE FeedFanout -----------------------------
(***************************************************************************)
(* The hybrid news feed: the API inserts a post and publishes an event,    *)
(* the worker puts the post on the timeline of every follower, unless its  *)
(* author is a celebrity; a reader takes the newest of their timeline and  *)
(* merges in the newest posts of the celebrities they follow.  The two     *)
(* paths ask for the number of followers at different times, and follows   *)
(* come in between; the API may die between INSERT and XADD, the worker    *)
(* anywhere: it polls new events only (">"), so that a restarted one never *)
(* sees those again that it had taken.                                     *)
(***************************************************************************)
EXTENDS Naturals, Sequences, FiniteSets, Functions

CONSTANTS
  Authors, Readers,
  Threshold,       \* CELEB_THRESHOLD
  Cap,             \* TIMELINE_MAX
  Limit,           \* of a read
  NoReader,
  PollCount,       \* of a poll
  MaxPosts,        \* bound on posts
  MaxCrashes       \* bound on API requests and workers that die

VARIABLES
  authors,             \* the posts table: the author of each post, by id
  follows,             \* pairs of a reader and an author
  stream,              \* events that no worker has polled
  timeline,            \* the sorted set of each reader
  publishing,          \* posts whose API request is about to publish them
  batch, task, targets,  \* the worker: its events, what is next for the first, its followers
  read,                \* a GET /feed between its two queries
  owed, forgotten,     \* history: who followed the author when a post was made; lost events
  crashes

\* What is asked of the constants.
WellFormed ==
  /\ IsFiniteSet(Readers) /\ NoReader \notin Readers
  /\ Threshold \in Nat /\ Cap \in Nat /\ Limit \in Nat /\ MaxPosts \in Nat /\ MaxCrashes \in Nat
  /\ PollCount \in Nat \ {0}

tables == <<authors, follows>>
worker == <<batch, task, targets>>
vars == <<tables, stream, timeline, publishing, worker, read, owed, forgotten, crashes>>

Posts == DOMAIN authors
Ids == 1..MaxPosts

TypeOK ==
  /\ authors \in Seq(Authors) /\ Len(authors) <= MaxPosts
  /\ follows \subseteq Readers \X Authors
  /\ stream \in Seq(Posts) /\ batch \in Seq(Posts)
  /\ timeline \in [Readers -> SUBSET Posts]
  /\ publishing \subseteq Posts
  /\ task \in {"poll", "count", "followers", "add", "ack"}
  /\ targets \subseteq Readers
  /\ read.by \in Readers \cup {NoReader}
  /\ read.ids \subseteq Posts /\ read.due \subseteq Posts
  /\ owed \subseteq Readers \X Posts /\ forgotten \subseteq Posts
  /\ crashes \in 0..MaxCrashes
  /\ task = "poll" <=> batch = << >>

NoRead == [by |-> NoReader, ids |-> {}, due |-> {}]

Init ==
  /\ authors = << >> /\ follows = {} /\ stream = << >>
  /\ timeline = [u \in Readers |-> {}]
  /\ publishing = {} /\ batch = << >> /\ task = "poll" /\ targets = {}
  /\ read = NoRead
  /\ owed = {} /\ forgotten = {} /\ crashes = 0

Followers(a) == {u \in Readers : <<u, a>> \in follows}
Newest(ids, n) == {p \in ids : Cardinality({q \in ids : q > p}) < n}

-----------------------------------------------------------------------------
(* POST /posts, POST /follow *)

AddPost(a) ==
  LET p == Len(authors) + 1 IN
  /\ Len(authors) < MaxPosts
  /\ authors' = Append(authors, a)
  /\ publishing' = publishing \cup {p}
  /\ owed' = owed \cup (Followers(a) \X {p})
  /\ UNCHANGED <<follows, stream, timeline, worker, read, forgotten, crashes>>

Publish(p) ==
  /\ p \in publishing
  /\ stream' = Append(stream, p)
  /\ publishing' = publishing \ {p}
  /\ UNCHANGED <<tables, timeline, worker, read, owed, forgotten, crashes>>

AddFollow(u, a) ==
  /\ <<u, a>> \notin follows
  /\ follows' = follows \cup {<<u, a>>}
  /\ UNCHANGED <<authors, stream, timeline, publishing, worker, read, owed, forgotten, crashes>>

-----------------------------------------------------------------------------
(* The worker *)

Rest == UNCHANGED <<tables, publishing, read, owed, crashes>>

\* XREADGROUP, of so many new events at most.
Poll ==
  LET n == IF Len(stream) <= PollCount THEN Len(stream) ELSE PollCount IN
  /\ task = "poll" /\ stream # << >>
  /\ batch' = SubSeq(stream, 1, n) /\ stream' = SubSeq(stream, n + 1, Len(stream))
  /\ task' = "count"
  /\ UNCHANGED <<timeline, targets, forgotten>> /\ Rest

\* follower_count; a celebrity's post is left to the readers.
Count ==
  /\ task = "count"
  /\ task' = IF Cardinality(Followers(authors[Head(batch)])) >= Threshold THEN "ack" ELSE "followers"
  /\ UNCHANGED <<stream, timeline, batch, targets, forgotten>> /\ Rest

ReadFollowers ==
  /\ task = "followers"
  /\ targets' = Followers(authors[Head(batch)])
  /\ task' = IF targets' = {} THEN "ack" ELSE "add"
  /\ UNCHANGED <<stream, timeline, batch, forgotten>> /\ Rest

\* add_to_many: one transaction of ZADD and ZREMRANGEBYRANK.
AddToMany ==
  /\ task = "add"
  /\ timeline' = [u \in Readers |-> IF u \in targets THEN Newest(timeline[u] \cup {Head(batch)}, Cap)
                                    ELSE timeline[u]]
  /\ task' = "ack"
  /\ UNCHANGED <<stream, batch, targets, forgotten>> /\ Rest

Ack ==
  /\ task = "ack"
  /\ batch' = Tail(batch) /\ targets' = {}
  /\ task' = IF batch' = << >> THEN "poll" ELSE "count"
  /\ UNCHANGED <<stream, timeline, forgotten>> /\ Rest

\* The worker dies, or a call of its raises, which ends it as well; a new one starts.
WorkerDies ==
  /\ batch # << >> /\ crashes < MaxCrashes
  /\ crashes' = crashes + 1
  /\ forgotten' = forgotten \cup Range(batch)
  /\ batch' = << >> /\ task' = "poll" /\ targets' = {}
  /\ UNCHANGED <<tables, stream, timeline, publishing, read, owed>>

\* The API dies, or XADD raises, with the post in the table.
ApiDies(p) ==
  /\ p \in publishing /\ crashes < MaxCrashes
  /\ crashes' = crashes + 1
  /\ publishing' = publishing \ {p} /\ forgotten' = forgotten \cup {p}
  /\ UNCHANGED <<tables, stream, timeline, worker, read, owed>>

-----------------------------------------------------------------------------
(* GET /feed *)

Handled == Posts \ (publishing \cup Range(stream) \cup Range(batch) \cup forgotten)

\* The timeline comes first; what is due to this read is what has been handled by now.
ReadTimeline(u) ==
  /\ read = NoRead
  /\ read' = [by |-> u, ids |-> Newest(timeline[u], Limit), due |-> {p \in Handled : <<u, p>> \in owed}]
  /\ UNCHANGED <<tables, stream, timeline, publishing, worker, owed, forgotten, crashes>>

\* celebrity_recent_post_ids.  Faulty variant: at the threshold, an author is no celebrity
\* for readers.
IsCelebrityAbove(a) == Cardinality(Followers(a)) > Threshold
IsCelebrity(a) == Cardinality(Followers(a)) >= Threshold

CelebrityIds(u) == Newest({p \in Posts : IsCelebrity(authors[p]) /\ <<u, authors[p]>> \in follows}, Limit)

Merged(u) == Newest(read.ids \cup CelebrityIds(u), Limit)

\* The answer; posts are never deleted, so that hydrate finds them all.
Answer ==
  /\ read # NoRead
  /\ read' = NoRead
  /\ UNCHANGED <<tables, stream, timeline, publishing, worker, owed, forgotten, crashes>>

Next ==
  \/ \E a \in Authors : AddPost(a) \/ \E u \in Readers : AddFollow(u, a)
  \/ \E p \in Ids : Publish(p) \/ ApiDies(p)
  \/ Poll \/ Count \/ ReadFollowers \/ AddToMany \/ Ack \/ WorkerDies
  \/ \E u \in Readers : ReadTimeline(u)
  \/ Answer

Spec == Init /\ [][Next]_vars
-----------------------------------------------------------------------------
\* A read may ask for more than a timeline keeps.
Enough == IF Limit <= Cap THEN Limit ELSE Cap

\* No post falls between the two paths: whatever follows are added between fan-out and
\* read, an author's step over the threshold included, a read that starts when a post's
\* event was handled answers with that post, to whom followed its author when it was
\* made, or with as many newer ones as were asked for (or a timeline keeps); and only
\* with posts of authors they follow.
FeedComplete ==
  read # NoRead =>
    /\ \A p \in read.due \ Merged(read.by) : Cardinality({q \in Merged(read.by) : q > p}) \in Enough..Limit
    /\ \A p \in Merged(read.by) : <<read.by, authors[p]>> \in follows
=============================================================================
