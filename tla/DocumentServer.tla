--------------------------- MODULE DocumentServer ---------------------------
(***************************************************************************)
(* The ordering authority of one shared document: submit transforms an     *)
(* operation that was composed against an older version over everything    *)
(* applied since (OtEngine), applies it and appends it to the log; a       *)
(* snapshot empties the log.  The server is sequential; what overlaps are  *)
(* the editors, who compose against any version they may have seen.        *)
(*                                                                         *)
(* A character is the version its insertion made, so that all differ.      *)
(***************************************************************************)
EXTENDS Naturals, Sequences, Functions

CONSTANT MaxVersion     \* bound on the operations submitted

VARIABLES
  doc, log, snapshotVersion,   \* DocumentServer._doc, _log, _snapshot_version
  texts,                       \* history: the document of each version, from 0
  erased,                      \* history: the characters that editors deleted
  views                        \* history: what each editor saw of an own operation

WellFormed == MaxVersion \in Nat

vars == <<doc, log, snapshotVersion, texts, erased, views>>

Chars == 1..MaxVersion
Version == snapshotVersion + Len(log)

\* Positions count from 0, as in the code.
Ops == [kind : {"ins", "del", "noop"}, pos : 0..MaxVersion, char : Chars \cup {0}]

TypeOK ==
  /\ doc \in Seq(Chars) /\ log \in Seq(Ops)
  /\ snapshotVersion \in 0..MaxVersion /\ Version = Len(texts) - 1
  /\ \A i \in DOMAIN texts : texts[i] \in Seq(Chars)
  /\ doc = texts[Len(texts)]
  /\ erased \subseteq Chars

Init ==
  /\ doc = << >> /\ log = << >> /\ snapshotVersion = 0
  /\ texts = << << >> >> /\ erased = {} /\ views = {}

-----------------------------------------------------------------------------
\* OtEngine._transform_one: a over b, which was applied before it.  Faulty variant: of
\* two deletions of one character, both are kept.
TransformOneTwice(a, b) ==
  IF a.kind = "noop" \/ b.kind = "noop" THEN a
  ELSE CASE b.kind = "ins" /\ b.pos <= a.pos -> [a EXCEPT !.pos = @ + 1]
         [] b.kind = "del" /\ b.pos < a.pos -> [a EXCEPT !.pos = @ - 1]
         [] OTHER -> a

TransformOne(a, b) ==
  IF a.kind = "noop" \/ b.kind = "noop" THEN a
  ELSE CASE b.kind = "ins" /\ b.pos <= a.pos -> [a EXCEPT !.pos = @ + 1]
         [] b.kind = "del" /\ b.pos < a.pos -> [a EXCEPT !.pos = @ - 1]
         [] a.kind = "del" /\ b.kind = "del" /\ b.pos = a.pos -> [a EXCEPT !.kind = "noop"]
         [] OTHER -> a

\* OtEngine.transform: over each of the concurrent operations, in their order.
Transformed(op, concurrent) ==
  LET after[n \in 0..Len(concurrent)] == IF n = 0 THEN op ELSE TransformOne(after[n - 1], concurrent[n])
  IN  after
Transform(op, concurrent) == Transformed(op, concurrent)[Len(concurrent)]

Apply(text, op) ==
  CASE op.kind = "ins" -> SubSeq(text, 1, op.pos) \o <<op.char>> \o SubSeq(text, op.pos + 1, Len(text))
    [] op.kind = "del" -> SubSeq(text, 1, op.pos) \o SubSeq(text, op.pos + 2, Len(text))
    [] OTHER -> text

\* What an editor can do to a text.
EditsOf(text) ==
  [kind : {"ins"}, pos : 0..Len(text), char : {Version + 1}]
    \cup {[kind |-> "del", pos |-> p - 1, char |-> 0] : p \in DOMAIN text}

\* An operation on the document of version v; one that predates the snapshot is refused.
Submit(v, op) ==
  LET transformed == Transform(op, SubSeq(log, v - snapshotVersion + 1, Len(log))) IN
  /\ Version < MaxVersion /\ v >= snapshotVersion
  /\ doc' = Apply(doc, transformed)
  /\ log' = Append(log, transformed)
  /\ texts' = Append(texts, doc')
  /\ erased' = erased \cup (IF op.kind = "del" THEN {texts[v + 1][op.pos + 1]} ELSE {})
  /\ views' = views \cup {Apply(texts[v + 1], op)}
  /\ UNCHANGED snapshotVersion

Snapshot ==
  /\ log # << >>
  /\ snapshotVersion' = Version /\ log' = << >>
  /\ UNCHANGED <<doc, texts, erased, views>>

Next ==
  \/ \E v \in 0..Version : \E op \in EditsOf(texts[v + 1]) : Submit(v, op)
  \/ Snapshot

Spec == Init /\ [][Next]_vars
-----------------------------------------------------------------------------
Typed == UNION {Range(view) : view \in views}

\* "Two editors typing at once never lose a keystroke" (ot_engine.py): the document has
\* every character that was typed, once, but those somebody deleted, and no other is
\* gone; and each editor finds what they saw in the order they saw it.
EditsKept ==
  /\ Range(doc) = Typed \ erased /\ IsInjective(doc)
  /\ \A view \in views : \A i, j \in DOMAIN view, m, n \in DOMAIN doc :
       i < j /\ view[i] = doc[m] /\ view[j] = doc[n] => m < n
=============================================================================
