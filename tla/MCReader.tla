------------------------------ MODULE MCReader ------------------------------
(* Archives for Reader.  A Format Logical Block has four cells, streams    *)
(* are aligned to two; blocks are laid out the way the builders of the     *)
(* repository's tests lay them out (reader_test.go, streams_test.go,       *)
(* spanning_test.go).                                                      *)
EXTENDS Recording, SequencesExt

MCW == 4
MCAlign == 2

Block(t, i, cont, o) == [k |-> "hdr", type |-> t, id |-> i, cont |-> cont, off |-> o]
Stream(t, n) == [k |-> "str", type |-> t, len |-> n, cont |-> FALSE, id |-> 0]
Dat(i, n) == [k |-> "dat", id |-> i, n |-> n]
Bytes(i, a, b) == [n \in 1..(b - a + 1) |-> Dat(i, a + n - 1)]

(* Zeros up to a multiple of k cells. *)
Gap(c, k) == (k - (Len(c) % k)) % k
Padded(c, k) == c \o [n \in 1..Gap(c, k) |-> Pad]
Laid(c) == Padded(c, MCW)
(* Another stream, aligned. *)
With(c, header, data) == Padded(c, MCAlign) \o <<header>> \o data
(* The padding is announced by a terminal SPAD stream. *)
Closed(c) ==
  LET d == Padded(c, MCAlign)
  IN  Laid(d \o <<Stream("SPAD", Gap(Append(d, Pad), MCW))>>)

Bare(t, i) == Laid(<<Block(t, i, FALSE, 0)>>)
Again(t, i) == Laid(<<Block(t, i, TRUE, 0)>>)
(* A block with streams; the first one is at cell 2. *)
Streamed(t, i) == <<Block(t, i, FALSE, 2)>>
File(i, n) == Closed(With(Streamed("FILE", i), Stream("STAN", n), Bytes(i, 1, n)))
(* With a security descriptor before and a checksum behind the data. *)
RichFile(i, n) ==
  Closed(With(With(With(Streamed("FILE", i), Stream("NACL", 1), <<Dat(-i, 1)>>),
                   Stream("STAN", n), Bytes(i, 1, n)),
              Stream("CSUM", 1), <<Dat(-i, 2)>>))
EmptyFile(i) == Closed(Streamed("FILE", i))
Dir(i) == Closed(With(Streamed("DIRB", i), Stream("NACL", 1), <<Dat(-i, 1)>>))
TFDD(i, n) == [Stream("TFDD", n) EXCEPT !.id = i]
SetEnd(i) == Closed(With(Streamed("ESET", i), TFDD(i, 1), <<Dat(-i, 1)>>))

(* A catalog with a set map and a stream that is no catalog at all. *)
RichSetEnd(i) ==
  Closed(With(With(With(Streamed("ESET", i), TFDD(i, 2), Bytes(-i, 1, 2)),
                   Stream("CSUM", 1), <<Dat(-i, 3)>>),
              Stream("TSMP", 2), Bytes(-i, 4, 5)))

(* The first n of a file's m cells of data, up to an FLB boundary ...      *)
SplitFile(i, m, n) ==
  Laid(With(Streamed("FILE", i), Stream("STAN", m), Bytes(i, 1, n)))
(* ... and its cells a to b of m on a continuation medium.                 *)
RestHead(i, a, m) == [Stream("STAN", m - a + 1) EXCEPT !.cont = TRUE]
RestOfFile(i, a, b, m) ==
  Laid(With(<<Block("FILE", i, TRUE, 2)>>, RestHead(i, a, m), <<>>))
    \o Laid(Bytes(i, a, b))
RichRestOfFile(i, a, b, m) ==
  Laid(With(With(<<Block("FILE", i, TRUE, 2)>>, Stream("NACL", 1), <<Dat(-i, 1)>>),
            RestHead(i, a, m), <<>>))
    \o Laid(Bytes(i, a, b))

Start == Bare("TAPE", 1) \o Bare("SSET", 1) \o Bare("VOLB", 1) \o Dir(1)
Resumed(m) == Again("TAPE", m) \o Again("SSET", 1) \o Again("VOLB", 1) \o Again("DIRB", 1)
Eotm == Bare("EOTM", 0)

It(t, i, v, d, c) == [kind |-> t, id |-> i, vol |-> v, dir |-> d, cat |-> c]
Is(t, i) == [item |-> It(t, i, 0, 0, 0), content |-> <<>>]
FileIs(i, d, n) == [item |-> It("FILE", i, 1, d, 0), content |-> Bytes(i, 1, n)]
DirIs(i) == [item |-> It("DIRB", i, 1, 0, 0), content |-> <<>>]
SetEndIs(i, c) == [item |-> It("ESET", i, 0, 0, c), content |-> <<>>]
StartIs == <<Is("TAPE", 1), Is("SSET", 1), Is("VOLB", 1), DirIs(1)>>

Archive(media, items) == [media |-> media, items |-> items]

(* One medium: files of several sizes, with and without further streams.   *)
OneMedium == Archive(
  <<Start \o File(1, 2) \o EmptyFile(2) \o RichFile(3, 4) \o Bare("ESPB", 0)
      \o SetEnd(1)>>,
  StartIs \o <<FileIs(1, 1, 2), FileIs(2, 1, 0), FileIs(3, 1, 4), SetEndIs(1, 1)>>)

(* A file split over three media, then one split between two entries.      *)
ThreeMedia == Archive(
  <<Start \o SplitFile(1, 10, 1) \o Eotm,
    Resumed(2) \o RestOfFile(1, 2, 5, 10) \o Eotm,
    Resumed(3) \o RestOfFile(1, 6, 10, 10) \o File(2, 1) \o SetEnd(1)>>,
  StartIs \o <<FileIs(1, 1, 10), FileIs(2, 1, 1), SetEndIs(1, 1)>>)
Between == Archive(
  <<Start \o File(1, 5) \o Eotm, Resumed(2) \o Dir(2) \o File(2, 1) \o SetEnd(1)>>,
  StartIs \o <<FileIs(1, 1, 5), Is("TAPE", 2), DirIs(2), FileIs(2, 2, 1), SetEndIs(1, 1)>>)
(* A medium on which nothing but the EOTM follows the context. *)
EmptyMedium == Archive(
  <<Start \o SplitFile(1, 5, 1) \o Eotm, Resumed(2) \o Eotm,
    Resumed(3) \o RichRestOfFile(1, 2, 5, 5) \o Bare("ESET", 1)>>,
  StartIs \o <<FileIs(1, 1, 5), SetEndIs(1, 0)>>)

(* A file of m cells split behind its n-th, another one behind it. *)
Split(m, n) == Archive(
  <<Start \o SplitFile(1, m, n) \o Eotm,
    Resumed(2) \o RestOfFile(1, n + 1, m, m) \o RichFile(2, 3) \o SetEnd(1)>>,
  StartIs \o <<FileIs(1, 1, m), FileIs(2, 1, 3), SetEndIs(1, 1)>>)
(* The data start in the last cell of an FLB, so these are its boundaries. *)
Splits == UNION {{Split(m, n) : n \in {k \in {1, 5} : k < m}} : m \in 2..9}

Spanned == {OneMedium, ThreeMedia, Between, EmptyMedium} \cup Splits

(* Two data sets with a catalog each.                                      *)
SecondSet == Bare("SSET", 2) \o Bare("VOLB", 1) \o Dir(2) \o File(2, 2)
SecondIs  == <<Is("SSET", 2), Is("VOLB", 1), DirIs(2), FileIs(2, 2, 2)>>
Catalogued == Archive(<<Start \o File(1, 1) \o SetEnd(1) \o SecondSet \o RichSetEnd(2)>>,
  StartIs \o <<FileIs(1, 1, 1), SetEndIs(1, 1)>> \o SecondIs \o <<SetEndIs(2, 2)>>)

(* The last medium is missing: the callback has no more media. *)
WithoutLast(a) == [a EXCEPT !.media = SubSeq(@, 1, Len(@) - 1)]
Incomplete == {WithoutLast(a) : a \in {ThreeMedia, Between, EmptyMedium}}

(* The archives of a set, recorded in physical blocks of p cells, walked   *)
(* with a callback or without, by callers that leave files as in d.        *)
How(as, p, c, d) ==
  {[media |-> a.media, items |-> a.items, phys |-> p, callback |-> c, discards |-> d] :
      a \in as}
Either == {"unread", "part"}

(* Every way of reading or leaving files, from physical blocks no longer   *)
(* than a header; everything read, from blocks longer than an FLB; files   *)
(* passed over on a single medium; media missing with a callback; and the  *)
(* first medium alone without one, the file on it being near its end.      *)
MCWalks == UNION {
  How(Spanned, 1, TRUE, Either),
  How(Spanned, 7, TRUE, {}),
  How({OneMedium, Catalogued}, 7, FALSE, {"unread"}),
  How(Incomplete, 1, TRUE, Either),
  How({EmptyMedium, Between}, 7, FALSE, {}) }

MCRetries == How({OneMedium}, 7, FALSE, Either)
(* Files passed over with a callback, from blocks longer than an FLB.      *)
MCPassed    == How(Spanned, 7, TRUE, {"unread"})
(* A writer that does not pad: the header of the standard data follows the *)
(* two cells of the stream in front of it at once (streams_test.go:166).   *)
Unpadded == Archive(
  <<Start \o Closed(With(Streamed("FILE", 1), Stream("NACL", 2), Bytes(-1, 1, 2))
                      \o <<Stream("STAN", 2)>> \o Bytes(1, 1, 2)) \o SetEnd(1)>>,
  StartIs \o <<FileIs(1, 1, 2), SetEndIs(1, 1)>>)
MCUnpadded == How({Unpadded}, 7, FALSE, Either)
-----------------------------------------------------------------------------
(* The layouts of these archives, read off their media. *)

(* How many of n cells of data from place p on are on the medium. *)
Present(a, m, p, n) ==
  CHOOSE k \in 0..n : /\ \A i \in 0..(k - 1) : CellAt(a, m, p + i).k = "dat"
                      /\ k < n => CellAt(a, m, p + k).k # "dat"

(* The cells of a file still missing behind its data at s. *)
Missed(a, b, s) ==
  StreamOf(a, b, s).len - Present(a, b.m, BeginOf(a, b, s), StreamOf(a, b, s).len)

RECURSIVE StrandsFrom(_, _, _)
StrandsFrom(a, b, s) ==
  LET e == BehindOf(a, b, s)
      h == e + ((-e) % MCAlign)
      t == [head |-> h, data |-> h + 1, past |-> (s.past \/ StreamOf(a, b, s).type = "STAN"),
            cat  |-> CatBehind(a, b, s)]
      end == \/ StreamOf(a, b, s).type = "SPAD"
             \/ Content(a, b, s) /\ (Resuming(b) \/ Missed(a, b, s) > 0)
  IN  {s} \cup (IF end THEN {} ELSE StrandsFrom(a, b, t))

RECURSIVE LayoutFrom(_, _, _, _)
LayoutFrom(a, m, at, c) ==
  LET b == [m |-> m, at |-> at, end |-> at + MCW, streams |-> {}, before |-> c, after |-> c]
  IN  IF at = Extent(a, m) THEN {b}
      ELSE IF HeaderOf(a, b).type = "EOTM"
      THEN {b} \cup (IF m < Len(a.media) THEN LayoutFrom(a, m + 1, 0, c) ELSE {})
      ELSE
        LET h     == HeaderOf(a, b)
            first == [head |-> at + h.off, data |-> at + h.off + 1, past |-> FALSE, cat |-> c.cat]
            ss    == IF HasStreams(a, b) THEN StrandsFrom(a, b, first) ELSE {}
            last  == CHOOSE s \in ss : \A t \in ss : t.data <= s.data
            split == {s \in ss : Content(a, b, s)}
            left  == IF h.type # "FILE" THEN c.left
                     ELSE IF split = {} THEN 0
                     ELSE Missed(a, b, CHOOSE s \in split : TRUE)
            end   == IF ss = {} THEN at + MCW
                     ELSE IF Content(a, b, last)
                     THEN LET r == BeginOf(a, b, last) + StreamOf(a, b, last).len - left
                          IN  IF left > 0 THEN r ELSE Up(r)
                     ELSE Up(BehindOf(a, b, last))
            after == [seen   |-> c.seen + (IF Yielding(a, b) THEN 1 ELSE 0), left |-> left,
                      volume |-> IF h.type = "VOLB" THEN h.id ELSE c.volume,
                      cwd    |-> IF h.type = "VOLB" /\ Yielding(a, b) THEN 0
                                 ELSE IF h.type = "DIRB" THEN h.id ELSE c.cwd,
                      cat    |-> IF h.type = "ESET" /\ ss # {} THEN last.cat ELSE c.cat]
        IN  {[b EXCEPT !.end = end, !.streams = ss, !.after = after]}
              \cup LayoutFrom(a, m, end, after)
LayoutOf(a) == LayoutFrom(a, 1, 0, Blank)

(* All but the unpadded one are recorded in order, and walked so but for   *)
(* files passed over with a callback.                                      *)
ASSUME RecordedInOrder ==
  \A a \in Walks \ MCUnpadded :
    /\ LayoutOf(a) \in SUBSET Stops /\ Recorded(a, LayoutOf(a))
    /\ a \in MCPassed \/ Walked(a, LayoutOf(a))
=============================================================================
