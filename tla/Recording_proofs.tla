------------------------- MODULE Recording_proofs -------------------------
(***************************************************************************)
(* Proofs about the walk over archives that are recorded in order: what it *)
(* yields, what it delivers of a file, and when it ends.                   *)
(***************************************************************************)
EXTENDS Recording, Reader_proofs

NoEio == "eio" \notin Faults

(* A layout of the archive that is walked, and its stops on the medium.    *)
Layout == CHOOSE l \in SUBSET Stops : Recorded(archive, l) /\ Walked(archive, l)
Here   == {b \in Layout : b.m = medium}

-----------------------------------------------------------------------------
(* Where the walk is.                                                      *)

Context(c) ==
  Len(yields) = c.seen /\ volume = c.volume /\ cwd = c.cwd /\ catFDD = c.cat

(* A walk has no entry open; one that looks for the rest of a file has.    *)
Alone == IF mode = "walk" THEN dataRem = 0 /\ ~Open /\ ~streamContinued
                          ELSE dataRem > 0

(* The next block stands at p. *)
Stop(p) == \E b \in Here : b.at = p /\ Context(b.before) /\ b.before.left = dataRem

(* The header of b has been read. *)
Headed(b) ==
  /\ b \in Here /\ b.at < Len(Medium) /\ dblk = HeaderOf(archive, b)
  /\ flbsize = W /\ flbread > 0 /\ Whole(Position - flbread)
JustHeaded(b) == Headed(b) /\ Position = b.at + 1

(* The medium's EOTM is behind, or being read. *)
AtEnd(p) ==
  \E b \in Here : /\ b.at < Len(Medium) /\ HeaderOf(archive, b).type = "EOTM"
                  /\ p > b.at /\ Context(b.before) /\ b.before.left = dataRem

(* The code hands out repeated data sets like all others. *)
Outgoing(b) ==
  Yielding(archive, b) \/ (~Resuming(b) /\ HeaderOf(archive, b).type = "SSET")
(* The context of a block that is about to be yielded. *)
Upcoming(b) ==
  /\ Outgoing(b) /\ Len(yields) = b.before.seen
  /\ volume = b.after.volume /\ cwd = b.after.cwd /\ ~streamContinued

(* The walk is in stream s of block b, *)
InStrand(b, s) ==
  /\ Headed(b) /\ HasStreams(archive, b) /\ s \in b.streams
  /\ strm = StreamOf(archive, b, s)
  /\ did <= strm.len /\ Position = s.data + did
  /\ lastStream => strm.type = "SPAD" /\ did = strm.len
  /\ pc \in {"streams", "catalog", "contfile"} => did = 0
  /\ pc = "extra" => did = 0 \/ strm.type = "SPAD"
  /\ pc = "header" => strm.type # "SPAD" /\ did = strm.len
(* ... which is an entry on its way to be yielded, *)
ToEntry(b, s) ==
  /\ InStrand(b, s) /\ dblk.type \in {"FILE", "VOLB", "DIRB"} /\ ~s.past
  /\ pc \in {"rest", "header"} => strm.type \notin {"STAN", "SPAD"}
(* ... the end of a set, *)
ToCatalog(b, s) ==
  /\ InStrand(b, s) /\ dblk.type = "ESET"
  /\ pc \in {"rest", "header"} => strm.type # "SPAD"
  /\ catFDD = IF pc = "catalog" THEN s.cat ELSE CatBehind(archive, b, s)
(* ... a file that is resumed, *)
ToRest(b, s) ==
  /\ InStrand(b, s) /\ dblk.type = "FILE" /\ Resuming(b) /\ ~s.past
  /\ pc \in {"rest", "header"} => strm.type \notin {"STAN", "SPAD"}
(* ... or a file whose data have been passed. *)
Ended(b) ==
  /\ Headed(b) /\ dblk.type = "FILE" /\ b.after.left = 0 /\ Context(b.after)
  /\ dataRem = 0 /\ entryDone /\ streamContinued = Resuming(b)
Past(b, s) == Ended(b) /\ ~Resuming(b) /\ InStrand(b, s)

(* The walk is in the data of a file. *)
InData(b, s) ==
  /\ b \in Here /\ b.at < Len(Medium) /\ dblk = HeaderOf(archive, b)
  /\ flbsize = W /\ Whole(Position - flbread) /\ (flbread > 0 \/ dataRem > 0)
  /\ s \in b.streams /\ strm = StreamOf(archive, b, s) /\ ~lastStream
  /\ Content(archive, b, s) /\ Position = BeginOf(archive, b, s) + did
  /\ did <= strm.len - b.after.left /\ dataRem = strm.len - did
(* ... which is the one yielded last. *)
OfFile(b) == Context(b.after) /\ streamContinued = Resuming(b)

-----------------------------------------------------------------------------
(* The course of a walk, by what it is about to do.                        *)

Seeking(p) == Stop(p) /\ Alone
Found == \E b \in Here : /\ JustHeaded(b) /\ Context(b.before)
                         /\ b.before.left = dataRem /\ Alone
Turned(p) == AtEnd(p) /\ Alone
Lost == AtEnd(Position) /\ dataRem > 0

(* An item without data is passed when the FLB is. *)
Unread(b) ==
  /\ Upcoming(b) /\ catFDD = b.after.cat /\ b.after.left = 0 /\ dataRem = 0 /\ ~Open
  /\ dblk.type = "FILE" => ContentOf(archive, b) = <<>>
Announced == \E b \in Here : Headed(b) /\ Up(Position) = b.end /\ Unread(b)
Announcing ==
  \E b \in Here :
    /\ b.at < Len(Medium) /\ dblk = HeaderOf(archive, b)
    /\ \/ Position = b.end /\ Unread(b)
       \/ /\ Upcoming(b) /\ catFDD = b.after.cat /\ Open /\ inData /\ did = 0
          /\ \E s \in b.streams : InData(b, s)

Starting ==
  \E b \in Here :
    /\ JustHeaded(b) /\ HasStreams(archive, b)
    /\ IF back = "contfile"
       THEN Resuming(b) /\ Context(b.before) /\ b.before.left = dataRem
       ELSE /\ Upcoming(b) /\ catFDD = b.before.cat /\ dataRem = 0
            /\ dblk.type = "ESET" => ~Open
Coming     == \E b \in Here : \E s \in b.streams :
                ToEntry(b, s) /\ Upcoming(b) /\ catFDD = b.after.cat /\ dataRem = 0
Capturing  == \E b \in Here : \E s \in b.streams :
                ToCatalog(b, s) /\ Upcoming(b) /\ dataRem = 0 /\ ~Open
Rejoining  == \E b \in Here : \E s \in b.streams :
                ToRest(b, s) /\ Context(b.before) /\ b.before.left = dataRem
Passed     == \E b \in Here : \E s \in b.streams : Past(b, s)
Continuing == \E b \in Here : \E s \in b.streams :
                /\ ToRest(b, s) /\ OfFile(b) /\ b.before.left = dataRem
                /\ strm.type = "STAN" /\ strm.cont /\ did = 0 /\ inData

AtData ==
  /\ \E b \in Here : /\ OfFile(b) /\ \E s \in b.streams : InData(b, s)
                     /\ pc = "chunk" => dataRem > b.after.left
  /\ inData
  /\ pc = "chunk" => Passing
Trailed ==
  \E b \in Here : /\ Ended(b)
                  /\ IF Resuming(b) THEN Up(Position) = b.end
                                    ELSE \E s \in b.streams : Past(b, s)
Finishing(p) == Stop(p) /\ dataRem = 0 /\ entryDone /\ ~streamContinued
Resting ==
  IF Open THEN /\ \E b \in Here : OfFile(b) /\ \E s \in b.streams : InData(b, s)
               /\ inData /\ ~readEnd /\ AtFile
          ELSE Stop(Position) /\ dataRem = 0 /\ ~streamContinued

Course ==
  /\ pc = "scan"  => Seeking(Position)
  /\ pc = "align" =>
       /\ flbsize = W /\ flbread > 0 /\ Whole(Position - flbread)
       /\ back = "scan"     => Seeking(Up(Position))
       /\ back = "eotm"     => Turned(Up(Position))
       /\ back = "yield"    => Announced
       /\ back = "data"     => Continuing
       /\ back = "finished" => Finishing(Up(Position))
  /\ pc \in {"dispatch", "rejoin"} => Found
  /\ pc = "switch" => Lost
  /\ pc = "eotm"   => Turned(Position)
  /\ pc = "yield"  => Announcing
  /\ pc = "start"  => Starting
  /\ pc = "streams"  \/ (pc \in {"rest", "header"} /\ back = "streams")  => Coming
  /\ pc = "catalog"  \/ (pc \in {"rest", "header"} /\ back = "catalog")  => Capturing
  /\ pc = "contfile" \/ (pc \in {"rest", "header"} /\ back = "contfile") => Rejoining
  /\ pc = "extra"    \/ (pc \in {"rest", "header"} /\ back = "extra")    => Passed
  /\ pc \in {"data", "chunk"} => AtData
  /\ pc = "trail"    => Trailed
  /\ pc = "finished" => Finishing(Position)
  /\ pc = "idle" /\ res = "ok" => Resting
  /\ mode = "next" /\ pc # "idle" => Discards # {} /\ entryDone
  /\ mode # "walk" /\ pc # "idle" => AtFile
  /\ res # "fail"

(* The read-ahead is the probed cell, until the data that begin with it are *)
(* read.                                                                   *)
Probed == peek # <<>> => /\ pc = "chunk" /\ tp > 0 /\ peek = <<Medium[tp]>>
                         /\ mode = "next" => Continues

(* A walk that was cut off inside a file finds nothing but padding.        *)
Void == /\ peek \in {<<>>, <<Pad>>}
        /\ \A p \in (tp + 1)..Len(Medium) : Medium[p] = Pad
CutOff ==
  /\ pc = "idle" /\ res = "ok" => Void /\ mode = "read" /\ readEnd
  /\ pc # "idle" => Void /\ mode # "read"
  /\ pc \in {"idle", "data", "chunk", "trail", "extra", "finished", "scan",
             "dispatch", "rest", "header", "align"}
  /\ pc \in {"rest", "header"} => back = "extra"
  /\ pc = "align" => back \in {"finished", "scan"}
  /\ pc = "scan" \/ (pc = "align" /\ back = "scan") => mode = "walk"
  /\ pc = "dispatch" => dblk.type = "none"

Directed == IF hitEOTM THEN CutOff ELSE Course /\ Probed

(* The items yielded are the first ones of the archive. *)
InOrder == \A i \in 1..Len(yields) :
             i <= Len(archive.items) /\ yields[i] = archive.items[i].item

(* What has been delivered when dataRem cells are still to come. *)
SoFar == /\ dataRem <= Len(FileContent)
         /\ got = SubSeq(FileContent, 1, Len(FileContent) - dataRem)
EndsMarked == (AtFile /\ readEnd) => (got = FileContent \/ hitEOTM)
Exact ==
  /\ ContentExact /\ EndsMarked
  /\ mode = "read" /\ pc # "idle" =>
       AtFile /\ ~readEnd /\ (IF Trailing THEN got = FileContent ELSE SoFar)
  /\ pc = "idle" /\ res = "ok" /\ AtFile /\ ~readEnd /\ ~hitEOTM =>
       IF entryDone THEN got = FileContent ELSE SoFar

Orders == /\ Directed /\ InOrder /\ Exact
          /\ pc # "idle" /\ ~hitEOTM => res # "eof"

-----------------------------------------------------------------------------
(* The next FLB boundary. *)

LEMMA UpIs ==
  ASSUME NEW x \in Int
  PROVE  /\ Up(x) \in Int /\ Whole(Up(x)) /\ x <= Up(x) /\ Up(x) < x + W
         /\ \A y \in Int : Whole(y) /\ x <= y => Up(x) <= y
         /\ Whole(x) => Up(x) = x
<1>0. W \in Nat \ {0}
  BY ReaderAssumption
<1> DEFINE m == (-x) % W
<1>1. m \in 0..(W - 1)
  BY <1>0
<1>2. -x = (W * ((-x) \div W)) + m /\ (-x) \div W \in Int
  BY <1>0
<1>3. PICK q \in Int : -x = (W * q) + m
  BY <1>2
<1>4. Up(x) = x + m
  BY DEF Up
<1>5. Up(x) = W * (-q)
  <2>1. W * (-q) = -(W * q) /\ W * q \in Int
    BY <1>0
  <2> HIDE DEF m
  <2> QED BY <1>0, <1>1, <1>3, <1>4, <2>1
<1>6. Whole(Up(x))
  BY <1>5, IsWhole
<1>7. Up(x) \in Int /\ x <= Up(x) /\ Up(x) < x + W
  <2> HIDE DEF m
  <2> QED BY <1>0, <1>1, <1>4
<1>8. ASSUME NEW y \in Int, Whole(y), x <= y PROVE Up(x) <= y
  <2>1. Whole(Up(x) - y)
    BY <1>6, <1>7, <1>8, WholeSum
  <2>2. PICK p \in Int : Up(x) - y = W * p
    BY <1>7, <2>1, WholeIs
  <2>3. Up(x) - y < W
    BY <1>0, <1>7, <1>8
  <2>4. p < 1
    <3>1. p >= 1 => W * p >= W
      BY <1>0
    <3> QED BY <2>2, <2>3, <3>1, <1>0, <1>7
  <2>5. W * p <= 0
    BY <2>4, <1>0
  <2> QED BY <2>2, <2>5, <1>7
<1> QED BY <1>6, <1>7, <1>8

(* From a place that is r behind a boundary, up to whole FLBs, the next    *)
(* one is W - r % W ahead.                                                 *)
LEMMA BoundaryAhead ==
  ASSUME NEW x \in Int, NEW r \in Nat, Whole(x - r), NEW y \in Int, Whole(y), x < y
  PROVE  x + (W - (r % W)) <= y
<1>0. W \in Nat \ {0}
  BY ReaderAssumption
<1>1. r = (W * (r \div W)) + (r % W) /\ r \div W \in Int /\ r % W \in 0..(W - 1)
  BY <1>0
<1>2. PICK q \in Int, m \in 0..(W - 1) : r = (W * q) + m /\ r % W = m
  BY <1>1
<1>3. Whole(y - (x - r)) /\ Whole(W * q)
  BY <1>2, IsWhole, WholeSum
<1>4. W * q \in Int
  BY <1>0
<1>5. Whole((y - (x - r)) - (W * q))
  BY <1>3, <1>4, WholeSum
<1>6. (y - (x - r)) - (W * q) = (y - x) + m
  BY <1>2, <1>4
<1>7. PICK p \in Int : (y - x) + m = W * p
  BY <1>5, <1>6, <1>2, WholeIs
<1>8. W * p > 0
  BY <1>2, <1>7
<1>9. p >= 1
  <2>1. p <= 0 => W * p <= 0
    BY <1>0
  <2>2. W * p \in Int
    BY <1>0
  <2> QED BY <1>8, <2>1, <2>2
<1>10. W * p >= W
  BY <1>0, <1>9
<1> QED BY <1>0, <1>2, <1>7, <1>10

-----------------------------------------------------------------------------
(* The layout. *)

LEMMA LayoutIs ==
  ASSUME Orderly, archive \in Walks
  PROVE  /\ Layout \in SUBSET Stops
         /\ Recorded(archive, Layout) /\ Walked(archive, Layout)
<1>1. \E l \in SUBSET Stops : Recorded(archive, l) /\ Walked(archive, l)
  BY DEF Orderly
<1> QED BY <1>1 DEF Layout

LEMMA LayoutStays ==
  ASSUME UNCHANGED archive
  PROVE  /\ UNCHANGED Layout
         /\ UNCHANGED medium => UNCHANGED <<Here, Medium>>
BY DEF Layout, Here, Medium

(* What a stop of the loaded medium is. *)
LEMMA StopIs ==
  ASSUME Orderly, TapeType, NEW b \in Here
  PROVE  /\ b \in Stops /\ b.m = medium /\ Extent(archive, b.m) = Len(Medium)
         /\ b.at \in Nat /\ b.end \in Nat /\ b.at <= Len(Medium) /\ Whole(b.at)
         /\ Standing(archive, Layout, b)
         /\ b.before \in Contexts /\ b.after \in Contexts
         /\ b.at < Len(Medium) => /\ HeaderOf(archive, b) = AsBlock(Medium[b.at + 1])
                                  /\ HeaderOf(archive, b).k = "hdr"
                                  /\ HeaderOf(archive, b) \in Headers
<1>1. b \in Layout /\ b.m = medium /\ b \in Stops
  BY LayoutIs DEF Here, TapeType
<1>2. Standing(archive, Layout, b)
  BY <1>1, LayoutIs DEF Recorded, TapeType
<1>3. Extent(archive, b.m) = Len(Medium)
  BY <1>1 DEF Extent, Medium
<1>4. b.at \in Nat /\ b.end \in Nat /\ b.at <= Len(Medium) /\ Whole(b.at)
      /\ b.before \in Contexts /\ b.after \in Contexts
  BY <1>1, <1>2, <1>3 DEF Stops, Standing, Whole
<1>5. Medium \in Seq(Cells) /\ Len(Medium) \in Nat
  BY MediumIs DEF TapeType
<1>6. ASSUME b.at < Len(Medium)
      PROVE  /\ HeaderOf(archive, b) = AsBlock(Medium[b.at + 1])
             /\ HeaderOf(archive, b).k = "hdr"
             /\ HeaderOf(archive, b) \in Headers
  <2>1. HeaderOf(archive, b) = AsBlock(Medium[b.at + 1])
    BY <1>1 DEF HeaderOf, CellAt, Medium
  <2>2. Medium[b.at + 1] \in Cells
    BY <1>4, <1>5, <1>6, ElementOfSeq
  <2>3. HeaderOf(archive, b).k = "hdr"
    BY <1>2, <1>3, <1>4, <1>6 DEF Standing
  <2> QED BY <2>1, <2>2, <2>3, HeaderIs
<1> QED BY <1>1, <1>2, <1>3, <1>4, <1>6

(* A block that is no EOTM leads to the next stop, *)
LEMMA LeadsOn ==
  ASSUME Orderly, TapeType, NEW b \in Here, b.at < Len(Medium),
         HeaderOf(archive, b).type # "EOTM"
  PROVE  /\ Leads(archive, b) /\ Whole(b.end) /\ b.end <= Len(Medium)
         /\ IF HasStreams(archive, b) THEN Chained(archive, b) ELSE b.end = b.at + W
         /\ \E c \in Here : c.at = b.end /\ c.before = b.after
<1>1. Leading(archive, Layout, b) /\ b.m = medium
  BY StopIs DEF Standing
<1>2. PICK c \in Layout : c.m = b.m /\ c.at = b.end /\ c.before = b.after
  BY <1>1 DEF Leading
<1>3. c \in Here
  BY <1>1, <1>2 DEF Here
<1>4. Whole(b.end) /\ b.end <= Len(Medium)
  BY <1>2, <1>3, StopIs
<1> QED BY <1>1, <1>2, <1>3, <1>4 DEF Leading

(* an EOTM to the next medium, if there is one, *)
LEMMA TurnsOn ==
  ASSUME Orderly, TapeType, NEW b \in Here, b.at < Len(Medium),
         HeaderOf(archive, b).type = "EOTM"
  PROVE  /\ b.at + W = Len(Medium)
         /\ \A p \in (b.at + 2)..Len(Medium) : Medium[p] = Pad
         /\ medium < Len(archive.media) =>
              \E c \in Layout : c.m = medium + 1 /\ c.at = 0 /\ c.before = b.before
<1>1. Turning(archive, Layout, b) /\ b.m = medium /\ Extent(archive, b.m) = Len(Medium)
      /\ b.at \in Nat
  BY StopIs DEF Standing
<1>2. ASSUME NEW p \in (b.at + 2)..Len(Medium) PROVE Medium[p] = Pad
  <2>0. b.at + W = Len(Medium) /\ W \in Nat
    BY <1>1, ReaderAssumption DEF Turning
  <2>1. p - 1 \in (b.at + 1)..(b.at + W - 1) /\ (p - 1) + 1 = p
    BY <1>1, <1>2, <2>0
  <2>2. CellAt(archive, b.m, p - 1) = Pad
    BY <1>1, <2>1 DEF Turning
  <2> QED BY <1>1, <2>1, <2>2 DEF CellAt, Medium
<1> QED BY <1>1, <1>2 DEF Turning

(* and the end of the archive nowhere. *)
LEMMA EndsHere ==
  ASSUME Orderly, TapeType, NEW b \in Here, b.at = Len(Medium)
  PROVE  b.before.seen = Len(archive.items) /\ b.before.left = 0
BY StopIs DEF Standing, Ending

(* What a stream of a block is. *)
LEMMA StrandIs ==
  ASSUME Orderly, TapeType, NEW b \in Here, b.at < Len(Medium),
         HasStreams(archive, b), NEW s \in b.streams
  PROVE  /\ s.head \in Nat /\ s.data \in Nat /\ s.past \in BOOLEAN /\ s.cat \in Nat
         /\ s.head < Len(Medium) /\ s.data <= Len(Medium)
         /\ StreamOf(archive, b, s) = AsStream(Medium[s.head + 1])
         /\ StreamOf(archive, b, s) \in StreamHeaders
         /\ StreamOf(archive, b, s).len \in Nat
         /\ Final(archive, b, s) \/ \E t \in b.streams : NextTo(archive, b, s, t)
         /\ StreamOf(archive, b, s).type = "SPAD" => Closing(archive, b, s)
         /\ Content(archive, b, s) => Holding(archive, b, s)
         /\ HeaderOf(archive, b).type \in {"VOLB", "DIRB"} =>
              StreamOf(archive, b, s).type # "STAN"
<1>1. b \in Stops /\ b.m = medium /\ Extent(archive, b.m) = Len(Medium)
  BY StopIs
<1>2. HeaderOf(archive, b).type # "EOTM"
  BY DEF HasStreams
<1>3. Chained(archive, b)
  BY <1>2, LeadsOn
<1>4. s.head \in Nat /\ s.data \in Nat /\ s.past \in BOOLEAN /\ s.cat \in Nat
  BY <1>1 DEF Stops, Strands
<1>5. s.head < Len(Medium) /\ s.data <= Len(Medium) /\ StreamOf(archive, b, s).k = "str"
  BY <1>1, <1>3 DEF Chained
<1>6. StreamOf(archive, b, s) = AsStream(Medium[s.head + 1])
  BY <1>1 DEF StreamOf, CellAt, Medium
<1>7. Medium[s.head + 1] \in Cells
  <2>1. Medium \in Seq(Cells) /\ Len(Medium) \in Nat
    BY MediumIs DEF TapeType
  <2> QED BY <1>4, <1>5, <2>1, ElementOfSeq
<1>8. StreamOf(archive, b, s) \in StreamHeaders
  BY <1>5, <1>6, <1>7, HeaderIs
<1>9. StreamOf(archive, b, s).len \in Nat
  BY <1>8 DEF StreamHeaders
<1> QED BY <1>3, <1>4, <1>5, <1>6, <1>8, <1>9 DEF Chained

-----------------------------------------------------------------------------
(* Reading where the medium holds what is asked for. *)

LEMMA AheadAt ==
  ASSUME TapeType, Probed, NEW i \in 1..(Len(Medium) - Position)
  PROVE  Ahead[i] = Medium[Position + i]
<1>1. /\ Medium \in Seq(Cells) /\ Len(Medium) \in Nat /\ tp \in Nat /\ tp <= Len(Medium)
  BY MediumIs DEF TapeType
<1>2. CASE peek = <<>>
  <2>1. Position = tp
    BY <1>1, <1>2 DEF Position
  <2>2. Ahead = SubSeq(Medium, tp + 1, Len(Medium))
    BY <1>1, <1>2 DEF Ahead
  <2> QED BY <1>1, <2>1, <2>2
<1>3. CASE peek # <<>>
  <2>1. tp > 0 /\ peek = <<Medium[tp]>>
    BY <1>3 DEF Probed
  <2>2. Position = tp - 1
    BY <1>1, <2>1 DEF Position
  <2>3. Ahead = <<Medium[tp]>> \o SubSeq(Medium, tp + 1, Len(Medium))
    BY <2>1 DEF Ahead
  <2> DEFINE s == SubSeq(Medium, tp + 1, Len(Medium))
             c == Medium[tp]
  <2>4. s \in Seq(Cells) /\ Len(s) = Len(Medium) - tp
        /\ \A n \in 1..(Len(Medium) - tp) : s[n] = Medium[tp + n]
    BY <1>1
  <2>5. c \in Cells
    BY <1>1, <2>1, ElementOfSeq
  <2>6. (<<c>> \o s)[i] = IF i = 1 THEN c ELSE s[i - 1]
    <3>1. i \in 1..(Len(s) + 1)
      BY <1>1, <2>2, <2>4
    <3> HIDE DEF s, c
    <3> QED BY <2>4, <2>5, <3>1
  <2>7. i # 1 => s[i - 1] = Medium[tp + (i - 1)]
    BY <1>1, <2>2, <2>4
  <2> HIDE DEF s
  <2> QED BY <1>1, <2>2, <2>3, <2>6, <2>7 DEF s
<1> QED BY <1>2, <1>3

LEMMA Reads ==
  ASSUME TapeType, NEW k \in Nat, NEW j, NEW e, ReadCells(k, j, e),
         UNCHANGED <<archive, medium>>, Position + k <= Len(Medium)
  PROVE  /\ TapeType' /\ j \in 0..k /\ Position' = Position + j
         /\ (e = "ok" /\ j = k) \/ (e = "eio" /\ ~NoEio)
         /\ peek = <<>> \/ k > 0 => peek' = <<>>
<1>1. Done(k, j, e) /\ (e = "ok" => k <= Len(Ahead))
  BY ReadIs
<1>2. /\ Position \in 0..Len(Medium) /\ Len(Ahead) = Len(Medium) - Position
      /\ Len(peek) \in {0, 1} /\ Len(Medium) \in Nat /\ peek \in Seq(Cells)
  BY AheadIs DEF TapeType
<1>3. k <= Len(Ahead)
  BY <1>2
<1>4. <<j, e>> \in Outcomes(k) /\ peek' = SubSeq(peek, j + 1, Len(peek))
  BY DEF ReadCells, Take
<1>5. /\ (e = "ok" /\ j = k) \/ (e = "eio" /\ ~NoEio)
      /\ e = "eio" => Len(peek) <= j
  <2>1. CASE <<j, e>> = <<k, "ok">>
    BY <2>1
  <2>2. CASE /\ "eio" \in Faults
             /\ <<j, e>> \in {<<n, "eio">> : n \in {i \in Len(peek)..(k - 1) : i <= Len(Ahead)}}
    <3>1. PICK n \in Len(peek)..(k - 1) : <<j, e>> = <<n, "eio">>
      BY <2>2
    <3> QED BY <3>1, <2>2, <1>2 DEF NoEio
  <2> QED BY <1>3, <1>4, <2>1, <2>2 DEF Outcomes
<1>6. peek = <<>> \/ k > 0 => peek' = <<>>
  <2>1. j \in Nat
    BY <1>1 DEF Done
  <2>2. CASE peek = <<>>
    BY <1>4, <2>1, <2>2
  <2>3. CASE Len(peek) = 1 /\ j >= 1
    <3> DEFINE n == Len(peek)
    <3>1. j + 1 > n
      BY <2>1, <2>3
    <3> QED BY <1>2, <1>4, <2>1, <3>1
  <2>4. CASE Len(peek) = 0
    <3>1. peek = <<>>
      BY <1>2, <2>4, EmptySeq
    <3> QED BY <2>2, <3>1
  <2> QED BY <1>2, <1>5, <2>1, <2>2, <2>3, <2>4
<1>7. TapeType' /\ j \in 0..k /\ Position' = Position + j
  BY <1>1 DEF Done
<1> QED BY <1>5, <1>6, <1>7

LEMMA Skips ==
  ASSUME TapeType, NEW k \in Nat, NEW j, NEW e, SkipCells(k, j, e),
         UNCHANGED <<archive, medium>>, Position + k <= Len(Medium),
         peek = <<>> \/ (k > 0 /\ Phys = 1)
  PROVE  /\ TapeType' /\ j \in 0..k /\ Position' = Position + j
         /\ (e = "ok" /\ j = k) \/ (e = "eio" /\ ~NoEio)
         /\ peek' = <<>>
<1>1. CASE ReadCells(k, j, e)
  BY <1>1, Reads
<1>2. CASE ~ReadCells(k, j, e)
  <2>1. tp + k <= BufferEnd /\ j = k /\ e = "ok" /\ tp' = tp + k /\ UNCHANGED <<peek, faults>>
    BY <1>2 DEF SkipCells
  <2>2. tp \in Nat /\ Len(Medium) \in Nat
    BY MediumIs DEF TapeType
  <2>3. peek = <<>>
    <3>1. Phys = 1 => BufferEnd <= tp
      <4>1. ASSUME Phys = 1 PROVE ((tp + Phys - 1) \div Phys) * Phys = tp
        BY <2>2, <4>1
      <4> QED BY <2>2, <4>1 DEF BufferEnd
    <3>2. BufferEnd \in Int
      <4>1. Phys \in Nat \ {0}
        BY ReaderAssumption DEF TapeType, Phys
      <4>2. (tp + Phys - 1) \div Phys \in Int
        BY <2>2, <4>1
      <4>3. ((tp + Phys - 1) \div Phys) * Phys \in Int
        BY <4>1, <4>2
      <4> QED BY <2>2, <4>3 DEF BufferEnd
    <3> QED BY <2>1, <2>2, <3>1, <3>2
  <2>4. Done(k, j, e)
    BY SkipIs
  <2> QED BY <2>1, <2>3, <2>4 DEF Done
<1> QED BY <1>1, <1>2

-----------------------------------------------------------------------------
(* The way along the streams of a block. *)

LEMMA ModIs ==
  ASSUME NEW d \in Nat \ {0}, NEW q \in Int, NEW m \in 0..(d - 1)
  PROVE  ((d * q) + m) % d = m
<1> DEFINE n == (d * q) + m
<1>1. d * q \in Int
  OBVIOUS
<1>2. n \in Int
  BY <1>1
<1>3. n = (d * (n \div d)) + (n % d) /\ n \div d \in Int /\ n % d \in 0..(d - 1)
  BY <1>2
<1>4. PICK p \in Int, r \in 0..(d - 1) : n = (d * p) + r /\ n % d = r
  BY <1>3
<1>5. (d * q) + m = (d * p) + r
  BY <1>4
<1>6. d * (q - p) = (d * q) - (d * p) /\ d * p \in Int
  OBVIOUS
<1>7. d * (q - p) = r - m
  BY <1>1, <1>5, <1>6
<1>8. q - p = 0
  <2>1. q - p >= 1 => d * (q - p) >= d
    OBVIOUS
  <2>2. q - p <= -1 => d * (q - p) <= -d
    OBVIOUS
  <2>3. r - m < d /\ r - m > -d
    OBVIOUS
  <2> QED BY <1>7, <2>1, <2>2, <2>3
<1>9. r = m
  <2>1. d * 0 = 0
    OBVIOUS
  <2> QED BY <1>7, <1>8, <2>1
<1> QED BY <1>4, <1>9

(* The gap in front of a stream header, computed from the place in the FLB. *)
LEMMA GapSame ==
  ASSUME NEW x \in Int, NEW r \in Nat, Whole(x - r)
  PROVE  (StreamAlign - (r % StreamAlign)) % StreamAlign = (-x) % StreamAlign
<1> DEFINE d == StreamAlign
<1>0. d \in Nat \ {0} /\ W \in Nat \ {0} /\ W % d = 0
  BY ReaderAssumption
<1>1. PICK q \in Int : x - r = W * q
  BY WholeIs
<1>2. PICK w \in Int : W = d * w
  <2>1. W = (d * (W \div d)) + (W % d) /\ W \div d \in Int
    BY <1>0
  <2>2. W = d * (W \div d)
    <3>1. d * (W \div d) \in Int
      BY <2>1, <1>0
    <3> HIDE DEF d
    <3> QED BY <1>0, <2>1, <3>1
  <2> QED BY <2>1, <2>2
<1>3. PICK p \in Int, m \in 0..(d - 1) : r = (d * p) + m /\ r % d = m
  <2>1. r = (d * (r \div d)) + (r % d) /\ r \div d \in Int /\ r % d \in 0..(d - 1)
    BY <1>0
  <2> QED BY <2>1
<1> HIDE DEF d
<1>4. W * q = d * (w * q)
  BY <1>0, <1>2
<1>5. w * q \in Int
  OBVIOUS
<1> DEFINE k == (w * q) + p
<1>6. k \in Int
  BY <1>5
<1>7. x = (d * k) + m
  <2>1. d * k = (d * (w * q)) + (d * p)
    BY <1>0, <1>5
  <2>2. d * (w * q) \in Int /\ d * p \in Int
    BY <1>0, <1>5
  <2>3. x = (W * q) + r
    <3>1. W * q \in Int
      BY <1>0
    <3> QED BY <1>1, <3>1
  <2> HIDE DEF k
  <2> QED BY <1>3, <1>4, <2>1, <2>2, <2>3
<1> HIDE DEF k
<1>8. CASE m = 0
  <2>1. -x = (d * (-k)) + 0 /\ d = (d * 1) + 0
    BY <1>0, <1>6, <1>7, <1>8
  <2>2. (-x) % d = 0
    <3>1. -k \in Int /\ 0 \in 0..(d - 1)
      BY <1>0, <1>6
    <3>2. ((d * (-k)) + 0) % d = 0
      BY <1>0, <3>1, ModIs
    <3> QED BY <2>1, <3>2
  <2>3. d % d = 0
    BY <1>0, <2>1, ModIs
  <2> QED BY <1>0, <1>3, <1>8, <2>2, <2>3 DEF d
<1>9. CASE m # 0
  <2>1. d - m \in 0..(d - 1) /\ -k - 1 \in Int
    BY <1>0, <1>3, <1>6, <1>9
  <2>2. -x = (d * (-k - 1)) + (d - m)
    <3>1. d * (-k - 1) = -(d * k) - d /\ d * k \in Int
      BY <1>0, <1>6
    <3> QED BY <1>0, <1>3, <1>7, <3>1
  <2>3. (-x) % d = d - m
    <3>1. ((d * (-k - 1)) + (d - m)) % d = d - m
      BY <1>0, <2>1, ModIs
    <3> QED BY <2>2, <3>1
  <2>4. d - m = (d * 0) + (d - m)
    BY <1>0, <1>3
  <2>5. (d - m) % d = d - m
    BY <1>0, <2>1, <2>4, ModIs
  <2> QED BY <1>3, <2>3, <2>5 DEF d
<1> QED BY <1>8, <1>9

LEMMA WrapKeeps ==
  ASSUME flbsize \in {0, W}, NEW r \in Nat, r > 0, NEW x \in Int, Whole(x - r)
  PROVE  Wrap(r) \in Nat /\ Wrap(r) > 0 /\ Whole(x - Wrap(r))
<1>0. W \in Nat \ {0}
  BY ReaderAssumption
<1>1. Wrap(r) \in Nat /\ Whole(r - Wrap(r))
  BY WrapIs
<1>2. Wrap(r) > 0
  <2>1. CASE flbsize > 0 /\ r > flbsize
    <3>1. (r - 1) % W \in 0..(W - 1) /\ flbsize = W
      BY <1>0, <2>1
    <3>2. Wrap(r) = ((r - 1) % W) + 1
      BY <2>1, <3>1 DEF Wrap
    <3> QED BY <3>1, <3>2, <1>0
  <2> QED BY <2>1 DEF Wrap
<1>3. Whole((x - r) + (r - Wrap(r)))
  <2>1. x - r \in Int /\ r - Wrap(r) \in Int
    BY <1>1
  <2> QED BY <1>1, <2>1, WholeSum
<1>4. (x - r) + (r - Wrap(r)) = x - Wrap(r)
  BY <1>1
<1> QED BY <1>1, <1>2, <1>3, <1>4

(* The header stays read while the walk reads on. *)
LEMMA HeadedOn ==
  ASSUME Types, NEW b, NEW j \in Nat, Headed(b),
         UNCHANGED <<archive, medium, flbsize, dblk>>, Position' = Position + j,
         flbread' = flbread + j \/ flbread' = Wrap(flbread + j)
  PROVE  Headed(b)'
<1>0. Position \in Int /\ flbread \in Nat /\ flbsize \in {0, W}
  BY AheadIs DEF Types, HeaderType
<1>1. b \in Here' /\ b.at < Len(Medium') /\ dblk' = HeaderOf(archive', b) /\ flbsize' = W
  BY LayoutStays DEF Headed
<1>2. Whole((Position + j) - (flbread + j)) /\ flbread + j > 0
  <2>1. (Position + j) - (flbread + j) = Position - flbread
    BY <1>0
  <2> QED BY <1>0, <2>1 DEF Headed
<1>3. flbread' > 0 /\ Whole(Position' - flbread')
  BY <1>0, <1>2, WrapKeeps
<1> QED BY <1>1, <1>3 DEF Headed

(* A header followed by streams is no padding. *)
LEMMA HeaderCell ==
  ASSUME Orderly, TapeType, NEW b \in Here, b.at < Len(Medium),
         HeaderOf(archive, b).type # "none"
  PROVE  Medium[b.at + 1] # Pad /\ HeaderOf(archive, b) = Medium[b.at + 1]
<1>1. HeaderOf(archive, b) = AsBlock(Medium[b.at + 1])
  BY StopIs
<1>2. Medium[b.at + 1] # Pad
  BY <1>1 DEF AsBlock, DeadBlock
<1> QED BY <1>1, <1>2 DEF AsBlock

(* The first stream stands where the header says. *)
LEMMA StartStep ==
  ASSUME Orderly, Types, Probed, peek = <<>>, NEW b, JustHeaded(b),
         HasStreams(archive, b), StreamStart
  PROVE  \/ /\ Goto(back) /\ back \in {"streams", "catalog", "contfile"}
            /\ \E s \in b.streams : InStrand(b, s)' /\ ~s.past /\ s.cat = b.before.cat
            /\ cur' = (IF back = "streams" THEN dblk.type ELSE cur)
            /\ UNCHANGED entryDone /\ peek' = <<>>
         \/ ~NoEio /\ (dblk.type = "FILE" => Raise("eio") /\ UNCHANGED entryVars)
<1>1. /\ b \in Here /\ b.at < Len(Medium) /\ dblk = HeaderOf(archive, b) /\ Headed(b)
      /\ Position = b.at + 1
  BY DEF JustHeaded, Headed
<1>2. /\ b \in Stops /\ b.m = medium /\ b.at \in Nat /\ HeaderOf(archive, b).type # "EOTM"
      /\ HeaderOf(archive, b).type # "none" /\ HeaderOf(archive, b).k = "hdr"
  BY <1>1, StopIs DEF Types, HasStreams
<1>3. PICK s \in b.streams : /\ s.head = b.at + dblk.off /\ s.data = s.head + 1
                             /\ ~s.past /\ s.cat = b.before.cat
  BY <1>1, <1>2, LeadsOn DEF Types, Chained, First
<1>4. /\ s.head \in Nat /\ s.data \in Nat /\ s.data <= Len(Medium)
      /\ StreamOf(archive, b, s) = AsStream(Medium[s.head + 1])
      /\ StreamOf(archive, b, s) \in StreamHeaders
  BY <1>1, StrandIs DEF Types
<1>5. dblk.off \in Nat
  BY DEF Types, HeaderType, Headers
<1>6. dblk.off # 0
  <2> SUFFICES ASSUME dblk.off = 0 PROVE FALSE
    OBVIOUS
  <2>1. StreamOf(archive, b, s) = AsStream(Medium[b.at + 1])
    BY <1>2, <1>3, <1>4
  <2>2. StreamOf(archive, b, s) = HeaderOf(archive, b)
    BY <1>1, <1>2, <2>1, HeaderCell DEF Types, AsStream
  <2> QED BY <1>2, <1>4, <2>2 DEF StreamHeaders
<1>7. Position + dblk.off = s.data /\ Position \in Nat
  BY <1>1, <1>2, <1>3, <1>5
<1>8. Ahead[dblk.off] = Medium[s.head + 1]
  <2>1. dblk.off \in 1..(Len(Medium) - Position) /\ Position + dblk.off = s.head + 1
    BY <1>3, <1>4, <1>5, <1>6, <1>7, AheadIs DEF Types
  <2> QED BY <2>1, AheadAt DEF Types
<1>9. /\ UNCHANGED <<archive, medium, flbsize, dblk, dataVars, ctxVars, flags>>
      /\ pc = "start"
  BY DEF StreamStart
<1>10. back \in {"streams", "catalog", "contfile"}
  BY <1>9 DEF Types, Returns
<1>11. PICK j \in 0..dblk.off, e \in Ends :
          /\ ReadCells(dblk.off, j, e)
          /\ flbread' = flbread + j
          /\ LET c      == IF e # "ok" THEN NoStream
                           ELSE IF dblk.off = 0 THEN dblk ELSE AsStream(Ahead[dblk.off])
                 atBlk  == e = "ok" /\ dblk.off > 0 /\ c.k = "hdr" /\ c.type \in Known
                 ok     == e = "ok" /\ (c.k = "str" \/ atBlk)
             IN  /\ lastStream' = atBlk
                 /\ strm' = CASE atBlk -> EndStream [] ok /\ ~atBlk -> c [] OTHER -> strm
                 /\ did' = IF e = "ok" THEN 0 ELSE did
                 /\ IF ok
                    THEN /\ Goto(back)
                         /\ cur' = IF back = "streams" THEN dblk.type ELSE cur
                         /\ UNCHANGED entryDone
                    ELSE IF dblk.type \in {"VOLB", "DIRB"}
                         THEN cur' = dblk.type /\ entryDone' = TRUE /\ AlignThen("yield")
                         ELSE /\ Raise(IF e = "ok" THEN "unexpected" ELSE Missing(e))
                              /\ UNCHANGED entryVars
  BY DEF StreamStart
<1>12. /\ Position' = Position + j /\ j \in Nat
       /\ (e = "ok" /\ j = dblk.off) \/ (e = "eio" /\ ~NoEio)
       /\ peek' = <<>>
  BY <1>4, <1>5, <1>7, <1>9, <1>11, Reads DEF Types
<1>13. CASE e = "eio"
  <2>1. dblk.type = "FILE" => Raise(Missing(e)) /\ UNCHANGED entryVars
    BY <1>11, <1>13
  <2> QED BY <1>12, <1>13, <2>1 DEF Missing
<1>14. CASE e = "ok"
  <2>1. AsStream(Ahead[dblk.off]) = StreamOf(archive, b, s)
    BY <1>4, <1>8
  <2>2. StreamOf(archive, b, s).k = "str" /\ StreamOf(archive, b, s).len \in Nat
    BY <1>4 DEF StreamHeaders
  <2>3. /\ ~lastStream' /\ strm' = StreamOf(archive, b, s) /\ did' = 0 /\ Goto(back)
        /\ cur' = (IF back = "streams" THEN dblk.type ELSE cur)
        /\ UNCHANGED entryDone
    BY <1>6, <1>11, <1>14, <2>1, <2>2
  <2>4. Headed(b)'
    BY <1>1, <1>9, <1>11, <1>12, HeadedOn
  <2>5. InStrand(b, s)'
    <3>1. /\ HasStreams(archive, b)' = HasStreams(archive, b)
          /\ StreamOf(archive, b, s)' = StreamOf(archive, b, s)
      BY <1>9 DEF StreamOf, HasStreams, Yielding, HeaderOf, CellAt
    <3>2. Position' = s.data + did' /\ did' = 0 /\ did' <= strm'.len
      BY <1>3, <1>7, <1>12, <1>14, <2>2, <2>3
    <3>3. pc' = back /\ pc' # "header" /\ ~lastStream' /\ strm' = StreamOf(archive, b, s)'
      BY <1>10, <2>3, <3>1 DEF Goto
    <3> QED BY <2>4, <3>1, <3>2, <3>3 DEF InStrand
  <2> QED BY <1>3, <1>10, <1>12, <2>3, <2>5
<1> QED BY <1>12, <1>13, <1>14

(* What follows a stream, or fills up its FLB, is on the medium. *)
LEMMA BehindIs ==
  ASSUME Orderly, TapeType, NEW b \in Here, b.at < Len(Medium), HasStreams(archive, b),
         NEW s \in b.streams,
         StreamOf(archive, b, s).type = "SPAD" \/ ~Final(archive, b, s)
  PROVE  /\ BehindOf(archive, b, s) \in Nat /\ BehindOf(archive, b, s) <= Len(Medium)
         /\ BehindOf(archive, b, s) = s.data + StreamOf(archive, b, s).len
<1> DEFINE e == BehindOf(archive, b, s)
<1>1. e \in Nat /\ e = s.data + StreamOf(archive, b, s).len
  BY StrandIs DEF BehindOf
<1>2. CASE StreamOf(archive, b, s).type = "SPAD"
  <2>1. Up(e) = b.end
    BY <1>2, StrandIs DEF Closing
  <2>2. b.end <= Len(Medium) /\ b.end \in Nat /\ Len(Medium) \in Nat
    BY LeadsOn, StopIs, MediumIs DEF HasStreams, TapeType
  <2>3. e <= Up(e)
    BY <1>1, UpIs
  <2> HIDE DEF e
  <2> QED BY <1>1, <2>1, <2>2, <2>3 DEF e
<1>3. CASE ~Final(archive, b, s)
  <2>1. PICK t \in b.streams : NextTo(archive, b, s, t)
    BY <1>3, StrandIs
  <2>2. t.data <= Len(Medium) /\ Len(Medium) \in Nat
    BY StrandIs, MediumIs DEF TapeType
  <2>3. t.data = e + ((-e) % StreamAlign) + 1 /\ (-e) % StreamAlign \in Nat
    <3>1. StreamAlign \in Nat \ {0} /\ -e \in Int
      BY <1>1, ReaderAssumption
    <3> QED BY <2>1, <3>1 DEF NextTo
  <2> HIDE DEF e
  <2> QED BY <1>1, <2>2, <2>3 DEF e
<1> QED BY <1>1, <1>2, <1>3

(* A step that reads nothing stays in the stream. *)
LEMMA StrandStays ==
  ASSUME Types, NEW b, NEW s, InStrand(b, s),
         UNCHANGED <<archive, tapeVars, flbread, dblk, strm, did>>,
         lastStream' => strm.type = "SPAD" /\ did = strm.len,
         pc' \in {"streams", "catalog", "contfile"} => did = 0,
         pc' = "extra" => did = 0 \/ strm.type = "SPAD",
         pc' = "header" => strm.type # "SPAD" /\ did = strm.len
  PROVE  InStrand(b, s)'
<1>1. UNCHANGED <<Position, Here, Medium>>
  BY LayoutStays DEF tapeVars, Position
<1>2. Headed(b)'
  BY <1>1 DEF InStrand, Headed, tapeVars
<1> QED BY <1>1, <1>2 DEF InStrand

(* The rest of the stream is passed over. *)
LEMMA RestStep ==
  ASSUME Orderly, Types, peek = <<>>, NEW b, NEW s, InStrand(b, s),
         strm.type = "SPAD" \/ ~Final(archive, b, s), StreamRest,
         strm.type = "SPAD" => back = "extra"
  PROVE  \/ /\ InStrand(b, s)' /\ peek' = <<>>
            /\ Goto(IF strm.type = "SPAD" THEN back ELSE "header")
         \/ ~NoEio /\ Raise("eio")
<1>1. /\ b \in Here /\ b.at < Len(Medium) /\ Headed(b) /\ HasStreams(archive, b)
      /\ s \in b.streams /\ strm = StreamOf(archive, b, s) /\ did <= strm.len
      /\ Position = s.data + did
      /\ lastStream => strm.type = "SPAD" /\ did = strm.len
  BY DEF InStrand, Headed
<1>2. /\ s.data \in Nat /\ strm.len \in Nat /\ did \in Nat
      /\ s.data + strm.len <= Len(Medium) /\ Len(Medium) \in Nat
  BY <1>1, StrandIs, BehindIs, MediumIs DEF Types, TapeType, HeaderType
<1> DEFINE rem == IF strm.len > did THEN strm.len - did ELSE 0
<1>3. rem \in Nat /\ rem = strm.len - did
  BY <1>1, <1>2
<1>4. UNCHANGED <<archive, medium, flbsize, dblk, strm>>
  BY DEF StreamRest
<1>5. PICK j \in 0..rem, e \in Ends :
           /\ SkipCells(rem, j, e)
           /\ did' = did + j
           /\ flbread' = (IF e = "ok" THEN Wrap(flbread + j) ELSE flbread + j)
           /\ lastStream' = (lastStream \/ (e = "ok" /\ strm.type = "SPAD"))
           /\ Proceed(e, IF strm.type = "SPAD" THEN back ELSE "header")
  BY DEF StreamRest
<1>6. /\ Position' = Position + j /\ j \in Nat /\ peek' = <<>>
      /\ (e = "ok" /\ j = rem) \/ (e = "eio" /\ ~NoEio)
  <2>1. Position + rem <= Len(Medium)
    BY <1>1, <1>2, <1>3
  <2> HIDE DEF rem
  <2> QED BY <1>3, <1>4, <1>5, <2>1, Skips DEF Types
<1>7. CASE e = "eio"
  BY <1>5, <1>6, <1>7 DEF Proceed
<1>8. CASE e = "ok"
  <2>1. Headed(b)'
    BY <1>1, <1>4, <1>5, <1>6, HeadedOn
  <2>2. did' = strm.len /\ Position' = s.data + did'
    BY <1>1, <1>2, <1>3, <1>5, <1>6, <1>8
  <2>3. Goto(IF strm.type = "SPAD" THEN back ELSE "header")
    BY <1>5, <1>8 DEF Proceed
  <2>4. pc' = IF strm.type = "SPAD" THEN "extra" ELSE "header"
    BY <2>3 DEF Goto
  <2>5. lastStream' => strm.type = "SPAD"
    BY <1>1, <1>5
  <2>6. HasStreams(archive, b)' /\ strm' = StreamOf(archive, b, s)'
    BY <1>1, <1>4 DEF HasStreams, Yielding, HeaderOf, CellAt, StreamOf
  <2> QED BY <1>1, <1>2, <1>4, <1>6, <2>1, <2>2, <2>3, <2>4, <2>5, <2>6 DEF InStrand
<1> QED BY <1>6, <1>7, <1>8

(* The next stream header is found. *)
LEMMA HeaderStep ==
  ASSUME Orderly, Types, Probed, peek = <<>>, NEW b, NEW s, InStrand(b, s),
         ~Final(archive, b, s), StreamHeader
  PROVE  \/ /\ \E t \in b.streams : NextTo(archive, b, s, t) /\ InStrand(b, t)'
            /\ Goto(back) /\ peek' = <<>>
         \/ ~NoEio /\ Raise("eio")
<1>1. /\ b \in Here /\ b.at < Len(Medium) /\ Headed(b) /\ HasStreams(archive, b)
      /\ s \in b.streams /\ strm = StreamOf(archive, b, s) /\ b.m = medium
      /\ flbread \in Nat /\ Whole(Position - flbread)
      /\ Position \in Nat /\ Len(Medium) \in Nat
  BY StopIs, AheadIs DEF InStrand, Headed, Types, HeaderType
<1>2. pc = "header" /\ UNCHANGED <<archive, medium, flbsize, dblk, lastStream>>
  BY DEF StreamHeader
<1>3. Position = BehindOf(archive, b, s) /\ ~lastStream
  BY <1>1, <1>2 DEF InStrand, BehindOf
<1>4. PICK t \in b.streams : NextTo(archive, b, s, t)
  BY <1>1, StrandIs DEF Types
<1> DEFINE gap == (StreamAlign - (flbread % StreamAlign)) % StreamAlign
<1>5. gap \in Nat /\ gap = (-Position) % StreamAlign
  BY <1>1, GapIs, GapSame
<1> HIDE DEF gap
<1>6. /\ t.data = Position + gap + 1 /\ t.data <= Len(Medium)
      /\ StreamOf(archive, b, t) = AsStream(Medium[t.head + 1])
      /\ StreamOf(archive, b, t) \in StreamHeaders
  BY <1>1, <1>3, <1>4, <1>5, StrandIs DEF NextTo, Types
<1>7. /\ Ahead[1] = Medium[Position + 1]
      /\ Ahead[gap + 1] = Medium[Position + gap + 1]
  <2>1. 1 \in 1..(Len(Medium) - Position) /\ gap + 1 \in 1..(Len(Medium) - Position)
    BY <1>1, <1>5, <1>6
  <2>2. Position + (gap + 1) = Position + gap + 1
    BY <1>1, <1>5
  <2> QED BY <2>1, <2>2, AheadAt DEF Types
<1>8. AsStream(Ahead[HeaderAt(gap)]) = StreamOf(archive, b, t)
  <2>1. t.head = Position + gap /\ t.head + 1 = Position + gap + 1
    BY <1>1, <1>3, <1>4, <1>5 DEF NextTo
  <2>2. AsStream(Ahead[gap + 1]) = StreamOf(archive, b, t)
    BY <1>6, <1>7, <2>1
  <2>3. AsStream(Ahead[gap + 1]).k = "str"
    BY <1>6, <2>2 DEF StreamHeaders
  <2> QED BY <2>2, <2>3 DEF HeaderAt
<1>9. PICK j \in 0..(gap + 1), e \in Ends :
           /\ ReadCells(gap + 1, j, e)
           /\ flbread' = flbread + j
           /\ LET c == IF e = "ok" THEN AsStream(Ahead[HeaderAt(gap)]) ELSE DeadBlock
              IN  IF c.k = "str"
                  THEN strm' = c /\ did' = 0 /\ Goto(back)
                  ELSE /\ Raise(IF e = "ok" THEN "unexpected" ELSE Missing(e))
                       /\ UNCHANGED <<strm, did>>
  BY DEF StreamHeader, gap
<1>10. /\ Position' = Position + j /\ j \in Nat /\ peek' = <<>>
       /\ (e = "ok" /\ j = gap + 1) \/ (e = "eio" /\ ~NoEio)
  <2>1. gap + 1 \in Nat /\ Position + (gap + 1) <= Len(Medium)
    BY <1>1, <1>5, <1>6
  <2> QED BY <1>2, <1>9, <2>1, Reads DEF Types
<1>11. CASE e = "eio"
  BY <1>9, <1>10, <1>11 DEF DeadBlock, Missing
<1>12. CASE e = "ok"
  <2>1. StreamOf(archive, b, t).k = "str" /\ StreamOf(archive, b, t).len \in Nat
    BY <1>6 DEF StreamHeaders
  <2>2. strm' = StreamOf(archive, b, t) /\ did' = 0 /\ Goto(back)
    BY <1>8, <1>9, <1>12, <2>1
  <2>3. Headed(b)'
    BY <1>1, <1>2, <1>9, <1>10, HeadedOn
  <2>4. pc' \in {"streams", "catalog", "contfile", "extra"}
    BY <1>2, <2>2 DEF Goto, Types, Returns
  <2>5. Position' = t.data + did'
    BY <1>1, <1>5, <1>6, <1>10, <1>12, <2>2
  <2>6. HasStreams(archive, b)' /\ strm' = StreamOf(archive, b, t)'
    BY <1>1, <1>2, <2>2 DEF HasStreams, Yielding, HeaderOf, CellAt, StreamOf
  <2>7. InStrand(b, t)'
    BY <1>2, <1>3, <2>1, <2>2, <2>3, <2>4, <2>5, <2>6 DEF InStrand
  <2> QED BY <1>4, <1>10, <2>2, <2>7
<1> QED BY <1>10, <1>11, <1>12

(* A stream is captured whole. *)
LEMMA CaptureStep ==
  ASSUME Orderly, Types, peek = <<>>, NEW b, NEW s, InStrand(b, s),
         ~Final(archive, b, s), Capture
  PROVE  \/ /\ InStrand(b, s)' /\ peek' = <<>>
            /\ pc' = (IF pc = "extra" THEN "trail" ELSE "rest")
            /\ catFDD' = IF pc = "catalog" /\ strm.type = "TFDD" THEN strm.id ELSE catFDD
            /\ UNCHANGED <<mode, back, want, outcome>>
         \/ ~NoEio /\ Raise("eio")
<1>1. /\ b \in Here /\ b.at < Len(Medium) /\ Headed(b) /\ HasStreams(archive, b)
      /\ s \in b.streams /\ strm = StreamOf(archive, b, s)
      /\ Position = s.data + did /\ did = 0
      /\ lastStream => strm.type = "SPAD"
  BY DEF InStrand, Headed, Capture
<1>2. /\ s.data \in Nat /\ strm.len \in Nat /\ did \in Nat
      /\ s.data + strm.len <= Len(Medium)
  BY <1>1, StrandIs, BehindIs DEF Types, TapeType, HeaderType
<1>3. UNCHANGED <<archive, medium, flbsize, dblk, strm, lastStream>>
  BY DEF Capture
<1>4. PICK j \in 0..strm.len, e \in Ends :
       /\ ReadCells(strm.len, j, e)
       /\ flbread' = Wrap(flbread + j) /\ did' = did + j
       /\ IF e = "ok"
          THEN /\ pc' = IF pc = "extra" THEN "trail" ELSE "rest"
               /\ catFDD' = IF pc = "catalog" /\ strm.type = "TFDD" THEN strm.id
                                                                    ELSE catFDD
               /\ UNCHANGED <<mode, back, want, outcome>>
          ELSE Raise(e) /\ UNCHANGED catFDD
  BY DEF Capture
<1>5. /\ Position' = Position + j /\ j \in Nat /\ peek' = <<>>
      /\ (e = "ok" /\ j = strm.len) \/ (e = "eio" /\ ~NoEio)
  BY <1>1, <1>2, <1>3, <1>4, Reads DEF Types
<1>6. CASE e = "eio"
  BY <1>4, <1>5, <1>6
<1>7. CASE e = "ok"
  <2>1. Headed(b)'
    BY <1>1, <1>3, <1>4, <1>5, HeadedOn
  <2>2. did' = strm.len /\ Position' = s.data + did'
    BY <1>1, <1>2, <1>4, <1>5, <1>7
  <2>3. HasStreams(archive, b)' /\ strm' = StreamOf(archive, b, s)'
    BY <1>1, <1>3 DEF HasStreams, Yielding, HeaderOf, CellAt, StreamOf
  <2>4. pc' \in {"trail", "rest"}
    BY <1>4, <1>7
  <2>5. InStrand(b, s)'
    BY <1>1, <1>2, <1>3, <2>1, <2>2, <2>3, <2>4 DEF InStrand
  <2> QED BY <1>4, <1>5, <1>7, <2>5
<1> QED BY <1>5, <1>6, <1>7

LEMMA CatalogEndStep ==
  ASSUME Orderly, Types, peek = <<>>, NEW b, NEW s, InStrand(b, s), CatalogEnd
  PROVE  \/ /\ Headed(b)' /\ Position' = BehindOf(archive, b, s) /\ peek' = <<>>
            /\ AlignThen("yield")
         \/ ~NoEio /\ Raise("eio")
<1>1. /\ b \in Here /\ b.at < Len(Medium) /\ Headed(b) /\ HasStreams(archive, b)
      /\ s \in b.streams /\ strm = StreamOf(archive, b, s) /\ strm.type = "SPAD"
      /\ Position = s.data + did /\ did = 0
  BY DEF InStrand, Headed, CatalogEnd
<1>2. /\ s.data \in Nat /\ strm.len \in Nat
      /\ BehindOf(archive, b, s) = s.data + strm.len /\ s.data + strm.len <= Len(Medium)
  BY <1>1, StrandIs, BehindIs DEF Types, TapeType, HeaderType
<1>3. UNCHANGED <<archive, medium, flbsize, dblk>>
  BY DEF CatalogEnd
<1>4. PICK j \in 0..strm.len, e \in Ends :
           /\ SkipCells(strm.len, j, e)
           /\ flbread' = (IF e = "ok" THEN Wrap(flbread + j) ELSE flbread + j)
           /\ IF e = "ok" THEN AlignThen("yield") ELSE Raise(e)
  BY DEF CatalogEnd
<1>5. /\ Position' = Position + j /\ j \in Nat /\ peek' = <<>>
      /\ (e = "ok" /\ j = strm.len) \/ (e = "eio" /\ ~NoEio)
  BY <1>1, <1>2, <1>3, <1>4, Skips DEF Types
<1>6. Headed(b)'
  BY <1>1, <1>3, <1>4, <1>5, HeadedOn
<1> QED BY <1>1, <1>2, <1>4, <1>5, <1>6

(* The alignment passes over the rest of the FLB. *)
LEMMA AlignTo ==
  ASSUME Types, Align, flbsize = W, flbread > 0, Whole(Position - flbread), peek = <<>>
  PROVE  \/ /\ Position' = Up(Position) /\ flbread' = 0 /\ peek' = <<>> /\ Goto(back)
            /\ Whole(Position')
         \/ ~NoEio /\ Raise("eio")
<1>0. W \in Nat \ {0, 1}
  BY ReaderAssumption
<1>1. flbread \in Nat /\ Position \in 0..Len(Medium) /\ Len(Medium) \in Nat
      /\ Whole(Len(Medium))
  BY AheadIs, MediumIs DEF Types, HeaderType, TapeType
<1> DEFINE x == Wrap(flbread)
           rem == IF flbsize > 0 /\ x < flbsize THEN flbsize - x ELSE 0
<1>2. x \in Nat /\ x > 0 /\ x <= W /\ Whole(Position - x)
  <2>1. flbsize \in {0, W} /\ flbsize > 0 /\ Position \in Int
    BY <1>0, <1>1
  <2>2. x \in Nat /\ x <= W
    BY <1>1, <2>1, WrapIs
  <2>3. x > 0 /\ Whole(Position - x)
    BY <1>1, <2>1, WrapKeeps
  <2> QED BY <2>2, <2>3
<1>3. rem = W - x /\ rem \in Nat
  BY <1>0, <1>2
<1> HIDE DEF x, rem
<1>4. Whole(Position + rem)
  <2>1. Whole((Position - x) + W)
    BY <1>0, <1>1, <1>2, WholeBase, WholeSum
  <2>2. (Position - x) + W = Position + (W - x)
    BY <1>0, <1>1, <1>2
  <2> QED BY <1>3, <2>1, <2>2
<1>5. Up(Position) = Position + rem
  <2>1. Up(Position) \in Int /\ Position <= Up(Position) /\ Up(Position) < Position + W
        /\ Whole(Up(Position)) /\ Up(Position) <= Position + rem
    <3>1. Position \in Int /\ Position + rem \in Int /\ Position <= Position + rem
      BY <1>1, <1>3
    <3> QED BY <1>4, <3>1, UpIs
  <2>2. Whole((Position + rem) - Up(Position))
    <3>1. Position + rem \in Int
      BY <1>1, <1>3
    <3> QED BY <1>4, <2>1, <3>1, WholeSum
  <2>3. PICK q \in Int : (Position + rem) - Up(Position) = W * q
    BY <1>1, <1>3, <2>1, <2>2, WholeIs
  <2>4. (Position + rem) - Up(Position) < W /\ (Position + rem) - Up(Position) >= 0
    BY <1>0, <1>1, <1>2, <1>3, <2>1
  <2>5. q = 0
    <3>1. q >= 1 => W * q >= W
      BY <1>0
    <3>2. q <= -1 => W * q <= -W
      BY <1>0
    <3> QED BY <1>0, <2>3, <2>4, <3>1, <3>2
  <2>6. W * 0 = 0
    BY <1>0
  <2> QED BY <1>1, <1>3, <2>1, <2>3, <2>5, <2>6
<1>6. Position + rem <= Len(Medium)
  BY <1>1, <1>5, UpIs
<1>7. UNCHANGED <<archive, medium>>
  BY DEF Align
<1>8. PICK j \in 0..rem, e \in Ends :
           /\ ReadCells(rem, j, e)
           /\ flbread' = (IF e = "ok" THEN 0 ELSE x + j)
           /\ Proceed(e, back)
  BY DEF Align, x, rem
<1>9. /\ Position' = Position + j /\ peek' = <<>>
      /\ (e = "ok" /\ j = rem) \/ (e = "eio" /\ ~NoEio)
  BY <1>3, <1>6, <1>7, <1>8, Reads DEF Types
<1>11. CASE e = "eio"
  BY <1>8, <1>9, <1>11 DEF Proceed
<1>12. CASE e = "ok"
  <2>1. Position' = Up(Position) /\ Whole(Position')
    BY <1>4, <1>5, <1>9, <1>12
  <2> QED BY <1>8, <1>9, <1>12, <2>1 DEF Proceed
<1> QED BY <1>9, <1>11, <1>12

-----------------------------------------------------------------------------
(* The data of a file. *)

LEMMA DataIs ==
  ASSUME Orderly, Types, NEW b, NEW s, InData(b, s)
  PROVE  /\ b \in Here /\ b.at < Len(Medium) /\ HeaderOf(archive, b).type = "FILE"
         /\ HasStreams(archive, b) /\ s \in b.streams
         /\ Content(archive, b, s) /\ Holding(archive, b, s)
         /\ BeginOf(archive, b, s) \in Nat /\ s.data \in Nat
         /\ strm.len \in Nat /\ did \in Nat /\ dataRem = strm.len - did
         /\ b.after.left \in Nat /\ b.after.left <= dataRem
         /\ Position = BeginOf(archive, b, s) + did
         /\ ReachOf(archive, b, s) = Position + (dataRem - b.after.left)
         /\ ReachOf(archive, b, s) <= Len(Medium)
<1>1. /\ b \in Here /\ b.at < Len(Medium) /\ s \in b.streams
      /\ strm = StreamOf(archive, b, s) /\ Content(archive, b, s)
      /\ Position = BeginOf(archive, b, s) + did
      /\ did <= strm.len - b.after.left /\ dataRem = strm.len - did
  BY DEF InData
<1>2. HeaderOf(archive, b).type = "FILE" /\ HasStreams(archive, b)
  BY <1>1 DEF Content, HasStreams
<1>3. Holding(archive, b, s) /\ s.data \in Nat /\ strm.len \in Nat
  BY <1>1, <1>2, StrandIs DEF Types
<1>4. BeginOf(archive, b, s) \in Nat
  <2>1. s.data \in Int /\ Up(s.data) \in Int /\ s.data <= Up(s.data)
    BY <1>3, UpIs
  <2>2. Up(s.data) \in Nat
    BY <1>3, <2>1
  <2> QED BY <1>3, <2>2 DEF BeginOf
<1>5. b.after.left \in Nat /\ Extent(archive, b.m) = Len(Medium)
  BY <1>1, StopIs DEF Types, Contexts
<1>6. did \in Nat /\ dataRem \in Nat
  BY DEF Types, HeaderType
<1>7. ReachOf(archive, b, s) = BeginOf(archive, b, s) + (strm.len - b.after.left)
  BY <1>1 DEF ReachOf
<1>8. ReachOf(archive, b, s) <= Len(Medium)
  BY <1>3, <1>5 DEF Holding
<1> QED BY <1>1, <1>2, <1>3, <1>4, <1>5, <1>6, <1>7, <1>8

(* Files of the same identity have the same content. *)
LEMMA SameContent ==
  ASSUME Orderly, NEW a \in Walks, NEW m \in 1..Len(a.items), NEW n \in 1..Len(a.items),
         a.items[m].item.kind = "FILE", a.items[n].item.kind = "FILE",
         a.items[m].item.id = a.items[n].item.id
  PROVE  /\ a.items[m].content = a.items[n].content
         /\ a.items[n].content \in Seq(Cells) /\ Len(a.items[n].content) \in Nat
<1>1. /\ \A i \in 1..Len(a.items) : a.items[i].content \in Seq(Cells)
      /\ \A i, j \in 1..Len(a.items) :
           (/\ a.items[i].item.kind = "FILE" /\ a.items[j].item.kind = "FILE"
            /\ a.items[i].item.id = a.items[j].item.id)
             => a.items[i].content = a.items[j].content
  BY DEF Orderly, Recorded
<1>2. a.items[m].content = a.items[n].content
  BY <1>1
<1>3. a.items[n].content \in Seq(Cells)
  BY <1>1
<1> QED BY <1>2, <1>3

(* The content of the file the caller stands at. *)
LEMMA FileIs ==
  ASSUME Orderly, Types, AtFile, InOrder
  PROVE  /\ FileContent = archive.items[Len(yields)].content
         /\ FileContent \in Seq(Cells) /\ Len(FileContent) \in Nat
<1> DEFINE n == Len(yields)
<1>1. n \in Nat \ {0}
  BY EmptySeq DEF AtFile, Types, CallType
<1>2. n <= Len(archive.items) /\ yields[n] = archive.items[n].item
  BY <1>1 DEF InOrder
<1>3. Len(archive.items) \in Nat /\ archive \in Walks
  BY LayoutIs DEF Recorded, Types, TapeType
<1>4. n \in 1..Len(archive.items)
  BY <1>1, <1>2, <1>3
<1> DEFINE m == CHOOSE i \in 1..Len(archive.items) :
                 /\ archive.items[i].item.kind = "FILE"
                 /\ archive.items[i].item.id = yields[n].id
<1>5. FileContent = archive.items[m].content
  BY DEF FileContent
<1>6. archive.items[n].item.kind = "FILE" /\ archive.items[n].item.id = yields[n].id
  BY <1>2 DEF AtFile
<1>7. /\ m \in 1..Len(archive.items) /\ archive.items[m].item.kind = "FILE"
      /\ archive.items[m].item.id = yields[n].id
  BY <1>4, <1>6
<1> HIDE DEF m, n
<1>8. /\ archive.items[m].content = archive.items[n].content
      /\ archive.items[n].content \in Seq(Cells) /\ Len(archive.items[n].content) \in Nat
  BY <1>3, <1>4, <1>6, <1>7, SameContent
<1> QED BY <1>5, <1>8 DEF n

(* The content of the file the caller stands at is that of its block. *)
LEMMA FileContentIs ==
  ASSUME Orderly, Types, AtFile, InOrder, NEW b, Len(yields) = b.after.seen
  PROVE  /\ FileContent = ContentOf(archive, b) /\ FileContent \in Seq(Cells)
         /\ Len(FileContent) \in Nat
BY FileIs DEF ContentOf

(* What is ahead is content, as far as it is on this medium. *)
LEMMA DataAhead ==
  ASSUME Orderly, Types, NEW b, NEW s, InData(b, s),
         NEW i \in 1..(dataRem - b.after.left),
         ContentOf(archive, b) \in Seq(Cells)
  PROVE  /\ Position + i <= Len(Medium) /\ ~IsEOTM(Medium[Position + i])
         /\ dataRem <= Len(ContentOf(archive, b))
         /\ Medium[Position + i]
              = ContentOf(archive, b)[Len(ContentOf(archive, b)) - dataRem + i]
<1> DEFINE c == ContentOf(archive, b)
           g == BeginOf(archive, b, s)
           r == ReachOf(archive, b, s)
           p == Position + i - 1
<1>1. /\ b \in Here /\ Holding(archive, b, s) /\ g \in Nat /\ strm.len \in Nat
      /\ did \in Nat /\ dataRem = strm.len - did
      /\ b.after.left \in Nat /\ b.after.left <= dataRem
      /\ Position = g + did /\ r = Position + (dataRem - b.after.left)
      /\ r <= Len(Medium) /\ strm = StreamOf(archive, b, s)
  BY DataIs DEF InData
<1>2. b.m = medium
  BY <1>1, StopIs DEF Types
<1>3. /\ strm.len <= Len(c)
      /\ \A n \in g..(r - 1) :
           /\ CellAt(archive, b.m, n) = c[Len(c) - strm.len + (n - g) + 1]
           /\ ~IsEOTM(CellAt(archive, b.m, n))
  BY <1>1 DEF Holding
<1> HIDE DEF c, g, r
<1>0. Position \in Nat /\ Len(Medium) \in Nat /\ dataRem \in Nat
  BY AheadIs DEF Types, HeaderType
<1>4. p \in g..(r - 1) /\ p + 1 = Position + i /\ p - g = did + i - 1
  <2> DEFINE n == dataRem - b.after.left
  <2>1. n \in Nat /\ i \in Nat \ {0} /\ i <= n
    <3>1. dataRem \in Nat /\ b.after.left \in Nat /\ b.after.left <= dataRem
      BY <1>0, <1>1
    <3>2. n \in Nat
      BY <3>1
    <3>3. i \in 1..n
      OBVIOUS
    <3> HIDE DEF n
    <3> QED BY <3>2, <3>3
  <2>2. g \in Nat /\ did \in Nat /\ Position = g + did /\ r = Position + n
    BY <1>1
  <2> HIDE DEF n
  <2> QED BY <2>1, <2>2
<1>5. CellAt(archive, b.m, p) = Medium[Position + i]
  BY <1>2, <1>4 DEF CellAt, Medium
<1>6. Len(c) \in Int => Len(c) - strm.len + (p - g) + 1 = Len(c) - dataRem + i
  <2>1. dataRem = strm.len - did /\ strm.len \in Int /\ did \in Int /\ i \in Int
    BY <1>0, <1>1
  <2>2. p - g = did + i - 1
    BY <1>4
  <2> HIDE DEF p
  <2> QED BY <2>1, <2>2
<1>7. Len(c) \in Nat
  BY DEF c
<1>8. Position + i <= Len(Medium) /\ Len(Medium) \in Nat /\ dataRem <= Len(c)
  <2>1. r \in Int /\ Position + i - 1 <= r - 1
    BY <1>0, <1>1, <1>4
  <2>2. Position + i <= Len(Medium)
    BY <1>0, <1>1, <2>1
  <2>3. dataRem <= Len(c)
    <3>1. dataRem <= strm.len /\ strm.len \in Int
      BY <1>1
    <3> QED BY <1>0, <1>3, <1>7, <3>1
  <2> QED BY <1>0, <2>2, <2>3
<1> QED BY <1>3, <1>4, <1>5, <1>6, <1>7, <1>8 DEF c

(* Where a medium ends inside a file there is an EOTM. *)
LEMMA CutHere ==
  ASSUME Orderly, Types, NEW b, NEW s, InData(b, s), dataRem = b.after.left, dataRem > 0
  PROVE  /\ Whole(Position) /\ Position < Len(Medium) /\ IsEOTM(Medium[Position + 1])
         /\ \E c \in Here : /\ c.at = Position /\ c.before = b.after
                            /\ HeaderOf(archive, c).type = "EOTM"
<1>1. /\ b \in Here /\ b.at < Len(Medium) /\ HeaderOf(archive, b).type = "FILE"
      /\ Holding(archive, b, s) /\ ReachOf(archive, b, s) = Position + (dataRem - b.after.left)
      /\ Position \in Nat /\ Len(Medium) \in Nat /\ dataRem \in Nat
  BY DataIs, AheadIs DEF Types, HeaderType
<1>2. ReachOf(archive, b, s) = Position
  BY <1>1
<1>3. /\ b.m = medium /\ Extent(archive, b.m) = Len(Medium)
      /\ b.end = Position /\ b.end < Len(Medium) /\ IsEOTM(CellAt(archive, b.m, b.end))
  BY <1>1, <1>2, StopIs DEF Types, Holding
<1>4. IsEOTM(Medium[Position + 1])
  BY <1>3 DEF CellAt, Medium
<1>5. Whole(b.end) /\ \E c \in Here : c.at = b.end /\ c.before = b.after
  BY <1>1, LeadsOn DEF Types
<1>6. PICK c \in Here : c.at = b.end /\ c.before = b.after
  BY <1>5
<1>7. HeaderOf(archive, c) = AsBlock(Medium[Position + 1])
  BY <1>3, <1>6, StopIs DEF Types
<1>8. HeaderOf(archive, c).type = "EOTM"
  BY <1>4, <1>7 DEF AsBlock, IsEOTM, Pad
<1> QED BY <1>3, <1>4, <1>5, <1>6, <1>8

(* A chunk stops short of it. *)
LEMMA ChunkFits ==
  ASSUME Orderly, Types, NEW b, NEW s, InData(b, s), dataRem > b.after.left,
         NEW k \in Nat, k <= dataRem, k <= ToBoundary \/ b.after.left = 0
  PROVE  k <= dataRem - b.after.left
<1>1. /\ b \in Here /\ b.at < Len(Medium) /\ HeaderOf(archive, b).type = "FILE"
      /\ Holding(archive, b, s) /\ ReachOf(archive, b, s) = Position + (dataRem - b.after.left)
      /\ Position \in Nat /\ dataRem \in Nat /\ b.after.left \in Nat
      /\ flbsize = W /\ flbread \in Nat /\ Whole(Position - flbread) /\ W \in Nat \ {0}
  <2>1. Position \in Nat /\ dataRem \in Nat /\ flbread \in Nat /\ W \in Nat \ {0}
    BY AheadIs, ReaderAssumption DEF Types, HeaderType
  <2>2. flbsize = W /\ Whole(Position - flbread)
    BY DEF InData
  <2> QED BY <2>1, <2>2, DataIs
<1>2. CASE b.after.left = 0
  BY <1>1, <1>2
<1>3. CASE b.after.left > 0
  <2>1. ToBoundary = W - (flbread % W) /\ flbread % W \in Nat
    BY <1>1 DEF ToBoundary
  <2>2. b.end = Position + (dataRem - b.after.left) /\ Whole(b.end)
    BY <1>1, <1>3, LeadsOn DEF Types, Holding
  <2>3. Position < b.end /\ b.end \in Int
    BY <1>1, <2>2
  <2>4. Position + (W - (flbread % W)) <= b.end
    <3>1. Position \in Int /\ flbread \in Nat /\ Whole(Position - flbread) /\ Whole(b.end)
      BY <1>1, <2>2
    <3> QED BY <2>3, <3>1, BoundaryAhead
  <2>5. k <= W - (flbread % W)
    BY <1>3, <2>1
  <2> QED BY <1>1, <2>1, <2>2, <2>4, <2>5
<1> QED BY <1>1, <1>2, <1>3

(* The data go on behind what was delivered or skipped. *)
LEMMA DataMoves ==
  ASSUME Orderly, Types, NEW b, NEW s, InData(b, s),
         NEW j \in Nat, j > 0, j <= dataRem - b.after.left,
         UNCHANGED <<archive, medium, flbsize, dblk, strm, lastStream>>,
         Position' = Position + j, did' = did + j, dataRem' = dataRem - j,
         flbread' = flbread + j \/ flbread' = Wrap(flbread + j)
  PROVE  InData(b, s)'
<1>1. /\ b \in Here /\ b.at < Len(Medium) /\ s \in b.streams
      /\ BeginOf(archive, b, s) \in Nat /\ strm.len \in Nat /\ did \in Nat
      /\ b.after.left \in Nat /\ dataRem = strm.len - did
      /\ Position = BeginOf(archive, b, s) + did
      /\ flbsize = W /\ Whole(Position - flbread)
  BY DataIs DEF InData
<1>0. Position \in Nat /\ flbread \in Nat /\ dataRem \in Nat
  BY AheadIs DEF Types, HeaderType
<1>2. Whole(Position' - flbread') /\ flbread' > 0
  <2>1. (Position + j) - (flbread + j) = Position - flbread /\ flbread + j > 0
        /\ Position + j \in Int /\ flbread + j \in Nat
    BY <1>0
  <2>2. Whole((Position + j) - (flbread + j)) /\ flbsize \in {0, W}
    BY <1>1, <2>1
  <2> QED BY <2>1, <2>2, WrapKeeps
<1>3. did' <= strm.len - b.after.left /\ dataRem' = strm.len - did'
      /\ Position' = BeginOf(archive, b, s) + did'
  <2> DEFINE g == BeginOf(archive, b, s)
             n == strm.len
             m == b.after.left
  <2>1. g \in Nat /\ n \in Nat /\ m \in Nat /\ did \in Nat /\ dataRem = n - did
        /\ Position = g + did
    BY <1>1
  <2> HIDE DEF g, n, m
  <2>2. did + j <= n - m
    <3>1. j <= dataRem - m
      BY DEF m
    <3> QED BY <1>0, <2>1, <3>1
  <2>3. dataRem - j = n - (did + j) /\ Position + j = g + (did + j)
    BY <1>0, <2>1
  <2> QED BY <2>2, <2>3 DEF g, n, m
<1>4. b \in Here' /\ b.at < Len(Medium')
  BY <1>1, LayoutStays
<1>5. /\ dblk' = HeaderOf(archive, b)' /\ strm' = StreamOf(archive, b, s)'
      /\ Content(archive, b, s)' /\ BeginOf(archive, b, s)' = BeginOf(archive, b, s)
  BY DEF InData, HeaderOf, StreamOf, CellAt, Content, BeginOf
<1> QED BY <1>1, <1>2, <1>3, <1>4, <1>5 DEF InData

(* A step that reads nothing stays in the data. *)
LEMMA DataStays ==
  ASSUME Types, NEW b, NEW s, InData(b, s),
         UNCHANGED <<archive, medium, flbsize, dblk, strm, lastStream, did, dataRem>>,
         Position' = Position, flbread' = flbread \/ flbread' = Wrap(flbread)
  PROVE  InData(b, s)'
<1>1. /\ b \in Here /\ b.at < Len(Medium)
      /\ flbsize \in {0, W} /\ flbread \in Nat /\ Whole(Position - flbread) /\ Position \in Int
      /\ flbread > 0 \/ dataRem > 0
  BY AheadIs DEF Types, HeaderType, InData
<1>2. Whole(Position' - flbread') /\ (flbread' > 0 \/ dataRem' > 0)
  <2>1. CASE flbread > 0
    BY <1>1, <2>1, WrapKeeps
  <2>2. CASE flbread = 0
    <3>1. Wrap(0) = 0
      BY <1>1, ReaderAssumption DEF Wrap
    <3> QED BY <1>1, <2>2, <3>1
  <2> QED BY <1>1, <2>1, <2>2
<1>3. b \in Here' /\ b.at < Len(Medium')
  BY <1>1, LayoutStays
<1>4. /\ dblk' = HeaderOf(archive, b)' /\ strm' = StreamOf(archive, b, s)'
      /\ Content(archive, b, s)' /\ BeginOf(archive, b, s)' = BeginOf(archive, b, s)
  BY DEF InData, HeaderOf, StreamOf, CellAt, Content, BeginOf
<1>5. /\ UNCHANGED <<flbsize, lastStream, did, dataRem>> /\ Position' = Position
  OBVIOUS
<1>6. /\ flbsize = W /\ s \in b.streams /\ ~lastStream
      /\ Position = BeginOf(archive, b, s) + did
      /\ did <= strm.len - b.after.left /\ dataRem = strm.len - did /\ strm' = strm
  BY DEF InData
<1>7. /\ flbsize' = W /\ s \in b.streams /\ ~lastStream'
      /\ Position' = BeginOf(archive, b, s)' + did'
      /\ did' <= strm'.len - b.after.left /\ dataRem' = strm'.len - did'
  BY <1>4, <1>5, <1>6
<1>8. b \in Here' /\ b.at < Len(Medium)' /\ dblk' = HeaderOf(archive, b)'
      /\ (flbread' > 0 \/ dataRem' > 0) /\ Whole(Position' - flbread')
  BY <1>2, <1>3, <1>4
<1>9. strm' = StreamOf(archive, b, s)' /\ Content(archive, b, s)'
  BY <1>4
<1> HIDE DEF HeaderOf, StreamOf, Content
<1> QED BY <1>7, <1>8, <1>9 DEF InData

(* Behind the data of a file. *)
LEMMA DataEnds ==
  ASSUME Orderly, Types, NEW b, NEW s, InData(b, s), OfFile(b), dataRem = 0,
         UNCHANGED <<archive, tapeVars, streamVars, streamContinued, ctxVars, yields, again>>,
         flbread' = flbread \/ flbread' = Wrap(flbread),
         dataRem' = 0, entryDone', pc' = "trail"
  PROVE  Trailed'
<1>1. InData(b, s)'
  <2>1. Position' = Position
    BY DEF Position, tapeVars
  <2> QED BY <2>1, DataStays DEF tapeVars, streamVars
<1>2. /\ b.after.left = 0 /\ HeaderOf(archive, b).type = "FILE" /\ b \in Here
      /\ HasStreams(archive, b) /\ s \in b.streams /\ Holding(archive, b, s)
      /\ strm.len \in Nat /\ did \in Nat /\ did = strm.len /\ strm.type = "STAN"
      /\ Position = BeginOf(archive, b, s) + did
      /\ ReachOf(archive, b, s) = Position /\ Position \in Nat
  <2>1. /\ b \in Here /\ HeaderOf(archive, b).type = "FILE" /\ HasStreams(archive, b)
        /\ s \in b.streams /\ Content(archive, b, s) /\ Holding(archive, b, s)
        /\ strm.len \in Nat /\ did \in Nat /\ dataRem = strm.len - did
        /\ b.after.left \in Nat /\ b.after.left <= dataRem
        /\ Position = BeginOf(archive, b, s) + did
        /\ ReachOf(archive, b, s) = Position + (dataRem - b.after.left)
    BY DataIs
  <2>2. strm.type = "STAN"
    BY <2>1 DEF InData, Content
  <2>3. Position \in Nat
    BY AheadIs DEF Types
  <2>4. b.after.left = 0
    BY <2>1
  <2>5. did = strm.len
    <3> DEFINE len == strm.len
    <3>1. len \in Nat /\ did \in Nat /\ 0 = len - did
      BY <2>1
    <3> HIDE DEF len
    <3>2. did = len
      BY <3>1
    <3> QED BY <3>2 DEF len
  <2>6. ReachOf(archive, b, s) = Position
    BY <2>1, <2>3, <2>4
  <2> QED BY <2>1, <2>2, <2>3, <2>4, <2>5, <2>6
<1>3. Headed(b)'
  BY <1>1 DEF InData, Headed
<1>4. /\ dblk'.type = "FILE" /\ strm' = strm /\ did' = did /\ Position' = Position
      /\ UNCHANGED archive
  <2>1. dblk = HeaderOf(archive, b)
    BY DEF InData
  <2> QED BY <1>2, <2>1 DEF streamVars, tapeVars, Position
<1>5. Context(b.after)' /\ streamContinued' = Resuming(b)
  BY DEF OfFile, Context, ctxVars
<1>6. Ended(b)'
  BY <1>2, <1>3, <1>4, <1>5 DEF Ended
<1>7. CASE Resuming(b)
  <2>1. Up(Position) = b.end
    BY <1>2, <1>7 DEF Holding
  <2>2. Up(Position)' = b.end
    BY <1>4, <2>1 DEF Up
  <2> QED BY <1>6, <1>7, <2>2 DEF Trailed, Ended, Headed
<1>8. CASE ~Resuming(b)
  <2>1. Position = s.data + did
    BY <1>2, <1>8 DEF BeginOf
  <2>2. InStrand(b, s)'
    <3>1. strm' = StreamOf(archive, b, s)' /\ ~lastStream'
      BY <1>1 DEF InData
    <3>2. HasStreams(archive, b)'
      BY <1>2, <1>4 DEF HasStreams, Yielding, HeaderOf, CellAt
    <3> QED BY <1>2, <1>3, <1>4, <2>1, <3>1, <3>2 DEF InStrand
  <2> QED BY <1>2, <1>6, <1>8, <2>2 DEF Trailed, Past, Ended, Headed
<1> QED BY <1>7, <1>8

-----------------------------------------------------------------------------
(* The steps of the walk: each goes on in its course. *)

OnCourse == Place /\ Course /\ Probed /\ ~hitEOTM

LEMMA HeadedStays ==
  ASSUME UNCHANGED <<archive, tapeVars, flbread, dblk>>, NEW b, Headed(b)
  PROVE  Headed(b)' /\ UNCHANGED <<Position, Here, Medium>>
<1>1. UNCHANGED <<Position, Here, Medium>>
  BY LayoutStays DEF tapeVars, Position
<1> QED BY <1>1 DEF Headed, tapeVars

(* A file stays the one it is within a call. *)
LEMMA CallStays ==
  ASSUME Course, pc # "idle", UNCHANGED <<archive, mode, yields, again>>,
         entryDone' = entryDone \/ entryDone'
  PROVE  /\ mode' = "next" /\ pc' # "idle" => Discards' # {} /\ entryDone'
         /\ mode' # "walk" /\ pc' # "idle" => AtFile'
BY DEF Course, Discards, AtFile

(* No read-ahead, no read-ahead left. *)
LEMMA ProbedStays ==
  ASSUME peek' = <<>>
  PROVE  Probed'
BY DEF Probed

LEMMA NothingAhead ==
  ASSUME Probed, pc # "chunk"
  PROVE  peek = <<>>
BY DEF Probed

(* A block that has just been found by the walk. *)
LEMMA FoundIs ==
  ASSUME Orderly, OnCourse, pc = "dispatch"
  PROVE  \E b \in Here :
           /\ JustHeaded(b) /\ Context(b.before) /\ b.before.left = 0 /\ dataRem = 0
           /\ mode = "walk" /\ ~Open /\ ~streamContinued /\ peek = <<>>
           /\ ~Resuming(b) /\ b.at \in Nat
<1>1. mode = "walk"
  BY DEF OnCourse, Place, Ways, Behalf, InWalk
<1>2. PICK b \in Here : JustHeaded(b) /\ Context(b.before) /\ b.before.left = dataRem /\ Alone
  BY DEF OnCourse, Course, Found
<1>3. dataRem = 0 /\ ~Open /\ ~streamContinued
  BY <1>1, <1>2 DEF Alone
<1>4. peek = <<>>
  BY NothingAhead DEF OnCourse
<1>5. b.at \in Nat
  BY StopIs DEF OnCourse, Place, Ways, Types
<1> QED BY <1>1, <1>2, <1>3, <1>4, <1>5 DEF Resuming

LEMMA UpHeader ==
  ASSUME Orderly, TapeType, NEW b, JustHeaded(b)
  PROVE  Up(Position) = b.at + W
<1>0. W \in Nat \ {0, 1}
  BY ReaderAssumption
<1>1. b \in Here /\ Position = b.at + 1
  BY DEF JustHeaded, Headed
<1>2. b.at \in Nat /\ b.at \in Int /\ W \in Int /\ Whole(b.at)
  BY <1>0, <1>1, StopIs
<1>3. Whole(b.at + W)
  BY <1>2, WholeBase, WholeSum
<1>4. /\ Up(Position) \in Int /\ Whole(Up(Position)) /\ Position <= Up(Position)
      /\ Up(Position) < Position + W /\ Up(Position) <= b.at + W
  <2>1. Position \in Int /\ b.at + W \in Int /\ Position <= b.at + W
    BY <1>0, <1>1, <1>2
  <2> QED BY <1>3, <2>1, UpIs
<1>5. Up(b.at + 1) > b.at
  BY <1>1, <1>2, <1>4
<1>6. Whole(Up(Position) - b.at)
  BY <1>2, <1>4, WholeSum
<1>7. PICK q \in Int : Up(Position) - b.at = W * q
  BY <1>2, <1>4, <1>6, WholeIs
<1>8. q >= 1
  <2>1. q <= 0 => W * q <= 0
    BY <1>0
  <2> QED BY <1>1, <1>2, <1>4, <1>7, <2>1
<1>9. W * q >= W
  BY <1>0, <1>8
<1> QED BY <1>0, <1>2, <1>4, <1>7, <1>9

(* A block without streams leads to the next stop. *)
LEMMA BareEnd ==
  ASSUME Orderly, TapeType, NEW b, JustHeaded(b), ~HasStreams(archive, b),
         HeaderOf(archive, b).type # "EOTM"
  PROVE  /\ Leads(archive, b) /\ Up(Position) = b.end
         /\ \E c \in Here : c.at = b.end /\ c.before = b.after
<1>1. b \in Here /\ b.at < Len(Medium)
  BY DEF JustHeaded, Headed
<1> QED BY <1>1, LeadsOn, UpHeader

(* It is yielded when its FLB has been passed. *)
LEMMA AnnounceStep ==
  ASSUME Orderly, OnCourse, pc = "dispatch", NEW b, JustHeaded(b), Context(b.before),
         b.before.left = 0, dataRem = 0, ~HasStreams(archive, b), Outgoing(b),
         ~streamContinued, mode = "walk", peek = <<>>,
         volume' = b.after.volume, cwd' = b.after.cwd, ~Open', AlignThen("yield"),
         UNCHANGED <<archive, tapeVars, flbread, streamVars, dataVars, catFDD, hitEOTM>>
  PROVE  Course' /\ Probed'
<1>1. Types
  BY DEF OnCourse, Place, Ways
<1>2. HeaderOf(archive, b).type \notin {"EOTM", "FILE"}
  BY DEF Outgoing, Yielding, HasStreams
<1>3. Leads(archive, b) /\ Up(Position) = b.end
  BY <1>1, <1>2, BareEnd DEF Types
<1>4. b.after.left = 0 /\ b.after.cat = b.before.cat
  BY <1>2, <1>3 DEF Leads
<1>5. Headed(b)' /\ UNCHANGED <<Position, Here, Medium>>
  BY HeadedStays DEF JustHeaded, streamVars
<1>6. b \in Here /\ dblk = HeaderOf(archive, b)
  BY DEF JustHeaded, Headed
<1>7. Unread(b)'
  <2>1. Upcoming(b)'
    BY DEF Upcoming, Outgoing, Yielding, Resuming, HeaderOf, CellAt, Context, AlignThen, outcome, dataVars
  <2>2. dblk'.type # "FILE"
    BY <1>2, <1>6 DEF streamVars
  <2> QED BY <1>4, <2>1, <2>2 DEF Unread, Context, dataVars
<1>8. Announced'
  BY <1>3, <1>5, <1>6, <1>7 DEF Announced, Up
<1>9. pc' = "align" /\ back' = "yield" /\ UNCHANGED <<mode, res, yields, again>>
  BY DEF AlignThen, outcome
<1>10. flbsize' = W /\ flbread' > 0 /\ Whole((Position - flbread)')
  BY <1>5 DEF Headed
<1>11. res' # "fail"
  BY <1>9 DEF OnCourse, Course
<1>12. Course'
  BY <1>8, <1>9, <1>10, <1>11 DEF Course
<1>13. Probed'
  BY ProbedStays DEF tapeVars
<1> QED BY <1>12, <1>13

(* Nothing comes of it, and the next stop is at the next FLB. *)
LEMMA PassStep ==
  ASSUME Orderly, OnCourse, pc \in {"dispatch", "rejoin"}, NEW b, JustHeaded(b),
         Context(b.before), b.before.left = dataRem, Alone,
         ~HasStreams(archive, b), ~Yielding(archive, b), dblk.type # "EOTM",
         volume' = (IF dblk.type = "VOLB" THEN dblk.id ELSE volume),
         cwd' = (IF dblk.type = "DIRB" THEN dblk.id ELSE cwd),
         AlignThen("scan"),
         UNCHANGED <<archive, tapeVars, flbread, streamVars, dataVars, entryVars,
                     catFDD, flags, faults>>
  PROVE  Course' /\ Probed'
<1>1. Types
  BY DEF OnCourse, Place, Ways
<1>2. dblk = HeaderOf(archive, b) /\ b \in Here
  BY DEF JustHeaded, Headed
<1>3. /\ Leads(archive, b) /\ Up(Position) = b.end
      /\ \E c \in Here : c.at = b.end /\ c.before = b.after
  BY <1>1, <1>2, BareEnd DEF Types
<1>4. PICK c \in Here : c.at = b.end /\ c.before = b.after
  BY <1>3
<1>5. /\ b.after.seen = b.before.seen /\ b.after.left = b.before.left
      /\ b.after.volume = volume' /\ b.after.cwd = cwd' /\ b.after.cat = b.before.cat
  <2>1. HeaderOf(archive, b).type # "FILE"
    BY DEF HasStreams
  <2> QED BY <1>2, <1>3, <2>1 DEF Leads, Context
<1>6. /\ pc' = "align" /\ back' = "scan" /\ UNCHANGED <<mode, res, yields, again, dataRem>>
      /\ entryDone' = entryDone /\ cur' = cur /\ UNCHANGED streamContinued
  BY DEF AlignThen, outcome, entryVars, dataVars
<1>7. Headed(b)' /\ UNCHANGED <<Position, Here, Medium>>
  BY HeadedStays DEF JustHeaded, streamVars
<1>8. Context(b.after)'
  BY <1>5, <1>6 DEF Context
<1>9. Seeking(Up(Position))'
  <2>1. Up(Position)' = c.at
    BY <1>3, <1>4, <1>7 DEF Up
  <2>2. Alone'
    BY <1>6 DEF Alone, Open
  <2>3. c \in Here'
    BY <1>4, <1>7
  <2> QED BY <1>4, <1>5, <1>6, <1>8, <2>1, <2>2, <2>3 DEF Seeking, Stop
<1>10. flbsize' = W /\ flbread' > 0 /\ Whole((Position - flbread)')
  BY <1>7 DEF Headed
<1>11. res' # "fail"
  BY <1>6 DEF OnCourse, Course
<1>12. /\ mode' = "next" /\ pc' # "idle" => Discards' # {} /\ entryDone'
       /\ mode' # "walk" /\ pc' # "idle" => AtFile'
  BY <1>6, CallStays DEF OnCourse
<1>13. peek = <<>>
  BY NothingAhead DEF OnCourse
<1>14. Course'
  BY <1>6, <1>9, <1>10, <1>11, <1>12 DEF Course
<1> QED BY <1>13, <1>14, ProbedStays DEF tapeVars

LEMMA FoundStep ==
  ASSUME Orderly, OnCourse, FoundTape \/ FoundSet \/ FoundEOTM \/ FoundNothing
  PROVE  Course' /\ Probed'
<1>1. pc = "dispatch"
  BY DEF FoundTape, FoundSet, FoundEOTM, FoundNothing, Dispatch
<1>2. PICK b \in Here :
           /\ JustHeaded(b) /\ Context(b.before) /\ b.before.left = 0 /\ dataRem = 0
           /\ mode = "walk" /\ ~Open /\ ~streamContinued /\ peek = <<>>
           /\ ~Resuming(b) /\ b.at \in Nat
  BY <1>1, FoundIs
<1>3. dblk = HeaderOf(archive, b) /\ Types
  BY <1>2 DEF JustHeaded, Headed, OnCourse, Place, Ways
<1>4. CASE FoundTape \/ FoundSet
  <2>1. /\ Outgoing(b) /\ ~HasStreams(archive, b)
        /\ HeaderOf(archive, b).type \in {"TAPE", "SSET"}
    BY <1>2, <1>3, <1>4 DEF FoundTape, FoundSet, Dispatch, Outgoing, Yielding, HasStreams
  <2>2. Leads(archive, b)
    BY <1>2, <1>3, <2>1, BareEnd DEF Types
  <2>3. b.after.volume = volume /\ b.after.cwd = cwd
    BY <1>2, <2>1, <2>2 DEF Leads, Context
  <2>4. /\ AlignThen("yield")
        /\ UNCHANGED <<archive, tapeVars, flbread, streamVars, entryVars, dataVars, ctxVars, hitEOTM>>
    BY <1>4 DEF FoundTape, FoundSet, flags
  <2>5. ~Open'
    BY <1>2, <2>4 DEF Open, entryVars
  <2> QED BY <1>1, <1>2, <2>1, <2>3, <2>4, <2>5, AnnounceStep DEF ctxVars
<1>5. CASE FoundEOTM
  <2>1. /\ HeaderOf(archive, b).type = "EOTM" /\ AlignThen("eotm")
        /\ UNCHANGED <<archive, tapeVars, flbread, streamVars, entryVars, dataVars, ctxVars>>
    BY <1>3, <1>5 DEF FoundEOTM, Dispatch
  <2>2. Headed(b)' /\ UNCHANGED <<Position, Here, Medium>>
    BY <1>2, <2>1, HeadedStays DEF JustHeaded, streamVars
  <2>3. /\ pc' = "align" /\ back' = "eotm" /\ UNCHANGED <<mode, res, yields, again, dataRem>>
        /\ entryDone' = entryDone /\ cur' = cur /\ UNCHANGED streamContinued
    BY <2>1 DEF AlignThen, outcome, entryVars, dataVars
  <2>4. Turned(Up(Position))'
    <3>1. Context(b.before)' /\ Alone'
      BY <1>2, <2>1, <2>3 DEF Context, ctxVars, Alone, Open
    <3>2. Up(Position) > b.at
      <4>1. Up(Position) = b.at + W
        BY <1>2, <1>3, UpHeader DEF Types
      <4> QED BY <1>2, <4>1, ReaderAssumption
    <3>3. HeaderOf(archive, b)'.type = "EOTM" /\ b \in Here' /\ b.at < Len(Medium')
      BY <2>1, <2>2 DEF HeaderOf, CellAt, Headed
    <3>4. Up(Position)' = Up(Position)
      BY <2>2 DEF Up
    <3> QED BY <1>2, <2>3, <3>1, <3>2, <3>3, <3>4 DEF Turned, AtEnd
  <2>5. flbsize' = W /\ flbread' > 0 /\ Whole((Position - flbread)')
    BY <2>2 DEF Headed
  <2>6. res' # "fail"
    BY <2>3 DEF OnCourse, Course
  <2>7. Course'
    BY <1>2, <2>3, <2>4, <2>5, <2>6 DEF Course
  <2>8. Probed'
    BY <1>2, <2>1, ProbedStays DEF tapeVars
  <2> QED BY <2>7, <2>8
<1>6. CASE FoundNothing
  <2>1. ~Yielding(archive, b) /\ ~HasStreams(archive, b) /\ dblk.type # "EOTM"
    BY <1>3, <1>6 DEF FoundNothing, Dispatch, Yielding, HasStreams
  <2>2. Alone
    BY <1>2 DEF Alone
  <2>3. /\ volume' = (IF dblk.type = "VOLB" THEN dblk.id ELSE volume)
        /\ cwd' = (IF dblk.type = "DIRB" THEN dblk.id ELSE cwd)
        /\ AlignThen("scan")
        /\ UNCHANGED <<archive, tapeVars, flbread, streamVars, dataVars, entryVars,
                     catFDD, flags, faults>>
    BY <1>6 DEF FoundNothing
  <2> QED BY <1>1, <1>2, <2>1, <2>2, <2>3, PassStep
<1> QED BY <1>4, <1>5, <1>6

LEMMA ContextStep ==
  ASSUME Orderly, OnCourse, RejoinContext
  PROVE  Course' /\ Probed'
<1>1. pc = "rejoin" /\ mode # "walk" /\ dblk.type \notin {"FILE", "EOTM"}
  BY DEF RejoinContext, OnCourse, Place, Ways, Behalf, InFile
<1>2. PICK b \in Here : JustHeaded(b) /\ Context(b.before) /\ b.before.left = dataRem /\ Alone
  BY <1>1 DEF OnCourse, Course, Found
<1>3. dblk = HeaderOf(archive, b) /\ Resuming(b)
  BY <1>1, <1>2 DEF JustHeaded, Headed, Alone, Resuming
<1>4. ~Yielding(archive, b) /\ ~HasStreams(archive, b)
  BY <1>1, <1>3 DEF Yielding, HasStreams
<1>5. /\ volume' = (IF dblk.type = "VOLB" THEN dblk.id ELSE volume)
      /\ cwd' = (IF dblk.type = "DIRB" THEN dblk.id ELSE cwd)
      /\ AlignThen("scan")
      /\ UNCHANGED <<archive, tapeVars, flbread, streamVars, dataVars, entryVars,
                     catFDD, flags, faults>>
  BY DEF RejoinContext
<1> QED BY <1>1, <1>2, <1>4, <1>5, PassStep

(* To the first stream of a block. *)
LEMMA ToStart ==
  ASSUME Course, pc \in {"dispatch", "rejoin"}, peek = <<>>, Starting', pc' = "start",
         UNCHANGED <<archive, mode, yields, again, entryDone, peek, res>>
  PROVE  Course' /\ Probed'
<1>1. res' # "fail"
  BY DEF Course
<1>2. /\ mode' = "next" /\ pc' # "idle" => Discards' # {} /\ entryDone'
      /\ mode' # "walk" /\ pc' # "idle" => AtFile'
  BY CallStays
<1>3. Course'
  BY <1>1, <1>2 DEF Course
<1> QED BY <1>3, ProbedStays

LEMMA SetEndStep ==
  ASSUME Orderly, OnCourse, FoundSetEnd
  PROVE  Course' /\ Probed'
<1>1. pc = "dispatch" /\ dblk.type = "ESET"
  BY DEF FoundSetEnd, Dispatch
<1>2. PICK b \in Here :
           /\ JustHeaded(b) /\ Context(b.before) /\ b.before.left = 0 /\ dataRem = 0
           /\ mode = "walk" /\ ~Open /\ ~streamContinued /\ peek = <<>>
           /\ ~Resuming(b) /\ b.at \in Nat
  BY <1>1, FoundIs
<1>3. dblk = HeaderOf(archive, b) /\ Types /\ b.at < Len(Medium)
  BY <1>2 DEF JustHeaded, Headed, OnCourse, Place, Ways
<1>4. Yielding(archive, b) /\ (HasStreams(archive, b) <=> dblk.off # 0)
  BY <1>1, <1>2, <1>3 DEF Yielding, HasStreams
<1>5. Leads(archive, b)
  BY <1>1, <1>2, <1>3, LeadsOn DEF Types
<1>6. b.after.volume = volume /\ b.after.cwd = cwd
  BY <1>1, <1>2, <1>3, <1>5 DEF Leads, Context
<1>7. UNCHANGED <<archive, tapeVars, flbread, streamVars, dataVars, entryVars,
                  ctxVars, hitEOTM>>
  BY DEF FoundSetEnd
<1>8. ~Open'
  BY <1>2, <1>7 DEF Open, entryVars
<1>9. CASE dblk.off = 0
  <2>1. AlignThen("yield")
    BY <1>9 DEF FoundSetEnd
  <2> QED BY <1>1, <1>2, <1>4, <1>6, <1>7, <1>8, <1>9, <2>1, AnnounceStep DEF ctxVars, Outgoing
<1>10. CASE dblk.off # 0
  <2>1. pc' = "start" /\ back' = "catalog" /\ UNCHANGED <<mode, res, yields, again>>
    BY <1>10 DEF FoundSetEnd, outcome
  <2>2. Headed(b)' /\ UNCHANGED <<Position, Here, Medium>>
    BY <1>2, <1>7, HeadedStays DEF JustHeaded, streamVars
  <2>3. Starting'
    <3>1. JustHeaded(b)' /\ HasStreams(archive, b)'
      BY <1>2, <1>4, <1>7, <1>10, <2>2 DEF JustHeaded, HasStreams, Yielding, HeaderOf, CellAt
    <3>2. Upcoming(b)' /\ catFDD' = b.before.cat /\ dataRem' = 0
      BY <1>2, <1>4, <1>6, <1>7, <2>1
         DEF Upcoming, Outgoing, Yielding, Resuming, HeaderOf, CellAt, Context, ctxVars, dataVars
    <3> QED BY <1>8, <2>1, <2>2, <3>1, <3>2, <1>2 DEF Starting
  <2> QED BY <1>1, <1>2, <1>7, <2>1, <2>3, ToStart DEF OnCourse, entryVars, tapeVars
<1> QED BY <1>9, <1>10

LEMMA EntryStep ==
  ASSUME Orderly, OnCourse, FoundEntry
  PROVE  Course' /\ Probed'
<1>1. pc = "dispatch" /\ dblk.type \in {"FILE", "VOLB", "DIRB"}
      /\ (dblk.type # "FILE" => ~dblk.cont)
  BY DEF FoundEntry, Dispatch
<1>2. PICK b \in Here :
           /\ JustHeaded(b) /\ Context(b.before) /\ b.before.left = 0 /\ dataRem = 0
           /\ mode = "walk" /\ ~Open /\ ~streamContinued /\ peek = <<>>
           /\ ~Resuming(b) /\ b.at \in Nat
  BY <1>1, FoundIs
<1>3. dblk = HeaderOf(archive, b) /\ Types /\ b.at < Len(Medium)
  BY <1>2 DEF JustHeaded, Headed, OnCourse, Place, Ways
<1>4. /\ Yielding(archive, b)
      /\ HasStreams(archive, b) <=> (dblk.off # 0 \/ dblk.type = "FILE")
  BY <1>1, <1>2, <1>3 DEF Yielding, HasStreams
<1>5. Leads(archive, b)
  BY <1>1, <1>2, <1>3, LeadsOn DEF Types
<1>6. volume' = b.after.volume /\ cwd' = b.after.cwd
  <2>1. /\ volume' = (IF dblk.type = "VOLB" THEN dblk.id ELSE volume)
        /\ cwd' = CASE dblk.type = "VOLB" -> 0
                    [] dblk.type = "DIRB" -> dblk.id
                    [] dblk.type = "FILE" -> cwd
    BY DEF FoundEntry
  <2>2. volume = b.before.volume /\ cwd = b.before.cwd
    BY <1>2 DEF Context
  <2>3. b.after.volume = (IF dblk.type = "VOLB" THEN dblk.id ELSE b.before.volume)
        /\ b.after.cwd = CASE dblk.type = "VOLB" /\ Yielding(archive, b) -> 0
                           [] dblk.type = "DIRB" -> dblk.id
                           [] OTHER -> b.before.cwd
    BY <1>3, <1>5 DEF Leads
  <2> QED BY <1>1, <1>4, <2>1, <2>2, <2>3
<1>7. UNCHANGED <<archive, tapeVars, flbread, streamVars, dataVars, catFDD, hitEOTM>>
  BY DEF FoundEntry, flags
<1>9. CASE dblk.off = 0 /\ dblk.type # "FILE"
  <2>1. AlignThen("yield") /\ entryDone' = TRUE
    BY <1>9 DEF FoundEntry
  <2>2. ~Open'
    BY <2>1 DEF Open
  <2> QED BY <1>1, <1>2, <1>4, <1>6, <1>7, <1>9, <2>1, <2>2, AnnounceStep DEF Outgoing
<1>10. CASE ~(dblk.off = 0 /\ dblk.type # "FILE")
  <2>1. pc' = "start" /\ back' = "streams" /\ UNCHANGED <<mode, res, yields, again, entryVars>>
    BY <1>10 DEF FoundEntry, outcome
  <2>2. Headed(b)' /\ UNCHANGED <<Position, Here, Medium>>
    BY <1>2, <1>7, HeadedStays DEF JustHeaded, streamVars
  <2>3. Starting'
    <3>1. JustHeaded(b)' /\ HasStreams(archive, b)'
      BY <1>2, <1>4, <1>7, <1>10, <2>2 DEF JustHeaded, HasStreams, Yielding, HeaderOf, CellAt
    <3>2. Upcoming(b)' /\ catFDD' = b.before.cat /\ dataRem' = 0
      BY <1>2, <1>4, <1>6, <1>7, <2>1
         DEF Upcoming, Outgoing, Yielding, Resuming, HeaderOf, CellAt, Context, dataVars
    <3>3. dblk'.type # "ESET"
      BY <1>1, <1>7 DEF streamVars
    <3> QED BY <2>1, <2>2, <3>1, <3>2, <3>3, <1>2 DEF Starting
  <2> QED BY <1>1, <1>2, <1>7, <2>1, <2>3, ToStart DEF OnCourse, entryVars, tapeVars
<1> QED BY <1>9, <1>10

LEMMA ResumeStep ==
  ASSUME Orderly, OnCourse, RejoinFile \/ RejoinNowhere
  PROVE  Course' /\ Probed'
<1>1. pc = "rejoin" /\ mode # "walk" /\ dblk.type \in {"FILE", "EOTM"}
  BY DEF RejoinFile, RejoinNowhere, Rejoin, OnCourse, Place, Ways, Behalf, InFile
<1>2. PICK b \in Here : JustHeaded(b) /\ Context(b.before) /\ b.before.left = dataRem /\ Alone
  BY <1>1 DEF OnCourse, Course, Found
<1>3. dblk = HeaderOf(archive, b) /\ Resuming(b) /\ b.at < Len(Medium)
  BY <1>1, <1>2 DEF JustHeaded, Headed, Alone, Resuming
<1>4. UNCHANGED <<archive, tapeVars, flbread, streamVars, dataVars, entryVars, ctxVars>>
  BY DEF RejoinFile, RejoinNowhere
<1>5. peek = <<>>
  BY <1>1, NothingAhead DEF OnCourse
<1>6. Headed(b)' /\ UNCHANGED <<Position, Here, Medium>>
  BY <1>2, <1>4, HeadedStays DEF JustHeaded, streamVars
<1>7. CASE RejoinFile
  <2>1. pc' = "start" /\ back' = "contfile" /\ UNCHANGED <<mode, res, yields, again>>
        /\ dblk.type = "FILE"
    BY <1>7 DEF RejoinFile, Rejoin, outcome
  <2>2. JustHeaded(b)' /\ HasStreams(archive, b)'
    BY <1>2, <1>3, <1>4, <1>6, <2>1 DEF JustHeaded, HasStreams, Yielding, HeaderOf, CellAt
  <2>3. Starting'
    BY <1>2, <1>3, <1>4, <1>6, <2>1, <2>2 DEF Starting, Context, ctxVars, dataVars, Resuming
  <2> QED BY <1>1, <1>4, <1>5, <2>1, <2>3, ToStart DEF OnCourse, entryVars, tapeVars
<1>8. CASE RejoinNowhere
  <2>1. pc' = "switch" /\ UNCHANGED <<mode, res, yields, again>> /\ dblk.type = "EOTM"
    BY <1>8 DEF RejoinNowhere, Rejoin, Goto, outcome
  <2>2. HeaderOf(archive, b)'.type = "EOTM" /\ b \in Here' /\ b.at < Len(Medium')
    BY <1>2, <1>3, <1>4, <1>6, <2>1 DEF HeaderOf, CellAt
  <2>3. Position' > b.at
    <3>1. Position = b.at + 1 /\ b.at \in Nat
      BY <1>2, StopIs DEF JustHeaded, OnCourse, Place, Ways, Types
    <3> QED BY <1>6, <3>1
  <2>4. dataRem' > 0
    BY <1>1, <1>2, <1>4 DEF Alone, dataVars
  <2>5. Lost'
    BY <1>2, <1>4, <2>1, <2>2, <2>3, <2>4 DEF Lost, AtEnd, Context, ctxVars, dataVars
  <2>6. /\ mode' = "next" /\ pc' # "idle" => Discards' # {} /\ entryDone'
        /\ mode' # "walk" /\ pc' # "idle" => AtFile'
    BY <1>1, <1>4, <2>1, CallStays DEF OnCourse, entryVars
  <2>7. res' # "fail"
    BY <2>1 DEF OnCourse, Course
  <2>8. Course'
    BY <2>1, <2>5, <2>6, <2>7 DEF Course
  <2> QED BY <1>4, <1>5, <2>8, ProbedStays DEF tapeVars
<1> QED BY <1>7, <1>8

(* Calls that end. *)
LEMMA CourseEnds ==
  ASSUME pc' = "idle", res' = "eof", peek' = <<>>
  PROVE  Course' /\ Probed'
BY ProbedStays DEF Course

LEMMA ScanStep ==
  ASSUME Orderly, NoEio, OnCourse, ScanStart
  PROVE  /\ Course' /\ Probed'
         /\ pc' = "idle" => res' = "eof" /\ Len(yields) = Len(archive.items)
<1>1. pc = "scan" /\ Types /\ Fresh /\ Seeking(Position) /\ peek = <<>>
  BY NothingAhead DEF ScanStart, OnCourse, Place, Ways, Course
<1>2. PICK b \in Here : b.at = Position /\ Context(b.before) /\ b.before.left = dataRem
  BY <1>1 DEF Seeking, Stop
<1>3. Alone
  BY <1>1 DEF Seeking
<1>4. /\ b.at \in Nat /\ b.at <= Len(Medium) /\ Len(Medium) \in Nat /\ Position \in Nat
      /\ Len(Ahead) = Len(Medium) - Position /\ Whole(b.at)
  BY <1>1, StopIs, AheadIs DEF Types
<1>5. PICK j \in 0..1, e \in Ends :
       /\ ReadCells(1, j, e)
       /\ flbread' = j
       /\ IF e # "ok"
          THEN Raise("eof") /\ UNCHANGED <<dblk, flbsize>>
          ELSE LET c == AsBlock(Ahead[1])
               IN  IF c.k = "hdr"
                   THEN /\ dblk' = c
                        /\ flbsize' = (IF c.type = "TAPE" THEN W ELSE flbsize)
                        /\ Goto(IF mode = "walk" THEN "dispatch" ELSE "rejoin")
                   ELSE Raise("unexpected") /\ UNCHANGED <<dblk, flbsize>>
  BY DEF ScanStart
<1>6. UNCHANGED <<archive, medium, dataVars, entryVars, ctxVars>>
  BY DEF ScanStart
<1>7. CASE Position = Len(Medium)
  <2>1. b.before.left = 0 /\ dataRem = 0
    BY <1>1, <1>2, <1>7, EndsHere DEF Types
  <2>2. mode = "walk"
    BY <1>3, <2>1 DEF Alone
  <2>3. e # "ok"
    <3>1. Done(1, j, e) /\ (e = "ok" => 1 <= Len(Ahead))
      BY <1>1, <1>5, <1>6, ReadIs DEF Types
    <3> QED BY <1>4, <1>7, <3>1
  <2>4. pc' = "idle" /\ res' = "eof"
    BY <1>5, <2>2, <2>3 DEF Raise
  <2>5. peek' = <<>>
    <3>1. peek' = SubSeq(peek, j + 1, Len(peek))
      BY <1>5 DEF ReadCells, Take
    <3> QED BY <1>1, <3>1
  <2>6. Len(yields) = Len(archive.items)
    BY <1>1, <1>2, <1>7, EndsHere DEF Types, Context
  <2> QED BY <2>4, <2>5, <2>6, CourseEnds
<1>8. CASE Position # Len(Medium)
  <2>1. b.at < Len(Medium) /\ 1 \in 1..(Len(Medium) - Position)
    BY <1>2, <1>4, <1>8
  <2>2. Ahead[1] = Medium[b.at + 1]
    BY <1>1, <1>2, <2>1, AheadAt DEF Types, OnCourse
  <2>3. AsBlock(Ahead[1]) = HeaderOf(archive, b) /\ HeaderOf(archive, b).k = "hdr"
    BY <1>1, <2>1, <2>2, StopIs DEF Types
  <2>4. e = "ok" /\ j = 1 /\ Position' = Position + 1 /\ peek' = <<>>
    <3>1. Position + 1 <= Len(Medium)
      BY <1>2, <1>4, <2>1
    <3> QED BY <1>1, <1>5, <1>6, <3>1, Reads DEF Types
  <2>5. dblk' = HeaderOf(archive, b) /\ Goto(IF mode = "walk" THEN "dispatch" ELSE "rejoin")
    BY <1>5, <2>3, <2>4
  <2>6. flbsize' = W /\ flbread' = 1
    BY <1>1, <1>5, <2>4, Scans DEF NoEio
  <2>7. JustHeaded(b)'
    <3>1. Position' - flbread' = b.at
      BY <1>2, <1>4, <2>4, <2>6
    <3>2. b \in Here' /\ b.at < Len(Medium') /\ HeaderOf(archive, b)' = HeaderOf(archive, b)
      BY <1>6, <2>1, LayoutStays DEF HeaderOf, CellAt
    <3>3. Position' = b.at + 1
      BY <1>2, <2>4
    <3> QED BY <1>4, <2>5, <2>6, <3>1, <3>2, <3>3 DEF JustHeaded, Headed
  <2>8. UNCHANGED <<mode, yields, again, res, entryDone>>
    BY <1>6, <2>5 DEF Goto, outcome, entryVars
  <2>9. Found'
    <3>1. Context(b.before)' /\ b.before.left = dataRem' /\ Alone'
      BY <1>2, <1>3, <1>6, <2>8 DEF Context, ctxVars, dataVars, Alone, Open, entryVars
    <3>2. b \in Here'
      BY <2>7 DEF JustHeaded, Headed
    <3> QED BY <2>7, <3>1, <3>2 DEF Found
  <2>10. /\ mode' = "next" /\ pc' # "idle" => Discards' # {} /\ entryDone'
         /\ mode' # "walk" /\ pc' # "idle" => AtFile'
    BY <1>1, <1>6, <2>8, CallStays DEF OnCourse
  <2>11. pc' \in {"dispatch", "rejoin"}
    BY <2>5 DEF Goto
  <2>12. res' # "fail"
    BY <2>8 DEF OnCourse, Course
  <2>13. Course'
    BY <2>9, <2>10, <2>11, <2>12 DEF Course
  <2> QED BY <2>4, <2>11, <2>13, ProbedStays
<1> QED BY <1>7, <1>8

(* What the alignment leads to. *)
LEMMA AlignStep ==
  ASSUME Orderly, NoEio, OnCourse, Align
  PROVE  Course' /\ Probed' /\ pc' # "idle"
<1>1. /\ pc = "align" /\ Types /\ peek = <<>>
      /\ flbsize = W /\ flbread > 0 /\ Whole(Position - flbread)
      /\ back = "scan"     => Seeking(Up(Position))
      /\ back = "eotm"     => Turned(Up(Position))
      /\ back = "yield"    => Announced
      /\ back = "data"     => Continuing
      /\ back = "finished" => Finishing(Up(Position))
  BY NothingAhead DEF Align, OnCourse, Place, Ways, Course
<1>2. /\ Position' = Up(Position) /\ flbread' = 0 /\ peek' = <<>> /\ Goto(back)
      /\ Whole(Position')
  BY <1>1, AlignTo
<1>3. UNCHANGED <<archive, medium, flbsize, streamVars, dataVars, entryVars,
                  ctxVars, mode, res, yields, again>>
  BY <1>2 DEF Align, Goto, outcome
<1>4. UNCHANGED <<Here, Medium>>
  BY <1>3, LayoutStays
<1>5. pc' = back /\ back \in {"yield", "scan", "eotm", "data", "finished"}
  BY <1>1, <1>2 DEF Goto, Types, Returns
<1>6. back = "scan" => Seeking(Position)'
  BY <1>1, <1>2, <1>3, <1>4
     DEF Seeking, Stop, Alone, Open, Context, ctxVars, dataVars, entryVars
<1>7. back = "eotm" => Turned(Position)'
  BY <1>1, <1>2, <1>3, <1>4
     DEF Turned, AtEnd, Alone, Open, Context, ctxVars, dataVars, entryVars, HeaderOf, CellAt
<1>8. back = "finished" => Finishing(Position)'
  BY <1>1, <1>2, <1>3, <1>4
     DEF Finishing, Stop, Context, ctxVars, dataVars, entryVars
<1>9. back = "yield" => Announcing'
  <2> SUFFICES ASSUME back = "yield" PROVE Announcing'
    OBVIOUS
  <2>1. PICK b \in Here : Headed(b) /\ Up(Position) = b.end /\ Unread(b)
    BY <1>1 DEF Announced
  <2>2. Unread(b)'
    BY <1>3, <2>1 DEF Unread, Upcoming, Outgoing, Open, Yielding, HeaderOf, CellAt, Resuming,
                      ContentOf, ctxVars, dataVars, entryVars, streamVars
  <2>3. b.at < Len(Medium') /\ dblk' = HeaderOf(archive, b)' /\ b \in Here'
    BY <1>3, <1>4, <2>1 DEF Headed, HeaderOf, CellAt, streamVars
  <2> QED BY <1>2, <2>1, <2>2, <2>3 DEF Announcing
<1>10. back = "data" => AtData'
  <2> SUFFICES ASSUME back = "data" PROVE AtData'
    OBVIOUS
  <2>0. PICK b \in Here : \E s \in b.streams :
          /\ ToRest(b, s) /\ OfFile(b) /\ b.before.left = dataRem
          /\ strm.type = "STAN" /\ strm.cont /\ did = 0 /\ inData
    BY <1>1 DEF Continuing
  <2>1. PICK s \in b.streams :
          /\ ToRest(b, s) /\ OfFile(b) /\ b.before.left = dataRem
          /\ strm.type = "STAN" /\ strm.cont /\ did = 0 /\ inData
    BY <2>0
  <2>2. /\ Headed(b) /\ HasStreams(archive, b) /\ dblk.type = "FILE" /\ Resuming(b)
        /\ ~s.past /\ strm = StreamOf(archive, b, s) /\ ~lastStream
        /\ Position = s.data + did /\ b.at < Len(Medium) /\ dblk = HeaderOf(archive, b)
    BY <2>1 DEF ToRest, InStrand, Headed
  <2>3. Content(archive, b, s) /\ Holding(archive, b, s) /\ s.data \in Nat
    BY <1>1, <2>1, <2>2, StrandIs DEF Content, Types
  <2>4. strm.len = b.before.left /\ b.after.left <= strm.len
    BY <2>2, <2>3 DEF Holding
  <2>5. b.before.left \in Nat /\ b.after.left \in Nat /\ dataRem > 0
    BY <1>1, <2>1, <2>2, StopIs DEF Types, Contexts, Resuming
  <2>6. Position' = BeginOf(archive, b, s)'
    <3>1. Position = s.data
      BY <2>1, <2>2, <2>3
    <3>2. BeginOf(archive, b, s)' = Up(s.data)
      BY <1>3, <2>1, <2>2 DEF BeginOf, StreamOf, CellAt
    <3> QED BY <1>2, <3>1, <3>2
  <2>7. InData(b, s)'
    <3>1. b \in Here' /\ b.at < Len(Medium')
      BY <1>4, <2>2
    <3>2. dblk' = HeaderOf(archive, b)' /\ strm' = StreamOf(archive, b, s)' /\ ~lastStream'
          /\ Content(archive, b, s)'
      BY <1>3, <2>2, <2>3 DEF streamVars, HeaderOf, StreamOf, CellAt, Content
    <3>3. did' = 0 /\ dataRem' = strm'.len /\ dataRem' > 0 /\ inData'
      BY <1>3, <2>1, <2>4, <2>5 DEF streamVars, dataVars
    <3>4. did' <= strm'.len - b.after.left /\ dataRem' = strm'.len - did'
      BY <1>3, <2>4, <2>5, <3>3 DEF streamVars
    <3>5. Position' = BeginOf(archive, b, s)' + did' /\ Whole(Position' - flbread')
      <4>1. Position' \in Int
        BY <1>2, <2>1, <2>2, <2>3, UpIs
      <4>2. Position' - flbread' = Position' /\ Position' = Position' + did'
        BY <1>2, <3>3, <4>1
      <4> QED BY <1>2, <2>6, <4>2
    <3> QED BY <1>1, <1>3, <2>1, <3>1, <3>2, <3>3, <3>4, <3>5 DEF InData
  <2>8. OfFile(b)' /\ inData'
    BY <1>3, <2>1 DEF OfFile, Context, ctxVars, dataVars, Resuming
  <2>9. pc' = "data" /\ b \in Here'
    BY <1>4, <1>5
  <2> QED BY <2>1, <2>7, <2>8, <2>9 DEF AtData
<1>11. /\ mode' = "next" /\ pc' # "idle" => Discards' # {} /\ entryDone'
       /\ mode' # "walk" /\ pc' # "idle" => AtFile'
  BY <1>1, <1>3, CallStays DEF OnCourse, entryVars
<1>12. res' # "fail"
  BY <1>3 DEF OnCourse, Course
<1>13. Course'
  BY <1>5, <1>6, <1>7, <1>8, <1>9, <1>10, <1>11, <1>12 DEF Course
<1> QED BY <1>2, <1>5, <1>13, ProbedStays

(* The next medium, or none. *)
LEMMA EOTMStep ==
  ASSUME Orderly, OnCourse, AtEOTM
  PROVE  Directed'
<1>1. /\ pc \in {"eotm", "switch"} /\ Types /\ peek = <<>>
      /\ UNCHANGED <<archive, dataVars, entryVars, ctxVars>> /\ ~hitEOTM
  BY NothingAhead DEF AtEOTM, OnCourse, Place, Ways
<1>2. AtEnd(Position) /\ (pc = "eotm" => Alone) /\ (pc = "switch" => dataRem > 0)
  BY <1>1 DEF OnCourse, Course, Turned, Lost
<1>3. mode = "walk" <=> pc = "eotm"
  BY <1>1 DEF OnCourse, Place, Ways, Behalf, InWalk, InFile
<1>4. PICK b \in Here :
        /\ b.at < Len(Medium) /\ HeaderOf(archive, b).type = "EOTM"
        /\ Position > b.at /\ Context(b.before) /\ b.before.left = dataRem
  BY <1>2 DEF AtEnd
<1>5. CASE SwitchMedium /\ Goto("scan") /\ UNCHANGED hitEOTM
  <2>1. /\ medium < Len(archive.media) /\ medium' = medium + 1 /\ tp' = 0 /\ peek' = <<>>
        /\ UNCHANGED <<mode, yields, again, res>> /\ pc' = "scan"
    BY <1>5 DEF SwitchMedium, Goto, outcome
  <2>2. PICK c \in Layout : c.m = medium + 1 /\ c.at = 0 /\ c.before = b.before
    BY <1>1, <1>4, <2>1, TurnsOn DEF Types
  <2>3. c \in Here'
    BY <1>1, <2>1, <2>2, LayoutStays DEF Here
  <2>4. Position' = 0
    <3>1. Len(peek') = 0
      BY <2>1
    <3>2. Position' = tp' - Len(peek') /\ tp' = 0
      BY <2>1 DEF Position
    <3> QED BY <3>1, <3>2
  <2>5. Context(b.before)' /\ b.before.left = dataRem'
    BY <1>1, <1>4, <2>1 DEF Context, ctxVars, dataVars
  <2>6. Alone'
    BY <1>1, <1>2, <1>3, <2>1 DEF Alone, Open, dataVars, entryVars
  <2>7. Seeking(Position)'
    BY <2>2, <2>3, <2>4, <2>5, <2>6 DEF Seeking, Stop
  <2>8. /\ mode' = "next" /\ pc' # "idle" => Discards' # {} /\ entryDone'
        /\ mode' # "walk" /\ pc' # "idle" => AtFile'
    BY <1>1, <2>1, CallStays DEF OnCourse, entryVars
  <2>9. res' # "fail"
    BY <2>1 DEF OnCourse, Course
  <2>10. Course'
    BY <2>1, <2>7, <2>8, <2>9 DEF Course
  <2> QED BY <1>1, <1>5, <2>1, <2>10, ProbedStays DEF Directed
<1>6. CASE NoMedium /\ Raise("eof")
  <2>1. /\ hitEOTM' /\ UNCHANGED <<medium, tp, peek>> /\ pc' = "idle" /\ mode' = mode
        /\ mode = "read" => readEnd'
        /\ mode # "read" => res' = "eof"
    BY <1>1, <1>6 DEF NoMedium, Truncated, Raise, Types, CallType
  <2>2. Void'
    <3>1. Position = tp /\ tp \in Nat
      BY <1>1, AheadIs DEF Position, Types, TapeType
    <3>2. b.at \in Nat
      BY <1>1, StopIs DEF Types
    <3>3. \A p \in (b.at + 2)..Len(Medium) : Medium[p] = Pad
      BY <1>1, <1>4, TurnsOn DEF Types
    <3>4. Len(Medium) \in Nat
      BY <1>1, MediumIs DEF Types, TapeType
    <3>5. \A p \in (tp + 1)..Len(Medium) : p \in (b.at + 2)..Len(Medium)
      BY <1>4, <3>1, <3>2, <3>4
    <3>6. UNCHANGED Medium
      BY <1>1, <2>1 DEF Medium
    <3> QED BY <1>1, <2>1, <3>3, <3>5, <3>6 DEF Void
  <2>3. CutOff'
    BY <2>1, <2>2 DEF CutOff
  <2> QED BY <2>1, <2>3 DEF Directed
<1> QED BY <1>5, <1>6 DEF AtEOTM

(* What goes out to the caller. *)
LEMMA YieldStep ==
  ASSUME Orderly, OnCourse, Yield
  PROVE  Course' /\ Probed'
<1>1. /\ pc = "yield" /\ Types /\ peek = <<>> /\ mode = "walk"
      /\ again' = Repeated /\ ~readEnd' /\ res' = "ok" /\ pc' = "idle"
      /\ UNCHANGED <<archive, tapeVars, flbread, streamVars, dataVars, entryVars, ctxVars>>
  BY NothingAhead DEF Yield, OnCourse, Place, Ways, Behalf, InWalk
<1>2. PICK b \in Here :
    /\ b.at < Len(Medium) /\ dblk = HeaderOf(archive, b)
    /\ \/ Position = b.end /\ Unread(b)
       \/ /\ Upcoming(b) /\ catFDD = b.after.cat /\ Open /\ inData /\ did = 0
          /\ \E s \in b.streams : InData(b, s)
  BY <1>1 DEF OnCourse, Course, Announcing
<1>3. Upcoming(b) /\ catFDD = b.after.cat
  BY <1>2 DEF Unread
<1>4. HeaderOf(archive, b).type # "EOTM"
  BY <1>3 DEF Upcoming, Outgoing, Yielding
<1>5. Leads(archive, b) /\ \E c \in Here : c.at = b.end /\ c.before = b.after
  BY <1>1, <1>2, <1>4, LeadsOn DEF Types
<1>6. ASSUME Repeated PROVE Context(b.after)' /\ dblk.type # "FILE"
  <2>1. HeaderOf(archive, b).type = "SSET" /\ HeaderOf(archive, b).cont
    BY <1>2, <1>6 DEF Repeated
  <2>2. ~Yielding(archive, b) /\ yields' = yields
    BY <1>6, <2>1 DEF Yielding, Yield
  <2>3. Len(yields') = b.after.seen
    BY <1>3, <1>5, <2>2 DEF Upcoming, Leads
  <2>4. Context(b.after)'
    BY <1>1, <1>3, <2>3 DEF Context, ctxVars, Upcoming
  <2>5. dblk.type # "FILE"
    BY <1>6 DEF Repeated
  <2> QED BY <2>4, <2>5
<1>7. ASSUME ~Repeated PROVE Context(b.after)' /\ (dblk.type = "FILE" => AtFile')
  <2>1. yields' = Append(yields, Item) /\ ~again'
    BY <1>1, <1>7 DEF Yield
  <2>2. Yielding(archive, b)
    BY <1>2, <1>3, <1>7 DEF Repeated, Upcoming, Outgoing, Yielding, Resuming
  <2>3. yields \in Seq(Items) /\ Item \in Items
    <3>1. dblk.type \in Known \cup {"none"} /\ dblk.id \in Nat /\ volume \in Nat
          /\ cwd \in Nat /\ catFDD \in Nat
      BY <1>1 DEF Types, HeaderType, Headers
    <3> QED BY <1>1, <3>1 DEF Item, Items, Types, CallType
  <2>4. /\ Len(yields') = Len(yields) + 1 /\ yields'[Len(yields')] = Item
        /\ yields' # <<>>
    BY <2>1, <2>3
  <2>5. Len(yields') = b.after.seen
    BY <1>3, <1>5, <2>2, <2>4 DEF Upcoming, Leads
  <2>6. Context(b.after)'
    BY <1>1, <1>3, <2>5 DEF Context, ctxVars, Upcoming
  <2>7. dblk.type = "FILE" => AtFile'
    BY <2>1, <2>4 DEF AtFile, Item
  <2> QED BY <2>6, <2>7
<1>a. Context(b.after)' /\ (dblk.type = "FILE" => AtFile')
  BY <1>6, <1>7
<1>8. UNCHANGED <<Here, Medium, Position>>
  BY <1>1, LayoutStays DEF tapeVars, Position
<1>9. Resting'
  <2>1. CASE Position = b.end /\ Unread(b)
    <3>1. ~Open' /\ dataRem' = 0 /\ ~streamContinued' /\ b.after.left = 0
      BY <1>1, <2>1 DEF Unread, Open, entryVars, dataVars, Upcoming
    <3>2. Stop(Position)'
      BY <1>5, <1>a, <1>8, <2>1, <3>1 DEF Stop
    <3> QED BY <3>1, <3>2 DEF Resting
  <2>2. CASE /\ Open /\ inData /\ \E s \in b.streams : InData(b, s)
    <3>1. PICK s \in b.streams : InData(b, s)
      BY <2>2
    <3>2. InData(b, s)'
      BY <1>1, <1>8, <3>1, DataStays DEF tapeVars, streamVars, dataVars
    <3>3. OfFile(b)'
      <4>1. streamContinued = FALSE /\ streamContinued' = streamContinued
        BY <1>1, <1>3 DEF Upcoming, dataVars, Types, FlagType
      <4>2. Resuming(b) = FALSE
        BY <1>3 DEF Upcoming, Outgoing, Yielding, Resuming
      <4> QED BY <1>a, <4>1, <4>2 DEF OfFile
    <3>4. AtFile'
      BY <1>2, <1>a, <3>1 DEF InData, Content
    <3>5. Open' /\ inData' /\ ~readEnd'
      BY <1>1, <2>2 DEF Open, entryVars, dataVars
    <3> QED BY <1>8, <3>1, <3>2, <3>3, <3>4, <3>5 DEF Resting
  <2> QED BY <1>2, <2>1, <2>2
<1>10. Course'
  BY <1>1, <1>9 DEF Course
<1> QED BY <1>1, <1>10, ProbedStays DEF tapeVars

-----------------------------------------------------------------------------
(* The steps along the streams. *)

LEMMA StreamStartStep ==
  ASSUME Orderly, NoEio, OnCourse, StreamStart
  PROVE  Course' /\ Probed' /\ pc' # "idle"
<1>1. pc = "start" /\ Types /\ peek = <<>> /\ Probed /\ Starting
  BY NothingAhead DEF StreamStart, OnCourse, Place, Ways, Course
<1>2. PICK b \in Here :
    /\ JustHeaded(b) /\ HasStreams(archive, b)
    /\ IF back = "contfile"
       THEN Resuming(b) /\ Context(b.before) /\ b.before.left = dataRem
       ELSE /\ Upcoming(b) /\ catFDD = b.before.cat /\ dataRem = 0
            /\ dblk.type = "ESET" => ~Open
  BY <1>1 DEF Starting
<1>3. /\ Goto(back) /\ back \in {"streams", "catalog", "contfile"}
      /\ \E s \in b.streams : InStrand(b, s)' /\ ~s.past /\ s.cat = b.before.cat
      /\ cur' = (IF back = "streams" THEN dblk.type ELSE cur)
      /\ UNCHANGED entryDone /\ peek' = <<>>
  BY <1>1, <1>2, StartStep
<1>4. PICK s \in b.streams : InStrand(b, s)' /\ ~s.past /\ s.cat = b.before.cat
  BY <1>3
<1>5. /\ UNCHANGED <<archive, medium, flbsize, dblk, dataVars, ctxVars>>
      /\ UNCHANGED <<mode, yields, again, res>> /\ pc' = back
  BY <1>3 DEF StreamStart, Goto, outcome
<1>6. b \in Here' /\ b \in Here /\ b.at < Len(Medium) /\ dblk = HeaderOf(archive, b)
  BY <1>2, <1>5, LayoutStays DEF JustHeaded, Headed
<1>7. back = "streams" /\ dblk.type \in {"FILE", "VOLB", "DIRB"} => Coming'
  <2> SUFFICES ASSUME back = "streams", dblk.type \in {"FILE", "VOLB", "DIRB"}
               PROVE  Coming'
    OBVIOUS
  <2>1. Leads(archive, b)
    BY <1>1, <1>6, LeadsOn DEF Types
  <2>2. b.before.cat = b.after.cat
    BY <1>6, <2>1 DEF Leads
  <2>3. Upcoming(b)' /\ catFDD' = b.after.cat /\ dataRem' = 0
    BY <1>2, <1>5, <2>2
       DEF Upcoming, Outgoing, Yielding, Resuming, HeaderOf, CellAt, ctxVars, dataVars
  <2>4. ToEntry(b, s)'
    BY <1>4, <1>5 DEF ToEntry
  <2> QED BY <1>6, <2>3, <2>4 DEF Coming
<1>8. back = "catalog" /\ dblk.type = "ESET" => Capturing'
  <2> SUFFICES ASSUME back = "catalog", dblk.type = "ESET" PROVE  Capturing'
    OBVIOUS
  <2>1. Upcoming(b)' /\ dataRem' = 0 /\ catFDD' = s.cat
    BY <1>2, <1>4, <1>5
       DEF Upcoming, Outgoing, Yielding, Resuming, HeaderOf, CellAt, ctxVars, dataVars
  <2>2. ~Open'
    BY <1>2, <1>3 DEF Open
  <2>3. ToCatalog(b, s)'
    BY <1>4, <1>5, <2>1 DEF ToCatalog
  <2> QED BY <1>6, <2>1, <2>2, <2>3 DEF Capturing
<1>9. back = "contfile" /\ dblk.type = "FILE" => Rejoining'
  <2> SUFFICES ASSUME back = "contfile", dblk.type = "FILE" PROVE  Rejoining'
    OBVIOUS
  <2>1. Context(b.before)' /\ b.before.left = dataRem' /\ Resuming(b)
    BY <1>2, <1>5 DEF Context, ctxVars, dataVars
  <2>2. ToRest(b, s)'
    BY <1>4, <1>5, <2>1 DEF ToRest
  <2> QED BY <1>6, <2>1, <2>2 DEF Rejoining
<1>10. \/ Coming' /\ back = "streams"
       \/ Capturing' /\ back = "catalog"
       \/ Rejoining' /\ back = "contfile"
  <2>1. \/ back = "streams" /\ dblk.type \in {"FILE", "VOLB", "DIRB"}
        \/ back = "catalog" /\ dblk.type = "ESET"
        \/ back = "contfile" /\ dblk.type = "FILE"
    BY <1>1 DEF Types, Returns
  <2> QED BY <1>7, <1>8, <1>9, <2>1
<1>11. /\ mode' = "next" /\ pc' # "idle" => Discards' # {} /\ entryDone'
       /\ mode' # "walk" /\ pc' # "idle" => AtFile'
  BY <1>1, <1>3, <1>5, CallStays DEF OnCourse
<1>12. res' # "fail"
  BY <1>5 DEF OnCourse, Course
<1>13. Course'
  BY <1>5, <1>10, <1>11, <1>12 DEF Course
<1> QED BY <1>3, <1>5, <1>13, ProbedStays

(* Where the stream just passed, or the one being passed, is not the last  *)
(* that counts.                                                            *)
LEMMA NotFinal ==
  ASSUME NEW b, NEW s, strm = StreamOf(archive, b, s), dblk = HeaderOf(archive, b),
         strm.type # "SPAD",
         \/ strm.type # "STAN" \/ dblk.type # "FILE"
         \/ ~Resuming(b) /\ b.after.left = 0
  PROVE  ~Final(archive, b, s)
<1>1. Resuming(b) \/ b.after.left > 0 => b.after.left # 0 \/ Resuming(b)
  OBVIOUS
<1> QED BY <1>1 DEF Final, Content

(* The rest of a stream, and the next header, on the way of each. *)
LEMMA StreamRestStep ==
  ASSUME Orderly, NoEio, OnCourse, StreamRest
  PROVE  Course' /\ Probed' /\ pc' # "idle"
<1>1. /\ pc = "rest" /\ Types /\ peek = <<>>
      /\ back \in {"streams", "catalog", "contfile", "extra"}
  BY NothingAhead DEF StreamRest, OnCourse, Place, Ways, Types, Returns
<1>2. /\ UNCHANGED <<archive, medium, flbsize, dblk, strm, dataVars, entryVars, ctxVars>>
  BY DEF StreamRest
<1>3. ASSUME NEW b, NEW s, InStrand(b, s),
             strm.type = "SPAD" \/ ~Final(archive, b, s),
             strm.type = "SPAD" => back = "extra"
      PROVE  /\ InStrand(b, s)' /\ peek' = <<>> /\ b \in Here'
             /\ pc' = IF strm.type = "SPAD" THEN "extra" ELSE "header"
             /\ UNCHANGED <<mode, back, res, yields, again>>
  <2>1. /\ InStrand(b, s)' /\ peek' = <<>>
        /\ Goto(IF strm.type = "SPAD" THEN back ELSE "header")
    BY <1>1, <1>3, RestStep
  <2> QED BY <1>3, <2>1 DEF Goto, outcome, InStrand, Headed
<1>4. CASE back = "streams"
  <2>1. PICK b \in Here : \E s \in b.streams :
          ToEntry(b, s) /\ Upcoming(b) /\ catFDD = b.after.cat /\ dataRem = 0
    BY <1>1, <1>4 DEF OnCourse, Course, Coming
  <2>2. PICK s \in b.streams : ToEntry(b, s)
    BY <2>1
  <2>3. strm = StreamOf(archive, b, s) /\ dblk = HeaderOf(archive, b)
        /\ strm.type \notin {"STAN", "SPAD"} /\ InStrand(b, s)
    BY <1>1, <2>2 DEF ToEntry, InStrand, Headed
  <2>4. ~Final(archive, b, s)
    BY <2>3, NotFinal
  <2>5. /\ InStrand(b, s)' /\ peek' = <<>> /\ b \in Here' /\ pc' = "header"
        /\ UNCHANGED <<mode, back, res, yields, again>>
    BY <1>3, <2>3, <2>4
  <2>6. ToEntry(b, s)'
    BY <1>1, <1>2, <2>2, <2>5 DEF ToEntry
  <2>7. Upcoming(b)' /\ catFDD' = b.after.cat /\ dataRem' = 0
    BY <1>2, <2>1, <2>5
       DEF Upcoming, Outgoing, Yielding, Resuming, HeaderOf, CellAt, ctxVars, dataVars
  <2>8. Coming'
    BY <2>5, <2>6, <2>7 DEF Coming
  <2>9. /\ mode' = "next" /\ pc' # "idle" => Discards' # {} /\ entryDone'
        /\ mode' # "walk" /\ pc' # "idle" => AtFile'
    BY <1>1, <1>2, <2>5, CallStays DEF OnCourse, entryVars
  <2>10. res' # "fail"
    BY <2>5 DEF OnCourse, Course
  <2>11. Course'
    BY <1>4, <2>5, <2>8, <2>9, <2>10 DEF Course
  <2> QED BY <2>5, <2>11, ProbedStays
<1>5. CASE back = "catalog"
  <2>1. PICK b \in Here : \E s \in b.streams :
          ToCatalog(b, s) /\ Upcoming(b) /\ dataRem = 0 /\ ~Open
    BY <1>1, <1>5 DEF OnCourse, Course, Capturing
  <2>2. PICK s \in b.streams : ToCatalog(b, s)
    BY <2>1
  <2>3. strm = StreamOf(archive, b, s) /\ dblk = HeaderOf(archive, b)
        /\ strm.type # "SPAD" /\ InStrand(b, s) /\ dblk.type = "ESET"
    BY <1>1, <2>2 DEF ToCatalog, InStrand, Headed
  <2>4. ~Final(archive, b, s)
    BY <2>3, NotFinal
  <2>5. /\ InStrand(b, s)' /\ peek' = <<>> /\ b \in Here' /\ pc' = "header"
        /\ UNCHANGED <<mode, back, res, yields, again>>
    BY <1>3, <2>3, <2>4
  <2>6. ToCatalog(b, s)'
    BY <1>1, <1>2, <2>2, <2>5 DEF ToCatalog, CatBehind, StreamOf, CellAt, ctxVars
  <2>7. Upcoming(b)' /\ dataRem' = 0 /\ ~Open'
    BY <1>2, <2>1, <2>5
       DEF Upcoming, Outgoing, Yielding, Resuming, HeaderOf, CellAt, ctxVars, dataVars, Open, entryVars
  <2>8. Capturing'
    BY <2>5, <2>6, <2>7 DEF Capturing
  <2>9. /\ mode' = "next" /\ pc' # "idle" => Discards' # {} /\ entryDone'
        /\ mode' # "walk" /\ pc' # "idle" => AtFile'
    BY <1>1, <1>2, <2>5, CallStays DEF OnCourse, entryVars
  <2>10. res' # "fail"
    BY <2>5 DEF OnCourse, Course
  <2>11. Course'
    BY <1>5, <2>5, <2>8, <2>9, <2>10 DEF Course
  <2> QED BY <2>5, <2>11, ProbedStays
<1>6. CASE back = "contfile"
  <2>1. PICK b \in Here : \E s \in b.streams :
          ToRest(b, s) /\ Context(b.before) /\ b.before.left = dataRem
    BY <1>1, <1>6 DEF OnCourse, Course, Rejoining
  <2>2. PICK s \in b.streams : ToRest(b, s)
    BY <2>1
  <2>3. strm = StreamOf(archive, b, s) /\ dblk = HeaderOf(archive, b)
        /\ strm.type \notin {"STAN", "SPAD"} /\ InStrand(b, s)
    BY <1>1, <2>2 DEF ToRest, InStrand, Headed
  <2>4. ~Final(archive, b, s)
    BY <2>3, NotFinal
  <2>5. /\ InStrand(b, s)' /\ peek' = <<>> /\ b \in Here' /\ pc' = "header"
        /\ UNCHANGED <<mode, back, res, yields, again>>
    BY <1>3, <2>3, <2>4
  <2>6. ToRest(b, s)'
    BY <1>1, <1>2, <2>2, <2>5 DEF ToRest
  <2>7. Context(b.before)' /\ b.before.left = dataRem'
    BY <1>2, <2>1, <2>5 DEF Context, ctxVars, dataVars
  <2>8. Rejoining'
    BY <2>5, <2>6, <2>7 DEF Rejoining
  <2>9. /\ mode' = "next" /\ pc' # "idle" => Discards' # {} /\ entryDone'
        /\ mode' # "walk" /\ pc' # "idle" => AtFile'
    BY <1>1, <1>2, <2>5, CallStays DEF OnCourse, entryVars
  <2>10. res' # "fail"
    BY <2>5 DEF OnCourse, Course
  <2>11. Course'
    BY <1>6, <2>5, <2>8, <2>9, <2>10 DEF Course
  <2> QED BY <2>5, <2>11, ProbedStays
<1>7. CASE back = "extra"
  <2>1. PICK b \in Here : \E s \in b.streams : Past(b, s)
    BY <1>1, <1>7 DEF OnCourse, Course, Passed
  <2>2. PICK s \in b.streams : Past(b, s)
    BY <2>1
  <2>3. strm = StreamOf(archive, b, s) /\ dblk = HeaderOf(archive, b)
        /\ ~Resuming(b) /\ b.after.left = 0 /\ InStrand(b, s) /\ Ended(b)
    BY <2>2 DEF Past, InStrand, Headed, Ended
  <2>4. strm.type = "SPAD" \/ ~Final(archive, b, s)
    BY <2>3, NotFinal
  <2>5. /\ InStrand(b, s)' /\ peek' = <<>> /\ b \in Here' /\ pc' \in {"header", "extra"}
        /\ UNCHANGED <<mode, back, res, yields, again>>
    BY <1>3, <1>7, <2>3, <2>4
  <2>6. Past(b, s)'
    BY <1>2, <2>3, <2>5 DEF Past, Ended, InStrand, Context, ctxVars, dataVars, entryVars
  <2>8. Passed'
    BY <2>5, <2>6 DEF Passed
  <2>9. /\ mode' = "next" /\ pc' # "idle" => Discards' # {} /\ entryDone'
        /\ mode' # "walk" /\ pc' # "idle" => AtFile'
    BY <1>1, <1>2, <2>5, CallStays DEF OnCourse, entryVars
  <2>10. res' # "fail"
    BY <2>5 DEF OnCourse, Course
  <2>11. Course'
    BY <1>7, <2>5, <2>8, <2>9, <2>10 DEF Course
  <2> QED BY <2>5, <2>11, ProbedStays
<1> QED BY <1>1, <1>4, <1>5, <1>6, <1>7

LEMMA StreamHeaderStep ==
  ASSUME Orderly, NoEio, OnCourse, StreamHeader
  PROVE  Course' /\ Probed' /\ pc' # "idle"
<1>1. /\ pc = "header" /\ Types /\ peek = <<>> /\ Probed
      /\ back \in {"streams", "catalog", "contfile", "extra"}
  BY NothingAhead DEF StreamHeader, OnCourse, Place, Ways, Types, Returns
<1>2. /\ UNCHANGED <<archive, medium, flbsize, dblk, dataVars, entryVars, ctxVars>>
  BY DEF StreamHeader
<1>3. ASSUME NEW b, NEW s, InStrand(b, s), ~Final(archive, b, s)
      PROVE  /\ \E t \in b.streams : NextTo(archive, b, s, t) /\ InStrand(b, t)'
             /\ peek' = <<>> /\ b \in Here' /\ pc' = back
             /\ UNCHANGED <<mode, back, res, yields, again>>
  <2>1. /\ \E t \in b.streams : NextTo(archive, b, s, t) /\ InStrand(b, t)'
        /\ Goto(back) /\ peek' = <<>>
    BY <1>1, <1>3, HeaderStep
  <2>2. b \in Here'
    BY <2>1 DEF InStrand, Headed
  <2> QED BY <2>1, <2>2 DEF Goto, outcome
<1>4. CASE back = "streams"
  <2>1. PICK b \in Here : \E s \in b.streams :
          ToEntry(b, s) /\ Upcoming(b) /\ catFDD = b.after.cat /\ dataRem = 0
    BY <1>1, <1>4 DEF OnCourse, Course, Coming
  <2>2. PICK s \in b.streams : ToEntry(b, s)
    BY <2>1
  <2>3. strm = StreamOf(archive, b, s) /\ dblk = HeaderOf(archive, b)
        /\ strm.type \notin {"STAN", "SPAD"} /\ InStrand(b, s) /\ ~s.past
        /\ dblk.type \in {"FILE", "VOLB", "DIRB"}
    BY <1>1, <2>2 DEF ToEntry, InStrand, Headed
  <2>4. ~Final(archive, b, s)
    BY <2>3, NotFinal
  <2>5. PICK t \in b.streams : NextTo(archive, b, s, t) /\ InStrand(b, t)'
    BY <1>3, <2>3, <2>4
  <2>6. /\ peek' = <<>> /\ b \in Here' /\ pc' = "streams" /\ UNCHANGED <<mode, back, res, yields, again>>
    BY <1>3, <1>4, <2>3, <2>4
  <2>7. ~t.past
    BY <2>3, <2>5 DEF NextTo
  <2>8. ToEntry(b, t)'
    BY <1>2, <2>3, <2>5, <2>6, <2>7 DEF ToEntry
  <2>9. Upcoming(b)' /\ catFDD' = b.after.cat /\ dataRem' = 0
    BY <1>2, <2>1, <2>6
       DEF Upcoming, Outgoing, Yielding, Resuming, HeaderOf, CellAt, ctxVars, dataVars
  <2>10. Coming'
    BY <2>6, <2>8, <2>9 DEF Coming
  <2>11. /\ mode' = "next" /\ pc' # "idle" => Discards' # {} /\ entryDone'
         /\ mode' # "walk" /\ pc' # "idle" => AtFile'
    BY <1>1, <1>2, <2>6, CallStays DEF OnCourse, entryVars
  <2>12. res' # "fail"
    BY <2>6 DEF OnCourse, Course
  <2>13. Course'
    BY <2>6, <2>10, <2>11, <2>12 DEF Course
  <2> QED BY <2>6, <2>13, ProbedStays
<1>5. CASE back = "catalog"
  <2>1. PICK b \in Here : \E s \in b.streams :
          ToCatalog(b, s) /\ Upcoming(b) /\ dataRem = 0 /\ ~Open
    BY <1>1, <1>5 DEF OnCourse, Course, Capturing
  <2>2. PICK s \in b.streams : ToCatalog(b, s)
    BY <2>1
  <2>3. strm = StreamOf(archive, b, s) /\ dblk = HeaderOf(archive, b)
        /\ strm.type # "SPAD" /\ InStrand(b, s) /\ dblk.type = "ESET"
        /\ catFDD = CatBehind(archive, b, s)
    BY <1>1, <2>2 DEF ToCatalog, InStrand, Headed
  <2>4. ~Final(archive, b, s)
    BY <2>3, NotFinal
  <2>5. PICK t \in b.streams : NextTo(archive, b, s, t) /\ InStrand(b, t)'
    BY <1>3, <2>3, <2>4
  <2>6. /\ peek' = <<>> /\ b \in Here' /\ pc' = "catalog" /\ UNCHANGED <<mode, back, res, yields, again>>
    BY <1>3, <1>5, <2>3, <2>4
  <2>7. catFDD' = t.cat
    BY <1>2, <2>3, <2>5 DEF NextTo, ctxVars
  <2>8. ToCatalog(b, t)'
    BY <1>2, <2>3, <2>5, <2>6, <2>7 DEF ToCatalog
  <2>9. Upcoming(b)' /\ dataRem' = 0 /\ ~Open'
    BY <1>2, <2>1, <2>6
       DEF Upcoming, Outgoing, Yielding, Resuming, HeaderOf, CellAt, ctxVars, dataVars, Open, entryVars
  <2>10. Capturing'
    BY <2>6, <2>8, <2>9 DEF Capturing
  <2>11. /\ mode' = "next" /\ pc' # "idle" => Discards' # {} /\ entryDone'
         /\ mode' # "walk" /\ pc' # "idle" => AtFile'
    BY <1>1, <1>2, <2>6, CallStays DEF OnCourse, entryVars
  <2>12. res' # "fail"
    BY <2>6 DEF OnCourse, Course
  <2>13. Course'
    BY <2>6, <2>10, <2>11, <2>12 DEF Course
  <2> QED BY <2>6, <2>13, ProbedStays
<1>6. CASE back = "contfile"
  <2>1. PICK b \in Here : \E s \in b.streams :
          ToRest(b, s) /\ Context(b.before) /\ b.before.left = dataRem
    BY <1>1, <1>6 DEF OnCourse, Course, Rejoining
  <2>2. PICK s \in b.streams : ToRest(b, s)
    BY <2>1
  <2>3. strm = StreamOf(archive, b, s) /\ dblk = HeaderOf(archive, b)
        /\ strm.type \notin {"STAN", "SPAD"} /\ InStrand(b, s) /\ ~s.past
        /\ dblk.type = "FILE" /\ Resuming(b)
    BY <1>1, <2>2 DEF ToRest, InStrand, Headed
  <2>4. ~Final(archive, b, s)
    BY <2>3, NotFinal
  <2>5. PICK t \in b.streams : NextTo(archive, b, s, t) /\ InStrand(b, t)'
    BY <1>3, <2>3, <2>4
  <2>6. /\ peek' = <<>> /\ b \in Here' /\ pc' = "contfile" /\ UNCHANGED <<mode, back, res, yields, again>>
    BY <1>3, <1>6, <2>3, <2>4
  <2>7. ~t.past
    BY <2>3, <2>5 DEF NextTo
  <2>8. ToRest(b, t)'
    BY <1>2, <2>3, <2>5, <2>6, <2>7 DEF ToRest
  <2>9. Context(b.before)' /\ b.before.left = dataRem'
    BY <1>2, <2>1, <2>6 DEF Context, ctxVars, dataVars
  <2>10. Rejoining'
    BY <2>6, <2>8, <2>9 DEF Rejoining
  <2>11. /\ mode' = "next" /\ pc' # "idle" => Discards' # {} /\ entryDone'
         /\ mode' # "walk" /\ pc' # "idle" => AtFile'
    BY <1>1, <1>2, <2>6, CallStays DEF OnCourse, entryVars
  <2>12. res' # "fail"
    BY <2>6 DEF OnCourse, Course
  <2>13. Course'
    BY <2>6, <2>10, <2>11, <2>12 DEF Course
  <2> QED BY <2>6, <2>13, ProbedStays
<1>7. CASE back = "extra"
  <2>1. PICK b \in Here : \E s \in b.streams : Past(b, s)
    BY <1>1, <1>7 DEF OnCourse, Course, Passed
  <2>2. PICK s \in b.streams : Past(b, s)
    BY <2>1
  <2>3. strm = StreamOf(archive, b, s) /\ dblk = HeaderOf(archive, b)
        /\ ~Resuming(b) /\ b.after.left = 0 /\ InStrand(b, s) /\ Ended(b)
        /\ strm.type # "SPAD"
    BY <1>1, <2>2 DEF Past, InStrand, Headed, Ended
  <2>4. ~Final(archive, b, s)
    BY <2>3, NotFinal
  <2>5. PICK t \in b.streams : NextTo(archive, b, s, t) /\ InStrand(b, t)'
    BY <1>3, <2>3, <2>4
  <2>6. /\ peek' = <<>> /\ b \in Here' /\ pc' = "extra" /\ UNCHANGED <<mode, back, res, yields, again>>
    BY <1>3, <1>7, <2>3, <2>4
  <2>7. Past(b, t)'
    BY <1>2, <2>3, <2>5, <2>6 DEF Past, Ended, InStrand, Context, ctxVars, dataVars, entryVars
  <2>8. Passed'
    BY <2>6, <2>7 DEF Passed
  <2>9. /\ mode' = "next" /\ pc' # "idle" => Discards' # {} /\ entryDone'
        /\ mode' # "walk" /\ pc' # "idle" => AtFile'
    BY <1>1, <1>2, <2>6, CallStays DEF OnCourse, entryVars
  <2>10. res' # "fail"
    BY <2>6 DEF OnCourse, Course
  <2>11. Course'
    BY <2>6, <2>8, <2>9, <2>10 DEF Course
  <2> QED BY <2>6, <2>11, ProbedStays
<1> QED BY <1>1, <1>4, <1>5, <1>6, <1>7

LEMMA StandardDataStep ==
  ASSUME Orderly, OnCourse, StandardData
  PROVE  Course' /\ Probed'
<1>1. /\ pc = "streams" /\ Types /\ peek = <<>> /\ strm.type = "STAN"
      /\ mode = "walk" /\ cur # None
  BY NothingAhead DEF StandardData, OnCourse, Place, Ways, Behalf, InWalk, CurKnown
<1>2. PICK b \in Here : \E s \in b.streams :
        ToEntry(b, s) /\ Upcoming(b) /\ catFDD = b.after.cat /\ dataRem = 0
  BY <1>1 DEF OnCourse, Course, Coming
<1>3. PICK s \in b.streams : ToEntry(b, s)
  BY <1>2
<1>4. /\ strm = StreamOf(archive, b, s) /\ dblk = HeaderOf(archive, b) /\ InStrand(b, s)
      /\ ~s.past /\ dblk.type \in {"FILE", "VOLB", "DIRB"} /\ Headed(b)
      /\ b.at < Len(Medium) /\ HasStreams(archive, b) /\ did = 0 /\ ~lastStream
      /\ Position = s.data + did
  BY <1>1, <1>3 DEF ToEntry, InStrand, Headed
<1>5. dblk.type = "FILE"
  BY <1>1, <1>4, StrandIs DEF Types
<1>6. Content(archive, b, s) /\ Holding(archive, b, s) /\ ~Resuming(b)
  BY <1>1, <1>2, <1>4, <1>5, StrandIs DEF Content, Types, Upcoming, Outgoing, Yielding
<1>7. /\ UNCHANGED <<archive, tapeVars, flbread, streamVars, streamContinued, cur, ctxVars>>
      /\ inData' /\ dataRem' = strm.len /\ ~entryDone'
      /\ pc' = "yield" /\ UNCHANGED <<mode, res, yields, again>>
  BY DEF StandardData, Goto, outcome
<1>8. Headed(b)' /\ UNCHANGED <<Position, Here, Medium>>
  BY <1>4, <1>7, HeadedStays DEF streamVars
<1>9. BeginOf(archive, b, s) = s.data /\ b.after.left <= strm.len /\ strm.len \in Nat
      /\ b.after.left \in Nat
  <2>1. strm.len \in Nat
    BY <1>1, <1>4, StrandIs DEF Types
  <2>2. b.after.left \in Nat
    BY <1>1, <1>4, StopIs DEF Types, Contexts
  <2> QED BY <1>4, <1>6, <2>1, <2>2 DEF BeginOf, Holding
<1>10. InData(b, s)'
  <2>1. /\ b \in Here' /\ b.at < Len(Medium') /\ flbsize' = W /\ flbread' > 0
        /\ Whole(Position' - flbread')
    BY <1>8 DEF Headed
  <2>2. dblk' = HeaderOf(archive, b)' /\ strm' = StreamOf(archive, b, s)' /\ ~lastStream'
        /\ Content(archive, b, s)' /\ BeginOf(archive, b, s)' = BeginOf(archive, b, s)
    BY <1>4, <1>6, <1>7 DEF streamVars, HeaderOf, StreamOf, CellAt, Content, BeginOf
  <2>3. did' = 0 /\ strm' = strm
    BY <1>4, <1>7 DEF streamVars
  <2>4. did' <= strm'.len - b.after.left /\ dataRem' = strm'.len - did'
    BY <1>7, <1>9, <2>3
  <2>5. Position' = BeginOf(archive, b, s)' + did'
    BY <1>4, <1>8, <1>9, <2>2, <2>3
  <2> QED BY <2>1, <2>2, <2>4, <2>5 DEF InData
<1>11. Announcing'
  <2>1. Upcoming(b)' /\ catFDD' = b.after.cat
    BY <1>2, <1>7 DEF Upcoming, Outgoing, Yielding, Resuming, HeaderOf, CellAt, ctxVars
  <2>2. Open' /\ inData' /\ did' = 0
    BY <1>1, <1>4, <1>7 DEF Open, streamVars
  <2>3. b \in Here' /\ b.at < Len(Medium') /\ dblk' = HeaderOf(archive, b)'
    BY <1>10 DEF InData
  <2> QED BY <1>10, <2>1, <2>2, <2>3 DEF Announcing
<1>12. res' # "fail"
  BY <1>7 DEF OnCourse, Course
<1>13. Course'
  BY <1>1, <1>7, <1>11, <1>12 DEF Course
<1> QED BY <1>1, <1>7, <1>13, ProbedStays DEF tapeVars

LEMMA NoDataStep ==
  ASSUME Orderly, OnCourse, NoData
  PROVE  Course' /\ Probed'
<1>1. /\ pc = "streams" /\ Types /\ peek = <<>> /\ strm.type = "SPAD" /\ mode = "walk"
  BY NothingAhead DEF NoData, OnCourse, Place, Ways, Behalf, InWalk
<1>2. PICK b \in Here : \E s \in b.streams :
        ToEntry(b, s) /\ Upcoming(b) /\ catFDD = b.after.cat /\ dataRem = 0
  BY <1>1 DEF OnCourse, Course, Coming
<1>3. PICK s \in b.streams : ToEntry(b, s)
  BY <1>2
<1>4. /\ strm = StreamOf(archive, b, s) /\ dblk = HeaderOf(archive, b) /\ InStrand(b, s)
      /\ ~s.past /\ Headed(b) /\ b.at < Len(Medium) /\ HasStreams(archive, b) /\ did = 0
      /\ Position = s.data + did
  BY <1>1, <1>3 DEF ToEntry, InStrand, Headed
<1>5. Closing(archive, b, s) /\ s.data \in Nat
  BY <1>1, <1>4, StrandIs DEF Types
<1>6. Up(Position) = b.end
  BY <1>4, <1>5 DEF Closing
<1>7. /\ UNCHANGED <<archive, tapeVars, flbread, dblk, dataVars, ctxVars, mode, res, yields, again>>
      /\ pc' = "align" /\ back' = "yield" /\ entryDone'
  BY DEF NoData, AlignThen, outcome
<1>8. Headed(b)' /\ UNCHANGED <<Position, Here, Medium>>
  BY <1>4, <1>7, HeadedStays
<1>9. Unread(b)'
  <2>1. Upcoming(b)' /\ catFDD' = b.after.cat /\ dataRem' = 0 /\ ~Open'
    BY <1>2, <1>7
       DEF Upcoming, Outgoing, Yielding, Resuming, HeaderOf, CellAt, ctxVars, dataVars, Open
  <2>2. b.after.left = 0 /\ (dblk.type = "FILE" => ContentOf(archive, b) = <<>>)
    BY <1>4, <1>5 DEF Closing
  <2> QED BY <1>7, <2>1, <2>2 DEF Unread, ContentOf
<1>10. Announced'
  BY <1>6, <1>8, <1>9 DEF Announced, Up, Headed
<1>11. flbsize' = W /\ flbread' > 0 /\ Whole((Position - flbread)')
  BY <1>8 DEF Headed
<1>12. res' # "fail"
  BY <1>7 DEF OnCourse, Course
<1>13. Course'
  BY <1>1, <1>7, <1>10, <1>11, <1>12 DEF Course
<1> QED BY <1>1, <1>7, <1>13, ProbedStays DEF tapeVars

LEMMA CatalogEndCourse ==
  ASSUME Orderly, NoEio, OnCourse, CatalogEnd
  PROVE  Course' /\ Probed' /\ pc' # "idle"
<1>1. /\ pc = "catalog" /\ Types /\ peek = <<>> /\ strm.type = "SPAD" /\ mode = "walk"
  BY NothingAhead DEF CatalogEnd, OnCourse, Place, Ways, Behalf, InWalk
<1>2. PICK b \in Here : \E s \in b.streams :
        ToCatalog(b, s) /\ Upcoming(b) /\ dataRem = 0 /\ ~Open
  BY <1>1 DEF OnCourse, Course, Capturing
<1>3. PICK s \in b.streams : ToCatalog(b, s)
  BY <1>2
<1>4. /\ strm = StreamOf(archive, b, s) /\ dblk = HeaderOf(archive, b) /\ InStrand(b, s)
      /\ Headed(b) /\ b.at < Len(Medium) /\ HasStreams(archive, b)
      /\ dblk.type = "ESET" /\ catFDD = s.cat
  BY <1>1, <1>3 DEF ToCatalog, InStrand, Headed
<1>5. Closing(archive, b, s)
  BY <1>1, <1>4, StrandIs DEF Types
<1>6. /\ Headed(b)' /\ Position' = BehindOf(archive, b, s) /\ peek' = <<>>
      /\ AlignThen("yield")
  BY <1>1, <1>4, CatalogEndStep
<1>7. Up(Position)' = b.end
  BY <1>5, <1>6 DEF Closing, Up
<1>8. /\ UNCHANGED <<archive, dblk, dataVars, entryVars, ctxVars, mode, res, yields, again>>
      /\ pc' = "align" /\ back' = "yield"
  BY <1>6 DEF CatalogEnd, AlignThen, outcome
<1>9. Unread(b)'
  <2>1. Upcoming(b)' /\ dataRem' = 0 /\ ~Open'
    BY <1>2, <1>8
       DEF Upcoming, Outgoing, Yielding, Resuming, HeaderOf, CellAt, ctxVars, dataVars, Open, entryVars
  <2>2. b.after.left = 0 /\ catFDD' = b.after.cat /\ dblk'.type # "FILE"
    BY <1>4, <1>5, <1>8 DEF Closing, ctxVars
  <2> QED BY <2>1, <2>2 DEF Unread
<1>10. Announced'
  BY <1>6, <1>7, <1>9 DEF Announced, Headed
<1>11. flbsize' = W /\ flbread' > 0 /\ Whole((Position - flbread)')
  BY <1>6 DEF Headed
<1>12. res' # "fail"
  BY <1>8 DEF OnCourse, Course
<1>13. Course'
  BY <1>1, <1>8, <1>10, <1>11, <1>12 DEF Course
<1> QED BY <1>6, <1>8, <1>13, ProbedStays

LEMMA NotCatalogStep ==
  ASSUME Orderly, OnCourse, NotCatalog
  PROVE  Course' /\ Probed'
<1>1. /\ pc = "catalog" /\ Types /\ peek = <<>> /\ mode = "walk" /\ back = "catalog"
      /\ strm.type \notin {"TFDD", "TSMP", "SPAD"}
  BY NothingAhead DEF NotCatalog, OnCourse, Place, Ways, Behalf, InWalk, Types, Returns
<1>2. PICK b \in Here : \E s \in b.streams :
        ToCatalog(b, s) /\ Upcoming(b) /\ dataRem = 0 /\ ~Open
  BY <1>1 DEF OnCourse, Course, Capturing
<1>3. PICK s \in b.streams : ToCatalog(b, s)
  BY <1>2
<1>4. /\ InStrand(b, s) /\ dblk.type = "ESET" /\ catFDD = s.cat
      /\ strm = StreamOf(archive, b, s)
      /\ lastStream => strm.type = "SPAD" /\ did = strm.len
  BY <1>1, <1>3 DEF ToCatalog, InStrand
<1>5. /\ UNCHANGED <<archive, tapeVars, flbread, streamVars, dataVars, entryVars, ctxVars>>
      /\ UNCHANGED <<mode, back, res, yields, again>> /\ pc' = "rest"
  BY DEF NotCatalog, Goto, outcome
<1>6. InStrand(b, s)'
  BY <1>1, <1>4, <1>5, StrandStays DEF streamVars
<1>7. catFDD' = CatBehind(archive, b, s)'
  BY <1>1, <1>4, <1>5 DEF CatBehind, ctxVars, StreamOf, CellAt
<1>8. ToCatalog(b, s)'
  BY <1>1, <1>4, <1>5, <1>6, <1>7 DEF ToCatalog, streamVars
<1>9. Upcoming(b)' /\ dataRem' = 0 /\ ~Open'
  BY <1>2, <1>5
     DEF Upcoming, Outgoing, Yielding, Resuming, HeaderOf, CellAt, ctxVars, dataVars, Open, entryVars
<1>10. Capturing'
  BY <1>6, <1>8, <1>9 DEF Capturing, InStrand, Headed
<1>11. res' # "fail"
  BY <1>5 DEF OnCourse, Course
<1>12. Course'
  BY <1>1, <1>5, <1>10, <1>11 DEF Course
<1> QED BY <1>1, <1>5, <1>12, ProbedStays DEF tapeVars

LEMMA CaptureCourse ==
  ASSUME Orderly, NoEio, OnCourse, Capture
  PROVE  Course' /\ Probed' /\ pc' # "idle"
<1>1. /\ pc \in {"streams", "extra", "catalog"} /\ Types /\ peek = <<>> /\ back = pc
      /\ strm.type # "SPAD" /\ (pc = "streams" => strm.type # "STAN")
      /\ (pc = "catalog" => strm.type \in {"TFDD", "TSMP"})
  BY NothingAhead DEF Capture, OnCourse, Place, Ways, Types, Returns
<1>2. UNCHANGED <<archive, medium, flbsize, dblk, strm, dataVars, entryVars, volume, cwd>>
  BY DEF Capture
<1>3. ASSUME NEW b, NEW s, InStrand(b, s), ~Final(archive, b, s)
      PROVE  /\ InStrand(b, s)' /\ peek' = <<>> /\ b \in Here'
             /\ pc' = (IF pc = "extra" THEN "trail" ELSE "rest")
             /\ catFDD' = IF pc = "catalog" /\ strm.type = "TFDD" THEN strm.id ELSE catFDD
             /\ UNCHANGED <<mode, back, res, yields, again>>
  <2>1. /\ InStrand(b, s)' /\ peek' = <<>>
        /\ pc' = (IF pc = "extra" THEN "trail" ELSE "rest")
        /\ catFDD' = IF pc = "catalog" /\ strm.type = "TFDD" THEN strm.id ELSE catFDD
        /\ UNCHANGED <<mode, back, want, outcome>>
    BY <1>1, <1>3, CaptureStep
  <2>2. b \in Here'
    BY <2>1 DEF InStrand, Headed
  <2> QED BY <2>1, <2>2 DEF outcome
<1>4. CASE pc = "streams"
  <2>1. PICK b \in Here : \E s \in b.streams :
          ToEntry(b, s) /\ Upcoming(b) /\ catFDD = b.after.cat /\ dataRem = 0
    BY <1>4 DEF OnCourse, Course, Coming
  <2>2. PICK s \in b.streams : ToEntry(b, s)
    BY <2>1
  <2>3. strm = StreamOf(archive, b, s) /\ dblk = HeaderOf(archive, b) /\ InStrand(b, s)
    BY <2>2 DEF ToEntry, InStrand, Headed
  <2>4. ~Final(archive, b, s)
    BY <1>1, <1>4, <2>3, NotFinal
  <2>5. /\ InStrand(b, s)' /\ peek' = <<>> /\ b \in Here' /\ pc' = "rest"
        /\ UNCHANGED <<mode, back, res, yields, again>> /\ catFDD' = catFDD
    BY <1>3, <1>4, <2>3, <2>4
  <2>6. ToEntry(b, s)'
    BY <1>1, <1>2, <1>4, <2>2, <2>5 DEF ToEntry
  <2>7. Upcoming(b)' /\ catFDD' = b.after.cat /\ dataRem' = 0
    BY <1>2, <2>1, <2>5
       DEF Upcoming, Outgoing, Yielding, Resuming, HeaderOf, CellAt, dataVars
  <2>8. Coming'
    BY <2>5, <2>6, <2>7 DEF Coming
  <2>9. /\ mode' = "next" /\ pc' # "idle" => Discards' # {} /\ entryDone'
        /\ mode' # "walk" /\ pc' # "idle" => AtFile'
    BY <1>1, <1>2, <2>5, CallStays DEF OnCourse, entryVars
  <2>10. res' # "fail"
    BY <2>5 DEF OnCourse, Course
  <2>11. Course'
    BY <1>1, <1>4, <2>5, <2>8, <2>9, <2>10 DEF Course
  <2> QED BY <2>5, <2>11, ProbedStays
<1>5. CASE pc = "catalog"
  <2>1. PICK b \in Here : \E s \in b.streams :
          ToCatalog(b, s) /\ Upcoming(b) /\ dataRem = 0 /\ ~Open
    BY <1>5 DEF OnCourse, Course, Capturing
  <2>2. PICK s \in b.streams : ToCatalog(b, s)
    BY <2>1
  <2>3. strm = StreamOf(archive, b, s) /\ dblk = HeaderOf(archive, b)
        /\ InStrand(b, s) /\ dblk.type = "ESET" /\ catFDD = s.cat
    BY <1>5, <2>2 DEF ToCatalog, InStrand, Headed
  <2>4. ~Final(archive, b, s)
    BY <1>1, <2>3, NotFinal
  <2>5. /\ InStrand(b, s)' /\ peek' = <<>> /\ b \in Here' /\ pc' = "rest"
        /\ UNCHANGED <<mode, back, res, yields, again>>
        /\ catFDD' = IF strm.type = "TFDD" THEN strm.id ELSE catFDD
    BY <1>3, <1>5, <2>3, <2>4
  <2>6. catFDD' = CatBehind(archive, b, s)'
    BY <1>2, <2>3, <2>5 DEF CatBehind, StreamOf, CellAt
  <2>7. ToCatalog(b, s)'
    BY <1>1, <1>2, <2>3, <2>5, <2>6 DEF ToCatalog
  <2>8. Upcoming(b)' /\ dataRem' = 0 /\ ~Open'
    BY <1>2, <2>1, <2>5
       DEF Upcoming, Outgoing, Yielding, Resuming, HeaderOf, CellAt, dataVars, Open, entryVars
  <2>9. Capturing'
    BY <2>5, <2>7, <2>8 DEF Capturing
  <2>10. /\ mode' = "next" /\ pc' # "idle" => Discards' # {} /\ entryDone'
         /\ mode' # "walk" /\ pc' # "idle" => AtFile'
    BY <1>1, <1>2, <2>5, CallStays DEF OnCourse, entryVars
  <2>11. res' # "fail"
    BY <2>5 DEF OnCourse, Course
  <2>12. Course'
    BY <1>1, <1>5, <2>5, <2>9, <2>10, <2>11 DEF Course
  <2> QED BY <2>5, <2>12, ProbedStays
<1>6. CASE pc = "extra"
  <2>1. PICK b \in Here : \E s \in b.streams : Past(b, s)
    BY <1>6 DEF OnCourse, Course, Passed
  <2>2. PICK s \in b.streams : Past(b, s)
    BY <2>1
  <2>3. strm = StreamOf(archive, b, s) /\ dblk = HeaderOf(archive, b)
        /\ ~Resuming(b) /\ b.after.left = 0 /\ InStrand(b, s) /\ Ended(b)
    BY <2>2 DEF Past, InStrand, Headed, Ended
  <2>4. ~Final(archive, b, s)
    BY <1>1, <2>3, NotFinal
  <2>5. /\ InStrand(b, s)' /\ peek' = <<>> /\ b \in Here' /\ pc' = "trail"
        /\ UNCHANGED <<mode, back, res, yields, again>> /\ catFDD' = catFDD
    BY <1>3, <1>6, <2>3, <2>4
  <2>6. Past(b, s)'
    BY <1>2, <2>3, <2>5 DEF Past, Ended, InStrand, Context, dataVars, entryVars
  <2>7. Trailed'
    BY <2>2, <2>5, <2>6 DEF Trailed, Past
  <2>8. /\ mode' = "next" /\ pc' # "idle" => Discards' # {} /\ entryDone'
        /\ mode' # "walk" /\ pc' # "idle" => AtFile'
    BY <1>1, <1>2, <2>5, CallStays DEF OnCourse, entryVars
  <2>9. res' # "fail"
    BY <2>5 DEF OnCourse, Course
  <2>10. Course'
    BY <2>5, <2>7, <2>8, <2>9 DEF Course
  <2> QED BY <2>5, <2>10, ProbedStays
<1> QED BY <1>1, <1>4, <1>5, <1>6

-----------------------------------------------------------------------------
(* The steps through the data of a file. *)

LEMMA AtDataIs ==
  ASSUME Orderly, OnCourse, pc \in {"data", "chunk"}
  PROVE  /\ \E b \in Here : \E s \in b.streams :
              InData(b, s) /\ OfFile(b) /\ (pc = "chunk" => dataRem > b.after.left)
         /\ inData /\ mode \in {"next", "read"} /\ AtFile /\ Types
         /\ mode = "next" => Discards # {} /\ entryDone
<1>1. Types /\ mode # "walk" /\ mode \in {"next", "read"}
  BY DEF OnCourse, Place, Ways, Behalf, InFile, Types, CallType
<1>2. AtData /\ AtFile /\ (mode = "next" => Discards # {} /\ entryDone)
  BY <1>1 DEF OnCourse, Course
<1>3. \E b \in Here : \E s \in b.streams :
          InData(b, s) /\ OfFile(b) /\ (pc = "chunk" => dataRem > b.after.left)
  BY <1>2 DEF AtData
<1> QED BY <1>1, <1>2, <1>3 DEF AtData

LEMMA WalkedHere ==
  ASSUME Orderly, TapeType, NEW b \in Here
  PROVE  /\ Continues => Phys = 1 \/ Discards = {}
         /\ ~Continues /\ b.after.left > 0 => b.after.left <= 2 * W /\ Discards = {}
BY LayoutIs DEF Walked, TapeType, Here, Continues, Phys, Discards

(* Where a medium ends inside a file the data are probed for the EOTM. *)
LEMMA CutIsProbed ==
  ASSUME Orderly, Types, NEW b, NEW s, InData(b, s), dataRem = b.after.left, dataRem > 0,
         mode \in {"next", "read"}, mode = "next" => Discards # {}
  PROVE  Probing
<1>1. Whole(Position) /\ b \in Here
  BY CutHere DEF InData
<1>2. flbsize = W /\ Whole(Position - flbread) /\ Position \in Int /\ flbread \in Nat
      /\ W \in Nat \ {0}
  BY AheadIs, ReaderAssumption DEF Types, HeaderType, InData
<1>3. Whole(flbread)
  <2>1. Whole(Position - (Position - flbread))
    BY <1>1, <1>2, WholeSum
  <2>2. Position - (Position - flbread) = flbread
    BY <1>2
  <2> QED BY <2>1, <2>2
<1>4. flbread = 0 \/ flbread >= W
  <2>1. PICK q \in Int : flbread = W * q
    BY <1>2, <1>3, WholeIs
  <2>2. q <= 0 => W * q <= 0
    BY <1>2
  <2>3. q >= 1 => W * q >= W
    BY <1>2
  <2> QED BY <1>2, <2>1, <2>2, <2>3
<1>5. AtBoundary
  BY <1>2, <1>4 DEF AtBoundary
<1>6. ShouldProbe /\ (mode = "next" => Continues)
  BY <1>1, <1>2, WalkedHere DEF ShouldProbe, Types
<1> QED BY <1>5, <1>6 DEF Probing

(* The data hold no EOTM. *)
LEMMA NoEOTMAhead ==
  ASSUME Orderly, Types, NEW b, NEW s, InData(b, s), dataRem > b.after.left
  PROVE  Position + 1 <= Len(Medium) /\ ~IsEOTM(Medium[Position + 1])
<1> DEFINE g == BeginOf(archive, b, s)
           r == ReachOf(archive, b, s)
<1>1. /\ b \in Here /\ Holding(archive, b, s) /\ g \in Nat /\ did \in Nat
      /\ b.after.left \in Nat /\ Position = g + did
      /\ r = Position + (dataRem - b.after.left) /\ r <= Len(Medium)
  BY DataIs
<1>2. Position \in Nat /\ Len(Medium) \in Nat /\ dataRem \in Nat
  BY AheadIs DEF Types, HeaderType
<1>3. \A n \in g..(r - 1) : ~IsEOTM(CellAt(archive, b.m, n))
  BY <1>1 DEF Holding
<1> HIDE DEF g, r
<1>4. Position \in g..(r - 1) /\ Position + 1 <= Len(Medium)
  BY <1>1, <1>2
<1>5. CellAt(archive, b.m, Position) = Medium[Position + 1]
  BY <1>1, StopIs DEF Types, CellAt, Medium
<1> QED BY <1>3, <1>4, <1>5

LEMMA ProbeStep ==
  ASSUME Orderly, NoEio, OnCourse, Probe
  PROVE  Course' /\ Probed' /\ pc' # "idle"
<1>1. pc = "data" /\ Passing /\ Probing /\ peek = <<>> /\ dataRem > 0
  BY NothingAhead DEF Probe, OnCourse, Passing
<1>2. PICK b \in Here : \E s \in b.streams : InData(b, s) /\ OfFile(b)
  BY <1>1, AtDataIs
<1>3. PICK s \in b.streams : InData(b, s)
  BY <1>2
<1>4. /\ inData /\ mode \in {"next", "read"} /\ AtFile /\ Types
      /\ mode = "next" => Discards # {} /\ entryDone
  BY <1>1, AtDataIs
<1>5. /\ UNCHANGED <<archive, medium, flbsize, flbread, streamVars, dataVars, entryVars, ctxVars>>
  BY DEF Probe
<1>6. PICK e \in Ends :
       /\ <<IF e = "ok" THEN 1 ELSE 0, e>> \in Outcomes(1)
       /\ IF e = "ok" /\ ~IsEOTM(Ahead[1])
          THEN /\ peek' = <<Ahead[1]>>
               /\ tp' = tp + 1 - Len(peek)
               /\ Goto("chunk") /\ UNCHANGED faults
          ELSE Take(IF e = "ok" THEN 1 ELSE 0, e) /\ Proceed(e, "switch")
  BY DEF Probe
<1>7. /\ Position \in Nat /\ Len(Medium) \in Nat /\ Len(Ahead) = Len(Medium) - Position
      /\ Position = tp /\ tp \in Nat /\ dataRem \in Nat
  BY <1>1, <1>4, AheadIs DEF Types, TapeType, HeaderType, Position
<1>8. b.after.left \in Nat /\ b.after.left <= dataRem
  BY <1>3, <1>4, DataIs
<1>9. Position < Len(Medium)
  <2>1. CASE dataRem = b.after.left
    BY <1>1, <1>3, <1>4, <2>1, CutHere
  <2>2. CASE dataRem # b.after.left
    <3>1. ReachOf(archive, b, s) = Position + (dataRem - b.after.left)
          /\ ReachOf(archive, b, s) <= Len(Medium)
      BY <1>3, <1>4, DataIs
    <3> QED BY <1>7, <1>8, <2>2, <3>1
  <2> QED BY <2>1, <2>2
<1>10. e = "ok"
  BY <1>6, <1>7, <1>9 DEF Outcomes, NoEio
<1>11. Ahead[1] = Medium[Position + 1]
  <2>1. 1 \in 1..(Len(Medium) - Position)
    BY <1>7, <1>9
  <2> QED BY <1>4, <2>1, AheadAt DEF Types, OnCourse
<1>12. CASE IsEOTM(Ahead[1])
  <2>1. dataRem = b.after.left
    <3> SUFFICES ASSUME dataRem # b.after.left PROVE FALSE
      OBVIOUS
    <3>1. dataRem > b.after.left
      BY <1>7, <1>8
    <3>2. ~IsEOTM(Medium[Position + 1])
      BY <1>3, <1>4, <3>1, NoEOTMAhead
    <3> QED BY <1>11, <1>12, <3>2
  <2>2. PICK c \in Here : /\ c.at = Position /\ c.before = b.after
                          /\ HeaderOf(archive, c).type = "EOTM"
    BY <1>1, <1>3, <1>4, <2>1, CutHere
  <2>3. Take(1, "ok") /\ Goto("switch")
    BY <1>6, <1>10, <1>12 DEF Proceed
  <2>4. peek' = <<>> /\ tp' = tp + 1
    BY <1>1, <1>7, <2>3 DEF Take
  <2>5. Position' = Position + 1
    <3>1. Len(peek') = 0 /\ Position' = tp' - Len(peek')
      BY <2>4 DEF Position
    <3> QED BY <1>7, <2>4, <3>1
  <2>6. pc' = "switch" /\ UNCHANGED <<mode, res, yields, again>>
    BY <2>3 DEF Goto, outcome
  <2>7. Lost'
    <3>1. c \in Here' /\ c.at < Len(Medium') /\ HeaderOf(archive, c)'.type = "EOTM"
      BY <1>5, <1>9, <2>2, LayoutStays DEF HeaderOf, CellAt
    <3>2. Context(c.before)' /\ c.before.left = dataRem' /\ dataRem' > 0
      BY <1>1, <1>2, <1>5, <2>1, <2>2, <2>6 DEF OfFile, Context, ctxVars, dataVars
    <3>3. Position' > c.at
      BY <1>7, <2>2, <2>5
    <3> QED BY <3>1, <3>2, <3>3 DEF Lost, AtEnd
  <2>8. /\ mode' = "next" /\ pc' # "idle" => Discards' # {} /\ entryDone'
        /\ mode' # "walk" /\ pc' # "idle" => AtFile'
    BY <1>1, <1>5, <2>6, CallStays DEF OnCourse, entryVars
  <2>9. res' # "fail"
    BY <2>6 DEF OnCourse, Course
  <2>10. Course'
    BY <2>6, <2>7, <2>8, <2>9 DEF Course
  <2> QED BY <2>4, <2>6, <2>10, ProbedStays
<1>13. CASE ~IsEOTM(Ahead[1])
  <2>1. dataRem > b.after.left
    <3>1. dataRem # b.after.left
      BY <1>1, <1>3, <1>4, <1>11, <1>13, CutHere
    <3> QED BY <1>7, <1>8, <3>1
  <2>2. /\ peek' = <<Medium[tp + 1]>> /\ tp' = tp + 1 /\ Goto("chunk")
    BY <1>1, <1>6, <1>7, <1>10, <1>11, <1>13
  <2>3. Position' = Position
    <3>1. Len(peek') = 1 /\ Position' = tp' - Len(peek')
      BY <2>2 DEF Position
    <3> QED BY <1>7, <2>2, <3>1
  <2>4. pc' = "chunk" /\ UNCHANGED <<mode, res, yields, again, want>>
    BY <2>2 DEF Goto, outcome
  <2>5. AtData'
    <3>1. InData(b, s)'
      BY <1>3, <1>4, <1>5, <2>3, DataStays DEF streamVars, dataVars
    <3>2. OfFile(b)' /\ inData' /\ dataRem' > b.after.left
      BY <1>2, <1>4, <1>5, <2>1, <2>4 DEF OfFile, Context, ctxVars, dataVars, Resuming
    <3>3. Passing'
      BY <1>1, <1>5, <2>4 DEF Passing, dataVars
    <3> QED BY <1>3, <3>1, <3>2, <3>3 DEF AtData, InData
  <2>6. Probed'
    <3>1. Medium' = Medium /\ Continues' = Continues
      BY <1>5 DEF Medium, Continues
    <3>2. mode' = "next" => Continues'
      BY <1>1, <2>4, <3>1 DEF Probing
    <3> QED BY <1>7, <2>2, <2>4, <3>1, <3>2 DEF Probed
  <2>8. /\ mode' = "next" /\ pc' # "idle" => Discards' # {} /\ entryDone'
        /\ mode' # "walk" /\ pc' # "idle" => AtFile'
    BY <1>1, <1>5, <2>4, CallStays DEF OnCourse, entryVars
  <2>9. res' # "fail"
    BY <2>4 DEF OnCourse, Course
  <2>10. Course'
    BY <2>4, <2>5, <2>8, <2>9 DEF Course
  <2> QED BY <2>4, <2>6, <2>10
<1> QED BY <1>12, <1>13

LEMMA NoProbeStep ==
  ASSUME Orderly, OnCourse, NoProbe
  PROVE  Course' /\ Probed'
<1>1. pc = "data" /\ Passing /\ ~Probing /\ peek = <<>> /\ dataRem > 0
  BY NothingAhead DEF NoProbe, OnCourse, Passing
<1>2. PICK b \in Here : \E s \in b.streams : InData(b, s) /\ OfFile(b)
  BY <1>1, AtDataIs
<1>3. PICK s \in b.streams : InData(b, s)
  BY <1>2
<1>4. /\ inData /\ mode \in {"next", "read"} /\ AtFile /\ Types
      /\ mode = "next" => Discards # {} /\ entryDone
  BY <1>1, AtDataIs
<1>5. /\ UNCHANGED <<archive, tapeVars, flbread, streamVars, dataVars, entryVars, ctxVars>>
      /\ pc' = "chunk" /\ UNCHANGED <<mode, res, yields, again, want>>
  BY DEF NoProbe, Goto, outcome
<1>6. dataRem > b.after.left
  <2>1. b.after.left \in Nat /\ b.after.left <= dataRem /\ dataRem \in Nat
    BY <1>3, <1>4, DataIs DEF Types, HeaderType
  <2>2. dataRem # b.after.left
    BY <1>1, <1>3, <1>4, CutIsProbed
  <2> QED BY <2>1, <2>2
<1>7. AtData'
  <2>1. InData(b, s)'
    <3>1. Position' = Position
      BY <1>5 DEF Position, tapeVars
    <3> QED BY <1>3, <1>4, <1>5, <3>1, DataStays DEF tapeVars, streamVars, dataVars
  <2>2. OfFile(b)' /\ inData' /\ dataRem' > b.after.left
    BY <1>2, <1>4, <1>5, <1>6 DEF OfFile, Context, ctxVars, dataVars, Resuming
  <2>3. Passing'
    BY <1>1, <1>5 DEF Passing, dataVars
  <2> QED BY <1>3, <2>1, <2>2, <2>3 DEF AtData, InData
<1>8. /\ mode' = "next" /\ pc' # "idle" => Discards' # {} /\ entryDone'
      /\ mode' # "walk" /\ pc' # "idle" => AtFile'
  BY <1>1, <1>5, CallStays DEF OnCourse, entryVars
<1>9. res' # "fail"
  BY <1>5 DEF OnCourse, Course
<1>10. Course'
  BY <1>5, <1>7, <1>8, <1>9 DEF Course
<1> QED BY <1>1, <1>5, <1>10, ProbedStays DEF tapeVars

(* What Read takes is on the medium, and at least one cell.                *)
LEMMA ReadChunkIs ==
  ASSUME Orderly, NoEio, OnCourse, ReadChunk
  PROVE  \E b \in Here : \E s \in b.streams : \E k \in 1..(dataRem - b.after.left) :
           /\ InData(b, s) /\ InData(b, s)' /\ OfFile(b)
           /\ dataRem' = dataRem - k /\ got' = got \o SubSeq(Ahead, 1, k)
           /\ pc' = "data" /\ peek' = <<>> /\ k <= Len(Ahead)
           /\ UNCHANGED <<mode, back, res, readEnd, yields, again>>
<1>1. /\ pc = "chunk" /\ mode = "read" /\ Types
      /\ UNCHANGED <<archive, medium, flbsize, dblk, strm, lastStream>>
  BY DEF ReadChunk, OnCourse, Place, Ways
<1>2. PICK b \in Here : \E s \in b.streams :
        InData(b, s) /\ OfFile(b) /\ dataRem > b.after.left
  BY <1>1, AtDataIs
<1>3. PICK s \in b.streams : InData(b, s)
  BY <1>2
<1>4. dataRem > 0 /\ want > 0
  BY <1>1 DEF OnCourse, Course, AtData, Passing
<1>5. /\ dataRem \in Nat /\ want \in Nat /\ ToBoundary \in Nat /\ ToBoundary >= 1
  <2>1. flbsize = W /\ W \in Nat \ {0} /\ flbread \in Nat /\ dataRem \in Nat /\ want \in Nat
    BY <1>1, <1>3, ReaderAssumption DEF InData, Types, HeaderType, CallType
  <2>2. ToBoundary = W - (flbread % W) /\ flbread % W \in 0..(W - 1)
    BY <2>1 DEF ToBoundary
  <2> QED BY <2>1, <2>2
<1> DEFINE k == Least(Least(dataRem, want), ToBoundary)
<1>6. k \in Nat /\ k >= 1 /\ k <= dataRem /\ k <= ToBoundary
  BY <1>4, <1>5 DEF Least
<1>7. PICK j \in 0..k, e \in Ends :
           /\ ReadCells(k, j, e)
           /\ flbread' = flbread + j /\ Deliver(j)
           /\ got' = got \o SubSeq(Ahead, 1, j)
           /\ IF e = "ok"
              THEN /\ pc' = "data" /\ want' = want - j
                   /\ UNCHANGED <<mode, back, res, readEnd, yields, again>>
              ELSE /\ pc' = "idle" /\ res' = IF e = "eof" THEN "ok" ELSE "fail"
                   /\ readEnd' = (readEnd \/ e = "eof")
                   /\ UNCHANGED <<mode, back, want, yields, again>>
  BY DEF ReadChunk
<1> HIDE DEF k
<1>8. k <= dataRem - b.after.left
  BY <1>1, <1>2, <1>3, <1>6, ChunkFits
<1>9. Position + k <= Len(Medium) /\ k <= Len(Ahead)
  <2>1. /\ ReachOf(archive, b, s) = Position + (dataRem - b.after.left)
        /\ ReachOf(archive, b, s) <= Len(Medium) /\ b.after.left \in Nat
    BY <1>1, <1>3, DataIs
  <2>2. Position \in Nat /\ Len(Medium) \in Nat /\ Len(Ahead) = Len(Medium) - Position
    BY <1>1, AheadIs DEF Types
  <2> QED BY <1>5, <1>6, <1>8, <2>1, <2>2
<1>10. e = "ok" /\ j = k /\ Position' = Position + k /\ peek' = <<>>
  BY <1>1, <1>6, <1>7, <1>9, Reads DEF Types
<1>11. InData(b, s)'
  <2>1. k > 0
    BY <1>6
  <2> QED BY <1>1, <1>3, <1>6, <1>7, <1>8, <1>10, <2>1, DataMoves DEF Deliver
<1>12. k \in 1..(dataRem - b.after.left)
  <2>1. b.after.left \in Nat
    BY <1>1, <1>3, DataIs
  <2> QED BY <1>5, <1>6, <1>8, <2>1
<1> QED BY <1>2, <1>3, <1>7, <1>9, <1>10, <1>11, <1>12 DEF Deliver

LEMMA ReadChunkStep ==
  ASSUME Orderly, NoEio, OnCourse, ReadChunk
  PROVE  Course' /\ Probed'
<1>1. PICK b \in Here : \E s \in b.streams : \E k \in 1..(dataRem - b.after.left) :
        /\ InData(b, s)' /\ OfFile(b) /\ pc' = "data" /\ peek' = <<>>
        /\ UNCHANGED <<mode, back, res, readEnd, yields, again>>
  BY ReadChunkIs
<1>2. /\ pc = "chunk" /\ UNCHANGED <<archive, medium, entryVars, ctxVars, inData, streamContinued>>
  BY DEF ReadChunk
<1>3. inData
  BY <1>2, AtDataIs
<1>4. OfFile(b)' /\ inData' /\ b \in Here'
  BY <1>1, <1>2, <1>3, LayoutStays DEF OfFile, Context, ctxVars, Resuming
<1>5. AtData'
  BY <1>1, <1>4 DEF AtData
<1>6. /\ mode' = "next" /\ pc' # "idle" => Discards' # {} /\ entryDone'
      /\ mode' # "walk" /\ pc' # "idle" => AtFile'
  BY <1>1, <1>2, CallStays DEF OnCourse, entryVars
<1>7. res' # "fail"
  BY <1>1 DEF OnCourse, Course
<1>8. Course'
  BY <1>1, <1>5, <1>6, <1>7 DEF Course
<1> QED BY <1>1, <1>8, ProbedStays

(* Next passes over what is on the medium. *)
LEMMA SkipChunkStep ==
  ASSUME Orderly, NoEio, OnCourse, SkipChunk
  PROVE  Course' /\ Probed' /\ pc' # "idle"
<1>1. /\ pc = "chunk" /\ mode = "next" /\ Types /\ Probed
      /\ UNCHANGED <<archive, medium, flbsize, dblk, strm, lastStream, inData,
                     streamContinued, entryVars, ctxVars>>
  BY DEF SkipChunk, OnCourse, Place, Ways
<1>2. PICK b \in Here : \E s \in b.streams :
        InData(b, s) /\ OfFile(b) /\ dataRem > b.after.left
  BY <1>1, AtDataIs
<1>3. PICK s \in b.streams : InData(b, s)
  BY <1>2
<1>4. dataRem > 0 /\ inData /\ Discards # {}
  BY <1>1, AtDataIs DEF OnCourse, Course, AtData, Passing
<1>5. /\ dataRem \in Nat /\ ToBoundary \in Nat /\ ToBoundary >= 1
  <2>1. flbsize = W /\ W \in Nat \ {0} /\ flbread \in Nat /\ dataRem \in Nat
    BY <1>1, <1>3, ReaderAssumption DEF InData, Types, HeaderType
  <2>2. ToBoundary = W - (flbread % W) /\ flbread % W \in 0..(W - 1)
    BY <2>1 DEF ToBoundary
  <2> QED BY <2>1, <2>2
<1>6. b.after.left \in Nat /\ (~Continues => b.after.left = 0) /\ (Continues => Phys = 1)
  <2>1. b.after.left \in Nat
    BY <1>1, <1>3, DataIs
  <2> QED BY <1>1, <1>4, <2>1, WalkedHere DEF Types
<1> DEFINE k == IF Continues THEN Least(dataRem, ToBoundary) ELSE dataRem
<1>7. k \in Nat /\ k >= 1 /\ k <= dataRem /\ (k <= ToBoundary \/ b.after.left = 0)
  BY <1>4, <1>5, <1>6 DEF Least
<1>8. PICK j \in 0..k, e \in Ends :
           /\ SkipCells(k, j, e)
           /\ did' = did + j
           /\ flbread' = (IF e = "ok" THEN Wrap(flbread + j) ELSE flbread + j)
           /\ dataRem' = (IF e = "ok" THEN dataRem - j ELSE dataRem)
           /\ Proceed(e, "data")
  BY DEF SkipChunk
<1> HIDE DEF k
<1>9. k <= dataRem - b.after.left
  BY <1>1, <1>2, <1>3, <1>7, ChunkFits
<1>10. Position + k <= Len(Medium)
  <2>1. /\ ReachOf(archive, b, s) = Position + (dataRem - b.after.left)
        /\ ReachOf(archive, b, s) <= Len(Medium)
    BY <1>1, <1>3, DataIs
  <2>2. Position \in Nat /\ Len(Medium) \in Nat
    BY <1>1, AheadIs DEF Types
  <2> QED BY <1>5, <1>6, <1>7, <1>9, <2>1, <2>2
<1>11. e = "ok" /\ j = k /\ Position' = Position + k /\ peek' = <<>>
  <2>1. peek = <<>> \/ (k > 0 /\ Phys = 1)
    BY <1>1, <1>6, <1>7 DEF Probed
  <2>2. (e = "ok" /\ j = k) \/ (e = "eio" /\ ~NoEio)
    BY <1>1, <1>7, <1>8, <1>10, <2>1, Skips DEF Types
  <2> QED BY <1>1, <1>7, <1>8, <1>10, <2>1, <2>2, Skips DEF Types
<1>12. InData(b, s)'
  <2>1. k > 0
    BY <1>7
  <2> QED BY <1>1, <1>3, <1>7, <1>8, <1>9, <1>11, <2>1, DataMoves
<1>13. pc' = "data" /\ UNCHANGED <<mode, res, yields, again>>
  BY <1>8, <1>11 DEF Proceed, Goto, outcome
<1>14. OfFile(b)' /\ inData' /\ b \in Here'
  BY <1>1, <1>2, <1>4, <1>13, LayoutStays DEF OfFile, Context, ctxVars, Resuming
<1>15. AtData'
  BY <1>3, <1>12, <1>13, <1>14 DEF AtData
<1>16. /\ mode' = "next" /\ pc' # "idle" => Discards' # {} /\ entryDone'
       /\ mode' # "walk" /\ pc' # "idle" => AtFile'
  BY <1>1, <1>13, CallStays DEF OnCourse, entryVars
<1>17. res' # "fail"
  BY <1>13 DEF OnCourse, Course
<1>18. Course'
  BY <1>13, <1>15, <1>16, <1>17 DEF Course
<1> QED BY <1>11, <1>13, <1>18, ProbedStays

LEMMA ReadReturnsStep ==
  ASSUME Orderly, OnCourse, ReadReturns, ~readEnd
  PROVE  Course' /\ Probed'
<1>1. pc = "data" /\ mode = "read" /\ Types /\ peek = <<>>
  BY NothingAhead DEF ReadReturns, OnCourse, Place, Ways
<1>2. PICK b \in Here : \E s \in b.streams : InData(b, s) /\ OfFile(b)
  BY <1>1, AtDataIs
<1>3. PICK s \in b.streams : InData(b, s)
  BY <1>2
<1>4. inData /\ AtFile
  BY <1>1, AtDataIs
<1>5. /\ UNCHANGED <<archive, tapeVars, streamVars, dataVars, entryVars, ctxVars>>
      /\ flbread' = Wrap(flbread) /\ res' = "ok" /\ pc' = "idle"
      /\ UNCHANGED <<mode, readEnd, yields, again>>
  BY DEF ReadReturns
<1>6. Open'
  <2>1. ~entryDone /\ cur # None
    BY <1>1 DEF OnCourse, Place, Ways, OpenRead, CurKnown, Trailing
  <2> QED BY <1>5, <2>1 DEF Open, entryVars
<1>7. InData(b, s)'
  <2>1. Position' = Position
    BY <1>5 DEF Position, tapeVars
  <2> QED BY <1>1, <1>3, <1>5, <2>1, DataStays DEF tapeVars, streamVars, dataVars
<1>8. OfFile(b)' /\ inData' /\ AtFile' /\ ~readEnd'
  BY <1>2, <1>4, <1>5 DEF OfFile, Context, ctxVars, dataVars, Resuming, AtFile
<1>9. Resting'
  BY <1>3, <1>6, <1>7, <1>8 DEF Resting, InData
<1>10. Course'
  BY <1>5, <1>9 DEF Course
<1> QED BY <1>1, <1>5, <1>10, ProbedStays DEF tapeVars

LEMMA DataDoneStep ==
  ASSUME Orderly, OnCourse, DataDone
  PROVE  Course' /\ Probed' /\ dataRem = 0
<1>1. pc = "data" /\ Types /\ peek = <<>> /\ dataRem = 0
  <2>1. dataRem <= 0 /\ dataRem \in Nat
    BY DEF DataDone, OnCourse, Place, Ways, Types, HeaderType
  <2> QED BY <2>1, NothingAhead DEF DataDone, OnCourse, Place, Ways
<1>2. PICK b \in Here : \E s \in b.streams : InData(b, s) /\ OfFile(b)
  BY <1>1, AtDataIs
<1>3. PICK s \in b.streams : InData(b, s)
  BY <1>2
<1>4. /\ UNCHANGED <<archive, tapeVars, streamVars, streamContinued, ctxVars>>
      /\ flbread' = flbread \/ flbread' = Wrap(flbread)
      /\ dataRem' = 0 /\ entryDone' /\ pc' = "trail"
      /\ UNCHANGED <<mode, res, yields, again>>
  BY DEF DataDone, Goto, outcome
<1>5. Trailed'
  BY <1>1, <1>2, <1>3, <1>4, DataEnds
<1>6. /\ mode' = "next" /\ pc' # "idle" => Discards' # {} /\ entryDone'
      /\ mode' # "walk" /\ pc' # "idle" => AtFile'
  BY <1>1, <1>4, CallStays DEF OnCourse
<1>7. res' # "fail"
  BY <1>4 DEF OnCourse, Course
<1>8. Course'
  BY <1>4, <1>5, <1>6, <1>7 DEF Course
<1> QED BY <1>1, <1>4, <1>8, ProbedStays DEF tapeVars

-----------------------------------------------------------------------------
(* The end of an entry. *)

LEMMA TrailStep ==
  ASSUME Orderly, OnCourse, Trail
  PROVE  Course' /\ Probed'
<1>1. pc = "trail" /\ Types /\ peek = <<>>
  BY NothingAhead DEF Trail, OnCourse, Place, Ways
<1>2. PICK b \in Here : /\ Ended(b)
                        /\ IF Resuming(b) THEN Up(Position) = b.end
                                          ELSE \E s \in b.streams : Past(b, s)
  BY <1>1 DEF OnCourse, Course, Trailed
<1>3. /\ UNCHANGED <<archive, tapeVars, flbread, streamVars, inData, dataRem, entryVars, ctxVars>>
      /\ UNCHANGED <<mode, res, yields, again>>
  BY DEF Trail, AlignThen, outcome
<1>4. /\ Headed(b) /\ b.at < Len(Medium) /\ HeaderOf(archive, b).type = "FILE"
      /\ b.after.left = 0 /\ Context(b.after) /\ dataRem = 0 /\ entryDone
      /\ (streamContinued <=> Resuming(b))
  BY <1>2 DEF Ended, Headed
<1>5. Headed(b)' /\ UNCHANGED <<Position, Here, Medium>>
  BY <1>3, <1>4, HeadedStays DEF streamVars
<1>6. PICK c \in Here : c.at = b.end /\ c.before = b.after
  BY <1>1, <1>2, <1>4, LeadsOn DEF Types
<1>7. /\ mode' = "next" /\ pc' # "idle" => Discards' # {} /\ entryDone'
      /\ mode' # "walk" /\ pc' # "idle" => AtFile'
  BY <1>1, <1>3, CallStays DEF OnCourse, entryVars
<1>8. res' # "fail" /\ peek' = <<>>
  BY <1>1, <1>3 DEF OnCourse, Course, tapeVars
<1>9. CASE Up(Position) = b.end /\ ~streamContinued' /\ AlignThen("finished")
  <2>1. Finishing(Up(Position))'
    <3>1. Up(Position)' = c.at
      BY <1>5, <1>6, <1>9 DEF Up
    <3>2. Context(b.after)' /\ dataRem' = 0 /\ entryDone'
      BY <1>3, <1>4 DEF Context, ctxVars, entryVars
    <3> QED BY <1>4, <1>5, <1>6, <1>9, <3>1, <3>2 DEF Finishing, Stop
  <2>2. flbsize' = W /\ flbread' > 0 /\ Whole((Position - flbread)')
    BY <1>5 DEF Headed
  <2>3. Course'
    BY <1>7, <1>8, <1>9, <2>1, <2>2 DEF Course, AlignThen
  <2> QED BY <1>8, <2>3, ProbedStays
<1>10. CASE Resuming(b)
  <2>1. Up(Position) = b.end /\ ~streamContinued' /\ AlignThen("finished")
    BY <1>2, <1>4, <1>10 DEF Trail
  <2> QED BY <1>9, <2>1
<1>11. CASE ~Resuming(b)
  <2>1. PICK s \in b.streams : Past(b, s)
    BY <1>2, <1>11
  <2>2. /\ InStrand(b, s) /\ strm = StreamOf(archive, b, s) /\ HasStreams(archive, b)
        /\ Position = s.data + did
        /\ (lastStream => strm.type = "SPAD" /\ did = strm.len)
    BY <2>1 DEF Past, InStrand
  <2>3. ~streamContinued /\ UNCHANGED streamContinued
    BY <1>4, <1>11 DEF Trail
  <2>4. CASE lastStream
    <3>1. Closing(archive, b, s)
      BY <1>1, <1>2, <1>4, <2>1, <2>2, <2>4, StrandIs DEF Types
    <3>2. Up(Position) = b.end
      BY <2>2, <2>4, <3>1 DEF Closing, BehindOf
    <3>3. AlignThen("finished")
      BY <2>3, <2>4 DEF Trail
    <3> QED BY <1>9, <2>3, <3>2, <3>3
  <2>5. CASE ~lastStream
    <3>1. pc' = "rest" /\ back' = "extra"
      BY <2>3, <2>5 DEF Trail
    <3>2. InStrand(b, s)'
      BY <1>1, <1>3, <2>2, <2>5, <3>1, StrandStays DEF streamVars
    <3>3. Past(b, s)'
      BY <1>3, <1>5, <2>1, <2>3, <3>2 DEF Past, Ended, Context, ctxVars, entryVars, streamVars
    <3>4. Passed'
      BY <1>5, <2>1, <3>3 DEF Passed, Headed
    <3>5. Course'
      BY <1>7, <1>8, <3>1, <3>4 DEF Course
    <3> QED BY <1>8, <3>5, ProbedStays
  <2> QED BY <2>4, <2>5
<1> QED BY <1>10, <1>11

LEMMA TrailEndStep ==
  ASSUME Orderly, OnCourse, TrailEnd
  PROVE  Course' /\ Probed'
<1>1. pc = "extra" /\ Types /\ peek = <<>> /\ strm.type = "SPAD"
  BY NothingAhead DEF TrailEnd, OnCourse, Place, Ways
<1>2. PICK b \in Here : \E s \in b.streams : Past(b, s)
  BY <1>1 DEF OnCourse, Course, Passed
<1>3. PICK s \in b.streams : Past(b, s)
  BY <1>2
<1>4. /\ UNCHANGED <<archive, tapeVars, flbread, streamVars, dataVars, entryVars, ctxVars>>
      /\ UNCHANGED <<mode, res, yields, again>> /\ pc' = "trail"
  BY DEF TrailEnd, Goto, outcome
<1>5. InStrand(b, s) /\ Headed(b) /\ (lastStream => strm.type = "SPAD" /\ did = strm.len)
  BY <1>3 DEF Past, InStrand
<1>6. InStrand(b, s)' /\ Headed(b)' /\ b \in Here'
  <2>1. InStrand(b, s)'
    BY <1>1, <1>4, <1>5, StrandStays DEF streamVars
  <2> QED BY <2>1 DEF InStrand, Headed
<1>7. Past(b, s)'
  BY <1>3, <1>4, <1>6 DEF Past, Ended, Context, Resuming, ctxVars, dataVars, entryVars, streamVars
<1>8. Trailed'
  BY <1>3, <1>6, <1>7 DEF Trailed, Past
<1>9. /\ mode' = "next" /\ pc' # "idle" => Discards' # {} /\ entryDone'
      /\ mode' # "walk" /\ pc' # "idle" => AtFile'
  BY <1>1, <1>4, CallStays DEF OnCourse, entryVars
<1>10. res' # "fail"
  BY <1>4 DEF OnCourse, Course
<1>11. Course'
  BY <1>4, <1>8, <1>9, <1>10 DEF Course
<1> QED BY <1>1, <1>4, <1>11, ProbedStays DEF tapeVars

LEMMA FinishedStep ==
  ASSUME Orderly, OnCourse, Finished
  PROVE  Course' /\ Probed'
<1>1. pc = "finished" /\ Types /\ peek = <<>> /\ Stop(Position) /\ dataRem = 0
      /\ entryDone /\ ~streamContinued
  BY NothingAhead DEF Finished, OnCourse, Place, Ways, Course, Finishing
<1>2. /\ UNCHANGED <<archive, tapeVars, flbread, streamVars, streamContinued, entryVars,
                     ctxVars, yields, again>>
  BY DEF Finished
<1>3. UNCHANGED <<Position, Here, Medium>>
  BY <1>2, LayoutStays DEF tapeVars, Position
<1>4. dataRem' = 0 /\ ~Open'
  BY <1>1, <1>2 DEF Finished, Open, entryVars
<1>5. Stop(Position)'
  BY <1>1, <1>2, <1>3, <1>4 DEF Stop, Context, ctxVars
<1>6. CASE mode = "read"
  <2>1. pc' = "idle" /\ res' = "ok"
    BY <1>6 DEF Finished
  <2>2. Resting'
    BY <1>1, <1>2, <1>4, <1>5 DEF Resting
  <2> QED BY <1>1, <1>2, <2>1, <2>2, ProbedStays DEF Course, tapeVars
<1>7. CASE mode # "read"
  <2>1. pc' = "scan" /\ mode' = "walk" /\ res' = res
    BY <1>7 DEF Finished
  <2>2. Seeking(Position)'
    BY <1>1, <1>2, <1>4, <1>5, <2>1 DEF Seeking, Alone
  <2>3. res' # "fail"
    BY <2>1 DEF OnCourse, Course
  <2>4. Course'
    BY <2>1, <2>2, <2>3 DEF Course
  <2> QED BY <1>1, <1>2, <2>4, ProbedStays DEF tapeVars
<1> QED BY <1>6, <1>7

(* Where the data of a file go on. *)
LEMMA ContinuationStep ==
  ASSUME Orderly, OnCourse, ContinuationFile
  PROVE  Course' /\ Probed' /\ (dataRem' = dataRem)
<1>1. pc = "contfile" /\ Types /\ peek = <<>> /\ mode # "walk" /\ back = "contfile"
  BY NothingAhead DEF ContinuationFile, OnCourse, Place, Ways, Behalf, InFile, Types, Returns
<1>2. PICK b \in Here : \E s \in b.streams :
        ToRest(b, s) /\ Context(b.before) /\ b.before.left = dataRem
  BY <1>1 DEF OnCourse, Course, Rejoining
<1>3. PICK s \in b.streams : ToRest(b, s)
  BY <1>2
<1>4. /\ InStrand(b, s) /\ Headed(b) /\ dblk.type = "FILE" /\ dblk = HeaderOf(archive, b)
      /\ b.at < Len(Medium) /\ HasStreams(archive, b) /\ Resuming(b) /\ ~s.past
      /\ strm = StreamOf(archive, b, s) /\ did = 0 /\ Position = s.data + did
      /\ (lastStream => strm.type = "SPAD" /\ did = strm.len)
  BY <1>1, <1>3 DEF ToRest, InStrand, Headed
<1>5. /\ UNCHANGED <<archive, tapeVars, flbread, dblk, strm, lastStream, entryVars, ctxVars>>
      /\ UNCHANGED <<mode, res, yields, again>>
  BY DEF ContinuationFile, AlignThen, Goto, outcome
<1>6. Headed(b)' /\ UNCHANGED <<Position, Here, Medium>>
  BY <1>4, <1>5, HeadedStays
<1>7. /\ mode' = "next" /\ pc' # "idle" => Discards' # {} /\ entryDone'
      /\ mode' # "walk" /\ pc' # "idle" => AtFile'
  BY <1>1, <1>5, CallStays DEF OnCourse, entryVars
<1>8. res' # "fail" /\ Probed'
  BY <1>1, <1>5, ProbedStays DEF OnCourse, Course, tapeVars
<1>9. strm.type # "SPAD"
  <2> SUFFICES ASSUME strm.type = "SPAD" PROVE FALSE
    OBVIOUS
  <2>1. Closing(archive, b, s)
    BY <1>1, <1>3, <1>4, StrandIs DEF Types
  <2> QED BY <1>4, <2>1 DEF Closing, Resuming
<1>10. CASE strm.type = "STAN"
  <2>1. /\ inData' = TRUE /\ dataRem' = strm.len /\ streamContinued' = TRUE /\ did' = 0
        /\ IF ToNextFLB THEN AlignThen("data") ELSE Goto("data")
    <3>1. ~(strm.type = "SPAD" \/ lastStream)
      BY <1>4, <1>9
    <3> QED BY <1>10, <3>1 DEF ContinuationFile
  <2>2. Content(archive, b, s) /\ Holding(archive, b, s) /\ s.data \in Nat
    BY <1>1, <1>3, <1>4, <1>10, StrandIs DEF Content, Types
  <2>3. /\ strm.len = b.before.left /\ b.after.left <= strm.len /\ strm.len \in Nat
        /\ b.after.left \in Nat /\ dataRem' = dataRem /\ dataRem' > 0
    <3>1. b.before.left \in Nat /\ b.after.left \in Nat
      BY <1>1, <1>4, StopIs DEF Types, Contexts
    <3>2. strm.len = b.before.left /\ b.after.left <= strm.len
      BY <1>4, <2>2 DEF Holding
    <3> QED BY <1>2, <1>4, <2>1, <3>1, <3>2 DEF Resuming
  <2>4. OfFile(b)'
    <3>1. Leads(archive, b)
      BY <1>1, <1>2, <1>4, LeadsOn DEF Types
    <3>2. /\ b.after.seen = b.before.seen /\ b.after.volume = b.before.volume
          /\ b.after.cwd = b.before.cwd /\ b.after.cat = b.before.cat
      BY <1>4, <3>1 DEF Leads, Yielding
    <3>3. Context(b.after)'
      BY <1>2, <1>5, <3>2 DEF Context, ctxVars
    <3>4. streamContinued' = Resuming(b)
      <4>1. Resuming(b) = TRUE
        BY <1>4 DEF Resuming
      <4> QED BY <2>1, <4>1
    <3> QED BY <3>3, <3>4 DEF OfFile
  <2>5. CASE ToNextFLB
    <3>1. pc' = "align" /\ back' = "data" /\ strm.cont
      BY <2>1, <2>5 DEF AlignThen, ToNextFLB
    <3>2. InStrand(b, s)'
      <4>1. did' = did
        BY <1>4, <2>1
      <4> QED BY <1>1, <1>4, <1>5, <1>9, <3>1, <4>1, StrandStays
    <3>3. ToRest(b, s)'
      BY <1>4, <1>5, <3>1, <3>2 DEF ToRest
    <3>4. Continuing'
      BY <1>2, <1>3, <1>5, <1>6, <1>10, <2>1, <2>3, <2>4, <3>1, <3>3 DEF Continuing
    <3>5. flbsize' = W /\ flbread' > 0 /\ Whole((Position - flbread)')
      BY <1>6 DEF Headed
    <3>6. Course'
      BY <1>7, <1>8, <3>1, <3>4, <3>5 DEF Course
    <3> QED BY <1>8, <2>3, <3>6
  <2>6. CASE ~ToNextFLB
    <3>1. pc' = "data" /\ ~strm.cont
      <4>1. flbsize > 0
        BY <1>4, ReaderAssumption DEF Headed
      <4> QED BY <2>1, <2>6, <4>1 DEF Goto, ToNextFLB
    <3>2. InData(b, s)'
      <4>1. /\ b \in Here' /\ b.at < Len(Medium') /\ flbsize' = W
            /\ Whole(Position' - flbread')
        BY <1>6 DEF Headed
      <4>2. dblk' = HeaderOf(archive, b)' /\ strm' = StreamOf(archive, b, s)' /\ ~lastStream'
            /\ Content(archive, b, s)' /\ BeginOf(archive, b, s)' = s.data
        BY <1>4, <1>5, <1>9, <2>2, <3>1 DEF HeaderOf, StreamOf, CellAt, Content, BeginOf
      <4>3. did' <= strm'.len - b.after.left /\ dataRem' = strm'.len - did'
        BY <1>5, <2>1, <2>3
      <4>4. Position' = BeginOf(archive, b, s)' + did'
        BY <1>4, <1>6, <2>1, <4>2
      <4> QED BY <1>3, <2>3, <4>1, <4>2, <4>3, <4>4 DEF InData
    <3>3. AtData'
      BY <1>3, <1>6, <2>1, <2>4, <3>1, <3>2 DEF AtData
    <3>4. Course'
      BY <1>7, <1>8, <3>1, <3>3 DEF Course
    <3> QED BY <1>8, <2>3, <3>4
  <2> QED BY <2>5, <2>6
<1>11. CASE strm.type # "STAN"
  <2>1. Goto("rest") /\ UNCHANGED <<did, dataVars>>
    BY <1>4, <1>9, <1>11 DEF ContinuationFile
  <2>2. pc' = "rest" /\ back' = "contfile"
    BY <1>1, <2>1 DEF Goto
  <2>3. InStrand(b, s)'
    BY <1>1, <1>4, <1>5, <1>9, <2>1, <2>2, StrandStays
  <2>4. ToRest(b, s)'
    BY <1>4, <1>5, <1>9, <1>11, <2>3 DEF ToRest
  <2>5. Rejoining'
    BY <1>2, <1>3, <1>5, <1>6, <2>1, <2>4 DEF Rejoining, Context, ctxVars, dataVars
  <2>6. Course'
    BY <1>7, <1>8, <2>2, <2>5 DEF Course
  <2> QED BY <1>8, <2>1, <2>6 DEF dataVars
<1> QED BY <1>10, <1>11

-----------------------------------------------------------------------------
(* The calls. *)

LEMMA ReadyIs ==
  ASSUME NoEio, Ready
  PROVE  pc = "idle" /\ res = "ok"
BY DEF Ready, NoEio

LEMMA CallNextStep ==
  ASSUME Orderly, NoEio, OnCourse, CallNext
  PROVE  Course' /\ Probed'
<1>1. pc = "idle" /\ res = "ok" /\ Types /\ peek = <<>> /\ Resting
  BY ReadyIs, NothingAhead DEF CallNext, OnCourse, Place, Ways, Course
<1>2. /\ UNCHANGED <<archive, tapeVars, flbread, streamVars, streamContinued, cur, ctxVars>>
      /\ UNCHANGED <<res, yields, again>>
  BY DEF CallNext, outcome
<1>3. res' # "fail" /\ Probed'
  BY <1>1, <1>2, ProbedStays DEF tapeVars
<1>4. UNCHANGED <<Position, Here, Medium>>
  BY <1>2, LayoutStays DEF tapeVars, Position
<1>5. CASE Open
  <2>1. PICK b \in Here : \E s \in b.streams : InData(b, s) /\ OfFile(b)
    BY <1>1, <1>5 DEF Resting
  <2>2. PICK s \in b.streams : InData(b, s)
    BY <2>1
  <2>3. inData /\ AtFile /\ ~readEnd
    BY <1>1, <1>5 DEF Resting
  <2>4. /\ mode' = "next" /\ entryDone' /\ pc' = (IF DataLeft THEN "data" ELSE "trail")
        /\ UNCHANGED <<inData, dataRem>> /\ Discards # {}
    BY <1>5, <2>3 DEF CallNext, Open
  <2>5. Discards' # {} /\ AtFile'
    BY <1>2, <2>3, <2>4 DEF Discards, AtFile
  <2>6. CASE DataLeft
    <3>1. InData(b, s)'
      BY <1>1, <1>2, <1>4, <2>2, <2>4, DataStays DEF tapeVars, streamVars
    <3>2. OfFile(b)' /\ inData'
      BY <1>2, <2>1, <2>3, <2>4 DEF OfFile, Context, ctxVars, Resuming
    <3>3. AtData'
      BY <2>2, <2>4, <2>6, <3>1, <3>2 DEF AtData, InData
    <3> QED BY <1>3, <2>4, <2>5, <2>6, <3>3 DEF Course
  <2>7. CASE ~DataLeft
    <3>1. dataRem = 0
      BY <1>1, <2>3, <2>7 DEF DataLeft, Types, HeaderType
    <3>2. Trailed'
      BY <1>1, <1>2, <2>1, <2>2, <2>4, <2>7, <3>1, DataEnds
    <3> QED BY <1>3, <2>4, <2>5, <2>7, <3>2 DEF Course
  <2> QED BY <2>6, <2>7
<1>6. CASE ~Open
  <2>1. mode' = "walk" /\ pc' = "scan" /\ dataRem' = 0 /\ UNCHANGED entryDone
    BY <1>6 DEF CallNext, Open
  <2>2. Stop(Position) /\ dataRem = 0 /\ ~streamContinued
    BY <1>1, <1>6 DEF Resting
  <2>3. Seeking(Position)'
    BY <1>2, <1>4, <1>6, <2>1, <2>2 DEF Seeking, Stop, Alone, Open, Context, ctxVars
  <2> QED BY <1>3, <2>1, <2>3 DEF Course
<1> QED BY <1>5, <1>6

LEMMA CallReadStep ==
  ASSUME Orderly, NoEio, OnCourse, NEW n \in 1..MaxRead, CallRead(n)
  PROVE  Course' /\ Probed'
<1>1. pc = "idle" /\ res = "ok" /\ Types /\ peek = <<>> /\ Resting /\ AtFile /\ ~readEnd
      /\ cur # None
  BY ReadyIs, NothingAhead DEF CallRead, OnCourse, Place, Ways, Course, CurKnown
<1>2. /\ UNCHANGED <<archive, tapeVars, flbread, streamVars, dataVars, cur, ctxVars>>
      /\ UNCHANGED <<yields, again>> /\ res' = "ok" /\ mode' = "read"
  BY <1>1 DEF CallRead
<1>3. Probed'
  BY <1>1, <1>2, ProbedStays DEF tapeVars
<1>4. UNCHANGED <<Position, Here, Medium>>
  BY <1>2, LayoutStays DEF tapeVars, Position
<1>5. AtFile'
  BY <1>1, <1>2 DEF AtFile
<1>6. CASE entryDone
  <2>1. pc' = "idle" /\ UNCHANGED entryDone
    BY <1>1, <1>6 DEF CallRead
  <2>2. ~Open /\ ~Open'
    BY <1>6, <2>1 DEF Open
  <2>3. Resting'
    BY <1>1, <1>2, <1>4, <2>2 DEF Resting, Stop, Context, ctxVars, dataVars
  <2> QED BY <1>2, <1>3, <2>1, <2>3 DEF Course
<1>7. CASE ~entryDone
  <2>0. Open
    BY <1>1, <1>7 DEF Open
  <2>1. PICK b \in Here : \E s \in b.streams : InData(b, s) /\ OfFile(b)
    BY <1>1, <2>0 DEF Resting
  <2>2. PICK s \in b.streams : InData(b, s)
    BY <2>1
  <2>3. inData
    BY <1>1, <2>0 DEF Resting
  <2>4. CASE DataLeft
    <3>1. pc' = "data"
      BY <1>7, <2>4 DEF CallRead
    <3>2. InData(b, s)'
      BY <1>1, <1>2, <1>4, <2>2, DataStays DEF tapeVars, streamVars, dataVars
    <3>3. OfFile(b)' /\ inData'
      BY <1>2, <2>1, <2>3 DEF OfFile, Context, ctxVars, dataVars, Resuming
    <3>4. AtData'
      BY <2>2, <3>1, <3>2, <3>3 DEF AtData, InData
    <3> QED BY <1>2, <1>3, <1>5, <3>1, <3>4 DEF Course
  <2>5. CASE ~DataLeft
    <3>1. dataRem = 0 /\ pc' = "trail" /\ entryDone'
      BY <1>1, <1>7, <2>3, <2>5 DEF DataLeft, Types, HeaderType, CallRead
    <3>2. Trailed'
      BY <1>1, <1>2, <2>1, <2>2, <3>1, DataEnds DEF dataVars
    <3> QED BY <1>2, <1>3, <1>5, <3>1, <3>2 DEF Course
  <2> QED BY <2>4, <2>5
<1> QED BY <1>6, <1>7

-----------------------------------------------------------------------------
(* A walk that was cut off. *)

LEMMA Shrinks ==
  ASSUME NEW m \in Nat, NEW n \in Nat, NEW o \in Nat, m <= n
  PROVE  \A p \in (n + 1)..o : p \in (m + 1)..o
OBVIOUS

LEMMA VoidReads ==
  ASSUME TapeType, Void, NEW k \in Nat, NEW j \in Nat, NEW e,
         ReadCells(k, j, e) \/ SkipCells(k, j, e), UNCHANGED <<archive, medium>>
  PROVE  Void'
<1>1. UNCHANGED Medium /\ Len(Medium) \in Nat /\ tp \in Nat
  BY MediumIs DEF Medium, TapeType
<1>2. ASSUME peek' \in {<<>>, <<Pad>>}, tp' \in Nat, tp' >= tp PROVE Void'
  <2>1. \A p \in (tp' + 1)..Len(Medium) : p \in (tp + 1)..Len(Medium)
    <3>1. tp <= tp'
      BY <1>1, <1>2
    <3> QED BY <1>1, <1>2, <3>1, Shrinks
  <2> QED BY <1>1, <1>2, <2>1 DEF Void
<1>3. CASE ReadCells(k, j, e)
  <2>1. peek' = SubSeq(peek, j + 1, Len(peek))
        /\ tp' = tp + (IF j > Len(peek) THEN j - Len(peek) ELSE 0)
    BY <1>3 DEF ReadCells, Take
  <2>2. CASE peek = <<>>
    <3>1. Len(peek) = 0
      BY <2>2
    <3>2. SubSeq(<<>>, j + 1, 0) = <<>>
      <4>1. j + 1 \in Int /\ 0 \in Int /\ 0 < j + 1
        OBVIOUS
      <4> QED BY <4>1, SubSeqEmpty
    <3>3. peek' = <<>>
      BY <2>1, <2>2, <3>1, <3>2
    <3>4. tp' \in Nat /\ tp' >= tp
      BY <1>1, <2>1, <3>1
    <3> QED BY <1>2, <3>3, <3>4
  <2>3. CASE peek = <<Pad>>
    <3> DEFINE s == <<Pad>>
    <3>1. Len(peek) = 1 /\ s \in Seq({Pad}) /\ Len(s) = 1
      BY <2>3
    <3>2. tp' \in Nat /\ tp' >= tp
      BY <1>1, <2>1, <3>1
    <3> HIDE DEF s
    <3>3. peek' = SubSeq(s, j + 1, 1)
      BY <2>1, <2>3, <3>1 DEF s
    <3>4. CASE j = 0
      <4>1. SubSeq(s, 1, Len(s)) = s
        BY <3>1, SubSeqFull
      <4>2. peek' = s
        BY <3>1, <3>3, <3>4, <4>1
      <4> QED BY <1>2, <3>2, <4>2 DEF s
    <3>5. CASE j # 0
      <4>1. SubSeq(s, j + 1, 1) = <<>>
        BY <3>1, <3>5, SubSeqEmpty
      <4> QED BY <1>2, <3>2, <3>3, <4>1
    <3> QED BY <3>4, <3>5
  <2> QED BY <2>2, <2>3 DEF Void
<1>4. CASE ~ReadCells(k, j, e)
  <2>1. tp' = tp + k /\ UNCHANGED peek
    BY <1>4 DEF SkipCells
  <2>2. tp' \in Nat /\ tp' >= tp
    BY <1>1, <2>1
  <2> QED BY <1>2, <2>1, <2>2 DEF Void
<1> QED BY <1>3, <1>4

(* What is ahead of it is padding. *)
LEMMA VoidAhead ==
  ASSUME TapeType, Void, Len(Ahead) >= 1
  PROVE  Ahead[1] = Pad
<1>1. Medium \in Seq(Cells) /\ Len(Medium) \in Nat /\ tp \in Nat /\ tp <= Len(Medium)
      /\ Pad \in Cells
  BY MediumIs DEF TapeType, Cells
<1> DEFINE s == SubSeq(Medium, tp + 1, Len(Medium))
<1>2. s \in Seq(Cells)
  BY <1>1
<1>3. CASE peek = <<>>
  <2>1. Ahead = s
    BY <1>2, <1>3 DEF Ahead
  <2>2. Len(s) = Len(Medium) - tp /\ (tp + 1 <= Len(Medium) => s[1] = Medium[tp + 1])
    BY <1>1
  <2>3. tp + 1 \in (tp + 1)..Len(Medium)
    BY <1>1, <2>1, <2>2
  <2> QED BY <1>1, <2>1, <2>2, <2>3 DEF Void
<1>4. CASE peek = <<Pad>>
  <2>1. Ahead = <<Pad>> \o s
    BY <1>4 DEF Ahead
  <2> HIDE DEF s
  <2>2. (<<Pad>> \o s)[1] = Pad
    BY <1>1, <1>2
  <2> QED BY <2>1, <2>2
<1> QED BY <1>3, <1>4 DEF Void

(* It calls without effect, or passes over what is left of its medium.     *)
LEMMA CutStep ==
  ASSUME NoEio, Types, Behalf, hitEOTM, CutOff, [Next]_vars
  PROVE  /\ CutOff' /\ hitEOTM' /\ UNCHANGED <<archive, yields, again, got>>
         /\ pc' # "idle" => mode' # "read"
<1> USE DEF Dispatch, Rejoin, Goto, Raise, AlignThen, Proceed, outcome
<1> DEFINE Goal == /\ CutOff' /\ hitEOTM' /\ UNCHANGED <<archive, yields, again, got>>
                   /\ pc' # "idle" => mode' # "read"
<1>0. /\ pc # "idle" => Void /\ mode \in {"walk", "next"}
      /\ pc \in {"idle", "data", "chunk", "trail", "extra", "finished", "scan",
                 "dispatch", "rest", "header", "align"}
      /\ pc \in {"rest", "header"} => back = "extra"
      /\ pc = "align" => back \in {"finished", "scan"}
      /\ pc = "dispatch" => dblk.type = "none"
      /\ TapeType
  BY DEF CutOff, Types, CallType
<1>1. ASSUME UNCHANGED <<tapeVars, archive>>, Void PROVE Void'
  BY <1>1 DEF Void, tapeVars, Medium
<1>2. CASE ScanStart
  <2>1. PICK j \in 0..1, e \in Ends :
       /\ ReadCells(1, j, e)
       /\ IF e # "ok"
          THEN Raise("eof") /\ UNCHANGED <<dblk, flbsize>>
          ELSE LET c == AsBlock(Ahead[1])
               IN  IF c.k = "hdr"
                   THEN /\ dblk' = c
                        /\ flbsize' = (IF c.type = "TAPE" THEN W ELSE flbsize)
                        /\ Goto(IF mode = "walk" THEN "dispatch" ELSE "rejoin")
                   ELSE Raise("unexpected") /\ UNCHANGED <<dblk, flbsize>>
    BY <1>2 DEF ScanStart
  <2>2. pc = "scan" /\ mode = "walk" /\ UNCHANGED <<archive, medium, hitEOTM>> /\ Void
    BY <1>2, <1>0 DEF ScanStart, CutOff, flags
  <2>3. Void'
    BY <1>0, <2>1, <2>2, VoidReads
  <2>4. CASE e # "ok"
    BY <2>1, <2>2, <2>4 DEF CutOff
  <2>5. CASE e = "ok"
    <3>1. Len(Ahead) >= 1
      <4>1. 1 <= Len(Ahead)
        BY <1>0, <2>1, <2>2, <2>5, ReadIs
      <4> QED BY <4>1, <1>0, AheadIs
    <3>2. AsBlock(Ahead[1]) = DeadBlock
      BY <1>0, <2>2, <3>1, VoidAhead DEF AsBlock
    <3>3. dblk'.type = "none" /\ pc' = "dispatch" /\ UNCHANGED <<mode, yields, again, got>>
      BY <2>1, <2>2, <2>5, <3>2 DEF DeadBlock
    <3> QED BY <2>2, <2>3, <3>3 DEF CutOff
  <2> QED BY <2>4, <2>5
<1>3. CASE FoundTape \/ FoundSet \/ FoundSetEnd \/ FoundEOTM \/ FoundEntry
  BY <1>3, <1>0 DEF FoundTape, FoundSet, FoundSetEnd, FoundEOTM, FoundEntry
<1>4. CASE FoundNothing
  <2>1. pc = "dispatch" /\ UNCHANGED <<archive, tapeVars, flags>> /\ AlignThen("scan")
    BY <1>4 DEF FoundNothing
  <2>2. mode = "walk"
    BY <2>1 DEF Behalf, InWalk
  <2> QED BY <1>0, <1>1, <2>1, <2>2 DEF CutOff, flags
<1>5. CASE Yield \/ StreamStart \/ StandardData \/ NoData \/ NotCatalog \/ CatalogEnd
           \/ ReadChunk \/ AtEOTM \/ RejoinContext \/ RejoinNowhere \/ RejoinFile
           \/ ContinuationFile \/ ReadReturns
  BY <1>5, <1>0 DEF Yield, StreamStart, StandardData, NoData, NotCatalog, CatalogEnd,
       ReadChunk, AtEOTM, RejoinContext, RejoinNowhere, RejoinFile, ContinuationFile, ReadReturns
<1>6. CASE Align
  <2>1. pc = "align" /\ UNCHANGED <<archive, medium, flags>>
    BY <1>6 DEF Align
  <2>2. PICK r \in Nat, j \in Nat, e \in Ends : ReadCells(r, j, e) /\ Proceed(e, back)
    <3> DEFINE x == Wrap(flbread)
               rem == IF flbsize > 0 /\ x < flbsize THEN flbsize - x ELSE 0
    <3>1. rem \in Nat
      <4>1. x \in Nat /\ flbsize \in Nat
        BY WrapIs, ReaderAssumption DEF Types, HeaderType
      <4> HIDE DEF x
      <4> QED BY <4>1
    <3>2. PICK j \in 0..rem, e \in Ends : ReadCells(rem, j, e) /\ Proceed(e, back)
      BY <1>6 DEF Align
    <3> HIDE DEF rem
    <3>3. j \in Nat
      BY <3>1, <3>2
    <3> QED BY <3>1, <3>2, <3>3
  <2>3. Void'
    BY <1>0, <2>1, <2>2, VoidReads
  <2>4. CASE e = "ok"
    BY <1>0, <2>1, <2>2, <2>3, <2>4 DEF CutOff, flags
  <2>5. CASE e # "ok"
    <3>1. pc' = "idle" /\ res' # "ok" /\ UNCHANGED <<yields, again, got>>
      BY <1>0, <2>1, <2>2, <2>5
    <3> QED BY <2>1, <3>1 DEF CutOff, flags
  <2> QED BY <2>4, <2>5
<1>7. CASE StreamRest
  <2>1. pc = "rest" /\ back = "extra" /\ UNCHANGED <<archive, medium, flags>>
        /\ mode = "next"
    BY <1>7, <1>0 DEF StreamRest, Behalf, InFile
  <2>2. PICK r \in Nat, j \in Nat, e \in Ends :
          SkipCells(r, j, e) /\ Proceed(e, IF strm.type = "SPAD" THEN back ELSE "header")
    <3> DEFINE rem == IF strm.len > did THEN strm.len - did ELSE 0
    <3>1. rem \in Nat
      BY DEF Types, HeaderType, StreamHeaders
    <3>2. PICK j \in 0..rem, e \in Ends :
            SkipCells(rem, j, e) /\ Proceed(e, IF strm.type = "SPAD" THEN back ELSE "header")
      BY <1>7 DEF StreamRest
    <3> HIDE DEF rem
    <3>3. j \in Nat
      BY <3>1, <3>2
    <3> QED BY <3>1, <3>2, <3>3
  <2>3. Void'
    BY <1>0, <2>1, <2>2, VoidReads
  <2>4. CASE e = "ok"
    BY <1>0, <2>1, <2>2, <2>3, <2>4 DEF CutOff, flags
  <2>5. CASE e # "ok"
    <3>1. pc' = "idle" /\ res' # "ok" /\ UNCHANGED <<yields, again, got>>
      BY <1>0, <2>1, <2>2, <2>5
    <3> QED BY <2>1, <3>1 DEF CutOff, flags
  <2> QED BY <2>4, <2>5
<1>8. CASE StreamHeader
  <2>1. pc = "header" /\ back = "extra" /\ UNCHANGED <<archive, medium, flags>>
        /\ mode = "next"
    BY <1>8, <1>0 DEF StreamHeader, Behalf, InFile
  <2>2. PICK r \in Nat, j \in Nat, e \in Ends :
          /\ ReadCells(r, j, e)
          /\ Goto(back) \/ Raise(IF e = "ok" THEN "unexpected" ELSE Missing(e))
    <3> DEFINE gap == (StreamAlign - (flbread % StreamAlign)) % StreamAlign
    <3>1. gap \in Nat /\ gap + 1 \in Nat
      BY GapIs DEF Types, HeaderType
    <3>2. PICK j \in 0..(gap + 1), e \in Ends :
            /\ ReadCells(gap + 1, j, e)
            /\ Goto(back) \/ Raise(IF e = "ok" THEN "unexpected" ELSE Missing(e))
      BY <1>8 DEF StreamHeader
    <3> HIDE DEF gap
    <3>3. j \in Nat
      BY <3>1, <3>2
    <3> QED BY <3>1, <3>2, <3>3
  <2>3. Void'
    BY <1>0, <2>1, <2>2, VoidReads
  <2>4. CASE Goto(back)
    BY <1>0, <2>1, <2>3, <2>4 DEF CutOff, flags
  <2>5. CASE Raise(IF e = "ok" THEN "unexpected" ELSE Missing(e))
    <3>1. pc' = "idle" /\ res' # "ok" /\ UNCHANGED <<yields, again, got>>
      BY <2>1, <2>5
    <3> QED BY <2>1, <3>1 DEF CutOff, flags
  <2> QED BY <2>2, <2>4, <2>5
<1>9. CASE Capture
  <2>1. pc = "extra" /\ UNCHANGED <<archive, medium, flags>> /\ mode = "next"
    BY <1>9, <1>0 DEF Capture, Behalf, InFile
  <2>2. PICK j \in Nat, e \in Ends :
          /\ ReadCells(strm.len, j, e)
          /\ IF e = "ok" THEN pc' = "trail" /\ UNCHANGED <<mode, back, want, outcome>>
                         ELSE Raise(e)
    BY <1>9, <2>1 DEF Capture
  <2>3. Void'
    <3>1. strm.len \in Nat
      BY DEF Types, HeaderType, StreamHeaders
    <3> QED BY <1>0, <2>1, <2>2, <3>1, VoidReads
  <2>4. CASE e = "ok"
    BY <2>1, <2>2, <2>3, <2>4 DEF CutOff, flags
  <2>5. CASE e # "ok"
    <3>1. pc' = "idle" /\ res' # "ok" /\ UNCHANGED <<yields, again, got>>
      BY <2>1, <2>2, <2>5
    <3> QED BY <2>1, <3>1 DEF CutOff, flags
  <2> QED BY <2>4, <2>5
<1>10. CASE Probe
  <2>1. pc = "data" /\ UNCHANGED <<archive, medium, flags>> /\ mode = "next" /\ Void
        /\ UNCHANGED Medium
    BY <1>10, <1>0 DEF Probe, Behalf, InFile, Medium
  <2>2. PICK e \in Ends :
       /\ <<IF e = "ok" THEN 1 ELSE 0, e>> \in Outcomes(1)
       /\ IF e = "ok" /\ ~IsEOTM(Ahead[1])
          THEN /\ peek' = <<Ahead[1]>>
               /\ tp' = tp + 1 - Len(peek)
               /\ Goto("chunk") /\ UNCHANGED faults
          ELSE Take(IF e = "ok" THEN 1 ELSE 0, e) /\ Proceed(e, "switch")
    BY <1>10 DEF Probe
  <2>3. CASE e = "ok"
    <3>1. Len(Ahead) >= 1
      <4>1. Len(Ahead) \in Nat
        BY <1>0, AheadIs
      <4> QED BY <2>2, <2>3, <4>1 DEF Outcomes, NoEio
    <3>2. Ahead[1] = Pad
      BY <1>0, <2>1, <3>1, VoidAhead
    <3>3. ~IsEOTM(Ahead[1])
      BY <3>2 DEF IsEOTM, Pad
    <3>4. /\ peek' = <<Pad>> /\ tp' = tp + 1 - Len(peek) /\ pc' = "chunk"
          /\ UNCHANGED <<mode, yields, again, got>>
      BY <2>2, <2>3, <3>2, <3>3
    <3>5. Void'
      <4>1. Len(peek) \in {0, 1} /\ tp \in Nat /\ Len(Medium) \in Nat
        BY <1>0, AheadIs DEF TapeType
      <4>0. tp' = tp + 1 - Len(peek)
        BY <3>4
      <4>2. tp' \in Nat /\ tp' >= tp
        BY <4>0, <4>1
      <4>3. \A p \in (tp' + 1)..Len(Medium) : p \in (tp + 1)..Len(Medium)
        <5>1. tp <= tp'
          BY <4>1, <4>2
        <5> QED BY <4>1, <4>2, <5>1, Shrinks
      <4> QED BY <2>1, <3>4, <4>3 DEF Void
    <3> QED BY <2>1, <3>4, <3>5 DEF CutOff, flags
  <2>4. CASE e # "ok"
    <3>1. pc' = "idle" /\ res' # "ok" /\ UNCHANGED <<yields, again, got>>
      BY <2>1, <2>2, <2>4
    <3> QED BY <2>1, <3>1 DEF CutOff, flags
  <2> QED BY <2>3, <2>4
<1>11. CASE NoProbe \/ DataDone \/ Trail \/ TrailEnd
  <2>1. /\ UNCHANGED <<archive, tapeVars, flags, mode, yields, again, got>> /\ pc # "idle"
        /\ pc' \in {"chunk", "trail", "rest", "align"}
        /\ pc' = "rest" => back' = "extra"
        /\ pc' = "align" => back' = "finished"
    BY <1>11 DEF NoProbe, DataDone, Trail, TrailEnd
  <2> QED BY <1>0, <1>1, <2>1 DEF CutOff, flags
<1>12. CASE SkipChunk
  <2>1. pc = "chunk" /\ UNCHANGED <<archive, medium, flags>> /\ mode = "next"
    BY <1>12 DEF SkipChunk
  <2>2. PICK k \in Nat, j \in Nat, e \in Ends : SkipCells(k, j, e) /\ Proceed(e, "data")
    <3> DEFINE k == IF Continues THEN Least(dataRem, ToBoundary) ELSE dataRem
    <3>1. k \in Nat
      BY ToBoundaryIs DEF Least, Types, HeaderType
    <3>2. PICK j \in 0..k, e \in Ends : SkipCells(k, j, e) /\ Proceed(e, "data")
      BY <1>12 DEF SkipChunk
    <3> HIDE DEF k
    <3>3. j \in Nat
      BY <3>1, <3>2
    <3> QED BY <3>1, <3>2, <3>3
  <2>3. Void'
    BY <1>0, <2>1, <2>2, VoidReads
  <2>4. CASE e = "ok"
    BY <1>0, <2>1, <2>2, <2>3, <2>4 DEF CutOff, flags
  <2>5. CASE e # "ok"
    <3>1. pc' = "idle" /\ res' # "ok" /\ UNCHANGED <<yields, again, got>>
      BY <2>1, <2>2, <2>5
    <3> QED BY <2>1, <3>1 DEF CutOff, flags
  <2> QED BY <2>4, <2>5
<1>13. CASE Finished
  <2>1. /\ UNCHANGED <<archive, tapeVars, flags, yields, again, got>> /\ pc # "idle"
        /\ pc' = "scan" /\ mode' = "walk"
    BY <1>13, <1>0 DEF Finished
  <2> QED BY <1>0, <1>1, <2>1 DEF CutOff, flags
<1>14. CASE CallNext
  <2>1. /\ pc = "idle" /\ res = "ok" /\ UNCHANGED <<archive, tapeVars, flags, yields, again, got>>
        /\ pc' \in {"data", "trail", "scan"} /\ mode' \in {"next", "walk"}
        /\ pc' = "scan" => mode' = "walk"
    BY <1>14, ReadyIs DEF CallNext
  <2>2. Void'
    BY <1>1, <2>1 DEF CutOff
  <2> QED BY <2>1, <2>2 DEF CutOff, flags
<1>15. CASE \E n \in 1..MaxRead : CallRead(n)
  BY <1>15, ReadyIs DEF CallRead, CutOff
<1>16. CASE UNCHANGED vars
  BY <1>0, <1>1, <1>16 DEF vars, CutOff, calls, outcome, flags, streamVars
<1> QED BY <1>2, <1>3, <1>4, <1>5, <1>6, <1>7, <1>8, <1>9, <1>10, <1>11, <1>12, <1>13,
           <1>14, <1>15, <1>16
        DEF Next, Walk, Streams, Data, Span, Calls

-----------------------------------------------------------------------------
(* What the caller gets. *)

(* What is added to the first cells of c when the next ones are read. *)
LEMMA Extended ==
  ASSUME NEW S, NEW c \in Seq(S), NEW h \in Seq(S), NEW m \in Nat, NEW k \in Nat,
         m + k <= Len(c), k <= Len(h), \A i \in 1..k : h[i] = c[m + i]
  PROVE  SubSeq(c, 1, m) \o SubSeq(h, 1, k) = SubSeq(c, 1, m + k)
<1> DEFINE x == SubSeq(c, 1, m)
           y == SubSeq(h, 1, k)
           z == SubSeq(c, 1, m + k)
<1>1. x \in Seq(S) /\ Len(x) = m /\ \A i \in 1..m : x[i] = c[i]
  OBVIOUS
<1>2. y \in Seq(S) /\ Len(y) = k /\ \A i \in 1..k : y[i] = h[i]
  OBVIOUS
<1>3. z \in Seq(S) /\ Len(z) = m + k /\ \A i \in 1..(m + k) : z[i] = c[i]
  OBVIOUS
<1> HIDE DEF x, y, z
<1> DEFINE w == x \o y
<1>4. /\ w \in Seq(S) /\ Len(w) = Len(x) + Len(y)
      /\ \A i \in 1..(Len(x) + Len(y)) : w[i] = IF i <= Len(x) THEN x[i] ELSE y[i - Len(x)]
  BY <1>1, <1>2, ConcatProperties
<1> HIDE DEF w
<1>5. /\ Len(w) = m + k
      /\ \A i \in 1..(m + k) : w[i] = IF i <= m THEN x[i] ELSE y[i - m]
  BY <1>1, <1>2, <1>4
<1>6. ASSUME NEW i \in 1..(m + k) PROVE w[i] = z[i]
  <2>1. z[i] = c[i]
    BY <1>3
  <2>2. CASE i <= m
    <3>1. i \in 1..m
      BY <2>2
    <3>2. w[i] = x[i]
      BY <1>5, <2>2
    <3>3. x[i] = c[i]
      BY <1>1, <3>1
    <3> QED BY <2>1, <3>2, <3>3
  <2>3. CASE i > m
    <3>1. i - m \in 1..k /\ m + (i - m) = i
      BY <2>3
    <3>2. w[i] = y[i - m]
      BY <1>5, <2>3
    <3>3. y[i - m] = h[i - m] /\ h[i - m] = c[m + (i - m)]
      BY <1>2, <3>1
    <3> QED BY <2>1, <3>1, <3>2, <3>3
  <2> QED BY <2>2, <2>3
<1>7. w = z
  BY <1>3, <1>4, <1>5, <1>6
<1> QED BY <1>7 DEF w, x, y, z

(* The first cells of a content. *)
LEMMA Begun ==
  ASSUME NEW S, NEW c \in Seq(S), NEW r \in Nat, r <= Len(c)
  PROVE  LET g == SubSeq(c, 1, Len(c) - r)
         IN  /\ Len(g) = Len(c) - r /\ Len(g) \in Nat /\ Len(g) <= Len(c)
             /\ g = SubSeq(c, 1, Len(g)) /\ (r = 0 => g = c) /\ (r = Len(c) => g = <<>>)
<1>1. Len(c) - r \in Nat /\ Len(SubSeq(c, 1, Len(c) - r)) = Len(c) - r
  OBVIOUS
<1>2. ASSUME r = 0 PROVE SubSeq(c, 1, Len(c) - r) = c
  <2>1. Len(c) - r = Len(c)
    BY <1>2
  <2> QED BY <2>1, SubSeqFull
<1>3. ASSUME r = Len(c) PROVE SubSeq(c, 1, Len(c) - r) = <<>>
  <2>1. Len(c) - r = 0
    BY <1>3
  <2> QED BY <2>1, SubSeqEmpty
<1> QED BY <1>1, <1>2, <1>3

(* A step within a call: nothing is yielded or delivered, and if the call  *)
(* ends there, the walk is at its end.                                     *)
Advances ==
  /\ pc # "idle" /\ UNCHANGED <<archive, yields, again, got, readEnd, mode, hitEOTM>>
  /\ pc' # "idle" => UNCHANGED res
  /\ pc' = "idle" => res' = "eof" /\ Len(yields) = Len(archive.items)
  /\ mode = "read" => UNCHANGED <<dataRem, cur, entryDone>>

LEMMA OnwardWalk ==
  ASSUME Orderly, NoEio, OnCourse,
         \/ ScanStart \/ FoundTape \/ FoundSet \/ FoundSetEnd \/ FoundEOTM
         \/ FoundNothing \/ FoundEntry \/ Align
  PROVE  Course' /\ Probed' /\ Advances
<1> USE DEF Dispatch, Goto, AlignThen, Proceed, outcome, flags
<1>1. Types /\ Behalf
  BY DEF OnCourse, Place, Ways
<1>2. CASE ScanStart
  <2>1. /\ Course' /\ Probed'
        /\ pc' = "idle" => res' = "eof" /\ Len(yields) = Len(archive.items)
    BY <1>2, ScanStep
  <2>2. pc = "scan" /\ UNCHANGED <<archive, hitEOTM, dataRem, cur, entryDone>>
    BY <1>2 DEF ScanStart, dataVars, entryVars
  <2>3. (\E p : Goto(p)) \/ Raise("eof") \/ Raise("unexpected")
    BY <1>2 DEF ScanStart
  <2>4. CASE \E p : Goto(p)
    <3>1. UNCHANGED <<mode, res, yields, again, got, readEnd>>
      BY <2>4
    <3> QED BY <2>1, <2>2, <3>1 DEF Advances
  <2>5. CASE Raise("eof") \/ Raise("unexpected")
    <3>1. pc' = "idle" /\ UNCHANGED <<mode, yields, again, got>>
      BY <2>5 DEF Raise
    <3>2. mode \in {"walk", "next", "read"} /\ readEnd \in BOOLEAN
      BY <1>1 DEF Types, CallType, FlagType
    <3>3. mode # "read"
      BY <2>1, <2>5, <3>1 DEF Raise
    <3>4. readEnd' = readEnd
      BY <2>5, <3>2, <3>3 DEF Raise
    <3> QED BY <2>1, <2>2, <3>1, <3>4 DEF Advances
  <2> QED BY <2>3, <2>4, <2>5
<1>3. CASE FoundTape \/ FoundSet \/ FoundEOTM \/ FoundNothing
  <2>1. Course' /\ Probed'
    BY <1>3, FoundStep
  <2>2. Advances
    BY <1>3 DEF FoundTape, FoundSet, FoundEOTM, FoundNothing, Advances, dataVars, entryVars
  <2> QED BY <2>1, <2>2
<1>4. CASE FoundSetEnd
  <2>1. Course' /\ Probed'
    BY <1>4, SetEndStep
  <2>2. Advances
    BY <1>4 DEF FoundSetEnd, Advances, dataVars, entryVars
  <2> QED BY <2>1, <2>2
<1>5. CASE FoundEntry
  <2>1. Course' /\ Probed'
    BY <1>5, EntryStep
  <2>2. mode = "walk"
    BY <1>1, <1>5 DEF FoundEntry, Behalf, InWalk
  <2>3. Advances
    BY <1>5, <2>2 DEF FoundEntry, Advances, dataVars
  <2> QED BY <2>1, <2>3
<1>6. CASE Align
  <2>1. Course' /\ Probed' /\ pc' # "idle"
    BY <1>6, AlignStep
  <2>2. PICK e \in Ends : Proceed(e, back)
    BY <1>6 DEF Align
  <2>3. UNCHANGED <<mode, outcome>>
    BY <2>1, <2>2 DEF Raise
  <2>4. Advances
    BY <1>6, <2>1, <2>3 DEF Align, Advances, dataVars, entryVars
  <2> QED BY <2>1, <2>4
<1> QED BY <1>2, <1>3, <1>4, <1>5, <1>6

LEMMA OnwardStreams ==
  ASSUME Orderly, NoEio, OnCourse, Streams
  PROVE  Course' /\ Probed' /\ Advances
<1> USE DEF Goto, AlignThen, Proceed, outcome, flags
<1>1. Types /\ Behalf
  BY DEF OnCourse, Place, Ways
<1>2. CASE StreamStart
  <2>1. Course' /\ Probed' /\ pc' # "idle"
    BY <1>2, StreamStartStep
  <2>2. /\ pc = "start" /\ UNCHANGED <<archive, hitEOTM, dataRem>>
        /\ UNCHANGED <<mode, outcome>>
    BY <1>2, <2>1 DEF StreamStart, Raise, dataVars
  <2>3. mode = "read" => UNCHANGED <<cur, entryDone>>
    <3>1. mode = "read" => back # "streams" /\ dblk.type \notin {"VOLB", "DIRB"}
      BY <1>1, <2>2 DEF Types, Returns, Behalf, InWalk
    <3> QED BY <1>2, <2>1, <3>1 DEF StreamStart, Raise, entryVars
  <2> QED BY <2>1, <2>2, <2>3 DEF Advances
<1>3. CASE StreamRest
  <2>1. Course' /\ Probed' /\ pc' # "idle"
    BY <1>3, StreamRestStep
  <2>2. pc = "rest" /\ UNCHANGED <<archive, hitEOTM, dataRem, cur, entryDone, mode, outcome>>
    BY <1>3, <2>1 DEF StreamRest, Raise, dataVars, entryVars
  <2> QED BY <2>1, <2>2 DEF Advances
<1>4. CASE StreamHeader
  <2>1. Course' /\ Probed' /\ pc' # "idle"
    BY <1>4, StreamHeaderStep
  <2>2. pc = "header" /\ UNCHANGED <<archive, hitEOTM, dataRem, cur, entryDone>>
    BY <1>4 DEF StreamHeader, dataVars, entryVars
  <2>3. UNCHANGED <<mode, outcome>>
    <3>1. Goto(back) \/ Raise("unexpected") \/ \E e \in Ends : Raise(Missing(e))
      BY <1>4 DEF StreamHeader
    <3> QED BY <2>1, <3>1 DEF Raise
  <2> QED BY <2>1, <2>2, <2>3 DEF Advances
<1>5. CASE StandardData
  <2>1. Course' /\ Probed'
    BY <1>5, StandardDataStep
  <2>2. mode = "walk"
    BY <1>1, <1>5 DEF StandardData, Behalf, InWalk
  <2>3. Advances
    BY <1>5, <2>2 DEF StandardData, Advances
  <2> QED BY <2>1, <2>3
<1>6. CASE NoData
  <2>1. Course' /\ Probed'
    BY <1>6, NoDataStep
  <2>2. mode = "walk"
    BY <1>1, <1>6 DEF NoData, Behalf, InWalk
  <2>3. Advances
    BY <1>6, <2>2 DEF NoData, Advances
  <2> QED BY <2>1, <2>3
<1>7. CASE Capture
  <2>1. Course' /\ Probed' /\ pc' # "idle"
    BY <1>7, CaptureCourse
  <2>2. pc # "idle" /\ UNCHANGED <<archive, hitEOTM, dataRem, cur, entryDone, mode, outcome>>
    BY <1>7, <2>1 DEF Capture, Raise, dataVars, entryVars
  <2> QED BY <2>1, <2>2 DEF Advances
<1>8. CASE NotCatalog
  <2>1. Course' /\ Probed'
    BY <1>8, NotCatalogStep
  <2>2. Advances
    BY <1>8 DEF NotCatalog, Advances, dataVars, entryVars
  <2> QED BY <2>1, <2>2
<1>9. CASE CatalogEnd
  <2>1. Course' /\ Probed' /\ pc' # "idle"
    BY <1>9, CatalogEndCourse
  <2>2. pc # "idle" /\ UNCHANGED <<archive, hitEOTM, dataRem, cur, entryDone, mode, outcome>>
    BY <1>9, <2>1 DEF CatalogEnd, Raise, dataVars, entryVars
  <2> QED BY <2>1, <2>2 DEF Advances
<1> QED BY <1>2, <1>3, <1>4, <1>5, <1>6, <1>7, <1>8, <1>9 DEF Streams

LEMMA OnwardData ==
  ASSUME Orderly, NoEio, OnCourse,
         \/ Probe \/ NoProbe \/ SkipChunk \/ Trail \/ TrailEnd
         \/ RejoinContext \/ RejoinNowhere \/ RejoinFile \/ ContinuationFile
  PROVE  Course' /\ Probed' /\ Advances
<1> USE DEF Rejoin, Goto, AlignThen, Proceed, outcome, flags
<1>1. CASE Probe
  <2>1. Course' /\ Probed' /\ pc' # "idle"
    BY <1>1, ProbeStep
  <2>2. pc # "idle" /\ UNCHANGED <<archive, hitEOTM, dataRem, cur, entryDone, mode, outcome>>
    BY <1>1, <2>1 DEF Probe, Raise, dataVars, entryVars
  <2> QED BY <2>1, <2>2 DEF Advances
<1>2. CASE NoProbe
  <2>1. Course' /\ Probed'
    BY <1>2, NoProbeStep
  <2>2. Advances
    BY <1>2 DEF NoProbe, Advances, dataVars, entryVars
  <2> QED BY <2>1, <2>2
<1>3. CASE SkipChunk
  <2>1. Course' /\ Probed' /\ pc' # "idle"
    BY <1>3, SkipChunkStep
  <2>2. pc # "idle" /\ mode = "next" /\ UNCHANGED <<archive, hitEOTM>>
    BY <1>3 DEF SkipChunk
  <2>3. PICK e \in Ends : Proceed(e, "data")
    BY <1>3 DEF SkipChunk
  <2>4. UNCHANGED <<mode, outcome>>
    BY <2>1, <2>3 DEF Raise
  <2> QED BY <2>1, <2>2, <2>4 DEF Advances
<1>4. CASE Trail
  <2>1. Course' /\ Probed'
    BY <1>4, TrailStep
  <2>2. Advances
    BY <1>4 DEF Trail, Advances, entryVars
  <2> QED BY <2>1, <2>2
<1>5. CASE TrailEnd
  <2>1. Course' /\ Probed'
    BY <1>5, TrailEndStep
  <2>2. Advances
    BY <1>5 DEF TrailEnd, Advances, dataVars, entryVars
  <2> QED BY <2>1, <2>2
<1>6. CASE RejoinContext
  <2>1. Course' /\ Probed'
    BY <1>6, ContextStep
  <2>2. Advances
    BY <1>6 DEF RejoinContext, Advances, dataVars, entryVars
  <2> QED BY <2>1, <2>2
<1>7. CASE RejoinNowhere \/ RejoinFile
  <2>1. Course' /\ Probed'
    BY <1>7, ResumeStep
  <2>2. Advances
    BY <1>7 DEF RejoinNowhere, RejoinFile, Advances, dataVars, entryVars
  <2> QED BY <2>1, <2>2
<1>8. CASE ContinuationFile
  <2>1. Course' /\ Probed' /\ dataRem' = dataRem
    BY <1>8, ContinuationStep
  <2>2. pc = "contfile" /\ pc' # "idle" /\ UNCHANGED <<archive, hitEOTM, entryVars, mode, outcome>>
    BY <1>8 DEF ContinuationFile
  <2> QED BY <2>1, <2>2 DEF Advances, entryVars
<1> QED BY <1>1, <1>2, <1>3, <1>4, <1>5, <1>6, <1>7, <1>8

(* Nothing but a Read changes what has been delivered. *)
LEMMA ExactOnward ==
  ASSUME Exact, OpenRead, OpenRead', ~hitEOTM, Advances
  PROVE  Exact'
<1>1. UNCHANGED <<archive, yields, again, got, readEnd, mode, hitEOTM>> /\ pc # "idle"
  BY DEF Advances
<1>2. UNCHANGED <<FileContent, AtFile>>
  BY <1>1 DEF FileContent, AtFile
<1>3. ContentExact' /\ EndsMarked'
  BY <1>1, <1>2 DEF Exact, ContentExact, EndsMarked
<1>4. CASE mode = "read" /\ pc' # "idle"
  <2>1. UNCHANGED <<dataRem, entryDone>>
    BY <1>4 DEF Advances
  <2>2. Trailing <=> Trailing'
    BY <1>1, <1>4, <2>1 DEF OpenRead
  <2>3. AtFile /\ ~readEnd /\ (IF Trailing THEN got = FileContent ELSE SoFar)
    BY <1>1, <1>4 DEF Exact
  <2>4. SoFar => SoFar'
    BY <1>1, <1>2, <2>1 DEF SoFar
  <2> QED BY <1>1, <1>2, <1>3, <1>4, <2>2, <2>3, <2>4 DEF Exact
<1>5. CASE mode # "read" /\ pc' # "idle"
  BY <1>1, <1>3, <1>5 DEF Exact
<1>6. CASE pc' = "idle"
  <2>1. res' = "eof"
    BY <1>6 DEF Advances
  <2> QED BY <1>3, <1>6, <2>1 DEF Exact
<1> QED BY <1>4, <1>5, <1>6

(* Nor does a walk that was cut off. *)
LEMMA ExactCut ==
  ASSUME ContentExact, UNCHANGED <<archive, yields, again, got>>, hitEOTM',
         pc' # "idle" => mode' # "read"
  PROVE  Exact'
<1>1. UNCHANGED <<FileContent, AtFile>>
  BY DEF FileContent, AtFile
<1> QED BY <1>1 DEF Exact, ContentExact, EndsMarked

(* At the end of a file's data its content has been delivered. *)
LEMMA AllDelivered ==
  ASSUME Orderly, Types, AtFile, InOrder, SoFar, dataRem = 0
  PROVE  got = FileContent
<1>1. FileContent \in Seq(Cells) /\ 0 \in Nat
  BY FileIs
<1>2. 0 <= Len(FileContent)
  BY FileIs
<1>3. SubSeq(FileContent, 1, Len(FileContent) - 0) = FileContent
  BY <1>1, <1>2, Begun
<1> QED BY <1>3 DEF SoFar

LEMMA SoFarIs ==
  ASSUME Orderly, Types, AtFile, InOrder, SoFar
  PROVE  /\ Len(got) = Len(FileContent) - dataRem /\ Len(got) \in Nat
         /\ Len(got) <= Len(FileContent) /\ got = SubSeq(FileContent, 1, Len(got))
<1>1. FileContent \in Seq(Cells) /\ dataRem \in Nat
  BY FileIs DEF Types, HeaderType
<1> QED BY <1>1, Begun DEF SoFar

(* A Read delivers the next cells of the content. *)
LEMMA DeliverStep ==
  ASSUME Orderly, NoEio, OnCourse, Exact, InOrder, ReadChunk
  PROVE  /\ Course' /\ Probed' /\ Exact' /\ ~hitEOTM'
         /\ UNCHANGED <<archive, yields, again, res>> /\ pc # "idle" /\ pc' # "idle"
         /\ \E k \in (Len(got) + 1)..Len(FileContent) : got' = SubSeq(FileContent, 1, k)
<1>1. Types /\ OpenRead /\ pc = "chunk" /\ mode = "read" /\ ~hitEOTM
  BY DEF OnCourse, Place, Ways, ReadChunk
<1>2. AtFile /\ ~readEnd /\ SoFar
  BY <1>1 DEF Exact, Trailing
<1>3. PICK b \in Here : \E s \in b.streams : \E k \in 1..(dataRem - b.after.left) :
        /\ InData(b, s) /\ InData(b, s)' /\ OfFile(b)
        /\ dataRem' = dataRem - k /\ got' = got \o SubSeq(Ahead, 1, k)
        /\ pc' = "data" /\ peek' = <<>> /\ k <= Len(Ahead)
        /\ UNCHANGED <<mode, back, res, readEnd, yields, again>>
  BY ReadChunkIs
<1>4. PICK s \in b.streams : \E k \in 1..(dataRem - b.after.left) :
        /\ InData(b, s) /\ InData(b, s)' /\ OfFile(b)
        /\ dataRem' = dataRem - k /\ got' = got \o SubSeq(Ahead, 1, k)
        /\ pc' = "data" /\ peek' = <<>> /\ k <= Len(Ahead)
        /\ UNCHANGED <<mode, back, res, readEnd, yields, again>>
  BY <1>3
<1>5. PICK k \in 1..(dataRem - b.after.left) :
        /\ InData(b, s) /\ OfFile(b)
        /\ dataRem' = dataRem - k /\ got' = got \o SubSeq(Ahead, 1, k)
        /\ pc' = "data" /\ k <= Len(Ahead)
        /\ UNCHANGED <<mode, back, res, readEnd, yields, again>>
  BY <1>4
<1>6. /\ FileContent = ContentOf(archive, b) /\ FileContent \in Seq(Cells)
      /\ Len(FileContent) \in Nat
  BY <1>1, <1>2, <1>5, FileContentIs DEF OfFile, Context
<1>7. /\ dataRem \in Nat /\ b.after.left \in Nat /\ k \in Nat /\ k >= 1 /\ k <= dataRem
      /\ dataRem <= Len(FileContent)
  <2>1. dataRem \in Nat /\ b.after.left \in Nat
    BY <1>1, <1>5, DataIs DEF Types, HeaderType
  <2>2. dataRem <= Len(FileContent)
    BY <1>2 DEF SoFar
  <2>3. k \in 1..(dataRem - b.after.left)
    BY <1>5
  <2> QED BY <2>1, <2>2, <2>3
<1> DEFINE c == FileContent
           m == Len(c) - dataRem
<1>8. m \in Nat /\ m + k \in Nat /\ m + k <= Len(c) /\ Len(c) - dataRem' = m + k
      /\ m + 1 <= m + k /\ dataRem' <= Len(c)
  <2>1. Len(c) \in Nat /\ dataRem <= Len(c)
    BY <1>6, <1>7
  <2>2. dataRem' = dataRem - k
    BY <1>5
  <2> HIDE DEF c
  <2> QED BY <1>7, <2>1, <2>2
<1>9. got = SubSeq(c, 1, m) /\ Len(got) = m
  BY <1>1, <1>2, SoFarIs DEF SoFar
<1>10. Ahead \in Seq(Cells) /\ Len(Ahead) = Len(Medium) - Position
       /\ Position \in Nat /\ Len(Medium) \in Nat
  BY <1>1, AheadIs DEF Types
<1>11. ASSUME NEW i \in 1..k PROVE Ahead[i] = c[m + i]
  <2>1. i \in 1..(dataRem - b.after.left)
    BY <1>7
  <2>2. Position + i <= Len(Medium) /\ Medium[Position + i] = c[m + i]
    BY <1>1, <1>5, <1>6, <2>1, DataAhead
  <2>3. i \in 1..(Len(Medium) - Position)
    BY <1>10, <2>1, <2>2
  <2>4. Ahead[i] = Medium[Position + i]
    BY <1>1, <2>3, AheadAt DEF Types, OnCourse
  <2> QED BY <2>2, <2>4
<1>12. got' = SubSeq(c, 1, m + k)
  <2> HIDE DEF c, m
  <2>1. SubSeq(c, 1, m) \o SubSeq(Ahead, 1, k) = SubSeq(c, 1, m + k)
    <3>1. c \in Seq(Cells)
      BY <1>6 DEF c
    <3>2. k <= Len(Ahead) /\ k \in Nat /\ m \in Nat /\ m + k <= Len(c)
          /\ Ahead \in Seq(Cells)
      BY <1>5, <1>7, <1>8, <1>10
    <3> QED BY <1>11, <3>1, <3>2, Extended
  <2> QED BY <1>5, <1>9, <2>1
<1>13. UNCHANGED <<archive, hitEOTM, entryDone>>
  BY DEF ReadChunk, flags, entryVars
<1>14. UNCHANGED <<FileContent, AtFile>>
  BY <1>5, <1>13 DEF FileContent, AtFile
<1>15. SoFar'
  BY <1>8, <1>12, <1>14 DEF SoFar
<1>16. ~Trailing' /\ mode' = "read" /\ ~readEnd' /\ pc' # "idle" /\ AtFile'
  BY <1>1, <1>2, <1>5, <1>14 DEF Trailing
<1>17. ContentExact'
  <2>1. Len(got') = m + k
    BY <1>6, <1>8, <1>12
  <2> QED BY <1>8, <1>12, <1>14, <2>1 DEF ContentExact
<1>18. Exact'
  BY <1>15, <1>16, <1>17 DEF Exact, EndsMarked
<1>19. \E n \in (Len(got) + 1)..Len(c) : got' = SubSeq(c, 1, n)
  <2>1. m + k \in (Len(got) + 1)..Len(c)
    BY <1>6, <1>8, <1>9
  <2> QED BY <1>12, <2>1
<1>20. Course' /\ Probed'
  BY ReadChunkStep
<1> QED BY <1>1, <1>5, <1>13, <1>18, <1>19, <1>20

(* The item that is yielded is the next one of the archive. *)
LEMMA NextItem ==
  ASSUME Orderly, OnCourse, pc = "yield", ~Repeated
  PROVE  LET n == Len(yields) + 1
         IN  /\ n \in 1..Len(archive.items) /\ Item = archive.items[n].item
             /\ dblk.type = "FILE" =>
                  /\ cur # None
                  /\ IF entryDone THEN archive.items[n].content = <<>>
                                  ELSE dataRem = Len(archive.items[n].content)
<1>1. Types /\ CurKnown /\ Announcing
  BY DEF OnCourse, Place, Ways, Course
<1>2. PICK b \in Here :
    /\ b.at < Len(Medium) /\ dblk = HeaderOf(archive, b)
    /\ \/ Position = b.end /\ Unread(b)
       \/ /\ Upcoming(b) /\ catFDD = b.after.cat /\ Open /\ inData /\ did = 0
          /\ \E s \in b.streams : InData(b, s)
  BY <1>1 DEF Announcing
<1>3. Upcoming(b) /\ catFDD = b.after.cat
  BY <1>2 DEF Unread
<1>4. Leads(archive, b) /\ Yielding(archive, b) /\ Len(yields) = b.before.seen
  <2>1. Yielding(archive, b)
    BY <1>2, <1>3 DEF Repeated, Upcoming, Outgoing, Yielding
  <2> QED BY <1>1, <1>2, <1>3, <2>1, LeadsOn DEF Types, Upcoming, Yielding
<1>5. /\ b.after.seen = Len(yields) + 1 /\ b.after.seen <= Len(archive.items)
      /\ archive.items[b.after.seen].item = ItemOf(archive, b)
  BY <1>4 DEF Leads
<1>6. Item = ItemOf(archive, b)
  <2>1. dblk.type = "ESET" /\ ~HasCatalog(archive, b) => b.after.cat = 0
    <3>1. b \in Layout /\ b.at < Extent(archive, b.m) /\ Walked(archive, Layout)
      BY <1>1, <1>2, StopIs, LayoutIs DEF Here, Types, TapeType
    <3> QED BY <1>2, <3>1 DEF Walked
  <2> QED BY <1>2, <1>3, <2>1 DEF Item, ItemOf, Upcoming
<1>7. Len(yields) + 1 \in 1..Len(archive.items)
  <2>1. Len(yields) \in Nat
    BY <1>1 DEF Types, CallType
  <2>2. Len(archive.items) \in Nat
    BY <1>1, LayoutIs DEF Types, TapeType, Recorded
  <2> QED BY <1>5, <2>1, <2>2
<1>8. ASSUME dblk.type = "FILE"
      PROVE  /\ cur # None
             /\ IF entryDone THEN ContentOf(archive, b) = <<>>
                             ELSE dataRem = Len(ContentOf(archive, b))
  <2>1. cur # None
    BY <1>1, <1>8 DEF CurKnown
  <2>2. CASE Unread(b)
    BY <1>8, <2>1, <2>2 DEF Unread, Open
  <2>3. CASE Open /\ did = 0 /\ \E s \in b.streams : InData(b, s)
    <3>1. PICK s \in b.streams : InData(b, s)
      BY <2>3
    <3>2. /\ Holding(archive, b, s) /\ dataRem = strm.len - did /\ strm.len \in Nat
          /\ strm = StreamOf(archive, b, s)
      BY <1>1, <3>1, DataIs DEF InData
    <3>3. strm.len = Len(ContentOf(archive, b))
      BY <1>4, <3>2 DEF Holding, Yielding
    <3>4. dataRem = strm.len
      BY <2>3, <3>2
    <3> QED BY <2>1, <2>3, <3>3, <3>4 DEF Open
  <2> QED BY <1>2, <2>2, <2>3
<1> QED BY <1>5, <1>6, <1>7, <1>8 DEF ContentOf

LEMMA YieldExact ==
  ASSUME Orderly, OnCourse, InOrder, Yield, ~Repeated
  PROVE  InOrder' /\ Exact'
<1>1. Types /\ pc = "yield"
  BY DEF Yield, OnCourse, Place, Ways
<1>2. /\ yields' = Append(yields, Item) /\ got' = <<>> /\ readEnd' = FALSE
      /\ res' = "ok" /\ pc' = "idle"
      /\ UNCHANGED <<archive, cur, entryDone, dataRem, inData>>
  BY DEF Yield, entryVars, dataVars
<1> DEFINE n == Len(yields) + 1
<1>3. /\ n \in 1..Len(archive.items) /\ Item = archive.items[n].item
      /\ dblk.type = "FILE" =>
           /\ cur # None
           /\ IF entryDone THEN archive.items[n].content = <<>>
                           ELSE dataRem = Len(archive.items[n].content)
  BY <1>1, NextItem
<1>4. /\ Len(yields') = n /\ yields'[n] = Item
      /\ \A i \in 1..Len(yields) : yields'[i] = yields[i]
  BY <1>1, <1>2 DEF Types, CallType
<1>5. InOrder'
  <2> SUFFICES ASSUME NEW i \in 1..Len(yields')
               PROVE  i <= Len(archive.items) /\ yields'[i] = archive.items[i].item
    BY <1>2 DEF InOrder
  <2>1. Len(yields) \in Nat
    BY <1>1 DEF Types, CallType
  <2>2. CASE i = n
    BY <1>3, <1>4, <2>2
  <2>3. CASE i # n
    <3>1. i \in 1..Len(yields)
      BY <1>4, <2>1, <2>3
    <3> QED BY <1>4, <3>1 DEF InOrder
  <2> QED BY <2>2, <2>3
<1>6. CASE dblk.type # "FILE"
  <2>1. ~AtFile'
    BY <1>4, <1>6 DEF AtFile, Item
  <2> QED BY <1>2, <1>5, <2>1 DEF Exact, ContentExact, EndsMarked
<1>7. CASE dblk.type = "FILE"
  <2> DEFINE items == archive.items
             m == CHOOSE i \in 1..Len(items) :
                    items[i].item.kind = "FILE" /\ items[i].item.id = Item.id
             c == items[n].content
  <2>1. items[n].item.kind = "FILE" /\ items[n].item.id = Item.id
    BY <1>3, <1>7 DEF Item
  <2>2. m \in 1..Len(items) /\ items[m].item.kind = "FILE" /\ items[m].item.id = Item.id
    BY <1>3, <2>1
  <2>3. FileContent' = items[m].content
    <3>1. yields'[Len(yields')] = Item
      BY <1>4
    <3> QED BY <1>2, <3>1 DEF FileContent
  <2>4. archive \in Walks
    BY <1>1 DEF Types, TapeType
  <2>5. /\ items[m].content = c /\ c \in Seq(Cells) /\ Len(c) \in Nat
    <3> HIDE DEF m, n
    <3> QED BY <1>3, <2>1, <2>2, <2>4, SameContent
  <2>6. FileContent' = c /\ c \in Seq(Cells) /\ Len(c) \in Nat
    BY <2>3, <2>5
  <2> HIDE DEF m, c
  <2>7. SubSeq(c, 1, 0) = <<>> /\ Len(<<>>) = 0
    <3>1. 1 \in Int /\ 0 \in Int /\ 0 < 1
      OBVIOUS
    <3> QED BY <3>1, SubSeqEmpty
  <2>8. ContentExact' /\ EndsMarked'
    BY <1>2, <2>6, <2>7 DEF ContentExact, EndsMarked
  <2>9. CASE entryDone
    <3>1. got' = FileContent'
      BY <1>2, <1>3, <1>7, <2>6, <2>9 DEF c
    <3> QED BY <1>2, <1>5, <2>8, <2>9, <3>1 DEF Exact
  <2>10. CASE ~entryDone
    <3>1. dataRem' = Len(c)
      BY <1>2, <1>3, <1>7, <2>10 DEF c
    <3>2. Len(c) - dataRem' = 0 /\ dataRem' <= Len(c)
      BY <2>6, <3>1
    <3>3. SoFar'
      BY <1>2, <2>6, <2>7, <3>2 DEF SoFar
    <3> QED BY <1>2, <1>5, <2>8, <2>10, <3>3 DEF Exact
  <2> QED BY <2>9, <2>10
<1> QED BY <1>6, <1>7, <1>5

(* A data set announced again has no content of its own. *)
LEMMA RepeatExact ==
  ASSUME InOrder, Yield, Repeated
  PROVE  InOrder' /\ Exact'
<1>1. UNCHANGED <<archive, yields>> /\ again' /\ pc' = "idle"
  BY DEF Yield
<1>2. ~AtFile'
  BY <1>1 DEF AtFile
<1>3. InOrder'
  BY <1>1 DEF InOrder
<1> QED BY <1>1, <1>2, <1>3 DEF Exact, ContentExact, EndsMarked

(* The end of a Read, and the calls. *)
LEMMA ExactReturns ==
  ASSUME Orderly, OnCourse, Exact, ReadReturns
  PROVE  ~readEnd /\ Exact'
<1>1. /\ Types /\ OpenRead /\ pc = "data" /\ mode = "read" /\ pc' = "idle"
      /\ UNCHANGED <<archive, yields, again, got, readEnd, hitEOTM, entryDone, dataRem>>
  BY DEF OnCourse, Place, Ways, ReadReturns, flags, entryVars, dataVars
<1>2. AtFile /\ ~readEnd /\ SoFar /\ ~entryDone
  BY <1>1 DEF Exact, OpenRead, Trailing
<1>3. UNCHANGED <<FileContent, AtFile>>
  BY <1>1 DEF FileContent, AtFile
<1>4. SoFar'
  BY <1>1, <1>2, <1>3 DEF SoFar
<1>5. ContentExact' /\ EndsMarked'
  BY <1>1, <1>3 DEF Exact, ContentExact, EndsMarked
<1> QED BY <1>1, <1>2, <1>4, <1>5 DEF Exact

LEMMA ExactDone ==
  ASSUME Orderly, OnCourse, Exact, InOrder, DataDone
  PROVE  Exact'
<1>1. /\ Types /\ OpenRead /\ pc = "data" /\ pc' = "trail" /\ ~hitEOTM
      /\ UNCHANGED <<archive, yields, again, got, readEnd, hitEOTM, mode>>
  BY DEF OnCourse, Place, Ways, DataDone, flags, Goto, outcome
<1>2. UNCHANGED <<FileContent, AtFile>>
  BY <1>1 DEF FileContent, AtFile
<1>3. ContentExact' /\ EndsMarked'
  BY <1>1, <1>2 DEF Exact, ContentExact, EndsMarked
<1>4. CASE mode = "read"
  <2>1. AtFile /\ ~readEnd /\ SoFar
    BY <1>1, <1>4 DEF Exact, Trailing
  <2>2. dataRem = 0
    BY DataDoneStep
  <2>3. got = FileContent
    BY <1>1, <2>1, <2>2, AllDelivered
  <2> QED BY <1>1, <1>2, <1>3, <2>1, <2>3 DEF Exact, Trailing
<1>5. CASE mode # "read"
  BY <1>1, <1>3, <1>5 DEF Exact
<1> QED BY <1>4, <1>5

LEMMA ExactFinished ==
  ASSUME Orderly, OnCourse, Exact, Finished
  PROVE  Exact'
<1>1. pc = "finished" /\ ~hitEOTM /\ UNCHANGED <<archive, yields, again, got, hitEOTM>>
  BY DEF Finished, OnCourse, flags
<1>2. UNCHANGED <<FileContent, AtFile>>
  BY <1>1 DEF FileContent, AtFile
<1>3. ContentExact'
  BY <1>1, <1>2 DEF Exact, ContentExact
<1>4. CASE mode = "read"
  <2>1. got = FileContent
    BY <1>1, <1>4 DEF Exact, Trailing
  <2>2. readEnd' /\ pc' = "idle"
    BY <1>4 DEF Finished
  <2> QED BY <1>1, <1>2, <1>3, <2>1, <2>2 DEF Exact, EndsMarked
<1>5. CASE mode # "read"
  <2>1. readEnd' = readEnd /\ pc' = "scan" /\ mode' = "walk"
    BY <1>5 DEF Finished
  <2> QED BY <1>1, <1>2, <1>3, <2>1 DEF Exact, EndsMarked
<1> QED BY <1>4, <1>5

LEMMA ExactCalls ==
  ASSUME Orderly, NoEio, OnCourse, Exact, InOrder, Calls
  PROVE  Exact' /\ UNCHANGED <<archive, yields, again, got, hitEOTM, res>>
<1>1. /\ Types /\ CurKnown /\ pc = "idle" /\ res = "ok" /\ ~hitEOTM
  BY ReadyIs DEF Calls, CallNext, CallRead, OnCourse, Place, Ways
<1>2. UNCHANGED <<archive, yields, again, got, hitEOTM, res>>
  BY <1>1 DEF Calls, CallNext, CallRead, flags, outcome
<1>3. UNCHANGED <<FileContent, AtFile>>
  BY <1>2 DEF FileContent, AtFile
<1>4. ContentExact'
  BY <1>2, <1>3 DEF Exact, ContentExact
<1>5. CASE CallNext
  <2>1. readEnd' = readEnd /\ pc' # "idle" /\ mode' # "read"
    BY <1>1, <1>5 DEF CallNext, outcome
  <2> QED BY <1>2, <1>3, <1>4, <2>1 DEF Exact, EndsMarked
<1>6. ASSUME NEW n \in 1..MaxRead, CallRead(n) PROVE Exact'
  <2>1. AtFile /\ ~readEnd /\ mode' = "read" /\ dataRem' = dataRem
    BY <1>6 DEF CallRead, dataVars
  <2>2. IF entryDone THEN got = FileContent ELSE SoFar
    BY <1>1, <2>1 DEF Exact
  <2>3. SoFar => SoFar'
    BY <1>2, <1>3, <2>1 DEF SoFar
  <2>4. CASE entryDone
    <3>1. pc' = "idle" /\ readEnd'
      BY <1>1, <1>6, <2>4 DEF CallRead
    <3> QED BY <1>2, <1>3, <1>4, <2>2, <2>4, <3>1 DEF Exact, EndsMarked
  <2>5. CASE ~entryDone /\ ~DataLeft
    <3>1. pc' = "trail" /\ ~readEnd'
      BY <1>6, <2>1, <2>5 DEF CallRead
    <3>2. Open /\ inData
      <4>1. Open
        BY <1>1, <2>1, <2>5 DEF Open, CurKnown
      <4>2. Resting
        BY <1>1 DEF OnCourse, Course
      <4> QED BY <4>1, <4>2 DEF Resting
    <3>3. dataRem = 0
      BY <1>1, <2>5, <3>2 DEF DataLeft, Types, HeaderType
    <3>4. got = FileContent
      BY <1>1, <2>1, <2>2, <2>5, <3>3, AllDelivered
    <3> QED BY <1>2, <1>3, <1>4, <2>1, <3>1, <3>4 DEF Exact, EndsMarked, Trailing
  <2>6. CASE ~entryDone /\ DataLeft
    <3>1. pc' = "data" /\ ~readEnd'
      BY <1>6, <2>1, <2>6 DEF CallRead
    <3> QED BY <1>2, <1>3, <1>4, <2>1, <2>2, <2>3, <2>6, <3>1
            DEF Exact, EndsMarked, Trailing
  <2> QED BY <2>4, <2>5, <2>6
<1> QED BY <1>2, <1>5, <1>6 DEF Calls

-----------------------------------------------------------------------------
(* The walk, and what it implements. *)

LEMMA CourseStays ==
  ASSUME Course, Probed, UNCHANGED vars
  PROVE  Course' /\ Probed'
<1>1. UNCHANGED <<Here, Medium, Position, Discards, Open, AtFile, Passing>>
  BY LayoutStays DEF vars, tapeVars, Position, Discards, Open, AtFile, Passing, entryVars,
                     dataVars, outcome, calls
<1>2. Course'
  <2>1. UNCHANGED <<archive, medium, flbsize, flbread, dblk, strm, did, lastStream, inData,
                    dataRem, streamContinued, cur, entryDone, volume, cwd, catFDD>>
        /\ UNCHANGED <<pc, mode, back, want, res, readEnd, yields, again, got>>
    BY DEF vars, tapeVars, streamVars, dataVars, entryVars, ctxVars, calls, outcome
  <2>2. \A c : Context(c) => Context(c)'
    BY <2>1 DEF Context
  <2>3. Alone => Alone'
    BY <1>1, <2>1 DEF Alone
  <2>4. \A b : Headed(b) => Headed(b)'
    BY <1>1, <2>1 DEF Headed
  <2>5. \A b : Upcoming(b) => Upcoming(b)'
    BY <2>1 DEF Upcoming, Outgoing, Yielding, Resuming
  <2>6. \A b, s : InStrand(b, s) => InStrand(b, s)'
    BY <1>1, <2>1, <2>4 DEF InStrand
  <2>7. \A b, s : InData(b, s) => InData(b, s)'
    BY <1>1, <2>1 DEF InData
  <2>8. \A b : OfFile(b) => OfFile(b)'
    BY <2>1, <2>2 DEF OfFile
  <2>9. \A b : Ended(b) => Ended(b)'
    BY <2>1, <2>2, <2>4 DEF Ended
  <2>10. \A b : Unread(b) => Unread(b)'
    BY <1>1, <2>1, <2>5 DEF Unread
  <2>11. Seeking(Position) => Seeking(Position)'
    BY <1>1, <2>1, <2>2, <2>3 DEF Seeking, Stop
  <2>12. Seeking(Up(Position)) => Seeking(Up(Position))'
    BY <1>1, <2>1, <2>2, <2>3 DEF Seeking, Stop
  <2>13. Turned(Position) => Turned(Position)'
    BY <1>1, <2>1, <2>2, <2>3 DEF Turned, AtEnd
  <2>14. Turned(Up(Position)) => Turned(Up(Position))'
    BY <1>1, <2>1, <2>2, <2>3 DEF Turned, AtEnd
  <2>15. Lost => Lost'
    BY <1>1, <2>1, <2>2 DEF Lost, AtEnd
  <2>16. Finishing(Position) => Finishing(Position)'
    BY <1>1, <2>1, <2>2 DEF Finishing, Stop
  <2>17. Finishing(Up(Position)) => Finishing(Up(Position))'
    BY <1>1, <2>1, <2>2 DEF Finishing, Stop
  <2>18. Announced => Announced'
    BY <1>1, <2>4, <2>10 DEF Announced
  <2>19. Announcing => Announcing'
    BY <1>1, <2>1, <2>5, <2>7, <2>10 DEF Announcing
  <2>20. Found => Found'
    BY <1>1, <2>1, <2>2, <2>3, <2>4 DEF Found, JustHeaded
  <2>21. Starting => Starting'
    BY <1>1, <2>1, <2>2, <2>4, <2>5 DEF Starting, JustHeaded
  <2>22. Coming => Coming'
    BY <1>1, <2>1, <2>5, <2>6 DEF Coming, ToEntry
  <2>23. Capturing => Capturing'
    BY <1>1, <2>1, <2>5, <2>6 DEF Capturing, ToCatalog
  <2>24. Rejoining => Rejoining'
    BY <1>1, <2>1, <2>2, <2>6 DEF Rejoining, ToRest
  <2>25. Continuing => Continuing'
    BY <1>1, <2>1, <2>6, <2>8 DEF Continuing, ToRest
  <2>26. Passed => Passed'
    BY <1>1, <2>6, <2>9 DEF Passed, Past
  <2>27. AtData => AtData'
    BY <1>1, <2>1, <2>7, <2>8 DEF AtData
  <2>28. Trailed => Trailed'
    BY <1>1, <2>6, <2>9 DEF Trailed, Past
  <2>29. Resting => Resting'
    BY <1>1, <2>1, <2>2, <2>7, <2>8 DEF Resting, Stop
  <2> QED BY <1>1, <2>1, <2>11, <2>12, <2>13, <2>14, <2>15, <2>16, <2>17, <2>18, <2>19,
             <2>20, <2>21, <2>22, <2>23, <2>24, <2>25, <2>26, <2>27, <2>28, <2>29
          DEF Course
<1>3. Probed'
  BY <1>1 DEF Probed, Continues, vars, tapeVars, calls
<1> QED BY <1>2, <1>3

(* A step in which the order of events stays as it is. *)
LEMMA OrderStays ==
  ASSUME Orders, UNCHANGED <<archive, yields, again>>
  PROVE  InOrder'
BY DEF Orders, InOrder

LEMMA OnwardOrders ==
  ASSUME Place, Place', Orders, ~hitEOTM, Course', Probed', Advances
  PROVE  Orders' /\ [AW!Next]_AW!vars
<1>1. /\ pc # "idle" /\ UNCHANGED <<archive, yields, again, got, hitEOTM>> /\ res # "eof"
      /\ pc' # "idle" => UNCHANGED res
      /\ pc' = "idle" => res' = "eof" /\ Len(yields) = Len(archive.items)
  BY DEF Advances, Orders
<1>2. InOrder' /\ Directed'
  BY <1>1, OrderStays DEF Directed
<1>3. Exact'
  BY ExactOnward DEF Orders, Place, Ways
<1>4. Orders'
  BY <1>1, <1>2, <1>3 DEF Orders
<1>5. CASE pc' # "idle"
  BY <1>1, <1>4, <1>5 DEF AW!vars
<1>6. CASE pc' = "idle"
  <2>1. AW!End
    BY <1>1, <1>6 DEF AW!End
  <2> QED BY <1>4, <2>1 DEF AW!Next
<1> QED BY <1>5, <1>6

LEMMA OrdersStep ==
  ASSUME Orderly, NoEio, Place, Place', Orders, [Next]_vars
  PROVE  Orders' /\ [AW!Next]_AW!vars
<1>1. CASE hitEOTM
  <2>1. Types /\ Behalf /\ CutOff /\ ContentExact
    BY <1>1 DEF Place, Ways, Orders, Directed, Exact
  <2>2. /\ CutOff' /\ hitEOTM' /\ UNCHANGED <<archive, yields, again, got>>
        /\ pc' # "idle" => mode' # "read"
    BY <1>1, <2>1, CutStep
  <2>3. Exact' /\ InOrder'
    BY <2>1, <2>2, ExactCut, OrderStays
  <2> QED BY <1>1, <2>2, <2>3 DEF Orders, Directed, AW!vars
<1>2. CASE ~hitEOTM
  <2>1. /\ OnCourse /\ Course /\ Probed /\ Exact /\ InOrder /\ Types
        /\ pc # "idle" => res # "eof"
    BY <1>2 DEF OnCourse, Orders, Directed, Place, Ways
  <2>2. CASE UNCHANGED vars
    <3>1. Course' /\ Probed'
      BY <2>1, <2>2, CourseStays
    <3>2. UNCHANGED <<archive, yields, again, got, readEnd, res, hitEOTM, pc, mode, entryDone,
                      dataRem, back>>
      BY <2>2 DEF vars, outcome, flags, calls, entryVars, dataVars
    <3>3. UNCHANGED <<FileContent, AtFile, Trailing>>
      BY <3>2 DEF FileContent, AtFile, Trailing
    <3>4. Exact'
      BY <2>1, <3>2, <3>3 DEF Exact, ContentExact, EndsMarked, SoFar
    <3>5. InOrder'
      BY <3>2, OrderStays
    <3> QED BY <1>2, <2>1, <3>1, <3>2, <3>4, <3>5 DEF Orders, Directed, AW!vars
  <2>3. CASE \/ ScanStart \/ FoundTape \/ FoundSet \/ FoundSetEnd \/ FoundEOTM
             \/ FoundNothing \/ FoundEntry \/ Align
    BY <1>2, <2>1, <2>3, OnwardWalk, OnwardOrders
  <2>4. CASE Streams
    BY <1>2, <2>1, <2>4, OnwardStreams, OnwardOrders
  <2>5. CASE \/ Probe \/ NoProbe \/ SkipChunk \/ Trail \/ TrailEnd
             \/ RejoinContext \/ RejoinNowhere \/ RejoinFile \/ ContinuationFile
    BY <1>2, <2>1, <2>5, OnwardData, OnwardOrders
  <2>6. CASE Yield
    <3>1. Course' /\ Probed'
      BY <2>1, <2>6, YieldStep
    <3>2. InOrder' /\ Exact'
      BY <2>1, <2>6, YieldExact, RepeatExact
    <3>3. pc = "yield" /\ pc' = "idle" /\ res' = "ok" /\ UNCHANGED <<archive, hitEOTM>>
      BY <2>6 DEF Yield, flags
    <3>4. CASE Repeated
      <4>1. UNCHANGED <<yields, got>>
        BY <2>6, <3>4 DEF Yield
      <4> QED BY <1>2, <2>1, <3>1, <3>2, <3>3, <4>1 DEF Orders, Directed, AW!vars
    <3>5. CASE ~Repeated
      <4>1. got' = <<>> /\ yields' = Append(yields, Item)
        BY <2>6, <3>5 DEF Yield
      <4>2. Len(yields) + 1 \in 1..Len(archive.items)
            /\ Item = archive.items[Len(yields) + 1].item
        BY <2>1, <3>3, <3>5, NextItem
      <4>3. Len(yields) < Len(archive.items)
        <5>1. Len(yields) \in Nat /\ Len(archive.items) \in Nat
          BY <2>1, LayoutIs DEF Types, CallType, TapeType, Recorded
        <5> QED BY <4>2, <5>1
      <4>4. AW!Yield
        BY <1>2, <2>1, <3>3, <4>1, <4>2, <4>3 DEF AW!Yield
      <4> QED BY <1>2, <3>1, <3>2, <3>3, <4>4 DEF Orders, Directed, AW!Next
    <3> QED BY <3>4, <3>5
  <2>7. CASE ReadChunk
    <3>1. /\ Course' /\ Probed' /\ Exact' /\ ~hitEOTM'
          /\ UNCHANGED <<archive, yields, again, res>> /\ pc # "idle" /\ pc' # "idle"
          /\ \E k \in (Len(got) + 1)..Len(FileContent) : got' = SubSeq(FileContent, 1, k)
      BY <2>1, <2>7, DeliverStep
    <3>2. InOrder'
      BY <3>1, OrderStays
    <3>3. AtFile /\ FileContent = archive.items[Len(yields)].content
      <4>1. AtFile
        BY <2>1, <2>7, <3>1 DEF ReadChunk, Course
      <4> QED BY <2>1, <4>1, FileIs
    <3>4. AW!Deliver
      BY <1>2, <2>1, <3>1, <3>3 DEF AW!Deliver, AtFile
    <3> QED BY <2>1, <3>1, <3>2, <3>4 DEF Orders, Directed, AW!Next
  <2>8. CASE ReadReturns
    <3>1. Exact' /\ ~readEnd
      BY <2>1, <2>8, ExactReturns
    <3>2. Course' /\ Probed'
      BY <2>1, <2>8, <3>1, ReadReturnsStep
    <3>3. /\ pc # "idle" /\ pc' = "idle" /\ res' = "ok"
          /\ UNCHANGED <<archive, yields, again, got, hitEOTM>>
      BY <2>8 DEF ReadReturns, flags
    <3>4. InOrder'
      BY <3>3, OrderStays
    <3> QED BY <1>2, <2>1, <3>1, <3>2, <3>3, <3>4 DEF Orders, Directed, AW!vars
  <2>9. CASE DataDone
    <3>1. Course' /\ Probed' /\ Exact'
      BY <2>1, <2>9, DataDoneStep, ExactDone
    <3>2. /\ pc # "idle" /\ UNCHANGED <<archive, yields, again, got, hitEOTM, res>>
      BY <2>9 DEF DataDone, flags, Goto, outcome
    <3>3. InOrder'
      BY <3>2, OrderStays
    <3> QED BY <1>2, <2>1, <3>1, <3>2, <3>3 DEF Orders, Directed, AW!vars
  <2>10. CASE Finished
    <3>1. Course' /\ Probed' /\ Exact'
      BY <2>1, <2>10, FinishedStep, ExactFinished
    <3>2. /\ pc # "idle" /\ UNCHANGED <<archive, yields, again, got, hitEOTM>>
          /\ res' \in {"ok", res}
      BY <2>10 DEF Finished, flags
    <3>3. InOrder'
      BY <3>2, OrderStays
    <3> QED BY <1>2, <2>1, <3>1, <3>2, <3>3 DEF Orders, Directed, AW!vars
  <2>11. CASE AtEOTM
    <3>1. Directed'
      BY <2>1, <2>11, EOTMStep
    <3>2. pc # "idle" /\ UNCHANGED <<archive, dataVars, entryVars>>
      BY <2>11 DEF AtEOTM
    <3>3. CASE Goto("scan") /\ UNCHANGED hitEOTM
      <4>1. Advances
        BY <3>2, <3>3 DEF Advances, Goto, outcome, dataVars, entryVars
      <4>2. Course' /\ Probed'
        BY <1>2, <3>1, <3>3 DEF Directed
      <4> QED BY <1>2, <4>1, <4>2, OnwardOrders
    <3>4. CASE NoMedium /\ Raise("eof")
      <4>1. hitEOTM' /\ pc' = "idle" /\ UNCHANGED <<yields, again, got>>
        BY <3>4 DEF NoMedium, Truncated, Raise
      <4>2. Exact' /\ InOrder'
        BY <2>1, <3>2, <4>1, ExactCut, OrderStays DEF Exact
      <4> QED BY <2>1, <3>1, <3>2, <4>1, <4>2 DEF Orders, AW!vars
    <3> QED BY <2>11, <3>3, <3>4 DEF AtEOTM
  <2>12. CASE Calls
    <3>1. Exact' /\ UNCHANGED <<archive, yields, again, got, hitEOTM, res>>
      BY <2>1, <2>12, ExactCalls
    <3>2. Course' /\ Probed'
      BY <2>1, <2>12, CallNextStep, CallReadStep DEF Calls
    <3>3. InOrder'
      BY <3>1, OrderStays
    <3>4. res = "ok"
      BY <2>12, ReadyIs DEF Calls, CallNext, CallRead
    <3> QED BY <1>2, <3>1, <3>2, <3>3, <3>4 DEF Orders, Directed, AW!vars
  <2> QED BY <2>2, <2>3, <2>4, <2>5, <2>6, <2>7, <2>8, <2>9, <2>10, <2>11, <2>12
          DEF Next, Walk, Data, Span
<1> QED BY <1>1, <1>2

LEMMA InitOrders ==
  ASSUME Orderly, Init
  PROVE  Orders /\ AW!Init
<1>1. archive \in Walks /\ medium = 1 /\ Recorded(archive, Layout)
  BY LayoutIs DEF Init
<1>2. Position = 0
  <2>1. Len(peek) = 0 /\ tp = 0
    BY EmptySeq DEF Init
  <2> QED BY <2>1 DEF Position
<1>3. Len(yields) = 0
  BY EmptySeq DEF Init
<1>4. Stop(Position)
  <2>1. PICK b \in Layout : b.m = 1 /\ b.at = 0 /\ b.before = Blank
    BY <1>1 DEF Recorded
  <2>2. b \in Here
    BY <1>1, <2>1 DEF Here
  <2>3. Context(b.before) /\ b.before.left = dataRem
    BY <1>3, <2>1 DEF Init, Context, Blank
  <2> QED BY <1>2, <2>1, <2>2, <2>3 DEF Stop
<1>5. Course /\ Probed
  BY <1>4 DEF Init, Course, Probed, Resting, Open
<1>6. InOrder
  BY <1>3 DEF InOrder
<1>7. Exact
  BY DEF Init, Exact, ContentExact, EndsMarked, AtFile
<1> QED BY <1>5, <1>6, <1>7 DEF Init, Orders, Directed, AW!Init

LEMMA OrdersHold == Orderly /\ NoEio => (Spec => [](Place /\ Orders))
<1> SUFFICES ASSUME Orderly, NoEio PROVE Spec => [](Place /\ Orders)
  OBVIOUS
<1>1. Spec => []Place
  BY PlaceHolds DEF NoEio
<1>2. Init => Orders
  BY InitOrders
<1>3. Place /\ Place' /\ Orders /\ [Next]_vars => Orders'
  BY OrdersStep
<1> QED BY <1>1, <1>2, <1>3, PTL DEF Spec

(* What Read has delivered of a file is its own bytes, from the first on,  *)
(* with no gap and nothing foreign in between, for every archive that is   *)
(* recorded in order, on however many media, and for every caller that     *)
(* mixes Next and Read (readStreamData, continuationFile).                 *)
THEOREM DeliveredExactly == Orderly /\ NoEio => (Spec => []ContentExact)
<1>1. Orders => ContentExact
  BY DEF Orders, Exact
<1> QED BY <1>1, OrdersHold, PTL

(* TruncatedByEOTM is set only for want of a medium or of a callback that  *)
(* supplies one, and then no other medium is loaded.                       *)
Stranded == hitEOTM => OutOfMedia \/ CallbackFailed

LEMMA FaultsGrow ==
  ASSUME Types, [Next]_vars
  PROVE  /\ faults' \in Nat /\ faults \in Nat /\ faults <= faults'
         /\ UNCHANGED archive
         /\ medium' = medium \/ SwitchMedium
         /\ hitEOTM' = hitEOTM \/ NoMedium
<1>1. faults \in Nat
  BY ReaderAssumption DEF Types, TapeType
<1>2. \A k, j, e : ReadCells(k, j, e) => faults' = faults \/ faults' = faults + 1
  BY <1>1 DEF ReadCells, Take
<1>3. \A k, j, e : SkipCells(k, j, e) => faults' = faults \/ faults' = faults + 1
  BY <1>2 DEF SkipCells
<1>4. CASE UNCHANGED vars
  BY <1>1, <1>4 DEF vars, tapeVars, flags
<1>5. CASE Walk
  BY <1>1, <1>2, <1>5 DEF Walk, ScanStart, FoundTape, FoundSet, FoundSetEnd, FoundEOTM,
       FoundNothing, FoundEntry, Yield, Align, tapeVars, flags
<1>6. CASE Streams
  <2>1. CASE StreamStart
    BY <1>1, <1>2, <2>1 DEF StreamStart, flags
  <2>2. CASE StreamRest
    BY <1>1, <1>3, <2>2 DEF StreamRest, flags
  <2>3. CASE StreamHeader
    BY <1>1, <1>2, <2>3 DEF StreamHeader, flags
  <2>4. CASE Capture
    BY <1>1, <1>2, <2>4 DEF Capture, flags
  <2>5. CASE StandardData \/ NoData \/ NotCatalog \/ CatalogEnd
    BY <1>1, <1>2, <1>3, <2>5 DEF StandardData, NoData, NotCatalog, CatalogEnd, tapeVars, flags
  <2> QED BY <1>6, <2>1, <2>2, <2>3, <2>4, <2>5 DEF Streams
<1>7. CASE Data
  <2>1. CASE Probe \/ NoProbe
    <3>1. \A j, e : Take(j, e) => faults' = faults \/ faults' = faults + 1
      BY <1>1 DEF Take
    <3>2. CASE Probe
      <4>1. faults' = faults \/ faults' = faults + 1
        BY <3>1, <3>2 DEF Probe
      <4>2. UNCHANGED <<archive, medium, hitEOTM>>
        BY <3>2 DEF Probe, flags
      <4> QED BY <1>1, <4>1, <4>2
    <3>3. CASE NoProbe
      BY <1>1, <3>3 DEF NoProbe, tapeVars, flags
    <3> QED BY <2>1, <3>2, <3>3
  <2>2. CASE ReadChunk
    BY <1>1, <1>2, <2>2 DEF ReadChunk, flags
  <2>3. CASE SkipChunk
    BY <1>1, <1>3, <2>3 DEF SkipChunk, flags
  <2>4. CASE ReadReturns \/ DataDone \/ Trail \/ TrailEnd \/ Finished
    BY <1>1, <2>4 DEF ReadReturns, DataDone, Trail, TrailEnd, Finished, tapeVars, flags
  <2> QED BY <1>7, <2>1, <2>2, <2>3, <2>4 DEF Data
<1>8. CASE AtEOTM
  BY <1>1, <1>8 DEF AtEOTM, SwitchMedium, NoMedium
<1>9. CASE RejoinContext \/ RejoinNowhere \/ RejoinFile \/ ContinuationFile
  BY <1>1, <1>9 DEF RejoinContext, RejoinNowhere, RejoinFile, ContinuationFile, Rejoin,
       tapeVars, flags
<1>10. CASE Calls
  BY <1>1, <1>10 DEF Calls, CallNext, CallRead, tapeVars, flags
<1> QED BY <1>4, <1>5, <1>6, <1>7, <1>8, <1>9, <1>10 DEF Next, Span

LEMMA StrandedStep == ASSUME Types, Stranded, [Next]_vars PROVE Stranded'
<1>1. /\ faults' \in Nat /\ faults \in Nat /\ faults <= faults' /\ UNCHANGED archive
      /\ medium' = medium \/ SwitchMedium
      /\ hitEOTM' = hitEOTM \/ NoMedium
  BY FaultsGrow
<1>2. CallbackFailed => CallbackFailed'
  BY <1>1 DEF CallbackFailed
<1>3. CASE NoMedium
  <2>1. CASE ~Continues \/ medium = Len(archive.media)
    <3>1. UNCHANGED medium
      BY <1>3 DEF NoMedium
    <3> QED BY <1>1, <2>1, <3>1 DEF Stranded, OutOfMedia, Continues
  <2>2. CASE "callback" \in Faults /\ faults' = faults + 1
    BY <1>1, <2>2 DEF Stranded, CallbackFailed
  <2> QED BY <1>3, <2>1, <2>2 DEF NoMedium
<1>4. CASE ~NoMedium /\ medium' = medium
  <2>1. OutOfMedia' = OutOfMedia
    BY <1>1, <1>4 DEF OutOfMedia, Continues
  <2> QED BY <1>1, <1>2, <1>4, <2>1 DEF Stranded
<1>5. CASE ~NoMedium /\ SwitchMedium
  <2>1. medium \in 1..Len(archive.media)
    BY DEF Types, TapeType
  <2>2. ~OutOfMedia
    BY <1>5, <2>1 DEF SwitchMedium, OutOfMedia
  <2> QED BY <1>1, <1>2, <1>5, <2>2 DEF Stranded
<1> QED BY <1>1, <1>3, <1>4, <1>5

LEMMA SpecStranded == Spec => []Stranded
<1>1. Init => Stranded
  BY DEF Init, Stranded
<1> QED BY <1>1, StrandedStep, SpecTypes, PTL DEF Spec

(* And it returns io.EOF only when all of them have been delivered, or     *)
(* TruncatedByEOTM is set for want of the medium with the rest, or behind  *)
(* an error of the callback (Read, finishEntry, switchMedium).             *)
THEOREM EndsWhenComplete == Orderly /\ NoEio => (Spec => []ReadEndsComplete)
<1>1. Orders /\ Stranded => ReadEndsComplete
  BY DEF Orders, Exact, EndsMarked, Stranded, ReadEndsComplete
<1> QED BY <1>1, OrdersHold, SpecStranded, PTL

(* No call fails, unless the walk was cut off inside a file for want of a  *)
(* medium (endOrError, advanceToContinuationStream).                       *)
THEOREM FailsOnlyCutOff == Orderly /\ NoEio => (Spec => [](NoFailure \/ hitEOTM))
<1>1. Orders => NoFailure \/ hitEOTM
  BY DEF Orders, Directed, Course, NoFailure
<1> QED BY <1>1, OrdersHold, PTL

(* The block iterator does what it promises: it yields every item of the   *)
(* archive once and in order, delivers of each its own content from the    *)
(* first cell on, and ends behind the last one; blocks, streams, padding   *)
(* and the ends of media inside a file do not show (Next, Read).           *)
THEOREM WalkImplements == Orderly /\ NoEio => (Spec => ImplementsWalk)
<1> SUFFICES ASSUME Orderly, NoEio PROVE Spec => ImplementsWalk
  OBVIOUS
<1>1. Init => AW!Init
  BY InitOrders
<1>2. Place /\ Place' /\ Orders /\ [Next]_vars => [AW!Next]_AW!vars
  BY OrdersStep
<1>3. Spec => [](Place /\ Orders)
  BY OrdersHold
<1> QED BY <1>1, <1>2, <1>3, PTL DEF Spec, ImplementsWalk, AW!Spec
=============================================================================
