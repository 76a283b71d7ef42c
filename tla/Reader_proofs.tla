--------------------------- MODULE Reader_proofs ---------------------------
(***************************************************************************)
(* Proofs about the block iterator: for every archive laid out in whole    *)
(* Format Logical Blocks, whatever its blocks, streams and media hold, and *)
(* every caller that mixes Next and Read.                                  *)
(***************************************************************************)
EXTENDS Reader, SequenceTheorems, TLAPS

-----------------------------------------------------------------------------
(* Multiples of the length of an FLB. *)

Whole(x) == x % W = 0

LEMMA WholeIs == ASSUME NEW x \in Int, Whole(x) PROVE \E q \in Int : x = W * q
<1>1. x = (W * (x \div W)) + (x % W)
  BY ReaderAssumption
<1>2. x \div W \in Int
  BY ReaderAssumption
<1>3. x = W * (x \div W)
  BY <1>1, <1>2, ReaderAssumption DEF Whole
<1> QED BY <1>2, <1>3

LEMMA IsWhole == ASSUME NEW q \in Int PROVE Whole(W * q)
  BY ReaderAssumption DEF Whole

LEMMA WholeBase == Whole(0) /\ Whole(W)
<1>1. W * 0 = 0 /\ W * 1 = W
  BY ReaderAssumption
<1> QED BY <1>1, IsWhole

LEMMA WholeSum ==
  ASSUME NEW x \in Int, NEW y \in Int, Whole(x), Whole(y)
  PROVE  Whole(x + y) /\ Whole(x - y)
<1>1. PICK q \in Int : x = W * q
  BY WholeIs
<1>2. PICK p \in Int : y = W * p
  BY WholeIs
<1>3. x + y = W * (q + p) /\ x - y = W * (q - p)
  BY <1>1, <1>2, ReaderAssumption
<1>4. q + p \in Int /\ q - p \in Int
  OBVIOUS
<1> QED BY <1>3, <1>4, IsWhole

(* Wrapping takes whole FLBs away. *)
LEMMA WrapIs ==
  ASSUME flbsize \in {0, W}, NEW x \in Nat
  PROVE  /\ Wrap(x) \in Nat /\ Whole(x - Wrap(x))
         /\ flbsize > 0 => Wrap(x) <= W
<1>0. W \in Nat \ {0}
  BY ReaderAssumption
<1>1. CASE flbsize > 0 /\ x > flbsize
  <2>1. x - 1 = (W * ((x - 1) \div W)) + ((x - 1) % W)
    BY <1>0
  <2>2. (x - 1) \div W \in Int /\ (x - 1) % W \in 0..(W - 1)
    BY <1>0
  <2>3. Wrap(x) = ((x - 1) % W) + 1
    BY <1>1 DEF Wrap
  <2>4. PICK q \in Int, m \in 0..(W - 1) : x - 1 = (W * q) + m /\ Wrap(x) = m + 1
    BY <2>1, <2>2, <2>3
  <2>5. W * q \in Int
    BY <1>0
  <2>6. x - Wrap(x) = W * q
    BY <2>4, <2>5, <1>0
  <2>7. Wrap(x) \in Nat /\ Wrap(x) <= W
    BY <2>4, <1>0
  <2> QED BY <2>6, <2>7, IsWhole
<1>2. CASE ~(flbsize > 0 /\ x > flbsize)
  <2>1. Wrap(x) = x /\ x - Wrap(x) = 0
    BY <1>2 DEF Wrap
  <2> QED BY <2>1, <1>0, <1>2, WholeBase
<1> QED BY <1>1, <1>2

-----------------------------------------------------------------------------
(* The medium, and what is read of it. *)

TapeType ==
  /\ archive \in Walks /\ medium \in 1..Len(archive.media)
  /\ tp \in 0..Len(Medium) /\ Len(peek) <= 1
  /\ peek \in Seq(Cells) /\ Len(peek) <= tp
  /\ faults \in 0..MaxFaults

LEMMA MediumIs ==
  ASSUME archive \in Walks, medium \in 1..Len(archive.media)
  PROVE  /\ Medium \in Seq(Cells) /\ Len(Medium) \in Nat \ {0}
         /\ Whole(Len(Medium))
         /\ Medium[1] \in Headers /\ Medium[1].type = "TAPE"
<1>1. Formatted(Medium)
  BY MediaAssumption DEF Medium
<1>2. Medium \in Seq(Cells) /\ Medium # <<>>
  BY <1>1 DEF Formatted
<1>3. Len(Medium) \in Nat \ {0}
  BY <1>2, EmptySeq, LenProperties
<1>4. Len(Medium) % W = 0 /\ Medium[1] \in Headers /\ Medium[1].type = "TAPE"
  BY <1>1 DEF Formatted
<1> QED BY <1>2, <1>3, <1>4 DEF Whole

LEMMA AheadIs ==
  ASSUME TapeType
  PROVE  /\ Position \in 0..Len(Medium)
         /\ Ahead \in Seq(Cells) /\ Len(Ahead) = Len(Medium) - Position
         /\ Len(peek) \in {0, 1} /\ Len(Medium) \in Nat
<1>1. Medium \in Seq(Cells) /\ Len(Medium) \in Nat
  BY MediumIs DEF TapeType
<1>2. /\ peek \in Seq(Cells) /\ tp \in Nat /\ tp <= Len(Medium) /\ Len(peek) <= tp
      /\ Len(peek) \in Nat /\ Len(peek) \in {0, 1}
  <2>1. peek \in Seq(Cells) /\ Len(peek) <= 1 /\ Len(peek) <= tp /\ tp \in 0..Len(Medium)
    BY DEF TapeType
  <2>2. Len(peek) \in Nat
    BY <2>1, LenProperties
  <2> DEFINE n == Len(peek)
  <2>3. n \in Nat /\ n <= 1 => n \in {0, 1}
    OBVIOUS
  <2> QED BY <1>1, <2>1, <2>2, <2>3
<1>3. /\ SubSeq(Medium, tp + 1, Len(Medium)) \in Seq(Cells)
      /\ Len(SubSeq(Medium, tp + 1, Len(Medium))) = Len(Medium) - tp
  BY <1>1, <1>2
<1>4. Ahead \in Seq(Cells) /\ Len(Ahead) = Len(peek) + (Len(Medium) - tp)
  BY <1>2, <1>3 DEF Ahead
<1> QED BY <1>1, <1>2, <1>4 DEF Position

(* What a read has done: j of k cells are taken. *)
Done(k, j, e) ==
  /\ TapeType'
  /\ j \in Nat /\ j <= k /\ Position' = Position + j
  /\ e \in Ends
  /\ e = "ok"  => j = k
  /\ e = "eof" => Position' = Len(Medium)
  /\ e = "eio" => "eio" \in Faults

LEMMA ReadIs ==
  ASSUME TapeType, NEW k \in Nat, NEW j, NEW e, ReadCells(k, j, e),
         UNCHANGED <<archive, medium>>
  PROVE  Done(k, j, e) /\ (e = "ok" => k <= Len(Ahead))
<1>1. /\ Position \in 0..Len(Medium)
      /\ Ahead \in Seq(Cells) /\ Len(Ahead) = Len(Medium) - Position
      /\ Len(peek) \in {0, 1} /\ Len(Medium) \in Nat
  BY AheadIs
<1>2. Medium' = Medium
  BY DEF Medium
<1>3. /\ j \in Nat /\ j <= k /\ j <= Len(Ahead) /\ e \in Ends
      /\ e = "ok" => j = k /\ k <= Len(Ahead)
      /\ e = "eof" => j = Len(Ahead)
      /\ e = "eio" => "eio" \in Faults /\ faults < MaxFaults /\ Len(peek) <= j
  <2>1. CASE <<j, e>> = <<k, "ok">> /\ k <= Len(Ahead)
    BY <2>1, <1>1 DEF Ends
  <2>2. CASE <<j, e>> = <<Len(Ahead), "eof">> /\ ~(k <= Len(Ahead))
    BY <2>2, <1>1 DEF Ends
  <2>3. CASE /\ "eio" \in Faults /\ faults < MaxFaults
             /\ <<j, e>> \in {<<i, "eio">> : i \in {i \in Len(peek)..(k - 1) : i <= Len(Ahead)}}
    <3>1. PICK i \in Len(peek)..(k - 1) : i <= Len(Ahead) /\ <<j, e>> = <<i, "eio">>
      BY <2>3
    <3> QED BY <3>1, <2>3, <1>1 DEF Ends
  <2> QED BY <2>1, <2>2, <2>3 DEF ReadCells, Outcomes
<1> DEFINE n == Len(peek)
<1>a. n \in {0, 1} /\ n \in Nat /\ tp \in Nat /\ n <= tp /\ tp <= Len(Medium)
  BY <1>1 DEF TapeType
<1>4. peek' = SubSeq(peek, j + 1, Len(peek)) /\ peek \in Seq(Cells)
  BY DEF ReadCells, Take, TapeType
<1>5. /\ peek' \in Seq(Cells)
      /\ Len(peek') = IF j > n THEN 0 ELSE n - j
  BY <1>1, <1>3, <1>4
<1>6. tp' = IF j > n THEN tp + (j - n) ELSE tp
  <2>1. tp' = tp + (IF j > n THEN j - n ELSE 0)
    BY DEF ReadCells, Take
  <2> HIDE DEF n
  <2> QED BY <2>1, <1>a, <1>3
<1>7. Position' = Position + j
  <2>1. Position = tp - n /\ Position' = tp' - Len(peek')
    BY DEF Position
  <2> HIDE DEF n
  <2> QED BY <2>1, <1>a, <1>3, <1>5, <1>6
<1>8. faults' \in 0..MaxFaults
  <2>1. faults' = faults + (IF e = "eio" THEN 1 ELSE 0)
    BY DEF ReadCells, Take
  <2>2. faults \in 0..MaxFaults /\ MaxFaults \in Nat
    BY ReaderAssumption DEF TapeType
  <2> QED BY <2>1, <2>2, <1>3
<1>9. TapeType'
  <2>1. archive' \in Walks /\ medium' \in 1..Len(archive'.media)
    BY DEF TapeType
  <2>2. tp' \in 0..Len(Medium) /\ Len(peek') <= 1 /\ Len(peek') <= tp'
    <3>1. Len(Ahead) = Len(Medium) - (tp - n)
      BY <1>1 DEF Position
    <3> HIDE DEF n
    <3> QED BY <1>1, <1>a, <1>3, <1>5, <1>6, <3>1
  <2> QED BY <2>1, <2>2, <1>2, <1>5, <1>8 DEF TapeType
<1> QED BY <1>1, <1>3, <1>7, <1>9 DEF Done

LEMMA SkipIs ==
  ASSUME TapeType, NEW k \in Nat, NEW j, NEW e, SkipCells(k, j, e),
         UNCHANGED <<archive, medium>>
  PROVE  Done(k, j, e)
<1>1. CASE tp + k <= BufferEnd
  <2>1. j = k /\ e = "ok" /\ tp' = tp + k /\ UNCHANGED <<peek, faults>>
    BY <1>1 DEF SkipCells
  <2>2. /\ Position \in 0..Len(Medium)
        /\ Len(peek) \in {0, 1} /\ Len(Medium) \in Nat /\ tp \in Nat
    BY AheadIs DEF TapeType
  <2>3. Medium' = Medium
    BY DEF Medium
  <2>4. tp + k <= Len(Medium)
    <3>1. Phys \in Nat \ {0}
      BY ReaderAssumption DEF TapeType, Phys
    <3> DEFINE b == ((tp + Phys - 1) \div Phys) * Phys
    <3>2. (tp + Phys - 1) \div Phys \in Int
      BY <3>1, <2>2
    <3>3. b \in Int
      BY <3>1, <3>2
    <3>4. BufferEnd = IF b < Len(Medium) THEN b ELSE Len(Medium)
      BY DEF BufferEnd
    <3> HIDE DEF b
    <3> QED BY <3>3, <3>4, <2>2, <1>1
  <2>5. TapeType'
    BY <2>1, <2>2, <2>3, <2>4 DEF TapeType
  <2>6. Position' = Position + k
    BY <2>1, <2>2 DEF Position
  <2> QED BY <2>1, <2>5, <2>6, <2>2 DEF Done, Ends
<1>2. CASE ~(tp + k <= BufferEnd)
  <2>1. ReadCells(k, j, e)
    BY <1>2 DEF SkipCells
  <2> QED BY <2>1, ReadIs
<1> QED BY <1>1, <1>2

LEMMA HeaderIs ==
  ASSUME NEW c \in Cells
  PROVE  /\ AsBlock(c).k = "hdr" => AsBlock(c) \in Headers
         /\ AsStream(c).k = "str" => AsStream(c) \in StreamHeaders
<1>1. CASE c = Pad
  <2>1. AsBlock(c) = DeadBlock /\ AsStream(c) = NoStream
    BY <1>1 DEF AsBlock, AsStream
  <2>2. DeadBlock \in Headers
    BY DEF DeadBlock, Headers
  <2>3. NoStream \in StreamHeaders
    BY DEF NoStream, StreamHeaders, StreamTypes
  <2> QED BY <2>1, <2>2, <2>3
<1>2. CASE c # Pad /\ c \in Headers
  BY <1>2 DEF AsBlock, AsStream, Headers
<1>3. CASE c # Pad /\ c \in StreamHeaders
  <2>1. c.k = "str" /\ AsBlock(c) = c /\ AsStream(c) = c
    BY <1>3 DEF AsBlock, AsStream, StreamHeaders
  <2> QED BY <2>1, <1>3
<1>4. CASE c # Pad /\ c \in Units
  <2>1. c.k = "dat" /\ AsBlock(c) = c /\ AsStream(c) = c
    BY <1>4 DEF AsBlock, AsStream, Units
  <2> QED BY <2>1
<1> QED BY <1>1, <1>2, <1>3, <1>4 DEF Cells

-----------------------------------------------------------------------------
(* The types, and the ways through a call. *)

Pcs == {"idle", "scan", "dispatch", "rejoin", "align", "yield", "start",
        "streams", "rest", "header", "extra", "catalog", "data", "chunk",
        "trail", "finished", "eotm", "switch", "contfile"}
Items == [kind : Known \cup {"none"}, id : Nat, vol : Nat, dir : Nat, cat : Nat]

HeaderType ==
  /\ dblk \in Headers /\ strm \in StreamHeaders
  /\ flbsize \in {0, W} /\ flbread \in Nat
  /\ did \in Nat /\ dataRem \in Nat
  /\ volume \in Nat /\ cwd \in Nat /\ catFDD \in Nat

FlagType ==
  /\ lastStream \in BOOLEAN /\ inData \in BOOLEAN /\ streamContinued \in BOOLEAN
  /\ entryDone \in BOOLEAN /\ sawESET \in BOOLEAN /\ hitEOTM \in BOOLEAN

CallType ==
  /\ pc \in Pcs /\ back \in Pcs
  /\ mode \in {"walk", "next", "read"} /\ res \in {"ok", "eof", "fail"}
  /\ want \in 0..MaxRead /\ readEnd \in BOOLEAN /\ again \in BOOLEAN
  /\ yields \in Seq(Items)

CurType == cur \in {None, "VOLB", "DIRB", "FILE"}

(* Where the alignment, and the way to a stream header, return to.         *)
Returns ==
  /\ pc = "align" => back \in {"yield", "scan", "eotm", "data", "finished"}
  /\ pc \in {"streams", "catalog", "contfile", "extra"} => back = pc
  /\ pc \in {"rest", "header"} => back \in {"streams", "catalog", "contfile", "extra"}
  /\ pc = "start" =>
       \/ back = "streams" /\ dblk.type \in {"FILE", "VOLB", "DIRB"}
       \/ back = "catalog" /\ dblk.type = "ESET"
       \/ back = "contfile" /\ dblk.type = "FILE"

Types == TapeType /\ HeaderType /\ FlagType /\ CallType /\ CurType /\ Returns

LEMMA InitTypes == Init => Types
<1> SUFFICES ASSUME Init PROVE Types
  OBVIOUS
<1>1. Len(archive.media) \in Nat \ {0} /\ archive \in Walks
  BY MediaAssumption DEF Init
<1>2. medium \in 1..Len(archive.media)
  BY <1>1 DEF Init
<1>3. Len(Medium) \in Nat
  BY <1>1, <1>2, MediumIs
<1>4. TapeType
  <2>1. peek = <<>> /\ Len(peek) = 0 /\ peek \in Seq(Cells)
    BY EmptySeq DEF Init
  <2> QED BY <1>1, <1>2, <1>3, <2>1, ReaderAssumption DEF Init, TapeType
<1>5. HeaderType
  BY ReaderAssumption
     DEF Init, HeaderType, DeadBlock, NoStream, Headers, StreamHeaders, StreamTypes
<1>6. CallType
  <2>1. yields \in Seq(Items) /\ 0 \in 0..MaxRead
    BY ReaderAssumption, EmptySeq DEF Init
  <2> QED BY <2>1 DEF Init, CallType, Pcs
<1> QED BY <1>4, <1>5, <1>6 DEF Init, Types, FlagType, CurType, Returns

(* How a call goes on. *)
LEMMA Onward ==
  ASSUME CallType, NEW e, NEW p \in Pcs,
         Proceed(e, p) \/ Raise(e) \/ Goto(p) \/ AlignThen(p)
  PROVE  CallType'
BY DEF CallType, Pcs, Proceed, Raise, Goto, AlignThen, outcome

LEMMA TapeStays ==
  ASSUME TapeType, UNCHANGED <<archive, tapeVars, faults>>
  PROVE  TapeType'
BY DEF TapeType, tapeVars, Medium

(* The steps that read nothing. *)
LEMMA QuietWalk ==
  ASSUME Types,
         \/ FoundTape \/ FoundSet \/ FoundSetEnd \/ FoundEOTM \/ FoundNothing
         \/ FoundEntry \/ Yield
  PROVE  Types'
<1>1. TapeType'
  BY TapeStays DEF Types, FoundTape, FoundSet, FoundSetEnd, FoundEOTM,
       FoundNothing, FoundEntry, Yield, tapeVars
<1>2. HeaderType' /\ FlagType'
  <2> USE DEF Types, HeaderType, FlagType, Headers, flags, streamVars, dataVars, tapeVars, ctxVars, entryVars
  <2>1. CASE FoundTape \/ FoundSet \/ FoundSetEnd \/ FoundEOTM \/ Yield
    BY <2>1 DEF FoundTape, FoundSet, FoundSetEnd, FoundEOTM, Yield
  <2>2. CASE FoundNothing
    BY <2>2 DEF FoundNothing
  <2>3. CASE FoundEntry
    BY <2>3 DEF FoundEntry, Dispatch
  <2> QED BY <2>1, <2>2, <2>3
<1>3. CallType' /\ CurType' /\ Returns'
  <2> USE DEF Types, CallType, CurType, Returns, Pcs, outcome, streamVars, entryVars, Dispatch, AlignThen
  <2>1. CASE FoundTape
    BY <2>1 DEF FoundTape
  <2>2. CASE FoundSet
    BY <2>2 DEF FoundSet
  <2>3. CASE FoundSetEnd
    BY <2>3 DEF FoundSetEnd
  <2>4. CASE FoundEOTM
    BY <2>4 DEF FoundEOTM
  <2>5. CASE FoundNothing
    BY <2>5 DEF FoundNothing
  <2>6. CASE FoundEntry
    BY <2>6 DEF FoundEntry
  <2>7. CASE Yield
    <3>1. Item \in Items
      BY DEF Item, Items, HeaderType, Headers
    <3>2. yields' \in Seq(Items)
      BY <2>7, <3>1, AppendProperties DEF Yield
    <3>3. again' \in BOOLEAN
      BY <2>7 DEF Yield, Repeated
    <3> QED BY <2>7, <3>2, <3>3 DEF Yield
  <2> QED BY <2>1, <2>2, <2>3, <2>4, <2>5, <2>6, <2>7
<1> QED BY <1>1, <1>2, <1>3 DEF Types

LEMMA QuietStreams ==
  ASSUME Types, StandardData \/ NoData \/ NotCatalog
  PROVE  Types'
<1>1. TapeType'
  BY TapeStays DEF Types, StandardData, NoData, NotCatalog, tapeVars
<1>2. HeaderType' /\ FlagType'
  BY DEF Types, HeaderType, FlagType, StreamHeaders, StandardData, NoData, NotCatalog,
       flags, streamVars, dataVars, tapeVars, ctxVars, entryVars
<1>3. CallType' /\ CurType' /\ Returns'
  <2> USE DEF Types, CallType, CurType, Returns, Pcs, outcome, streamVars,
         entryVars, AlignThen, Goto
  <2>1. CASE StandardData
    BY <2>1 DEF StandardData
  <2>2. CASE NoData
    BY <2>2 DEF NoData
  <2>3. CASE NotCatalog
    BY <2>3 DEF NotCatalog
  <2> QED BY <2>1, <2>2, <2>3
<1> QED BY <1>1, <1>2, <1>3 DEF Types

LEMMA QuietData ==
  ASSUME Types,
         NoProbe \/ ReadReturns \/ DataDone \/ Trail \/ TrailEnd \/ Finished
  PROVE  Types'
<1>1. TapeType'
  BY TapeStays DEF Types, NoProbe, ReadReturns, DataDone, Trail, TrailEnd, Finished,
       tapeVars
<1>2. HeaderType' /\ FlagType'
  <2>0. Wrap(flbread) \in Nat
    BY WrapIs DEF Types, HeaderType
  <2> USE DEF Types, HeaderType, FlagType, flags, streamVars, dataVars, tapeVars,
         ctxVars, entryVars
  <2>1. CASE NoProbe
    BY <2>1 DEF NoProbe
  <2>2. CASE ReadReturns
    BY <2>0, <2>2 DEF ReadReturns
  <2>3. CASE DataDone
    BY <2>0, <2>3 DEF DataDone
  <2>4. CASE Trail
    BY <2>4 DEF Trail
  <2>5. CASE TrailEnd
    BY <2>5 DEF TrailEnd
  <2>6. CASE Finished
    <3>1. CASE mode = "read"
      BY <2>6, <3>1 DEF Finished
    <3>2. CASE mode # "read"
      <4>1. HeaderType'
        BY <2>6, <3>2 DEF Finished
      <4>2. FlagType'
        BY <2>6, <3>2 DEF Finished
      <4> QED BY <4>1, <4>2
    <3> QED BY <3>1, <3>2
  <2> QED BY <2>1, <2>2, <2>3, <2>4, <2>5, <2>6
<1>3. CallType' /\ CurType' /\ Returns'
  <2> USE DEF Types, CallType, CurType, Returns, Pcs, outcome, streamVars,
         entryVars, AlignThen, Goto
  <2>1. CASE NoProbe
    BY <2>1 DEF NoProbe
  <2>2. CASE ReadReturns
    BY <2>2 DEF ReadReturns
  <2>3. CASE DataDone
    BY <2>3 DEF DataDone
  <2>4. CASE Trail
    BY <2>4 DEF Trail
  <2>5. CASE TrailEnd
    BY <2>5 DEF TrailEnd
  <2>6. CASE Finished
    BY <2>6 DEF Finished
  <2> QED BY <2>1, <2>2, <2>3, <2>4, <2>5, <2>6
<1> QED BY <1>1, <1>2, <1>3 DEF Types

LEMMA QuietSpan ==
  ASSUME Types, RejoinContext \/ RejoinNowhere \/ RejoinFile \/ ContinuationFile
  PROVE  Types'
<1>1. TapeType'
  BY TapeStays DEF Types, RejoinContext, RejoinNowhere, RejoinFile, ContinuationFile,
       tapeVars
<1>2. HeaderType' /\ FlagType'
  <2> USE DEF Types, HeaderType, FlagType, Headers, StreamHeaders, flags, streamVars,
         dataVars, tapeVars, ctxVars, entryVars
  <2>1. CASE RejoinContext
    BY <2>1 DEF RejoinContext
  <2>2. CASE RejoinNowhere
    BY <2>2 DEF RejoinNowhere
  <2>3. CASE RejoinFile
    BY <2>3 DEF RejoinFile
  <2>4. CASE ContinuationFile
    <3>1. CASE strm.type = "STAN"
      <4>1. HeaderType'
        BY <2>4, <3>1 DEF ContinuationFile
      <4>2. FlagType'
        BY <2>4, <3>1 DEF ContinuationFile
      <4> QED BY <4>1, <4>2
    <3>2. CASE strm.type # "STAN" /\ (strm.type = "SPAD" \/ lastStream)
      <4>1. HeaderType'
        BY <2>4, <3>2 DEF ContinuationFile
      <4>2. FlagType'
        BY <2>4, <3>2 DEF ContinuationFile
      <4> QED BY <4>1, <4>2
    <3>3. CASE ~(strm.type = "STAN" \/ strm.type = "SPAD" \/ lastStream)
      BY <2>4, <3>3 DEF ContinuationFile
    <3> QED BY <3>1, <3>2, <3>3
  <2> QED BY <2>1, <2>2, <2>3, <2>4
<1>3. CallType' /\ CurType' /\ Returns'
  <2> USE DEF Types, CallType, CurType, Returns, Pcs, outcome, streamVars,
         entryVars, AlignThen, Goto, Rejoin
  <2>1. CASE RejoinContext
    BY <2>1 DEF RejoinContext
  <2>2. CASE RejoinNowhere
    BY <2>2 DEF RejoinNowhere
  <2>3. CASE RejoinFile
    BY <2>3 DEF RejoinFile
  <2>4. CASE ContinuationFile
    <3>1. CASE strm.type = "STAN"
      BY <2>4, <3>1 DEF ContinuationFile
    <3>2. CASE strm.type # "STAN" /\ (strm.type = "SPAD" \/ lastStream)
      BY <2>4, <3>2 DEF ContinuationFile
    <3>3. CASE ~(strm.type = "STAN" \/ strm.type = "SPAD" \/ lastStream)
      BY <2>4, <3>3 DEF ContinuationFile
    <3> QED BY <3>1, <3>2, <3>3
  <2> QED BY <2>1, <2>2, <2>3, <2>4
<1> QED BY <1>1, <1>2, <1>3 DEF Types

LEMMA CallsTypes ==
  ASSUME Types, Calls
  PROVE  Types'
<1>1. CASE CallNext
  <2>1. TapeType'
    BY <1>1, TapeStays DEF Types, CallNext, tapeVars
  <2>2. HeaderType' /\ FlagType'
    <3> USE DEF Types, HeaderType, FlagType, CallNext, flags, streamVars, tapeVars, ctxVars
    <3>1. CASE cur # None /\ ~entryDone
      BY <1>1, <3>1
    <3>2. CASE ~(cur # None /\ ~entryDone)
      <4>1. HeaderType'
        BY <1>1, <3>2
      <4>2. FlagType'
        BY <1>1, <3>2
      <4> QED BY <4>1, <4>2
    <3> QED BY <3>1, <3>2
  <2>3. CallType' /\ CurType' /\ Returns'
    BY <1>1 DEF Types, CallType, CurType, Returns, Pcs, outcome, streamVars, CallNext
  <2> QED BY <2>1, <2>2, <2>3 DEF Types
<1>2. CASE \E n \in 1..MaxRead : CallRead(n)
  <2>0. PICK n \in 1..MaxRead : CallRead(n)
    BY <1>2
  <2>1. TapeType'
    BY <2>0, TapeStays DEF Types, CallRead, tapeVars
  <2>2. HeaderType' /\ FlagType'
    BY <2>0 DEF Types, HeaderType, FlagType, CallRead, flags, streamVars, dataVars, tapeVars, ctxVars
  <2>3. Least(n, dataRem) \in 0..MaxRead
    BY ReaderAssumption DEF Least, Types, HeaderType
  <2>4. CallType' /\ CurType' /\ Returns'
    BY <2>0, <2>3 DEF Types, CallType, CurType, Returns, Pcs, outcome, streamVars, CallRead, Ready
  <2> QED BY <2>1, <2>2, <2>4 DEF Types
<1> QED BY <1>1, <1>2 DEF Calls

(* The steps that read. *)
LEMMA AlignTypes == ASSUME Types, Align PROVE Types'
<1> DEFINE x   == Wrap(flbread)
           rem == IF flbsize > 0 /\ x < flbsize THEN flbsize - x ELSE 0
<1>1. PICK j \in 0..rem, e \in Ends :
         /\ ReadCells(rem, j, e)
         /\ flbread' = (IF e = "ok" THEN 0 ELSE x + j)
         /\ Proceed(e, back)
  BY DEF Align
<1>2. x \in Nat /\ rem \in Nat
  BY WrapIs, ReaderAssumption DEF Types, HeaderType
<1>3. Done(rem, j, e)
  BY <1>1, <1>2, ReadIs DEF Types, Align
<1>4. TapeType' /\ j \in Nat
  BY <1>3 DEF Done
<1>5. flbread' \in Nat
  <2> HIDE DEF x, rem
  <2> QED BY <1>1, <1>2, <1>4
<1>6. HeaderType' /\ FlagType' /\ CurType'
  BY <1>5 DEF Align, Types, HeaderType, FlagType, CurType, streamVars, dataVars, entryVars, ctxVars, flags
<1>7. CallType' /\ Returns'
  <2>1. CallType'
    BY <1>1, Onward DEF Types, CallType
  <2>2. pc = "align" /\ Proceed(e, back)
    BY <1>1 DEF Align
  <2> QED BY <2>1, <2>2 DEF Types, Returns, Proceed, Goto, Raise
<1> QED BY <1>4, <1>6, <1>7 DEF Types

LEMMA ScanTypes == ASSUME Types, ScanStart PROVE Types'
<1>1. PICK j \in 0..1, e \in Ends :
       /\ ReadCells(1, j, e)
       /\ flbread' = j
       /\ IF e # "ok"
          THEN Raise("eof") /\ UNCHANGED <<dblk, flbsize>>
          ELSE LET c == AsBlock(Ahead[1])
               IN  IF c.k = "hdr"
                   THEN /\ dblk' = c
                        /\ flbsize' = (IF c.type = "TAPE" THEN W ELSE flbsize)
                        /\ Goto(IF mode = "walk" THEN "dispatch" ELSE "rejoin")
                   ELSE Raise("unexpected") /\ UNCHANGED <<dblk, flbsize>>
  BY DEF ScanStart
<1>2. Done(1, j, e) /\ (e = "ok" => 1 <= Len(Ahead))
  BY <1>1, ReadIs DEF Types, ScanStart
<1>3. TapeType' /\ j \in Nat
  BY <1>2 DEF Done
<1>4. e = "ok" => Ahead[1] \in Cells
  BY <1>2, AheadIs, ElementOfSeq DEF Types
<1>5. dblk' \in Headers /\ flbsize' \in {0, W}
  BY <1>1, <1>4, HeaderIs DEF Types, HeaderType
<1>6. HeaderType' /\ FlagType' /\ CurType'
  BY <1>1, <1>3, <1>5 DEF ScanStart, Types, HeaderType, FlagType, CurType, dataVars,
       entryVars, ctxVars, flags
<1>7. Raise("eof") \/ Raise("unexpected") \/ Goto("dispatch") \/ Goto("rejoin")
  BY <1>1
<1>8. CallType'
  <2>1. {"dispatch", "rejoin"} \subseteq Pcs
    BY DEF Pcs
  <2> QED BY <1>7, <2>1, Onward DEF Types
<1>9. Returns'
  BY <1>7 DEF Returns, Goto, Raise
<1> QED BY <1>3, <1>6, <1>8, <1>9 DEF Types

LEMMA StreamStartTypes == ASSUME Types, StreamStart PROVE Types'
<1> DEFINE C(e) == IF e # "ok" THEN NoStream
                   ELSE IF dblk.off = 0 THEN dblk ELSE AsStream(Ahead[dblk.off])
           At(e) == e = "ok" /\ dblk.off > 0 /\ C(e).k = "hdr" /\ C(e).type \in Known
           Ok(e) == e = "ok" /\ (C(e).k = "str" \/ At(e))
<1>1. PICK j \in 0..dblk.off, e \in Ends :
         /\ ReadCells(dblk.off, j, e)
         /\ flbread' = flbread + j
         /\ lastStream' = At(e)
         /\ strm' = CASE At(e) -> EndStream [] Ok(e) /\ ~At(e) -> C(e) [] OTHER -> strm
         /\ did' = IF e = "ok" THEN 0 ELSE did
         /\ IF Ok(e)
            THEN /\ Goto(back)
                 /\ cur' = IF back = "streams" THEN dblk.type ELSE cur
                 /\ UNCHANGED entryDone
            ELSE IF dblk.type \in {"VOLB", "DIRB"}
                 THEN cur' = dblk.type /\ entryDone' = TRUE /\ AlignThen("yield")
                 ELSE /\ Raise(IF e = "ok" THEN "unexpected" ELSE Missing(e))
                      /\ UNCHANGED entryVars
  BY DEF StreamStart
<1>0. dblk.off \in Nat /\ dblk.k = "hdr" /\ dblk \in Headers
  BY DEF Types, HeaderType, Headers
<1>2. Done(dblk.off, j, e) /\ (e = "ok" => dblk.off <= Len(Ahead))
  BY <1>0, <1>1, ReadIs DEF Types, StreamStart
<1>3. TapeType' /\ j \in Nat
  BY <1>2 DEF Done
<1>4. Ok(e) /\ ~At(e) => C(e) \in StreamHeaders
  <2> SUFFICES ASSUME Ok(e), ~At(e) PROVE C(e) \in StreamHeaders
    OBVIOUS
  <2>1. e = "ok" /\ C(e).k = "str"
    OBVIOUS
  <2>2. dblk.off # 0
    BY <2>1, <1>0
  <2>3. Ahead[dblk.off] \in Cells
    BY <2>1, <2>2, <1>0, <1>2, AheadIs, ElementOfSeq DEF Types
  <2> QED BY <2>1, <2>2, <2>3, HeaderIs
<1>5. strm' \in StreamHeaders
  <2>1. EndStream \in StreamHeaders
    BY DEF EndStream, NoStream, StreamHeaders, StreamTypes
  <2>2. strm \in StreamHeaders
    BY DEF Types, HeaderType
  <2>3. strm' = CASE At(e) -> EndStream [] Ok(e) /\ ~At(e) -> C(e) [] OTHER -> strm
    BY <1>1
  <2> HIDE DEF C, At, Ok
  <2> QED BY <2>1, <2>2, <2>3, <1>4
<1>6. HeaderType'
  <2>1. flbread' \in Nat /\ did' \in Nat
    BY <1>1, <1>3 DEF Types, HeaderType
  <2> QED BY <2>1, <1>5 DEF StreamStart, Types, HeaderType, dataVars, ctxVars
<1>7. FlagType'
  <2>1. lastStream' \in BOOLEAN
    BY <1>1
  <2>2. entryDone' \in BOOLEAN
    BY <1>1 DEF Types, FlagType, entryVars
  <2> QED BY <2>1, <2>2 DEF StreamStart, Types, FlagType, dataVars, flags
<1>8. pc = "start" /\ (Goto(back) \/ (dblk.type \in {"VOLB", "DIRB"} /\ AlignThen("yield"))
        \/ \E s : Raise(s))
  BY <1>1 DEF StreamStart
<1>9. CurType'
  BY <1>1, <1>8 DEF StreamStart, Types, CurType, Returns, entryVars
<1>10. CallType'
  <2>1. "yield" \in Pcs /\ back \in Pcs /\ CallType
    BY DEF Types, CallType, Pcs
  <2> QED BY <1>8, <2>1, Onward
<1>11. Returns'
  BY <1>8 DEF Types, Returns, Goto, Raise, AlignThen
<1> QED BY <1>3, <1>6, <1>7, <1>9, <1>10, <1>11 DEF Types

LEMMA StreamRestTypes == ASSUME Types, StreamRest PROVE Types'
<1> DEFINE rem == IF strm.len > did THEN strm.len - did ELSE 0
<1>1. PICK j \in 0..rem, e \in Ends :
         /\ SkipCells(rem, j, e)
         /\ did' = did + j
         /\ flbread' = (IF e = "ok" THEN Wrap(flbread + j) ELSE flbread + j)
         /\ lastStream' = (lastStream \/ (e = "ok" /\ strm.type = "SPAD"))
         /\ Proceed(e, IF strm.type = "SPAD" THEN back ELSE "header")
  BY DEF StreamRest
<1>2. strm.len \in Nat /\ did \in Nat /\ rem \in Nat /\ flbread \in Nat /\ flbsize \in {0, W}
  BY DEF Types, HeaderType, StreamHeaders
<1>3. Done(rem, j, e)
  BY <1>1, <1>2, SkipIs DEF Types, StreamRest
<1>4. TapeType' /\ j \in Nat
  BY <1>3 DEF Done
<1>5. flbread' \in Nat /\ did' \in Nat
  <2>1. flbread + j \in Nat
    BY <1>2, <1>4
  <2>2. Wrap(flbread + j) \in Nat
    BY <2>1, <1>2, WrapIs
  <2> HIDE DEF rem
  <2> QED BY <1>1, <1>2, <1>4, <2>1, <2>2
<1>6. HeaderType' /\ CurType'
  BY <1>5 DEF StreamRest, Types, HeaderType, CurType, dataVars, entryVars, ctxVars
<1>7. FlagType'
  BY <1>1 DEF StreamRest, Types, FlagType, dataVars, entryVars, flags
<1>8. pc = "rest" /\ (Proceed(e, back) \/ Proceed(e, "header"))
  BY <1>1 DEF StreamRest
<1>9. CallType'
  <2>1. "header" \in Pcs /\ back \in Pcs /\ CallType
    BY DEF Types, CallType, Pcs
  <2> QED BY <1>8, <2>1, Onward
<1>10. Returns'
  BY <1>8 DEF Types, Returns, Proceed, Goto, Raise
<1> QED BY <1>4, <1>6, <1>7, <1>9, <1>10 DEF Types

LEMMA GapIs ==
  ASSUME flbread \in Nat
  PROVE  (StreamAlign - (flbread % StreamAlign)) % StreamAlign \in Nat
<1>1. StreamAlign \in Nat \ {0}
  BY ReaderAssumption
<1>2. flbread % StreamAlign \in Int
  BY <1>1
<1>3. StreamAlign - (flbread % StreamAlign) \in Int
  BY <1>1, <1>2
<1> QED BY <1>1, <1>3

LEMMA StreamHeaderTypes == ASSUME Types, StreamHeader PROVE Types'
<1> DEFINE gap  == (StreamAlign - (flbread % StreamAlign)) % StreamAlign
           C(e) == IF e = "ok" THEN AsStream(Ahead[HeaderAt(gap)]) ELSE DeadBlock
<1>1. PICK j \in 0..(gap + 1), e \in Ends :
       /\ ReadCells(gap + 1, j, e)
       /\ flbread' = flbread + j
       /\ IF C(e).k = "str"
          THEN strm' = C(e) /\ did' = 0 /\ Goto(back)
          ELSE /\ Raise(IF e = "ok" THEN "unexpected" ELSE Missing(e))
               /\ UNCHANGED <<strm, did>>
  BY DEF StreamHeader
<1>2. gap \in Nat /\ flbread \in Nat
  BY GapIs DEF Types, HeaderType
<1>3. Done(gap + 1, j, e) /\ (e = "ok" => gap + 1 <= Len(Ahead))
  <2>1. gap + 1 \in Nat
    BY <1>2
  <2> QED BY <2>1, <1>1, ReadIs DEF Types, StreamHeader
<1>4. TapeType' /\ j \in Nat
  BY <1>3 DEF Done
<1>5. C(e).k = "str" => C(e) \in StreamHeaders
  <2> SUFFICES ASSUME C(e).k = "str" PROVE C(e) \in StreamHeaders
    OBVIOUS
  <2>1. e = "ok"
    BY DEF DeadBlock
  <2>2. HeaderAt(gap) \in 1..(gap + 1)
    <3> HIDE DEF gap
    <3> QED BY <1>2 DEF HeaderAt
  <2>3. HeaderAt(gap) \in 1..Len(Ahead) /\ Ahead \in Seq(Cells)
    <3> HIDE DEF gap
    <3> QED BY <1>2, <1>3, <2>1, <2>2, AheadIs DEF Types
  <2>4. Ahead[HeaderAt(gap)] \in Cells
    BY <2>3, ElementOfSeq
  <2> QED BY <2>1, <2>4, HeaderIs
<1>6. HeaderType'
  <2>1. flbread' \in Nat
    <3> HIDE DEF gap
    <3> QED BY <1>1, <1>2, <1>4
  <2>2. strm' \in StreamHeaders /\ did' \in Nat
    <3> HIDE DEF C
    <3> QED BY <1>1, <1>5 DEF Types, HeaderType
  <2> QED BY <2>1, <2>2 DEF StreamHeader, Types, HeaderType, dataVars, ctxVars
<1>7. FlagType' /\ CurType'
  BY DEF StreamHeader, Types, FlagType, CurType, dataVars, entryVars, flags
<1>8. pc = "header" /\ (Goto(back) \/ \E s : Raise(s))
  BY <1>1 DEF StreamHeader
<1>9. CallType'
  <2>1. back \in Pcs /\ CallType
    BY DEF Types, CallType
  <2> QED BY <1>8, <2>1, Onward
<1>10. Returns'
  BY <1>8 DEF Types, Returns, Goto, Raise
<1> QED BY <1>4, <1>6, <1>7, <1>9, <1>10 DEF Types

LEMMA CaptureTypes == ASSUME Types, Capture PROVE Types'
<1>1. PICK j \in 0..strm.len, e \in Ends :
       /\ ReadCells(strm.len, j, e)
       /\ flbread' = Wrap(flbread + j) /\ did' = did + j
       /\ IF e = "ok"
          THEN /\ pc' = IF pc = "extra" THEN "trail" ELSE "rest"
               /\ catFDD' = IF pc = "catalog" /\ strm.type = "TFDD" THEN strm.id
                                                                    ELSE catFDD
               /\ UNCHANGED <<mode, back, want, outcome>>
          ELSE Raise(e) /\ UNCHANGED catFDD
  BY DEF Capture
<1>2. strm.len \in Nat /\ strm.id \in Nat
  BY DEF Types, HeaderType, StreamHeaders
<1>3. Done(strm.len, j, e)
  BY <1>1, <1>2, ReadIs DEF Types, Capture
<1>4. TapeType' /\ j \in Nat
  BY <1>3 DEF Done
<1>5. flbread' \in Nat /\ did' \in Nat /\ catFDD' \in Nat
  <2>1. flbread + j \in Nat /\ did' \in Nat /\ flbsize \in {0, W}
    BY <1>1, <1>4 DEF Types, HeaderType
  <2>2. flbread' \in Nat
    BY <1>1, <2>1, WrapIs
  <2> QED BY <1>1, <1>2, <2>1, <2>2 DEF Types, HeaderType
<1>6. HeaderType' /\ FlagType' /\ CurType'
  BY <1>5 DEF Capture, Types, HeaderType, FlagType, CurType, dataVars, entryVars, flags
<1>7. pc \in {"streams", "extra", "catalog"} /\ (Goto("trail") \/ Goto("rest") \/ Raise(e))
  BY <1>1 DEF Capture, Goto
<1>8. CallType'
  <2>1. {"trail", "rest"} \subseteq Pcs
    BY DEF Pcs
  <2> QED BY <1>7, <2>1, Onward DEF Types
<1>9. Returns'
  BY <1>7 DEF Types, Returns, Goto, Raise
<1> QED BY <1>4, <1>6, <1>8, <1>9 DEF Types

LEMMA CatalogEndTypes == ASSUME Types, CatalogEnd PROVE Types'
<1>1. PICK j \in 0..strm.len, e \in Ends :
       /\ SkipCells(strm.len, j, e)
       /\ did' = did + j
       /\ flbread' = (IF e = "ok" THEN Wrap(flbread + j) ELSE flbread + j)
       /\ lastStream' = (lastStream \/ e = "ok")
       /\ IF e = "ok" THEN AlignThen("yield") ELSE Raise(e)
  BY DEF CatalogEnd
<1>2. strm.len \in Nat
  BY DEF Types, HeaderType, StreamHeaders
<1>3. Done(strm.len, j, e)
  BY <1>1, <1>2, SkipIs DEF Types, CatalogEnd
<1>4. TapeType' /\ j \in Nat
  BY <1>3 DEF Done
<1>5. flbread' \in Nat /\ did' \in Nat
  <2>1. flbread + j \in Nat /\ did' \in Nat /\ flbsize \in {0, W}
    BY <1>1, <1>4 DEF Types, HeaderType
  <2>2. Wrap(flbread + j) \in Nat
    BY <2>1, WrapIs
  <2> QED BY <1>1, <2>1, <2>2
<1>6. HeaderType' /\ CurType'
  BY <1>5 DEF CatalogEnd, Types, HeaderType, CurType, dataVars, entryVars, ctxVars
<1>7. FlagType'
  BY <1>1 DEF CatalogEnd, Types, FlagType, dataVars, entryVars, flags
<1>8. CallType'
  <2>1. "yield" \in Pcs
    BY DEF Pcs
  <2> QED BY <1>1, <2>1, Onward DEF Types
<1>9. Returns'
  BY <1>1 DEF Returns, AlignThen, Raise
<1> QED BY <1>4, <1>6, <1>7, <1>8, <1>9 DEF Types

(* What probeEOTM does: an EOTM, or what is left of the medium, is taken,   *)
(* and anything else stays ahead.                                          *)
LEMMA ProbeIs ==
  ASSUME TapeType, Probe
  PROVE  /\ TapeType'
         /\ \/ Goto("chunk") /\ Position' = Position
            \/ Goto("switch") /\ Position' = Position + 1
            \/ Raise("eof") /\ Position' = Position /\ Position' = Len(Medium)
            \/ Raise("eio") /\ "eio" \in Faults
<1>1. PICK e \in Ends :
       /\ <<IF e = "ok" THEN 1 ELSE 0, e>> \in Outcomes(1)
       /\ IF e = "ok" /\ ~IsEOTM(Ahead[1])
          THEN /\ peek' = <<Ahead[1]>>
               /\ tp' = tp + 1 - Len(peek)
               /\ Goto("chunk") /\ UNCHANGED faults
          ELSE Take(IF e = "ok" THEN 1 ELSE 0, e) /\ Proceed(e, "switch")
  BY DEF Probe
<1>2. UNCHANGED <<archive, medium>> /\ Medium' = Medium
  BY DEF Probe, Medium
<1>3. CASE e = "ok" /\ ~IsEOTM(Ahead[1])
  <2>1. 1 <= Len(Ahead)
    <3>1. e = "ok" /\ 1 \in Nat
      BY <1>3
    <3>2. <<1, "ok">> \in Outcomes(1)
      BY <1>1, <1>3
    <3> QED BY <3>2 DEF Outcomes
  <2>2. /\ Position \in 0..Len(Medium) /\ Len(Ahead) = Len(Medium) - Position
        /\ Len(peek) \in {0, 1} /\ Len(Medium) \in Nat /\ Ahead \in Seq(Cells)
        /\ tp \in Nat /\ Position = tp - Len(peek)
    BY AheadIs DEF TapeType, Position
  <2>3. Ahead[1] \in Cells
    BY <2>1, <2>2, ElementOfSeq
  <2>4. peek' \in Seq(Cells) /\ Len(peek') = 1
    <3>1. peek' = <<Ahead[1]>>
      BY <1>1, <1>3
    <3> DEFINE c == Ahead[1]
    <3>2. c \in Cells => <<c>> \in Seq(Cells) /\ Len(<<c>>) = 1
      <4> HIDE DEF c
      <4> QED OBVIOUS
    <3> QED BY <2>3, <3>1, <3>2
  <2> DEFINE n == Len(peek)
  <2>5. tp' = tp + 1 - n /\ Position' = tp' - 1
    BY <1>1, <1>3, <2>4 DEF Position
  <2>6. Position' = Position /\ tp' \in 0..Len(Medium) /\ 1 <= tp'
    <3>1. n \in {0, 1} /\ Position = tp - n
      BY <2>2
    <3> HIDE DEF n
    <3> QED BY <2>1, <2>2, <2>5, <3>1
  <2>7. TapeType'
    BY <1>1, <1>2, <1>3, <2>4, <2>6 DEF TapeType
  <2> QED BY <1>1, <1>3, <2>6, <2>7
<1>4. CASE ~(e = "ok" /\ ~IsEOTM(Ahead[1]))
  <2>1. ReadCells(1, IF e = "ok" THEN 1 ELSE 0, e) /\ Proceed(e, "switch")
    BY <1>1, <1>4 DEF ReadCells
  <2>2. Done(1, IF e = "ok" THEN 1 ELSE 0, e)
    BY <1>2, <2>1, ReadIs
  <2>3. e = "eof" => Position' = Position
    <3>1. Position \in Int
      BY AheadIs
    <3> QED BY <2>2, <3>1 DEF Done
  <2> QED BY <1>2, <2>1, <2>2, <2>3 DEF Done, Proceed, Ends
<1> QED BY <1>3, <1>4

LEMMA ProbeTypes == ASSUME Types, Probe PROVE Types'
<1>1. TapeType' /\ (Goto("chunk") \/ Goto("switch") \/ Raise("eof") \/ Raise("eio"))
  BY ProbeIs DEF Types
<1>2. HeaderType' /\ FlagType' /\ CurType'
  BY DEF Probe, Types, HeaderType, FlagType, CurType, streamVars, dataVars, entryVars, ctxVars, flags
<1>3. CallType'
  <2>1. {"chunk", "switch"} \subseteq Pcs
    BY DEF Pcs
  <2> QED BY <1>1, <2>1, Onward DEF Types
<1>4. Returns'
  BY <1>1 DEF Returns, Goto, Raise
<1> QED BY <1>1, <1>2, <1>3, <1>4 DEF Types

LEMMA ToBoundaryIs ==
  ASSUME flbsize \in {0, W}, flbread \in Nat, dataRem \in Nat
  PROVE  ToBoundary \in Nat
<1>1. W \in Nat \ {0}
  BY ReaderAssumption
<1>2. CASE flbsize = 0
  BY <1>2 DEF ToBoundary
<1>3. CASE flbsize = W
  <2>1. flbread % W \in 0..(W - 1)
    BY <1>1
  <2>2. ToBoundary = W - (flbread % W)
    BY <1>1, <1>3 DEF ToBoundary
  <2> QED BY <1>1, <2>1, <2>2
<1> QED BY <1>2, <1>3

LEMMA ReadChunkTypes == ASSUME Types, ReadChunk PROVE Types'
<1> DEFINE k == Least(Least(dataRem, want), ToBoundary)
<1>1. PICK j \in 0..k, e \in Ends :
         /\ ReadCells(k, j, e)
         /\ flbread' = flbread + j /\ Deliver(j)
         /\ IF e = "ok"
            THEN /\ pc' = "data" /\ want' = want - j
                 /\ UNCHANGED <<mode, back, res, readEnd, yields, again>>
            ELSE /\ pc' = "idle" /\ res' = IF e = "eof" THEN "ok" ELSE "fail"
                 /\ readEnd' = (readEnd \/ e = "eof")
                 /\ UNCHANGED <<mode, back, want, yields, again>>
  BY DEF ReadChunk
<1>2. k \in Nat /\ k <= dataRem /\ k <= want
  <2>1. dataRem \in Nat /\ want \in Nat /\ ToBoundary \in Nat
    BY ToBoundaryIs, ReaderAssumption DEF Types, HeaderType, CallType
  <2> QED BY <2>1 DEF Least
<1>3. Done(k, j, e)
  BY <1>1, <1>2, ReadIs DEF Types, ReadChunk
<1>4. TapeType' /\ j \in Nat /\ j <= k
  BY <1>3 DEF Done
<1>5. flbread' \in Nat /\ did' \in Nat /\ dataRem' \in Nat
  <2> HIDE DEF k
  <2> QED BY <1>1, <1>2, <1>4 DEF Types, HeaderType, Deliver
<1>6. HeaderType' /\ FlagType' /\ CurType'
  BY <1>5 DEF ReadChunk, Types, HeaderType, FlagType, CurType, entryVars, ctxVars, flags
<1>7. CallType'
  <2>1. want' \in 0..MaxRead
    <3>1. want \in 0..MaxRead /\ MaxRead \in Nat
      BY ReaderAssumption DEF Types, CallType
    <3> HIDE DEF k
    <3> QED BY <1>1, <1>2, <1>4, <3>1
  <2>2. readEnd' \in BOOLEAN
    BY <1>1 DEF Types, CallType
  <2> QED BY <1>1, <2>1, <2>2 DEF Types, CallType, Pcs
<1>8. Returns'
  BY <1>1 DEF Returns
<1> QED BY <1>4, <1>6, <1>7, <1>8 DEF Types

LEMMA SkipChunkTypes == ASSUME Types, SkipChunk PROVE Types'
<1> DEFINE k == IF Continues THEN Least(dataRem, ToBoundary) ELSE dataRem
<1>1. PICK j \in 0..k, e \in Ends :
         /\ SkipCells(k, j, e)
         /\ did' = did + j
         /\ flbread' = (IF e = "ok" THEN Wrap(flbread + j) ELSE flbread + j)
         /\ dataRem' = (IF e = "ok" THEN dataRem - j ELSE dataRem)
         /\ Proceed(e, "data")
  BY DEF SkipChunk
<1>2. k \in Nat /\ k <= dataRem
  <2>1. dataRem \in Nat /\ ToBoundary \in Nat
    BY ToBoundaryIs DEF Types, HeaderType
  <2> QED BY <2>1 DEF Least
<1>3. Done(k, j, e)
  BY <1>1, <1>2, SkipIs DEF Types, SkipChunk
<1>4. TapeType' /\ j \in Nat /\ j <= k
  BY <1>3 DEF Done
<1>5. flbread' \in Nat /\ did' \in Nat /\ dataRem' \in Nat
  <2>1. flbread + j \in Nat /\ did' \in Nat /\ flbsize \in {0, W} /\ dataRem \in Nat
    BY <1>1, <1>4 DEF Types, HeaderType
  <2>2. Wrap(flbread + j) \in Nat
    BY <2>1, WrapIs
  <2> HIDE DEF k
  <2> QED BY <1>1, <1>2, <1>4, <2>1, <2>2
<1>6. HeaderType' /\ FlagType' /\ CurType'
  BY <1>5 DEF SkipChunk, Types, HeaderType, FlagType, CurType, entryVars, ctxVars, flags
<1>7. CallType'
  <2>1. "data" \in Pcs
    BY DEF Pcs
  <2> QED BY <1>1, <2>1, Onward DEF Types
<1>8. Returns'
  BY <1>1 DEF Returns, Proceed, Goto, Raise
<1> QED BY <1>4, <1>6, <1>7, <1>8 DEF Types

LEMMA AtEOTMTypes == ASSUME Types, AtEOTM PROVE Types'
<1>1. CASE SwitchMedium /\ Goto("scan") /\ UNCHANGED hitEOTM
  <2>1. TapeType'
    <3>1. /\ archive' = archive /\ archive \in Walks /\ Len(archive.media) \in Nat
          /\ medium' = medium + 1 /\ medium \in 1..Len(archive.media)
          /\ medium < Len(archive.media)
      BY <1>1, MediaAssumption DEF AtEOTM, SwitchMedium, Types, TapeType
    <3>2. medium' \in 1..Len(archive.media)
      BY <3>1
    <3>3. Medium' = archive.media[medium']
      BY <3>1 DEF Medium
    <3>4. Len(Medium') \in Nat
      <4>1. Formatted(archive.media[medium'])
        BY <3>1, <3>2, MediaAssumption
      <4> QED BY <3>3, <4>1, LenProperties DEF Formatted
    <3>5. tp' = 0 /\ peek' = <<>> /\ faults' = faults
      BY <1>1 DEF SwitchMedium
    <3>6. peek' \in Seq(Cells) /\ Len(peek') = 0
      BY <3>5, EmptySeq
    <3> QED BY <3>1, <3>2, <3>4, <3>5, <3>6 DEF Types, TapeType
  <2>2. HeaderType' /\ FlagType' /\ CurType'
    BY <1>1 DEF AtEOTM, SwitchMedium, Types, HeaderType, FlagType, CurType, streamVars,
         dataVars, entryVars, ctxVars
  <2>3. CallType'
    <3>1. "scan" \in Pcs
      BY DEF Pcs
    <3> QED BY <1>1, <3>1, Onward DEF Types
  <2>4. Returns'
    BY <1>1 DEF Returns, Goto
  <2> QED BY <2>1, <2>2, <2>3, <2>4 DEF Types
<1>2. CASE NoMedium /\ Raise("eof")
  <2>1. TapeType'
    <3>1. Medium' = Medium /\ UNCHANGED <<archive, medium, tp, peek>>
      BY <1>2 DEF AtEOTM, NoMedium, Medium
    <3>2. faults' \in 0..MaxFaults
      <4>1. faults' = faults \/ (faults < MaxFaults /\ faults' = faults + 1)
        BY <1>2 DEF NoMedium
      <4>2. faults \in 0..MaxFaults /\ MaxFaults \in Nat
        BY ReaderAssumption DEF Types, TapeType
      <4> QED BY <4>1, <4>2
    <3> QED BY <3>1, <3>2 DEF Types, TapeType
  <2>2. HeaderType' /\ FlagType' /\ CurType'
    BY <1>2 DEF AtEOTM, NoMedium, Truncated, Types, HeaderType, FlagType, CurType,
         streamVars, dataVars, entryVars, ctxVars
  <2>3. CallType'
    BY <1>2, Onward DEF Types, CallType
  <2>4. Returns'
    BY <1>2 DEF Returns, Raise
  <2> QED BY <2>1, <2>2, <2>3, <2>4 DEF Types
<1> QED BY <1>1, <1>2 DEF AtEOTM

-----------------------------------------------------------------------------
LEMMA StepTypes == ASSUME Types, [Next]_vars PROVE Types'
<1>1. CASE Walk
  BY <1>1, QuietWalk, ScanTypes, AlignTypes DEF Walk
<1>2. CASE Streams
  BY <1>2, StreamStartTypes, StreamRestTypes, StreamHeaderTypes, QuietStreams, CaptureTypes,
     CatalogEndTypes DEF Streams
<1>3. CASE Data
  BY <1>3, ProbeTypes, ReadChunkTypes, SkipChunkTypes, QuietData DEF Data
<1>4. CASE Span
  BY <1>4, AtEOTMTypes, QuietSpan DEF Span
<1>5. CASE Calls
  BY <1>5, CallsTypes
<1>6. CASE UNCHANGED vars
  <2>1. TapeType'
    BY <1>6, TapeStays DEF Types, vars, tapeVars
  <2> QED BY <1>6, <2>1
      DEF Types, HeaderType, FlagType, CallType, CurType, Returns, vars, tapeVars,
          streamVars, dataVars, entryVars, ctxVars, flags, calls, outcome
<1> QED BY <1>1, <1>2, <1>3, <1>4, <1>5, <1>6 DEF Next

LEMMA SpecTypes == Spec => []Types
BY InitTypes, StepTypes, PTL DEF Spec

(* Every variable has its type, whatever the faults: whatever the media    *)
(* hold, no call leaves a counter negative or a position behind the end of  *)
(* its medium.                                                             *)
THEOREM TypeCorrect == Spec => []TypeOK
<1>1. Types => TypeOK
  BY DEF Types, TapeType, HeaderType, FlagType, CallType, CurType, Pcs, TypeOK
<1> QED BY <1>1, SpecTypes, PTL

-----------------------------------------------------------------------------
(* On whose behalf a call is where it is: a file's data are passed over for *)
(* Read or Next, everything else is the walk's.                            *)
InWalk ==
  \/ pc \in {"dispatch", "yield", "streams", "catalog", "eotm"}
  \/ pc = "align" /\ back \in {"yield", "eotm"}
  \/ pc \in {"start", "rest", "header"} /\ back \in {"streams", "catalog"}
InFile ==
  \/ pc \in {"rejoin", "contfile", "switch", "data", "chunk", "trail", "extra", "finished"}
  \/ pc = "align" /\ back \in {"data", "finished"}
  \/ pc \in {"start", "rest", "header"} /\ back \in {"contfile", "extra"}
Behalf == (InWalk => mode = "walk") /\ (InFile => mode # "walk")

LEMMA BehalfStep == ASSUME Types, Behalf, [Next]_vars PROVE Behalf'
<1> USE DEF Types, Returns, Behalf, InWalk, InFile, Dispatch, Rejoin, Goto, Raise, AlignThen, Proceed,
           outcome, streamVars
<1>1. CASE ScanStart
  BY <1>1 DEF ScanStart
<1>2. CASE FoundTape
  BY <1>2 DEF FoundTape
<1>3. CASE FoundSet
  BY <1>3 DEF FoundSet
<1>4. CASE FoundSetEnd
  BY <1>4 DEF FoundSetEnd
<1>5. CASE FoundEOTM
  BY <1>5 DEF FoundEOTM
<1>6. CASE FoundNothing
  BY <1>6 DEF FoundNothing
<1>7. CASE FoundEntry
  BY <1>7 DEF FoundEntry
<1>8. CASE Yield
  BY <1>8 DEF Yield
<1>9. CASE Align
  BY <1>9 DEF Align
<1>10. CASE StreamStart
  BY <1>10 DEF StreamStart
<1>11. CASE StreamRest
  BY <1>11 DEF StreamRest
<1>12. CASE StreamHeader
  BY <1>12 DEF StreamHeader
<1>13. CASE StandardData
  BY <1>13 DEF StandardData
<1>14. CASE NoData
  BY <1>14 DEF NoData
<1>15. CASE Capture
  BY <1>15 DEF Capture
<1>16. CASE NotCatalog
  BY <1>16 DEF NotCatalog
<1>17. CASE CatalogEnd
  BY <1>17 DEF CatalogEnd
<1>18. CASE Probe
  BY <1>18 DEF Probe
<1>19. CASE NoProbe
  BY <1>19 DEF NoProbe
<1>20. CASE ReadChunk
  BY <1>20 DEF ReadChunk
<1>21. CASE SkipChunk
  BY <1>21 DEF SkipChunk
<1>22. CASE ReadReturns
  BY <1>22 DEF ReadReturns
<1>23. CASE DataDone
  BY <1>23 DEF DataDone
<1>24. CASE Trail
  BY <1>24 DEF Trail
<1>25. CASE TrailEnd
  BY <1>25 DEF TrailEnd
<1>26. CASE Finished
  BY <1>26 DEF Finished
<1>27. CASE AtEOTM
  BY <1>27 DEF AtEOTM
<1>28. CASE RejoinContext
  BY <1>28 DEF RejoinContext
<1>29. CASE RejoinNowhere
  BY <1>29 DEF RejoinNowhere
<1>30. CASE RejoinFile
  BY <1>30 DEF RejoinFile
<1>31. CASE ContinuationFile
  BY <1>31 DEF ContinuationFile
<1>32. CASE CallNext
  BY <1>32 DEF CallNext
<1>33. CASE \E n \in 1..MaxRead : CallRead(n)
  BY <1>33 DEF CallRead, Ready
<1>34. CASE UNCHANGED vars
  BY <1>34 DEF vars, calls
<1> QED BY <1>1, <1>2, <1>3, <1>4, <1>5, <1>6, <1>7, <1>8, <1>9, <1>10,
       <1>11, <1>12, <1>13, <1>14, <1>15, <1>16, <1>17, <1>18, <1>19, <1>20,
       <1>21, <1>22, <1>23, <1>24, <1>25, <1>26, <1>27, <1>28, <1>29, <1>30,
       <1>31, <1>32, <1>33, <1>34
     DEF Next, Walk, Streams, Data, Span, Calls

(* A file is open where it is read or passed over: it is the current entry, *)
(* and for Read it is done from the end of its data on.                    *)
Trailing ==
  \/ pc \in {"trail", "extra", "finished"}
  \/ pc \in {"rest", "header"} /\ back = "extra"
  \/ pc = "align" /\ back = "finished"
CurKnown ==
  /\ AtFile => cur # None
  /\ mode # "walk" /\ pc # "idle" => cur # None
  /\ pc = "streams" \/ (pc \in {"rest", "header"} /\ back = "streams") => cur # None
  /\ pc = "catalog" \/ (pc \in {"start", "rest", "header"} /\ back = "catalog")
       => dblk.type = "ESET"
  /\ (pc = "yield" \/ (pc = "align" /\ back = "yield")) /\ dblk.type = "FILE"
       => cur # None
OpenRead == mode = "read" /\ pc # "idle" => (entryDone <=> Trailing)

LEMMA CurStep == ASSUME Types, Behalf, CurKnown, [Next]_vars PROVE CurKnown'
<1> USE DEF Types, CurType, Returns, Behalf, InWalk, InFile, CurKnown, AtFile, None, Dispatch, Rejoin, Goto, Raise,
           AlignThen, Proceed, outcome, entryVars, streamVars
<1>1. CASE ScanStart
  BY <1>1 DEF ScanStart
<1>2. CASE FoundTape
  BY <1>2 DEF FoundTape
<1>3. CASE FoundSet
  BY <1>3 DEF FoundSet
<1>4. CASE FoundSetEnd
  BY <1>4 DEF FoundSetEnd
<1>5. CASE FoundEOTM
  BY <1>5 DEF FoundEOTM
<1>6. CASE FoundNothing
  BY <1>6 DEF FoundNothing
<1>7. CASE FoundEntry
  BY <1>7 DEF FoundEntry
<1>8. CASE Yield
  <2>1. CASE Repeated
    <3>1. ~AtFile'
      BY <1>8, <2>1 DEF Yield, AtFile
    <3> QED BY <1>8, <3>1 DEF Yield
  <2>2. CASE ~Repeated
    <3>1. yields' = Append(yields, Item) /\ yields \in Seq(Items) /\ Item.kind = dblk.type
      BY <1>8, <2>2 DEF Yield, Item, CallType
    <3>2. yields'[Len(yields')] = Item
      <4>1. Item \in Items
        BY DEF Item, Items, HeaderType, Headers
      <4> QED BY <3>1, <4>1, AppendProperties
    <3>3. AtFile' => dblk.type = "FILE"
      BY <3>1, <3>2 DEF AtFile
    <3> QED BY <1>8, <3>3 DEF Yield
  <2> QED BY <2>1, <2>2
<1>9. CASE Align
  BY <1>9 DEF Align
<1>10. CASE StreamStart
  BY <1>10 DEF StreamStart
<1>11. CASE StreamRest
  BY <1>11 DEF StreamRest
<1>12. CASE StreamHeader
  BY <1>12 DEF StreamHeader
<1>13. CASE StandardData
  BY <1>13 DEF StandardData
<1>14. CASE NoData
  BY <1>14 DEF NoData
<1>15. CASE Capture
  BY <1>15 DEF Capture
<1>16. CASE NotCatalog
  BY <1>16 DEF NotCatalog
<1>17. CASE CatalogEnd
  BY <1>17 DEF CatalogEnd
<1>18. CASE Probe
  BY <1>18 DEF Probe
<1>19. CASE NoProbe
  BY <1>19 DEF NoProbe
<1>20. CASE ReadChunk
  BY <1>20 DEF ReadChunk
<1>21. CASE SkipChunk
  BY <1>21 DEF SkipChunk
<1>22. CASE ReadReturns
  BY <1>22 DEF ReadReturns
<1>23. CASE DataDone
  BY <1>23 DEF DataDone
<1>24. CASE Trail
  BY <1>24 DEF Trail
<1>25. CASE TrailEnd
  BY <1>25 DEF TrailEnd
<1>26. CASE Finished
  BY <1>26 DEF Finished
<1>27. CASE AtEOTM
  BY <1>27 DEF AtEOTM
<1>28. CASE RejoinContext
  BY <1>28 DEF RejoinContext
<1>29. CASE RejoinNowhere
  BY <1>29 DEF RejoinNowhere
<1>30. CASE RejoinFile
  BY <1>30 DEF RejoinFile
<1>31. CASE ContinuationFile
  BY <1>31 DEF ContinuationFile
<1>32. CASE CallNext
  BY <1>32 DEF CallNext
<1>33. CASE \E n \in 1..MaxRead : CallRead(n)
  BY <1>33 DEF CallRead
<1>34. CASE UNCHANGED vars
  BY <1>34 DEF vars, calls
<1> QED BY <1>1, <1>2, <1>3, <1>4, <1>5, <1>6, <1>7, <1>8, <1>9, <1>10,
       <1>11, <1>12, <1>13, <1>14, <1>15, <1>16, <1>17, <1>18, <1>19, <1>20,
       <1>21, <1>22, <1>23, <1>24, <1>25, <1>26, <1>27, <1>28, <1>29, <1>30,
       <1>31, <1>32, <1>33, <1>34
     DEF Next, Walk, Streams, Data, Span, Calls

LEMMA OpenStep == ASSUME Types, Behalf, CurKnown, OpenRead, [Next]_vars PROVE OpenRead'
<1> USE DEF Types, Returns, Behalf, InWalk, InFile, OpenRead, Trailing, Dispatch, Rejoin, Goto, Raise,
           AlignThen, Proceed, outcome, entryVars, streamVars
<1>1. CASE ScanStart
  BY <1>1 DEF ScanStart
<1>2. CASE FoundTape
  BY <1>2 DEF FoundTape
<1>3. CASE FoundSet
  BY <1>3 DEF FoundSet
<1>4. CASE FoundSetEnd
  BY <1>4 DEF FoundSetEnd
<1>5. CASE FoundEOTM
  BY <1>5 DEF FoundEOTM
<1>6. CASE FoundNothing
  BY <1>6 DEF FoundNothing
<1>7. CASE FoundEntry
  BY <1>7 DEF FoundEntry
<1>8. CASE Yield
  BY <1>8 DEF Yield
<1>9. CASE Align
  BY <1>9 DEF Align
<1>10. CASE StreamStart
  BY <1>10 DEF StreamStart
<1>11. CASE StreamRest
  BY <1>11 DEF StreamRest
<1>12. CASE StreamHeader
  BY <1>12 DEF StreamHeader
<1>13. CASE StandardData
  BY <1>13 DEF StandardData
<1>14. CASE NoData
  BY <1>14 DEF NoData
<1>15. CASE Capture
  BY <1>15 DEF Capture
<1>16. CASE NotCatalog
  BY <1>16 DEF NotCatalog
<1>17. CASE CatalogEnd
  BY <1>17 DEF CatalogEnd
<1>18. CASE Probe
  BY <1>18 DEF Probe
<1>19. CASE NoProbe
  BY <1>19 DEF NoProbe
<1>20. CASE ReadChunk
  BY <1>20 DEF ReadChunk
<1>21. CASE SkipChunk
  BY <1>21 DEF SkipChunk
<1>22. CASE ReadReturns
  BY <1>22 DEF ReadReturns
<1>23. CASE DataDone
  BY <1>23 DEF DataDone
<1>24. CASE Trail
  BY <1>24 DEF Trail
<1>25. CASE TrailEnd
  BY <1>25 DEF TrailEnd
<1>26. CASE Finished
  BY <1>26 DEF Finished
<1>27. CASE AtEOTM
  BY <1>27 DEF AtEOTM
<1>28. CASE RejoinContext
  BY <1>28 DEF RejoinContext
<1>29. CASE RejoinNowhere
  BY <1>29 DEF RejoinNowhere
<1>30. CASE RejoinFile
  BY <1>30 DEF RejoinFile
<1>31. CASE ContinuationFile
  BY <1>31 DEF ContinuationFile
<1>32. CASE CallNext
  BY <1>32 DEF CallNext
<1>33. CASE \E n \in 1..MaxRead : CallRead(n)
  BY <1>33 DEF CallRead, Ready
<1>34. CASE UNCHANGED vars
  BY <1>34 DEF vars, calls
<1> QED BY <1>1, <1>2, <1>3, <1>4, <1>5, <1>6, <1>7, <1>8, <1>9, <1>10,
       <1>11, <1>12, <1>13, <1>14, <1>15, <1>16, <1>17, <1>18, <1>19, <1>20,
       <1>21, <1>22, <1>23, <1>24, <1>25, <1>26, <1>27, <1>28, <1>29, <1>30,
       <1>31, <1>32, <1>33, <1>34
     DEF Next, Walk, Streams, Data, Span, Calls

-----------------------------------------------------------------------------
(* The place in the medium. *)

Quiet == \/ FoundTape \/ FoundSet \/ FoundSetEnd \/ FoundEOTM \/ FoundNothing
         \/ FoundEntry \/ Yield \/ StandardData \/ NoData \/ NotCatalog \/ NoProbe
         \/ ReadReturns \/ DataDone \/ Trail \/ TrailEnd \/ Finished \/ RejoinContext
         \/ RejoinNowhere \/ RejoinFile \/ ContinuationFile \/ CallNext
         \/ \E n \in 1..MaxRead : CallRead(n)
Reading == \/ StreamStart \/ StreamRest \/ StreamHeader \/ Capture \/ CatalogEnd
           \/ ReadChunk \/ SkipChunk

(* flbread follows the position, up to whole FLBs. *)
Follows ==
  \E j \in Nat : /\ Position' = Position + j
                 /\ flbread' \in {flbread + j, Wrap(flbread + j)}

LEMMA QuietFollows == ASSUME Types, Quiet PROVE Follows /\ Position' = Position
<1>1. Position' = Position
  BY DEF Quiet, FoundTape, FoundSet, FoundSetEnd, FoundEOTM, FoundNothing, FoundEntry, Yield,
       StandardData, NoData, NotCatalog, NoProbe, ReadReturns, DataDone, Trail, TrailEnd,
       Finished, RejoinContext, RejoinNowhere, RejoinFile, ContinuationFile, CallNext,
       CallRead, Position, tapeVars
<1>2. flbread' = flbread \/ flbread' = Wrap(flbread)
  BY DEF Quiet, FoundTape, FoundSet, FoundSetEnd, FoundEOTM, FoundNothing, FoundEntry, Yield,
       StandardData, NoData, NotCatalog, NoProbe, ReadReturns, DataDone, Trail, TrailEnd,
       Finished, RejoinContext, RejoinNowhere, RejoinFile, ContinuationFile, CallNext,
       CallRead
<1>3. Position \in Int /\ flbread \in Nat
  BY AheadIs DEF Types, HeaderType
<1>4. Position' = Position + 0 /\ flbread' \in {flbread + 0, Wrap(flbread + 0)}
  <2>1. flbread + 0 = flbread /\ Position + 0 = Position
    BY <1>3
  <2> QED BY <1>1, <1>2, <2>1
<1> QED BY <1>1, <1>4 DEF Follows

(* Short of a fault, a call that stops reading, and does not fail, has got *)
(* to the end of the medium.                                               *)
LEMMA ReadingFollows ==
  ASSUME Types, Reading, "eio" \notin Faults
  PROVE  Follows /\ (pc' = "idle" /\ res' = "ok" => Position' = Len(Medium))
<1>0. UNCHANGED <<archive, medium>> /\ TapeType
  BY DEF Reading, StreamStart, StreamRest, StreamHeader, Capture, CatalogEnd, ReadChunk,
       SkipChunk, Types
<1>1. strm.len \in Nat /\ dblk.off \in Nat /\ dataRem \in Nat /\ want \in Nat /\ flbread \in Nat
      /\ ToBoundary \in Nat /\ did \in Nat
  BY ToBoundaryIs, ReaderAssumption DEF Types, HeaderType, CallType, StreamHeaders, Headers
<1>2. \E k, j, e :
         /\ k \in Nat
         /\ ReadCells(k, j, e) \/ SkipCells(k, j, e)
         /\ flbread' = flbread + j \/ flbread' = Wrap(flbread + j)
         /\ pc' = "idle" /\ res' = "ok" => e # "ok"
  <2>1. CASE StreamStart
    <3>1. PICK j \in 0..dblk.off, e \in Ends :
             /\ ReadCells(dblk.off, j, e) /\ flbread' = flbread + j
             /\ \/ Goto(back) \/ AlignThen("yield")
                \/ Raise(IF e = "ok" THEN "unexpected" ELSE Missing(e))
      BY <2>1 DEF StreamStart
    <3>2. pc' = "idle" /\ res' = "ok" => e # "ok"
      BY <3>1, <2>1 DEF StreamStart, Goto, Raise, AlignThen, Types, CallType, Returns
    <3> QED BY <1>1, <3>1, <3>2
  <2>2. CASE StreamRest
    <3>1. (IF strm.len > did THEN strm.len - did ELSE 0) \in Nat
      BY <1>1
    <3> QED BY <2>2, <3>1 DEF StreamRest, Proceed, Goto, Types, Returns
  <2>3. CASE StreamHeader
    <3>1. ((StreamAlign - (flbread % StreamAlign)) % StreamAlign) + 1 \in Nat
      BY <1>1, GapIs
    <3> DEFINE k == ((StreamAlign - (flbread % StreamAlign)) % StreamAlign) + 1
    <3>2. PICK j \in 0..k, e \in Ends :
             /\ ReadCells(k, j, e) /\ flbread' = flbread + j
             /\ Goto(back) \/ Raise(IF e = "ok" THEN "unexpected" ELSE Missing(e))
      BY <2>3 DEF StreamHeader
    <3>3. pc' = "idle" /\ res' = "ok" => e # "ok"
      BY <3>2, <2>3 DEF StreamHeader, Goto, Raise, Types, CallType, Returns
    <3> QED BY <3>1, <3>2, <3>3
  <2>4. CASE Capture
    BY <2>4, <1>1 DEF Capture
  <2>5. CASE CatalogEnd
    BY <2>5, <1>1 DEF CatalogEnd, AlignThen
  <2>6. CASE ReadChunk
    <3>1. Least(Least(dataRem, want), ToBoundary) \in Nat
      BY <1>1 DEF Least
    <3> QED BY <2>6, <3>1 DEF ReadChunk
  <2>7. CASE SkipChunk
    <3>1. (IF Continues THEN Least(dataRem, ToBoundary) ELSE dataRem) \in Nat
      BY <1>1 DEF Least
    <3> QED BY <2>7, <3>1 DEF SkipChunk, Proceed, Goto
  <2> QED BY <2>1, <2>2, <2>3, <2>4, <2>5, <2>6, <2>7 DEF Reading
<1>3. PICK k, j, e :
         /\ k \in Nat
         /\ ReadCells(k, j, e) \/ SkipCells(k, j, e)
         /\ flbread' = flbread + j \/ flbread' = Wrap(flbread + j)
         /\ pc' = "idle" /\ res' = "ok" => e # "ok"
  BY <1>2
<1>4. Done(k, j, e)
  BY <1>0, <1>3, ReadIs, SkipIs
<1> QED BY <1>3, <1>4 DEF Done, Ends, Follows

LEMMA StaysWhole ==
  ASSUME Types, Follows, Whole(Position - flbread)
  PROVE  Whole(Position' - flbread')
<1>1. PICK j \in Nat : /\ Position' = Position + j
                       /\ flbread' \in {flbread + j, Wrap(flbread + j)}
  BY DEF Follows
<1>2. Position \in Int /\ flbread \in Nat /\ flbsize \in {0, W}
  BY AheadIs DEF Types, HeaderType
<1>3. CASE flbread' = flbread + j
  <2>1. Position' - flbread' = Position - flbread
    BY <1>1, <1>2, <1>3
  <2> QED BY <2>1
<1>4. CASE flbread' = Wrap(flbread + j)
  <2> DEFINE x == flbread + j
             w == Wrap(x)
  <2>1. x \in Nat
    BY <1>2
  <2>2. w \in Nat /\ Whole(x - w)
    BY <2>1, <1>2, WrapIs
  <2>3. Whole((Position - flbread) + (x - w))
    <3>1. Position - flbread \in Int /\ x - w \in Int
      BY <1>2, <2>1, <2>2
    <3> HIDE DEF x, w
    <3> QED BY <3>1, <2>2, WholeSum
  <2>4. Position' - flbread' = (Position - flbread) + (x - w)
    <3>1. flbread' = w
      BY <1>4
    <3> HIDE DEF w
    <3> QED BY <1>1, <1>2, <2>2, <3>1
  <2> QED BY <2>3, <2>4
<1> QED BY <1>1, <1>3, <1>4

(* Alignment ends on a boundary. *)
LEMMA AlignsWhole ==
  ASSUME Types, Align, flbsize = W, Whole(Position - flbread), "eio" \notin Faults
  PROVE  /\ Whole(Position' - flbread')
         /\ \/ Goto(back) /\ Whole(Position')
            \/ Raise("eof") /\ Position' = Len(Medium)
<1> DEFINE x   == Wrap(flbread)
           rem == IF flbsize > 0 /\ x < flbsize THEN flbsize - x ELSE 0
<1>1. PICK j \in 0..rem, e \in Ends :
         /\ ReadCells(rem, j, e)
         /\ flbread' = (IF e = "ok" THEN 0 ELSE x + j)
         /\ Proceed(e, back)
  BY DEF Align
<1>2. Position \in Int /\ flbread \in Nat /\ flbsize \in {0, W} /\ W \in Nat \ {0}
  BY AheadIs, ReaderAssumption DEF Types, HeaderType
<1>3. x \in Nat /\ Whole(flbread - x) /\ x <= W
  BY <1>2, WrapIs
<1>4. rem \in Nat /\ x + rem = W
  <2> HIDE DEF x
  <2> QED BY <1>2, <1>3
<1>5. Done(rem, j, e)
  BY <1>1, <1>4, ReadIs DEF Types, Align
<1>6. j \in Nat /\ Position' = Position + j /\ e \in {"ok", "eof"}
      /\ (e = "ok" => j = rem) /\ (e = "eof" => Position' = Len(Medium))
  BY <1>5 DEF Done, Ends
<1>7. Whole((Position - flbread) + (flbread - x)) /\ Position - x \in Int
  <2>1. Position - flbread \in Int /\ flbread - x \in Int /\ Position - x \in Int
    BY <1>2, <1>3
  <2> HIDE DEF x
  <2> QED BY <2>1, <1>3, WholeSum
<1>8. (Position - flbread) + (flbread - x) = Position - x
  <2> HIDE DEF x
  <2> QED BY <1>2, <1>3
<1>9. CASE e = "ok"
  <2>1. Whole((Position - x) + W)
    BY <1>2, <1>7, <1>8, WholeBase, WholeSum
  <2>2. (Position - x) + W = Position' /\ Position' - flbread' = Position'
    <3>1. flbread' = 0
      BY <1>1, <1>9
    <3> HIDE DEF x, rem
    <3> QED BY <1>2, <1>3, <1>4, <1>6, <1>9, <3>1
  <2> QED BY <1>1, <1>9, <2>1, <2>2 DEF Proceed
<1>10. CASE e = "eof"
  <2>1. Position' - flbread' = Position - x
    <3>1. flbread' = x + j
      BY <1>1, <1>10
    <3> HIDE DEF x
    <3> QED BY <1>2, <1>3, <1>6, <3>1
  <2> QED BY <1>1, <1>6, <1>7, <1>8, <1>10, <2>1 DEF Proceed
<1> QED BY <1>6, <1>9, <1>10

(* The first read of a medium finds its TAPE block.                        *)
Fresh == flbsize = 0 =>
  /\ tp = 0 /\ peek = <<>>
  /\ pc = "scan" \/ (pc = "idle" /\ yields = <<>> /\ cur = None)

(* flbread is the distance from an FLB boundary: behind the EOTM, which    *)
(* nothing counts, the medium is left.                                     *)
Counted == (flbsize > 0 /\ pc # "switch" /\ ~hitEOTM) => Whole(Position - flbread)

(* Headers are looked for on a boundary, also by the next call, unless an  *)
(* entry is open, which is finished first.                                 *)
Open == cur # None /\ ~entryDone
Placed == ~hitEOTM =>
  /\ pc \in {"scan", "finished"} => Whole(Position)
  /\ pc = "yield" \/ (pc = "idle" /\ res = "ok") => Whole(Position) \/ Open

Ways == Types /\ Behalf /\ CurKnown /\ OpenRead

LEMMA Scans ==
  ASSUME Types, Fresh, ScanStart, "eio" \notin Faults
  PROVE  /\ flbsize' = W /\ Position' - flbread' = Position
         /\ \/ Goto("dispatch") \/ Goto("rejoin") \/ Raise("unexpected")
            \/ Raise("eof") /\ Position' = Len(Medium)
<1>1. PICK j \in 0..1, e \in Ends :
       /\ ReadCells(1, j, e)
       /\ flbread' = j
       /\ IF e # "ok"
          THEN Raise("eof") /\ UNCHANGED <<dblk, flbsize>>
          ELSE LET c == AsBlock(Ahead[1])
               IN  IF c.k = "hdr"
                   THEN /\ dblk' = c
                        /\ flbsize' = (IF c.type = "TAPE" THEN W ELSE flbsize)
                        /\ Goto(IF mode = "walk" THEN "dispatch" ELSE "rejoin")
                   ELSE Raise("unexpected") /\ UNCHANGED <<dblk, flbsize>>
  BY DEF ScanStart
<1>2. Done(1, j, e)
  BY <1>1, ReadIs DEF Types, ScanStart
<1>3. e \in {"ok", "eof"} /\ j \in Nat /\ Position' = Position + j
      /\ (e = "ok" => j = 1) /\ (e = "eof" => Position' = Len(Medium))
  BY <1>2 DEF Done, Ends
<1>4. Position \in Int /\ Position' - flbread' = Position
  <2>1. Position \in Int
    BY AheadIs DEF Types
  <2> QED BY <1>1, <1>3, <2>1
<1>5. ASSUME flbsize = 0 PROVE e = "ok" /\ AsBlock(Ahead[1]).k = "hdr" /\ AsBlock(Ahead[1]).type = "TAPE"
  <2>1. /\ Medium \in Seq(Cells) /\ Len(Medium) \in Nat \ {0}
        /\ Medium[1] \in Headers /\ Medium[1].type = "TAPE"
    BY MediumIs DEF Types, TapeType
  <2>2. tp = 0 /\ peek = <<>>
    BY <1>5 DEF Fresh
  <2>3. Ahead = Medium
    <3>1. SubSeq(Medium, 1, Len(Medium)) = Medium
      BY <2>1
    <3>2. Ahead = <<>> \o SubSeq(Medium, 1, Len(Medium))
      <4>1. tp + 1 = 1
        BY <2>2
      <4> QED BY <2>2, <4>1 DEF Ahead
    <3> QED BY <3>1, <3>2, <2>1
  <2>4. <<j, e>> \in Outcomes(1) /\ 1 <= Len(Ahead)
    BY <1>1, <2>1, <2>3 DEF ReadCells
  <2>5. e = "ok"
    BY <2>4 DEF Outcomes
  <2>6. AsBlock(Medium[1]) = Medium[1] /\ Medium[1].k = "hdr"
    BY <2>1 DEF AsBlock, Pad, Headers
  <2> QED BY <2>1, <2>3, <2>5, <2>6
<1>6. flbsize' = W
  <2>1. CASE flbsize = 0
    BY <1>1, <1>5, <2>1
  <2>2. CASE flbsize # 0
    BY <1>1, <2>2 DEF Types, HeaderType
  <2> QED BY <2>1, <2>2
<1> QED BY <1>1, <1>3, <1>4, <1>6

LEMMA FreshStep ==
  ASSUME Ways, Fresh, [Next]_vars, "eio" \notin Faults
  PROVE  Fresh'
<1>0. W # 0 /\ flbsize \in {0, W}
  BY ReaderAssumption DEF Ways, Types, HeaderType
<1>1. CASE ScanStart
  BY <1>0, <1>1, Scans DEF Ways, Fresh
<1>2. CASE AtEOTM
  <2>1. flbsize # 0
    BY <1>2 DEF AtEOTM, Fresh
  <2> QED BY <1>2, <2>1 DEF AtEOTM, SwitchMedium, NoMedium, Goto, Fresh
<1>3. CASE CallNext
  BY <1>3 DEF CallNext, Ready, Fresh, tapeVars, outcome
<1>4. CASE \E n \in 1..MaxRead : CallRead(n)
  BY <1>4 DEF CallRead, Ready, AtFile, Fresh, tapeVars
<1>5. CASE UNCHANGED vars
  BY <1>5 DEF vars, tapeVars, calls, outcome, entryVars, Fresh
<1>6. CASE /\ Quiet \/ Reading \/ Align \/ Probe
           /\ ~CallNext /\ ~\E n \in 1..MaxRead : CallRead(n)
  <2>1. pc \notin {"scan", "idle"}
    BY <1>6 DEF Quiet, Reading, FoundTape, FoundSet, FoundSetEnd, FoundEOTM, FoundNothing, FoundEntry,
       Yield, StandardData, NoData, NotCatalog, NoProbe, ReadReturns, DataDone, Trail, TrailEnd,
       Finished, RejoinContext, RejoinNowhere, RejoinFile, ContinuationFile,
       StreamStart, StreamRest, StreamHeader, Capture, CatalogEnd, ReadChunk, SkipChunk,
       Align, Probe, Dispatch, Rejoin
  <2>2. flbsize' = flbsize
    BY <1>6 DEF Quiet, Reading, FoundTape, FoundSet, FoundSetEnd, FoundEOTM, FoundNothing, FoundEntry,
       Yield, StandardData, NoData, NotCatalog, NoProbe, ReadReturns, DataDone, Trail, TrailEnd,
       Finished, RejoinContext, RejoinNowhere, RejoinFile, ContinuationFile, tapeVars,
       StreamStart, StreamRest, StreamHeader, Capture, CatalogEnd, ReadChunk, SkipChunk,
       Align, Probe
  <2> QED BY <2>1, <2>2 DEF Fresh
<1> QED BY <1>1, <1>2, <1>3, <1>4, <1>5, <1>6
        DEF Next, Walk, Streams, Data, Span, Calls, Quiet, Reading

LEMMA CountedStep ==
  ASSUME Ways, Fresh, Counted, Placed, [Next]_vars, "eio" \notin Faults
  PROVE  Counted'
<1>0. W \in Nat \ {0} /\ flbsize \in {0, W} /\ Types
  BY ReaderAssumption DEF Ways, Types, HeaderType
<1>1. CASE ScanStart
  <2>1. Position' - flbread' = Position /\ pc = "scan" /\ hitEOTM' = hitEOTM
    BY <1>0, <1>1, Scans DEF ScanStart, flags
  <2> QED BY <2>1 DEF Counted, Placed
<1>2. CASE AtEOTM
  <2>1. CASE SwitchMedium
    BY <2>1 DEF SwitchMedium, Counted
  <2>2. CASE NoMedium
    BY <2>2 DEF NoMedium, Truncated, Counted
  <2> QED BY <1>2, <2>1, <2>2 DEF AtEOTM
<1>3. CASE Align
  <2>1. pc = "align" /\ UNCHANGED <<hitEOTM, flbsize>>
    BY <1>3 DEF Align, flags
  <2>2. flbsize = W
    BY <1>0, <2>1 DEF Fresh
  <2> QED BY <1>0, <1>3, <2>1, <2>2, AlignsWhole DEF Counted
<1>4. CASE Probe
  <2>1. UNCHANGED <<flbread, flbsize, hitEOTM>> /\ pc = "data"
    BY <1>4 DEF Probe, flags
  <2>2. pc' = "switch" \/ Position' = Position
    BY <1>0, <1>4, ProbeIs DEF Types, Goto
  <2> QED BY <2>1, <2>2 DEF Counted
<1>5. CASE Quiet \/ Reading
  <2>1. Follows
    BY <1>0, <1>5, QuietFollows, ReadingFollows
  <2>2. UNCHANGED <<flbsize, hitEOTM>>
    BY <1>5 DEF Quiet, Reading, FoundTape, FoundSet, FoundSetEnd, FoundEOTM, FoundNothing, FoundEntry,
       Yield, StandardData, NoData, NotCatalog, NoProbe, ReadReturns, DataDone, Trail, TrailEnd,
       Finished, RejoinContext, RejoinNowhere, RejoinFile, ContinuationFile, tapeVars, flags,
       StreamStart, StreamRest, StreamHeader, Capture, CatalogEnd, ReadChunk, SkipChunk,
       CallNext, CallRead
  <2>3. pc = "switch" => FALSE
    BY <1>5 DEF Quiet, Reading, FoundTape, FoundSet, FoundSetEnd, FoundEOTM, FoundNothing, FoundEntry,
       Yield, StandardData, NoData, NotCatalog, NoProbe, ReadReturns, DataDone, Trail, TrailEnd,
       Finished, RejoinContext, RejoinNowhere, RejoinFile, ContinuationFile, Dispatch, Rejoin,
       StreamStart, StreamRest, StreamHeader, Capture, CatalogEnd, ReadChunk, SkipChunk,
       CallNext, CallRead, Ready
  <2> QED BY <1>0, <2>1, <2>2, <2>3, StaysWhole DEF Counted
<1>6. CASE UNCHANGED vars
  BY <1>6 DEF vars, tapeVars, calls, flags, Position, Counted
<1> QED BY <1>1, <1>2, <1>3, <1>4, <1>5, <1>6
        DEF Next, Walk, Streams, Data, Span, Calls, Quiet, Reading

LEMMA PlacedStep ==
  ASSUME Ways, Fresh, Counted, Placed, [Next]_vars, "eio" \notin Faults
  PROVE  Placed'
<1>0. W \in Nat \ {0} /\ flbsize \in {0, W} /\ Types /\ Whole(Len(Medium))
  BY ReaderAssumption, MediumIs DEF Ways, Types, HeaderType, TapeType
<1>1. CASE ScanStart
  <2>1. \/ Goto("dispatch") \/ Goto("rejoin") \/ Raise("unexpected")
        \/ Raise("eof") /\ Position' = Len(Medium)
    BY <1>0, <1>1, Scans
  <2>2. mode \in {"walk", "next", "read"}
    BY <1>0 DEF Types, CallType
  <2> QED BY <1>0, <2>1, <2>2 DEF Goto, Raise, Placed
<1>2. CASE AtEOTM
  <2>1. CASE SwitchMedium /\ Goto("scan")
    <3>1. Position' = 0
      <4>1. tp' = 0 /\ Len(peek') = 0
        BY <2>1, EmptySeq DEF SwitchMedium
      <4> QED BY <4>1 DEF Position
    <3> QED BY <2>1, <3>1, WholeBase DEF Goto, Placed
  <2>2. CASE NoMedium
    BY <2>2 DEF NoMedium, Truncated, Placed
  <2> QED BY <1>2, <2>1, <2>2 DEF AtEOTM
<1>3. CASE Align
  <2>1. pc = "align" /\ UNCHANGED <<hitEOTM, flbsize>>
    BY <1>3 DEF Align, flags
  <2>2. flbsize = W
    BY <1>0, <2>1 DEF Fresh
  <2>3. ASSUME ~hitEOTM PROVE Whole(Position')
    <3>1. Whole(Position - flbread)
      BY <1>0, <2>1, <2>2, <2>3 DEF Counted
    <3> QED BY <1>0, <1>3, <2>2, <3>1, AlignsWhole
  <2> QED BY <2>1, <2>3 DEF Placed
<1>4. CASE Probe
  <2>1. \/ Goto("chunk") \/ Goto("switch") \/ Position' = Len(Medium)
    BY <1>0, <1>4, ProbeIs DEF Types
  <2> QED BY <1>0, <2>1 DEF Goto, Placed
<1>5. CASE Reading
  <2>1. pc' = "idle" /\ res' = "ok" => Position' = Len(Medium)
    BY <1>0, <1>5, ReadingFollows
  <2>2. pc' \notin {"scan", "finished", "yield"}
    <3> USE <1>0 DEF Types, Returns, Goto, Raise, Proceed, AlignThen
    <3>1. CASE StreamStart \/ StreamRest \/ StreamHeader
      BY <3>1 DEF StreamStart, StreamRest, StreamHeader
    <3>2. CASE Capture \/ CatalogEnd \/ ReadChunk \/ SkipChunk
      BY <3>2 DEF Capture, CatalogEnd, ReadChunk, SkipChunk
    <3> QED BY <1>5, <3>1, <3>2 DEF Reading
  <2> QED BY <1>0, <2>1, <2>2 DEF Placed
<1>6. CASE Quiet /\ ~Calls
  <2>1. Position' = Position
    BY <1>0, <1>6, QuietFollows
  <2> USE <2>1 DEF Placed, Open, Goto, AlignThen, outcome, entryVars, flags, Ways
  <2>2. CASE FoundTape \/ FoundSet \/ FoundSetEnd \/ FoundEOTM \/ FoundNothing \/ FoundEntry
    BY <2>2 DEF FoundTape, FoundSet, FoundSetEnd, FoundEOTM, FoundNothing, FoundEntry
  <2>3. CASE Yield
    BY <2>3 DEF Yield
  <2>4. CASE StandardData
    BY <2>4 DEF StandardData, CurKnown
  <2>5. CASE NoData \/ NotCatalog \/ NoProbe \/ DataDone \/ Trail \/ TrailEnd
    BY <2>5 DEF NoData, NotCatalog, NoProbe, DataDone, Trail, TrailEnd
  <2>6. CASE ReadReturns
    BY <2>6 DEF ReadReturns, CurKnown, OpenRead, Trailing
  <2>7. CASE Finished
    BY <2>7 DEF Finished
  <2>8. CASE RejoinContext \/ RejoinNowhere \/ RejoinFile
    BY <2>8 DEF RejoinContext, RejoinNowhere, RejoinFile
  <2>9. CASE ContinuationFile
    BY <2>9 DEF ContinuationFile
  <2> QED BY <1>6, <2>2, <2>3, <2>4, <2>5, <2>6, <2>7, <2>8, <2>9 DEF Quiet, Calls
<1>7. CASE CallNext
  <2>1. Position' = Position
    BY <1>0, <1>7, QuietFollows DEF Quiet
  <2> QED BY <1>7, <2>1 DEF CallNext, Ready, Placed, Open, flags
<1>8. CASE \E n \in 1..MaxRead : CallRead(n)
  <2>1. Position' = Position
    BY <1>0, <1>8, QuietFollows DEF Quiet
  <2> QED BY <1>8, <2>1 DEF CallRead, Ready, Placed, Open, flags
<1>9. CASE UNCHANGED vars
  BY <1>9 DEF vars, tapeVars, calls, flags, outcome, entryVars, Position, Placed, Open
<1> QED BY <1>1, <1>2, <1>3, <1>4, <1>5, <1>6, <1>7, <1>8, <1>9
        DEF Next, Walk, Streams, Data, Span, Calls, Quiet, Reading

Place == Ways /\ Fresh /\ Counted /\ Placed

LEMMA PlaceHolds == "eio" \notin Faults => (Spec => []Place)
<1> SUFFICES ASSUME "eio" \notin Faults PROVE Spec => []Place
  OBVIOUS
<1>1. Init => Place
  <2> SUFFICES ASSUME Init PROVE Place
    OBVIOUS
  <2>1. Types
    BY InitTypes
  <2>2. Position = 0
    <3>1. tp = 0 /\ Len(peek) = 0
      BY EmptySeq DEF Init
    <3> QED BY <3>1 DEF Position
  <2> QED BY <2>1, <2>2, WholeBase
      DEF Init, Place, Ways, Behalf, InWalk, InFile, CurKnown, AtFile, OpenRead, Fresh,
          Counted, Placed
<1>2. Place /\ [Next]_vars => Place'
  <2> SUFFICES ASSUME Place, [Next]_vars PROVE Place'
    OBVIOUS
  <2>1. Ways'
    BY StepTypes, BehalfStep, CurStep, OpenStep DEF Place, Ways
  <2> QED BY <2>1, FreshStep, CountedStep, PlacedStep DEF Place
<1> QED BY <1>1, <1>2, PTL DEF Spec

(* No walk loses its place: short of transient read errors, every header   *)
(* is looked for at the start of an FLB, however the content before it was *)
(* read or passed over, whatever blocks and streams the media hold, in any *)
(* order and damaged or not.                                               *)
THEOREM WalkInStep == "eio" \notin Faults => (Spec => []InStep)
<1>1. Place => InStep
  BY DEF Place, Placed, InStep, Whole
<1> QED BY <1>1, PlaceHolds, PTL

(* And the boundaries at which continuation is probed are where the        *)
(* counter puts them.                                                      *)
THEOREM BoundariesStayKnown == "eio" \notin Faults => (Spec => []BoundariesKnown)
<1>1. Place => BoundariesKnown
  BY DEF Place, Counted, BoundariesKnown, Whole
<1> QED BY <1>1, PlaceHolds, PTL

-----------------------------------------------------------------------------
(* The two counters of a file's data: while data are left, and Read has not *)
(* reported their end.                                                     *)
Agree == dataRem + did = strm.len
Delivering ==
  \/ pc \in {"data", "chunk", "switch", "scan", "rejoin", "start"}
  \/ pc = "align" /\ back \in {"scan", "data"}
Counters ==
  /\ pc = "streams" /\ strm.type = "STAN" => did = 0
  /\ mode = "walk" /\ pc \notin {"yield", "idle"} => dataRem = 0
  /\ pc = "yield" /\ dataRem > 0 => Agree
  /\ pc = "idle" /\ res = "ok" /\ dataRem > 0 /\ ~readEnd /\ inData => Agree
  /\ Delivering /\ dataRem > 0 /\ ~readEnd => Agree

LEMMA CountersStep == ASSUME Types, Behalf, Counters, "eio" \notin Faults, [Next]_vars PROVE Counters'
<1> USE DEF Types, HeaderType, CallType, Returns, Behalf, InWalk, InFile, Counters, Delivering, Agree,
           Dispatch, Rejoin, Goto, Raise, AlignThen, Proceed, outcome, dataVars, streamVars
<1>1. CASE ScanStart
  BY <1>1 DEF ScanStart
<1>2. CASE FoundTape
  BY <1>2 DEF FoundTape
<1>3. CASE FoundSet
  BY <1>3 DEF FoundSet
<1>4. CASE FoundSetEnd
  BY <1>4 DEF FoundSetEnd
<1>5. CASE FoundEOTM
  BY <1>5 DEF FoundEOTM
<1>6. CASE FoundNothing
  BY <1>6 DEF FoundNothing
<1>7. CASE FoundEntry
  BY <1>7 DEF FoundEntry
<1>8. CASE Yield
  BY <1>8 DEF Yield
<1>9. CASE Align
  <2>1. PICK e \in Ends : Proceed(e, back)
    BY <1>9 DEF Align
  <2>2. pc = "align" /\ UNCHANGED <<dataRem, inData, did, strm>>
    BY <1>9 DEF Align
  <2>3. CASE Goto(back)
    BY <2>2, <2>3
  <2>4. CASE Raise(e)
    BY <2>2, <2>4
  <2> QED BY <2>1, <2>3, <2>4
<1>10. CASE StreamStart
  BY SMTT(30), <1>10 DEF StreamStart
<1>11. CASE StreamRest
  BY <1>11 DEF StreamRest
<1>12. CASE StreamHeader
  BY <1>12 DEF StreamHeader
<1>13. CASE StandardData
  <2>1. strm.len \in Nat
    BY DEF StreamHeaders
  <2> QED BY <1>13, <2>1 DEF StandardData
<1>14. CASE NoData
  BY <1>14 DEF NoData
<1>15. CASE Capture
  BY <1>15 DEF Capture
<1>16. CASE NotCatalog
  BY <1>16 DEF NotCatalog
<1>17. CASE CatalogEnd
  BY <1>17 DEF CatalogEnd
<1>18. CASE Probe
  BY <1>18 DEF Probe
<1>19. CASE NoProbe
  BY <1>19 DEF NoProbe
<1>20. CASE ReadChunk
  <2>1. PICK j \in 0..Least(Least(dataRem, want), ToBoundary), e \in Ends :
           /\ Deliver(j)
           /\ IF e = "ok" THEN pc' = "data" /\ UNCHANGED <<mode, readEnd>>
                          ELSE /\ pc' = "idle"
                               /\ res' = IF e = "eof" THEN "ok" ELSE "fail"
                               /\ readEnd' = (readEnd \/ e = "eof")
    BY <1>20 DEF ReadChunk
  <2>2. did \in Nat /\ dataRem \in Nat /\ j \in Int
    OBVIOUS
  <2>3. dataRem' + did' = dataRem + did
    BY <2>1, <2>2 DEF Deliver
  <2>4. pc = "chunk" /\ mode = "read" /\ strm' = strm
    BY <1>20 DEF ReadChunk
  <2>5. dataRem' > 0 => dataRem > 0
    <3>1. ToBoundary \in Nat /\ want \in Nat
      BY ToBoundaryIs, ReaderAssumption
    <3>2. j >= 0
      BY <2>2, <3>1 DEF Least
    <3> QED BY <2>1, <2>2, <3>2 DEF Deliver
  <2>6. mode' = "read"
    BY <1>20 DEF ReadChunk
  <2> QED BY <2>1, <2>3, <2>4, <2>5, <2>6
<1>21. CASE SkipChunk
  <2>1. PICK j \in Int, e \in Ends :
           /\ j >= 0
           /\ did' = did + j
           /\ dataRem' = (IF e = "ok" THEN dataRem - j ELSE dataRem)
           /\ Proceed(e, "data")
    BY <1>21 DEF SkipChunk
  <2>2. did \in Nat /\ dataRem \in Nat
    OBVIOUS
  <2>3. pc = "chunk" /\ mode = "next" /\ strm' = strm /\ mode' = "next"
    BY <1>21, <2>1 DEF SkipChunk
  <2>4. e = "ok" => dataRem' + did' = dataRem + did /\ (dataRem' > 0 => dataRem > 0)
    BY <2>1, <2>2
  <2> QED BY <2>1, <2>3, <2>4
<1>22. CASE ReadReturns
  BY <1>22 DEF ReadReturns
<1>23. CASE DataDone
  BY <1>23 DEF DataDone
<1>24. CASE Trail
  BY <1>24 DEF Trail
<1>25. CASE TrailEnd
  BY <1>25 DEF TrailEnd
<1>26. CASE Finished
  BY <1>26 DEF Finished
<1>27. CASE AtEOTM
  BY <1>27 DEF AtEOTM
<1>28. CASE RejoinContext
  BY <1>28 DEF RejoinContext
<1>29. CASE RejoinNowhere
  BY <1>29 DEF RejoinNowhere
<1>30. CASE RejoinFile
  BY <1>30 DEF RejoinFile
<1>31. CASE ContinuationFile
  <2>1. strm.len \in Nat /\ pc = "contfile" /\ mode # "walk" /\ strm' = strm /\ mode' = mode
    BY <1>31 DEF StreamHeaders, ContinuationFile
  <2>2. CASE strm.type = "STAN"
    BY <1>31, <2>1, <2>2 DEF ContinuationFile
  <2>3. CASE strm.type # "STAN" /\ (strm.type = "SPAD" \/ lastStream)
    BY <1>31, <2>1, <2>3 DEF ContinuationFile
  <2>4. CASE ~(strm.type = "STAN" \/ strm.type = "SPAD" \/ lastStream)
    BY <1>31, <2>1, <2>4 DEF ContinuationFile
  <2> QED BY <2>2, <2>3, <2>4
<1>32. CASE CallNext
  BY <1>32 DEF CallNext, Ready, DataLeft
<1>33. CASE \E n \in 1..MaxRead : CallRead(n)
  BY <1>33 DEF CallRead, Ready, DataLeft
<1>34. CASE UNCHANGED vars
  BY <1>34 DEF vars, calls
<1> QED BY <1>1, <1>2, <1>3, <1>4, <1>5, <1>6, <1>7, <1>8, <1>9, <1>10,
       <1>11, <1>12, <1>13, <1>14, <1>15, <1>16, <1>17, <1>18, <1>19, <1>20,
       <1>21, <1>22, <1>23, <1>24, <1>25, <1>26, <1>27, <1>28, <1>29, <1>30,
       <1>31, <1>32, <1>33, <1>34
     DEF Next, Walk, Streams, Data, Span, Calls

(* What dataRem says is left of a file is what its stream says is left,     *)
(* until Read has reported the end: Next may then pass over what dataRem   *)
(* says is left of a file that a lost EOTM cut off on its way to the next  *)
(* medium, while the counters already tell of another stream.              *)
THEOREM CountersStayAgreed ==
  "eio" \notin Faults => (Spec => [](readEnd \/ CountersAgree))
<1> SUFFICES ASSUME "eio" \notin Faults
             PROVE  Spec => [](readEnd \/ CountersAgree)
  OBVIOUS
<1>1. Init => Types /\ Behalf /\ Counters
  BY InitTypes DEF Init, Behalf, InWalk, InFile, Counters, Delivering
<1>2. Types /\ Behalf /\ Counters /\ [Next]_vars => (Types /\ Behalf /\ Counters)'
  BY StepTypes, BehalfStep, CountersStep
<1>3. Types /\ Behalf /\ Counters => readEnd \/ CountersAgree
  BY DEF Counters, Delivering, Agree, CountersAgree
<1> QED BY <1>1, <1>2, <1>3, PTL DEF Spec
=============================================================================
