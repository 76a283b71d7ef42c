------------------------------- MODULE Reader -------------------------------
(***************************************************************************)
(* The block iterator of mtf.Reader (reader.go, streams.go, spanning.go,   *)
(* catalog.go): Next and Read over the byte stream of the block layer, the *)
(* walk over a descriptor block's data streams, the accounting of the      *)
(* Format Logical Blocks (FLBs), and files whose data continue on another  *)
(* medium.                                                                 *)
(*                                                                         *)
(* A medium is a sequence of cells: a descriptor block header (DBLK), a    *)
(* stream header, one unit of stream data, or padding.  A cell is what one *)
(* read of the code asks for, so a header is read whole or not at all; an  *)
(* FLB holds W cells.  Padding read as a header is an all-zero header,     *)
(* whose checksum is valid and whose type is unknown; data read as a       *)
(* header fails its checksum.                                              *)
(*                                                                         *)
(* Each call of the code is the actions of one value of pc; `mode' says on *)
(* whose behalf a file's data is being passed over and `back' where the    *)
(* alignment to the next FLB returns to.                                   *)
(***************************************************************************)
EXTENDS Integers, Sequences

CONSTANTS
  W,          (* cells of a Format Logical Block                              *)
  StreamAlign,(* cells of the alignment of stream headers (4 bytes)           *)
  Walks,      (* what is walked and how.  Records of `media', the cells of    *)
              (* each medium; `items', what the walk is to yield; `phys',     *)
              (* cells of a physical block; `callback', whether a             *)
              (* continuation callback is registered; `discards', whether the *)
              (* caller goes on to the next entry with this one's content     *)
              (* "unread" or read in "part"                                   *)
  Faults,     (* "eio": transient read errors, after which callers retry;     *)
              (* "callback": the continuation callback returns an error       *)
  MaxFaults,  (* bound: how many of them                                      *)
  MaxRead     (* bound: cells one Read asks for                               *)

ASSUME ReaderAssumption ==
  /\ W \in Nat \ {0, 1} /\ StreamAlign \in Nat \ {0}
  /\ W % StreamAlign = 0
  /\ \A a \in Walks : /\ a.phys \in Nat \ {0} /\ a.callback \in BOOLEAN
                       /\ a.discards \subseteq {"unread", "part"}
  /\ Faults \subseteq {"eio", "callback"}
  /\ MaxFaults \in Nat /\ MaxRead \in Nat \ {0}

VARIABLES
  archive,    (* the archive and how it is walked, chosen at the start        *)
  medium,     (* mediaSeq + 1                                                 *)
  tp,         (* cells of the medium taken off the block buffer               *)
  peek,       (* read-ahead of the probe                                      *)
  flbsize,    (* W, or 0 until the TAPE block of the medium has been read     *)
  flbread,    (* cells consumed within the FLB                                *)
  dblk,       (* the descriptor block header in blk                           *)
  strm,       (* the current stream header                                    *)
  did,        (* streamDid                                                    *)
  lastStream,
  inData, dataRem, streamContinued,
  cur,        (* the current entry: its kind, None before the first           *)
  entryDone,
  sawESET, hitEOTM,
  volume, cwd,(* the context entries are named in                             *)
  catFDD,     (* whose catalog catFDDraw holds, 0 for none                    *)
  pc, mode, back,
  want,       (* cells the Read in progress still wants                       *)
  faults,     (* history: faults that have happened                           *)
  res,        (* how the last call ended: "ok", "eof", "fail"                 *)
  readEnd,    (* Read has returned io.EOF for the current entry               *)
  yields,     (* history: the items yielded, but no data set announced again  *)
  got,        (* history: content of the last of them handed over             *)
  again       (* history: the last block yielded announced a data set again   *)

tapeVars   == <<medium, tp, peek, flbsize>>
streamVars == <<dblk, strm, did, lastStream>>
dataVars   == <<inData, dataRem, streamContinued>>
entryVars  == <<cur, entryDone>>
ctxVars    == <<volume, cwd, catFDD>>
flags      == <<sawESET, hitEOTM>>
calls      == <<pc, mode, back, want>>
outcome    == <<res, readEnd, yields, got, again>>
vars == <<archive, tapeVars, flbread, streamVars, dataVars, entryVars, ctxVars,
          flags, calls, faults, outcome>>

None == "none"
-----------------------------------------------------------------------------
(* The byte stream. *)

Medium    == archive.media[medium]
Phys      == archive.phys
Continues == archive.callback
Discards  == archive.discards
Ahead  == peek \o SubSeq(Medium, tp + 1, Len(Medium))

(* How a read of k cells can end: with all of them, short at the end of    *)
(* the medium, or on a transient error behind the read-ahead.              *)
Outcomes(k) ==
  (IF k <= Len(Ahead) THEN {<<k, "ok">>} ELSE {<<Len(Ahead), "eof">>})
    \cup IF "eio" \in Faults /\ faults < MaxFaults
         THEN {<<j, "eio">> : j \in {i \in Len(peek)..(k - 1) : i <= Len(Ahead)}}
         ELSE {}
Ends == {"ok", "eof", "eio"}

(* read, readFull: j cells are taken, the read-ahead first. *)
Take(j, e) ==
  /\ peek' = SubSeq(peek, j + 1, Len(peek))
  /\ tp' = tp + (IF j > Len(peek) THEN j - Len(peek) ELSE 0)
  /\ faults' = faults + (IF e = "eio" THEN 1 ELSE 0)

ReadCells(k, j, e) == <<j, e>> \in Outcomes(k) /\ Take(j, e)

(* The end of the physical block in the buffer. *)
BufferEnd == LET b == ((tp + Phys - 1) \div Phys) * Phys
             IN  IF b < Len(Medium) THEN b ELSE Len(Medium)

(* skipStreamData: within the buffered block the offset moves, read-ahead  *)
(* or not; otherwise the cells are read.                                   *)
SkipCells(k, j, e) ==
  IF tp + k <= BufferEnd
  THEN j = k /\ e = "ok" /\ tp' = tp + k /\ UNCHANGED <<peek, faults>>
  ELSE ReadCells(k, j, e)

(* Mutants: flbread grows on; the boundary is taken for its successor. *)
Wrap_Never(x) == x
Wrap_OffByOne(x) == IF flbsize > 0 /\ x > flbsize THEN (x % flbsize) + 1 ELSE x
(* wrapFlbread: a multiple of flbsize stays flbsize, it never becomes 0. *)
Wrap(x) == IF flbsize > 0 /\ x > flbsize THEN ((x - 1) % flbsize) + 1 ELSE x

-----------------------------------------------------------------------------
(* Returning to the caller. *)

(* An error e ends the call: Next turns what follows a seen ESET into the  *)
(* end of the archive (endOrError); Read hands io.EOF on as its own.       *)
Raise(e) ==
  /\ pc' = "idle"
  /\ res' = CASE mode = "read" -> IF e = "eof" THEN "ok" ELSE "fail"
              [] mode = "next" -> IF e = "eof" THEN "eof" ELSE "fail"
              [] mode = "walk" -> IF e = "eof" \/ (e = "unexpected" /\ sawESET)
                                  THEN "eof" ELSE "fail"
  /\ readEnd' = (readEnd \/ (mode = "read" /\ e = "eof"))
  /\ UNCHANGED <<mode, back, want, yields, got, again>>

Goto(p) == pc' = p /\ UNCHANGED <<mode, back, want, outcome>>

(* Continue at p, or fail with e. *)
Proceed(e, p) == IF e = "ok" THEN Goto(p) ELSE Raise(e)

(* ensure: a header that is missing is an unexpected end. *)
Missing(e) == IF e = "eof" THEN "unexpected" ELSE e

(* Pass over the rest of the FLB, then go on at p (scanNext). *)
AlignThen(p) == pc' = "align" /\ back' = p /\ UNCHANGED <<mode, want, outcome>>

Align ==
  /\ pc = "align"
  /\ LET x   == Wrap(flbread)
         rem == IF flbsize > 0 /\ x < flbsize THEN flbsize - x ELSE 0
     IN  \E j \in 0..rem, e \in Ends :
           /\ ReadCells(rem, j, e)
           /\ flbread' = (IF e = "ok" THEN 0 ELSE x + j)
           /\ Proceed(e, back)
  /\ UNCHANGED <<archive, medium, flbsize, streamVars, dataVars, entryVars,
                 ctxVars, flags>>

-----------------------------------------------------------------------------
(* Descriptor blocks. *)

Known == {"TAPE", "SSET", "VOLB", "DIRB", "FILE", "CFIL", "ESPB", "ESET",
          "EOTM", "SFMB"}

Pad == [k |-> "pad"]
DeadBlock == [k |-> "hdr", type |-> "none", id |-> 0, cont |-> FALSE, off |-> 0]
NoStream  == [k |-> "str", type |-> "none", len |-> 0, cont |-> FALSE, id |-> 0]
EndStream == [NoStream EXCEPT !.type = "SPAD"]

(* The types of streams the code tells apart; "NACL" and "CSUM" stand for  *)
(* those it treats alike, "none" for a header of padding.                  *)
StreamTypes == {"STAN", "SPAD", "TFDD", "TSMP", "NACL", "CSUM", "none"}

(* What a cell can be.  A block of a type that Next does not know is one   *)
(* of type "none".                                                         *)
Headers == [k : {"hdr"}, type : Known \cup {"none"}, id : Nat, cont : BOOLEAN, off : Nat]
StreamHeaders == [k : {"str"}, type : StreamTypes, len : Nat, cont : BOOLEAN, id : Nat]
Units == [k : {"dat"}, id : Int, n : Nat]
Cells == {Pad} \cup Headers \cup StreamHeaders \cup Units

(* A medium is written in whole FLBs, the first of which begins with its   *)
(* TAPE header.                                                            *)
Formatted(m) ==
  /\ m \in Seq(Cells) /\ m # <<>> /\ Len(m) % W = 0
  /\ m[1] \in Headers /\ m[1].type = "TAPE"
ASSUME MediaAssumption ==
  \A a \in Walks : /\ Len(a.media) \in Nat \ {0}
                   /\ \A n \in 1..Len(a.media) : Formatted(a.media[n])

(* A cell read as a descriptor block header, or as a stream header. *)
AsBlock(c)  == IF c = Pad THEN DeadBlock ELSE c
AsStream(c) == IF c = Pad THEN NoStream ELSE c

(* scanStart, from Next's loop (mode "walk") or resyncContinuation.  Every *)
(* error in front of the header is reported as io.EOF.                     *)
ScanStart ==
  /\ pc = "scan"
  /\ \E j \in 0..1, e \in Ends :
       /\ ReadCells(1, j, e)
       /\ flbread' = j
       /\ IF e # "ok"
          THEN Raise("eof") /\ UNCHANGED <<dblk, flbsize>>
          ELSE LET c == AsBlock(Ahead[1])
               IN  IF c.k = "hdr"
                   THEN /\ dblk' = c
                        /\ flbsize' = (IF c.type = "TAPE" THEN W ELSE flbsize)
                        /\ Goto(IF mode = "walk" THEN "dispatch" ELSE "rejoin")
                   ELSE Raise("unexpected") /\ UNCHANGED <<dblk, flbsize>>
  /\ UNCHANGED <<archive, medium, strm, did, lastStream, dataVars, entryVars,
                 ctxVars, flags>>

Dispatch(types) == pc = "dispatch" /\ dblk.type \in types

FoundTape ==
  /\ Dispatch({"TAPE"})
  /\ AlignThen("yield")
  /\ UNCHANGED <<archive, tapeVars, flbread, streamVars, dataVars, entryVars,
                 ctxVars, flags, faults>>

FoundSet ==
  /\ Dispatch({"SSET"})
  /\ AlignThen("yield")
  /\ UNCHANGED <<archive, tapeVars, flbread, streamVars, dataVars, entryVars,
                 ctxVars, flags, faults>>

(* parseEset; captureCatalog is a no-op without streams. *)
FoundSetEnd ==
  /\ Dispatch({"ESET"})
  /\ sawESET' = TRUE
  /\ IF dblk.off = 0
     THEN AlignThen("yield")
     ELSE pc' = "start" /\ back' = "catalog" /\ UNCHANGED <<mode, want, outcome>>
  /\ UNCHANGED <<archive, tapeVars, flbread, streamVars, dataVars, entryVars,
                 ctxVars, hitEOTM, faults>>

FoundEOTM ==
  /\ Dispatch({"EOTM"})
  /\ AlignThen("eotm")
  /\ UNCHANGED <<archive, tapeVars, flbread, streamVars, dataVars, entryVars,
                 ctxVars, flags, faults>>

(* Padding and dead blocks, and the context blocks repeated on a           *)
(* continuation medium, yield nothing.                                     *)
FoundNothing ==
  /\ \/ Dispatch({"SFMB", "ESPB", "CFIL", "none"})
     \/ Dispatch({"VOLB", "DIRB"}) /\ dblk.cont
  /\ volume' = (IF dblk.type = "VOLB" THEN dblk.id ELSE volume)
  /\ cwd'    = (IF dblk.type = "DIRB" THEN dblk.id ELSE cwd)
  /\ AlignThen("scan")
  /\ UNCHANGED <<archive, tapeVars, flbread, streamVars, dataVars, entryVars,
                 catFDD, flags, faults>>

(* parseVolb, parseDirb, parseFile, and the way to the first stream.       *)
FoundEntry ==
  /\ \/ Dispatch({"FILE"})
     \/ Dispatch({"VOLB", "DIRB"}) /\ ~dblk.cont
  /\ volume' = (IF dblk.type = "VOLB" THEN dblk.id ELSE volume)
  /\ cwd' = CASE dblk.type = "VOLB" -> 0
              [] dblk.type = "DIRB" -> dblk.id
              [] dblk.type = "FILE" -> cwd
  /\ IF dblk.off = 0 /\ dblk.type # "FILE"
     THEN cur' = dblk.type /\ entryDone' = TRUE /\ AlignThen("yield")
     ELSE /\ pc' = "start" /\ back' = "streams"
          /\ UNCHANGED <<entryVars, mode, want, outcome>>
  /\ UNCHANGED <<archive, tapeVars, flbread, streamVars, dataVars,
                 catFDD, flags, faults>>

(* The block goes out to the caller (setBlock, entryBlock). *)
Item == [kind |-> dblk.type, id |-> dblk.id,
         vol  |-> IF dblk.type \in {"DIRB", "FILE"} THEN volume ELSE 0,
         dir  |-> IF dblk.type = "FILE" THEN cwd ELSE 0,
         cat  |-> IF dblk.type = "ESET" THEN catFDD ELSE 0]

(* A data set announced again on a continuation medium: the code hands it  *)
(* out like any other, where docs/spanning.md:68-70 says it is silent; it  *)
(* is not an item of its own.                                              *)
Repeated == dblk.type = "SSET" /\ dblk.cont

Yield ==
  /\ pc = "yield"
  /\ again' = Repeated
  /\ IF Repeated THEN UNCHANGED <<yields, got>>
     ELSE yields' = Append(yields, Item) /\ got' = <<>>
  /\ readEnd' = FALSE /\ res' = "ok" /\ pc' = "idle"
  /\ UNCHANGED <<archive, tapeVars, flbread, streamVars, dataVars, entryVars,
                 ctxVars, flags, mode, back, want, faults>>

-----------------------------------------------------------------------------
(* Data streams. *)

(* streamStart: the first stream header of the block.  A descriptor block  *)
(* in its place says that the block has no streams.  Volumes and           *)
(* directories whose streams are out of reach are reported without them.   *)
StreamStart ==
  /\ pc = "start"
  /\ \E j \in 0..dblk.off, e \in Ends :
       /\ ReadCells(dblk.off, j, e)
       /\ flbread' = flbread + j
       /\ LET c      == IF e # "ok" THEN NoStream
                        ELSE IF dblk.off = 0 THEN dblk ELSE AsStream(Ahead[dblk.off])
              atBlk  == e = "ok" /\ dblk.off > 0 /\ c.k = "hdr" /\ c.type \in Known
              ok     == e = "ok" /\ (c.k = "str" \/ atBlk)
          IN  /\ lastStream' = atBlk
              /\ strm' = CASE atBlk -> EndStream [] ok /\ ~atBlk -> c [] OTHER -> strm
              /\ did' = IF e = "ok" THEN 0 ELSE did
              /\ IF ok
                 THEN /\ Goto(back)
                      /\ cur' = IF back = "streams" THEN dblk.type ELSE cur
                      /\ UNCHANGED entryDone
                 ELSE IF dblk.type \in {"VOLB", "DIRB"}
                      THEN cur' = dblk.type /\ entryDone' = TRUE /\ AlignThen("yield")
                      ELSE /\ Raise(IF e = "ok" THEN "unexpected" ELSE Missing(e))
                           /\ UNCHANGED entryVars
  /\ UNCHANGED <<archive, medium, flbsize, dblk, dataVars, ctxVars, flags>>

(* streamNext, first half: pass over the rest of the stream.  SPAD is the  *)
(* last one.                                                               *)
StreamRest ==
  /\ pc = "rest"
  /\ LET rem == IF strm.len > did THEN strm.len - did ELSE 0
     IN  \E j \in 0..rem, e \in Ends :
           /\ SkipCells(rem, j, e)
           /\ did' = did + j
           /\ flbread' = (IF e = "ok" THEN Wrap(flbread + j) ELSE flbread + j)
           /\ lastStream' = (lastStream \/ (e = "ok" /\ strm.type = "SPAD"))
           /\ Proceed(e, IF strm.type = "SPAD" THEN back ELSE "header")
  /\ UNCHANGED <<archive, medium, flbsize, dblk, strm, dataVars, entryVars,
                 ctxVars, flags>>

(* Mutant: of the two places the one right behind the data comes first. *)
HeaderAt_DataEndFirst(gap) == IF AsStream(Ahead[1]).k = "str" THEN 1 ELSE gap + 1
(* probeStreamHeader: the cell of the next stream header, at the next      *)
(* multiple of StreamAlign or, from writers that do not pad, where the data end. *)
HeaderAt(gap) ==
  IF AsStream(Ahead[gap + 1]).k # "str" /\ AsStream(Ahead[1]).k = "str"
  THEN 1 ELSE gap + 1

(* streamNext, second half: the next stream header.  Everything up to the  *)
(* later of the two places has been read by then.                          *)
StreamHeader ==
  /\ pc = "header"
  /\ LET gap == (StreamAlign - (flbread % StreamAlign)) % StreamAlign
     IN  \E j \in 0..(gap + 1), e \in Ends :
           /\ ReadCells(gap + 1, j, e)
           /\ flbread' = flbread + j
           /\ LET c == IF e = "ok" THEN AsStream(Ahead[HeaderAt(gap)]) ELSE DeadBlock
              IN  IF c.k = "str"
                  THEN strm' = c /\ did' = 0 /\ Goto(back)
                  ELSE /\ Raise(IF e = "ok" THEN "unexpected" ELSE Missing(e))
                       /\ UNCHANGED <<strm, did>>
  /\ UNCHANGED <<archive, medium, flbsize, dblk, lastStream, dataVars,
                 entryVars, ctxVars, flags>>

(* materializeStreams: up to the standard data or the terminal SPAD; the   *)
(* streams on the way are captured.                                        *)
StandardData ==
  /\ pc = "streams" /\ strm.type = "STAN"
  /\ inData' = TRUE /\ dataRem' = strm.len /\ entryDone' = FALSE
  /\ Goto("yield")
  /\ UNCHANGED <<archive, tapeVars, flbread, streamVars, streamContinued, cur,
                 ctxVars, flags, faults>>

NoData ==
  /\ pc = "streams" /\ strm.type = "SPAD"
  /\ lastStream' = TRUE /\ entryDone' = TRUE
  /\ AlignThen("yield")
  /\ UNCHANGED <<archive, tapeVars, flbread, dblk, strm, did, dataVars, cur,
                 ctxVars, flags, faults>>

(* A metadata stream is read whole (captureStream, captureExtra,           *)
(* readStreamBytes); what follows is streamNext.                           *)
Capture ==
  /\ \/ pc = "streams" /\ strm.type \notin {"STAN", "SPAD"}
     \/ pc = "extra" /\ strm.type # "SPAD"
     \/ pc = "catalog" /\ strm.type \in {"TFDD", "TSMP"}
  /\ \E j \in 0..strm.len, e \in Ends :
       /\ ReadCells(strm.len, j, e)
       /\ flbread' = Wrap(flbread + j) /\ did' = did + j
       /\ IF e = "ok"
          THEN /\ pc' = IF pc = "extra" THEN "trail" ELSE "rest"
               /\ catFDD' = IF pc = "catalog" /\ strm.type = "TFDD" THEN strm.id
                                                                    ELSE catFDD
               /\ UNCHANGED <<mode, back, want, outcome>>
          ELSE Raise(e) /\ UNCHANGED catFDD
  /\ UNCHANGED <<archive, medium, flbsize, dblk, strm, lastStream, dataVars,
                 entryVars, volume, cwd, flags>>

NotCatalog ==
  /\ pc = "catalog" /\ strm.type \notin {"TFDD", "TSMP", "SPAD"}
  /\ Goto("rest")
  /\ UNCHANGED <<archive, tapeVars, flbread, streamVars, dataVars, entryVars,
                 ctxVars, flags, faults>>

(* captureCatalog ends on the SPAD, whose padding it consumes. *)
CatalogEnd ==
  /\ pc = "catalog" /\ strm.type = "SPAD"
  /\ \E j \in 0..strm.len, e \in Ends :
       /\ SkipCells(strm.len, j, e)
       /\ did' = did + j
       /\ flbread' = (IF e = "ok" THEN Wrap(flbread + j) ELSE flbread + j)
       /\ lastStream' = (lastStream \/ e = "ok")
       /\ IF e = "ok" THEN AlignThen("yield") ELSE Raise(e)
  /\ UNCHANGED <<archive, medium, flbsize, dblk, strm, dataVars, entryVars,
                 ctxVars, flags>>

-----------------------------------------------------------------------------
(* A file's data: readStreamData for Read, skipRemainingData for Next.     *)

AtBoundary == flbsize > 0 /\ (flbread = 0 \/ flbread >= flbsize)
ShouldProbe == Continues \/ (flbsize > 0 /\ dataRem <= 2 * flbsize)
ToBoundary == IF flbsize = 0 THEN dataRem ELSE flbsize - (flbread % flbsize)

Passing == dataRem > 0 /\ (mode = "read" => want > 0)
Probing == AtBoundary /\ ShouldProbe /\ (mode = "next" => Continues)

IsEOTM(c) == c.k = "hdr" /\ c.type = "EOTM"

(* probeEOTM: an EOTM in place of the data is consumed and leads to the    *)
(* continuation medium; anything else goes back to the read-ahead.         *)
Probe ==
  /\ pc = "data" /\ Passing /\ Probing
  /\ \E e \in Ends :
       /\ <<IF e = "ok" THEN 1 ELSE 0, e>> \in Outcomes(1)
       /\ IF e = "ok" /\ ~IsEOTM(Ahead[1])
          THEN /\ peek' = <<Ahead[1]>>
               /\ tp' = tp + 1 - Len(peek)
               /\ Goto("chunk") /\ UNCHANGED faults
          ELSE Take(IF e = "ok" THEN 1 ELSE 0, e) /\ Proceed(e, "switch")
  /\ UNCHANGED <<archive, medium, flbsize, flbread, streamVars, dataVars,
                 entryVars, ctxVars, flags>>

NoProbe ==
  /\ pc = "data" /\ Passing /\ ~Probing
  /\ Goto("chunk")
  /\ UNCHANGED <<archive, tapeVars, flbread, streamVars, dataVars, entryVars,
                 ctxVars, flags, faults>>

(* Mutants: one of the two counters of the data is left behind. *)
Deliver_ForgetsStream(j)    == did' = did /\ dataRem' = dataRem - j
Deliver_ForgetsRemainder(j) == did' = did + j /\ dataRem' = dataRem
(* j cells of the data have been handed over. *)
Deliver(j) == did' = did + j /\ dataRem' = dataRem - j

Least(a, b) == IF a <= b THEN a ELSE b

(* The part of the data up to the next boundary. *)
ReadChunk ==
  /\ pc = "chunk" /\ mode = "read"
  /\ LET k == Least(Least(dataRem, want), ToBoundary)
     IN  \E j \in 0..k, e \in Ends :
           /\ ReadCells(k, j, e)
           /\ flbread' = flbread + j /\ Deliver(j)
           /\ got' = got \o SubSeq(Ahead, 1, j)
           /\ IF e = "ok"
              THEN /\ pc' = "data" /\ want' = want - j
                   /\ UNCHANGED <<mode, back, res, readEnd, yields, again>>
              ELSE /\ pc' = "idle" /\ res' = IF e = "eof" THEN "ok" ELSE "fail"
                   /\ readEnd' = (readEnd \/ e = "eof")
                   /\ UNCHANGED <<mode, back, want, yields, again>>
  /\ UNCHANGED <<archive, medium, flbsize, dblk, strm, lastStream, inData,
                 streamContinued, entryVars, ctxVars, flags>>

(* Without a callback the data are skipped in one go. *)
SkipChunk ==
  /\ pc = "chunk" /\ mode = "next"
  /\ LET k == IF Continues THEN Least(dataRem, ToBoundary) ELSE dataRem
     IN  \E j \in 0..k, e \in Ends :
           /\ SkipCells(k, j, e)
           /\ did' = did + j
           /\ flbread' = (IF e = "ok" THEN Wrap(flbread + j) ELSE flbread + j)
           /\ dataRem' = (IF e = "ok" THEN dataRem - j ELSE dataRem)
           /\ Proceed(e, "data")
  /\ UNCHANGED <<archive, medium, flbsize, dblk, strm, lastStream, inData,
                 streamContinued, entryVars, ctxVars, flags>>

(* Read has what it wants but the data go on. *)
ReadReturns ==
  /\ pc = "data" /\ mode = "read" /\ want = 0 /\ dataRem > 0
  /\ flbread' = Wrap(flbread)
  /\ res' = "ok" /\ pc' = "idle"
  /\ UNCHANGED <<archive, tapeVars, streamVars, dataVars, entryVars, ctxVars,
                 flags, mode, back, want, readEnd, yields, got, again, faults>>

DataDone ==
  /\ pc = "data" /\ dataRem <= 0
  /\ flbread' = (IF mode = "read" THEN Wrap(flbread) ELSE flbread)
  /\ dataRem' = 0 /\ entryDone' = TRUE
  /\ Goto("trail")
  /\ UNCHANGED <<archive, tapeVars, streamVars, inData, streamContinued, cur,
                 ctxVars, flags, faults>>

-----------------------------------------------------------------------------
(* Media. *)

(* Mutant: the offset on the old medium is carried over. *)
SwitchMedium_KeepsOffset ==
  /\ Continues /\ medium < Len(archive.media)
  /\ medium' = medium + 1 /\ tp' = tp /\ peek' = <<>> /\ flbsize' = 0
  /\ UNCHANGED faults
(* switchMedium: the callback supplies the next medium. *)
SwitchMedium ==
  /\ Continues /\ medium < Len(archive.media)
  /\ medium' = medium + 1 /\ tp' = 0 /\ peek' = <<>> /\ flbsize' = 0
  /\ UNCHANGED faults

(* The walk ends there (hitEOTM). *)
Truncated == hitEOTM' = TRUE

(* There is no callback, or it has no medium, or it returns an error. *)
NoMedium ==
  /\ \/ ~Continues /\ UNCHANGED faults
     \/ Continues /\ medium = Len(archive.media) /\ UNCHANGED faults
     \/ /\ Continues /\ "callback" \in Faults /\ faults < MaxFaults
        /\ faults' = faults + 1
  /\ Truncated
  /\ UNCHANGED <<medium, tp, peek, flbsize>>

(* An EOTM between two entries, or in the middle of a file's data          *)
(* (advanceToContinuationStream).                                          *)
AtEOTM ==
  /\ pc \in {"eotm", "switch"}
  /\ \/ SwitchMedium /\ Goto("scan") /\ UNCHANGED hitEOTM
     \/ NoMedium /\ Raise("eof")
  /\ UNCHANGED <<archive, flbread, streamVars, dataVars, entryVars, ctxVars,
                 sawESET>>

(* resyncContinuation: the leading blocks restore the context, up to the   *)
(* continuation of the file.                                               *)
Rejoin(types) == pc = "rejoin" /\ dblk.type \in types

RejoinContext ==
  /\ pc = "rejoin" /\ dblk.type \notin {"FILE", "EOTM"}
  /\ volume' = (IF dblk.type = "VOLB" THEN dblk.id ELSE volume)
  /\ cwd'    = (IF dblk.type = "DIRB" THEN dblk.id ELSE cwd)
  /\ AlignThen("scan")
  /\ UNCHANGED <<archive, tapeVars, flbread, streamVars, dataVars, entryVars,
                 catFDD, flags, faults>>

(* Mutant: a medium without the file ends the walk. *)
RejoinNowhere_Ends ==
  /\ Rejoin({"EOTM"})
  /\ Raise("eof")
  /\ UNCHANGED <<archive, tapeVars, flbread, streamVars, dataVars, entryVars,
                 ctxVars, flags, faults>>
(* A medium without the file leads to the next one (errNoContinuation). *)
RejoinNowhere ==
  /\ Rejoin({"EOTM"})
  /\ Goto("switch")
  /\ UNCHANGED <<archive, tapeVars, flbread, streamVars, dataVars, entryVars,
                 ctxVars, flags, faults>>

RejoinFile ==
  /\ Rejoin({"FILE"})
  /\ pc' = "start" /\ back' = "contfile" /\ UNCHANGED <<mode, want, outcome>>
  /\ UNCHANGED <<archive, tapeVars, flbread, streamVars, dataVars, entryVars,
                 ctxVars, flags, faults>>

(* continuationFile: the data go on in the STAN stream, with STREAM_CONTINUE *)
(* at the next FLB.                                                        *)
ToNextFLB_Never == FALSE   \* mutant: the data follow their header
ToNextFLB == strm.cont /\ flbsize > 0

ContinuationFile ==
  /\ pc = "contfile"
  /\ CASE strm.type = "STAN" ->
            /\ inData' = TRUE /\ dataRem' = strm.len /\ streamContinued' = TRUE
            /\ did' = 0
            /\ IF ToNextFLB THEN AlignThen("data") ELSE Goto("data")
       [] strm.type = "SPAD" \/ lastStream ->
            /\ inData' = FALSE /\ dataRem' = 0
            /\ Goto("data")
            /\ UNCHANGED <<did, streamContinued>>
       [] OTHER -> Goto("rest") /\ UNCHANGED <<did, dataVars>>
  /\ UNCHANGED <<archive, tapeVars, flbread, dblk, strm, lastStream, entryVars,
                 ctxVars, flags, faults>>

-----------------------------------------------------------------------------
(* The end of an entry (finishEntry), and the calls. *)

(* Behind the data the remaining streams are walked, unless the data came  *)
(* from a continuation.                                                    *)
Trail ==
  /\ pc = "trail"
  /\ IF streamContinued
     THEN streamContinued' = FALSE /\ AlignThen("finished")
     ELSE /\ UNCHANGED streamContinued
          /\ IF lastStream
             THEN AlignThen("finished")
             ELSE pc' = "rest" /\ back' = "extra" /\ UNCHANGED <<mode, want, outcome>>
  /\ UNCHANGED <<archive, tapeVars, flbread, streamVars, inData, dataRem,
                 entryVars, ctxVars, flags, faults>>

TrailEnd ==
  /\ pc = "extra" /\ strm.type = "SPAD"
  /\ Goto("trail")
  /\ UNCHANGED <<archive, tapeVars, flbread, streamVars, dataVars, entryVars,
                 ctxVars, flags, faults>>

(* Read returns io.EOF; Next goes on with its loop. *)
Finished ==
  /\ pc = "finished"
  /\ IF mode = "read"
     THEN /\ pc' = "idle" /\ res' = "ok" /\ readEnd' = TRUE
          /\ UNCHANGED <<mode, inData, dataRem>>
     ELSE /\ pc' = "scan" /\ mode' = "walk" /\ inData' = FALSE /\ dataRem' = 0
          /\ UNCHANGED <<res, readEnd>>
  /\ UNCHANGED <<archive, tapeVars, flbread, streamVars, streamContinued,
                 entryVars, ctxVars, flags, back, want, yields, got, again, faults>>

(* The caller stands at a file. *)
AtFile == ~again /\ yields # <<>> /\ yields[Len(yields)].kind = "FILE"

(* A caller goes on until the walk has ended, after a transient error too. *)
Ready == pc = "idle" /\ (res = "ok" \/ (res = "fail" /\ "eio" \in Faults))

(* Mutant: the last cell does not count as content. *)
DataLeft_OffByOne == inData /\ dataRem > 1
(* Content of the current entry is still to come. *)
DataLeft == inData /\ dataRem > 0

CallNext ==
  /\ Ready
  /\ AtFile /\ ~readEnd => (IF got = <<>> THEN "unread" ELSE "part") \in Discards
  /\ IF cur # None /\ ~entryDone
     THEN /\ mode' = "next"
          /\ entryDone' = TRUE
          /\ pc' = (IF DataLeft THEN "data" ELSE "trail")
          /\ UNCHANGED <<inData, dataRem>>
     ELSE /\ mode' = "walk" /\ pc' = "scan" /\ inData' = FALSE /\ dataRem' = 0
          /\ UNCHANGED entryDone
  /\ UNCHANGED <<archive, tapeVars, flbread, streamVars, streamContinued, cur,
                 ctxVars, flags, back, want, faults, outcome>>

(* A Read of an entry that is done returns io.EOF.  A Next that has failed *)
(* is followed by another Next.                                            *)
CallRead(n) ==
  /\ Ready /\ AtFile /\ ~readEnd /\ (res = "fail" => mode = "read")
  /\ mode' = "read"
  /\ IF entryDone
     THEN readEnd' = TRUE /\ res' = "ok" /\ UNCHANGED <<pc, want, entryDone>>
     ELSE /\ IF ~DataLeft
             THEN pc' = "trail" /\ entryDone' = TRUE /\ UNCHANGED want
             ELSE pc' = "data" /\ want' = Least(n, dataRem) /\ UNCHANGED entryDone
          /\ UNCHANGED <<readEnd, res>>
  /\ UNCHANGED <<archive, tapeVars, flbread, streamVars, dataVars, cur, ctxVars,
                 flags, back, faults, yields, got, again>>

-----------------------------------------------------------------------------
Init ==
  /\ archive \in Walks
  /\ medium = 1 /\ tp = 0 /\ peek = <<>> /\ flbsize = 0 /\ flbread = 0
  /\ dblk = DeadBlock /\ strm = NoStream /\ did = 0 /\ lastStream = FALSE
  /\ inData = FALSE /\ dataRem = 0 /\ streamContinued = FALSE
  /\ cur = None /\ entryDone = FALSE
  /\ sawESET = FALSE /\ hitEOTM = FALSE
  /\ volume = 0 /\ cwd = 0 /\ catFDD = 0
  /\ pc = "idle" /\ mode = "walk" /\ back = "scan" /\ want = 0
  /\ faults = 0
  /\ res = "ok" /\ readEnd = FALSE /\ yields = <<>> /\ got = <<>> /\ again = FALSE

Walk    == \/ ScanStart \/ FoundTape \/ FoundSet \/ FoundSetEnd \/ FoundEOTM
           \/ FoundNothing \/ FoundEntry \/ Yield \/ Align
Streams == \/ StreamStart \/ StreamRest \/ StreamHeader \/ StandardData
           \/ NoData \/ Capture \/ NotCatalog \/ CatalogEnd
Data    == \/ Probe \/ NoProbe \/ ReadChunk \/ SkipChunk \/ ReadReturns
           \/ DataDone \/ Trail \/ TrailEnd \/ Finished
Span    == \/ AtEOTM \/ RejoinContext \/ RejoinNowhere \/ RejoinFile
           \/ ContinuationFile
Calls   == CallNext \/ \E n \in 1..MaxRead : CallRead(n)

Next == Walk \/ Streams \/ Data \/ Span \/ Calls

Spec == Init /\ [][Next]_vars

(* A call runs to its end, and the caller loops until the walk has ended.  *)
FairSpec == Spec /\ WF_vars(Next)

-----------------------------------------------------------------------------
(* Every variable has its type. *)
TypeOK ==
  /\ archive \in Walks /\ medium \in 1..Len(archive.media)
  /\ tp \in 0..Len(Medium) /\ Len(peek) <= 1
  /\ flbsize \in {0, W} /\ flbread \in Nat
  /\ did \in Nat /\ dataRem \in Nat /\ want \in 0..MaxRead
  /\ {lastStream, inData, streamContinued, entryDone, sawESET, hitEOTM,
      readEnd, again}
       \subseteq BOOLEAN
  /\ cur \in {None, "VOLB", "DIRB", "FILE"}
  /\ volume \in Nat /\ cwd \in Nat /\ catFDD \in Nat
  /\ pc \in {"idle", "scan", "dispatch", "rejoin", "align", "yield", "start",
             "streams", "rest", "header", "extra", "catalog", "data", "chunk",
             "trail", "finished", "eotm", "switch", "contfile"}
  /\ mode \in {"walk", "next", "read"} /\ res \in {"ok", "eof", "fail"}
  /\ faults \in 0..MaxFaults

(* The position in the medium, as far as the code has used up its bytes.   *)
Position == tp - Len(peek)

(* Every descriptor block header is looked for at the start of an FLB:     *)
(* whatever was read, skipped, probed or continued before, no walk loses   *)
(* its place (scanNext, finishEntry, streamNext, resyncContinuation),       *)
(* until it is cut off for want of a medium.                               *)
InStep == (pc = "scan" /\ ~hitEOTM) => Position % W = 0

(* flbread is the distance from the last FLB boundary, up to whole FLBs,   *)
(* so that boundaries are probed where they are (ensure, wrapFlbread,      *)
(* readStreamData, skipStreamData, probeEOTM).                             *)
BoundariesKnown ==
  (flbsize > 0 /\ pc \notin {"switch", "idle"} /\ ~hitEOTM)
     => (Position - flbread) % W = 0

(* While a file's data are delivered or passed over its two counters agree, *)
(* also after the data moved to another medium: dataRem, which decides what  *)
(* Read delivers, and streamDid, from which streamNext finds the header      *)
(* behind them.                                                              *)
CountersAgree ==
  (pc \in {"data", "chunk"} /\ dataRem > 0) => dataRem + did = strm.len

(* The content recorded for the file the caller stands at. *)
FileContent ==
  LET last == yields[Len(yields)]
      i    == CHOOSE n \in 1..Len(archive.items) :
                /\ archive.items[n].item.kind = "FILE"
                /\ archive.items[n].item.id = last.id
  IN  archive.items[i].content

(* What Read has delivered of a file are the file's own bytes, from its    *)
(* first on and without a gap: no header, padding or EOTM is among them,   *)
(* on one medium or on several (readStreamData, continuationFile).         *)
ContentExact ==
  AtFile => /\ Len(got) <= Len(FileContent)
            /\ got = SubSeq(FileContent, 1, Len(got))

(* The callback has returned an error. *)
CallbackFailed == "callback" \in Faults /\ faults > 0
(* There is no medium to go on with. *)
OutOfMedia == ~Continues \/ medium = Len(archive.media)

(* Read returns io.EOF only when the content is exhausted, as its comment  *)
(* says, or where TruncatedByEOTM tells that the medium with the rest is   *)
(* missing.  Of a Read behind an error of the callback it is only said     *)
(* that an io.EOF is marked so; whether that error should be io.EOF at all *)
(* is another question, which docs/spanning.md:46 answers otherwise than   *)
(* the code (switchMedium).                                                *)
ReadEndsComplete ==
  (AtFile /\ readEnd)
     => got = FileContent \/ (hitEOTM /\ (OutOfMedia \/ CallbackFailed))

(* A walk never fails on an archive that is in order. *)
NoFailure == res # "fail"

(* The walk yields the items of the archive in order, delivers their       *)
(* content, and ends behind the last one, unless it sets TruncatedByEOTM:  *)
(* then it stops without the end of the archive.  Blocks that a            *)
(* continuation medium repeats are no items.                               *)
AW == INSTANCE ArchiveWalk WITH
        items <- archive.items, seen <- yields, ended <- (res = "eof" /\ ~hitEOTM)
ImplementsWalk == AW!Spec

(* A caller that loops over Next gets to the end of the walk, never round  *)
(* and round between media, blocks and streams.  A walk that was cut off   *)
(* inside a file may end with an error in the call after.                  *)
WalkEnds == <>(res = "eof" \/ (res = "fail" /\ hitEOTM))
=============================================================================
