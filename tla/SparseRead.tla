----------------------------- MODULE SparseRead -----------------------------
(***************************************************************************)
(* Reconstruction of a sparse file (streams.go): Read fills the caller's   *)
(* buffer from the extents of the entry, zeros in between, and keeps its   *)
(* place in sparseIdx, sparsePos and sparseCursor from call to call.  Each *)
(* round of the loop in readSparse is one action.                          *)
(***************************************************************************)
EXTENDS ReadCall

VARIABLES sparseIdx, sparsePos, sparseCursor

place == <<sparseIdx, sparsePos, sparseCursor>>

Map == cur.extents
Exhausted == sparseIdx > Len(Map)
Extent == Map[sparseIdx]

Zeros(n) == [i \in 1..n |-> 0]

(* Next sets the place back for every entry. *)
ResetPlace == sparseIdx' = 1 /\ sparsePos' = 0 /\ sparseCursor' = 0

CallSparse(n) ==
  /\ MayRead /\ ~entryDone /\ "sparse" \in ways
  /\ pc' = "sparse" /\ want' = n
  /\ UNCHANGED <<res, readEnd, failed, cur, ways, got, entryDone, faults, place>>

(* Behind the last extent Read returns io.EOF; the entry is not finished. *)
SparseEnd ==
  /\ pc = "sparse" /\ want > 0 /\ Exhausted
  /\ Return("eof")
  /\ UNCHANGED <<cur, ways, got, entryDone, faults, place>>

(* Mutant: the hole before an extent is left out. *)
InHole_Never == FALSE
InHole == sparseCursor < Extent.off

(* Zeros up to the next extent, or as many as fit. *)
SparseHole ==
  /\ pc = "sparse" /\ want > 0 /\ ~Exhausted /\ InHole
  /\ LET n == Least(Extent.off - sparseCursor, want)
     IN  /\ got' = got \o Zeros(n)
         /\ want' = want - n /\ sparseCursor' = sparseCursor + n
  /\ UNCHANGED <<pc, res, readEnd, failed, cur, ways, entryDone, faults, sparseIdx, sparsePos>>

(* Mutant: an extent without data is never left. *)
ExtentRead_SomeData(p) == p > 0 /\ p >= Len(Extent.data)
ExtentRead(p) == p >= Len(Extent.data)

(* Mutant: the position survives the change to the next extent. *)
NextPos_Kept(p) == p
NextPos(p) == IF ExtentRead(p) THEN 0 ELSE p

(* Data of the extent, as much as fits; behind its last byte the next      *)
(* extent becomes the current one.                                         *)
SparseData ==
  /\ pc = "sparse" /\ want > 0 /\ ~Exhausted /\ ~InHole
  /\ LET n == Least(Len(Extent.data) - sparsePos, want)
         p == sparsePos + n
     IN  /\ got' = got \o SubSeq(Extent.data, sparsePos + 1, p)
         /\ want' = want - n /\ sparseCursor' = sparseCursor + n
         /\ sparsePos' = NextPos(p)
         /\ sparseIdx' = (IF ExtentRead(p) THEN sparseIdx + 1 ELSE sparseIdx)
  /\ UNCHANGED <<pc, res, readEnd, failed, cur, ways, entryDone, faults>>

(* The buffer is full.  If that was all, Read finishes the entry. *)
SparseFull ==
  /\ pc = "sparse" /\ want = 0
  /\ IF Exhausted THEN Continue("finish") ELSE Return("ok")
  /\ UNCHANGED <<cur, ways, got, entryDone, faults, place>>

SparseStep == SparseEnd \/ SparseHole \/ SparseData \/ SparseFull

(* The end of an extent, or of the file if it is the last one. *)
EndOf(x) == x.off + Len(x.data)

(* finishSparse: the hole-filled size. *)
SizeOf(x) ==
  LET ends == {0} \cup {EndOf(x[i]) : i \in 1..Len(x)}
  IN  CHOOSE m \in ends : \A e \in ends : e <= m

-----------------------------------------------------------------------------
(* Extents follow one another: none begins before the end of an earlier    *)
(* one.  The code does not check it; writers record them so.               *)
InOrder(x) == \A i, j \in 1..Len(x) : i < j => EndOf(x[i]) <= x[j].off

(* The byte of the logical file at position p: that of the extent recorded *)
(* there, or zero.                                                         *)
ByteAt(x, p) ==
  IF \E i \in 1..Len(x) : x[i].off < p /\ p <= EndOf(x[i])
  THEN LET i == CHOOSE i \in 1..Len(x) : x[i].off < p /\ p <= EndOf(x[i])
       IN  x[i].data[p - x[i].off]
  ELSE 0

(* Whatever portions a sparse file is read in, each byte handed over is    *)
(* the one recorded for its position, or a zero of a hole (readSparse).    *)
SparseExact ==
  cur.kind = "sparse" => \A p \in 1..Len(got) : got[p] = ByteAt(Map, p)

(* The place kept from call to call says what has been handed over: the    *)
(* cursor counts it, every earlier extent is behind the cursor, and inside *)
(* an extent the cursor is at its byte sparsePos.                          *)
PlaceExact ==
  cur.kind = "sparse" =>
    /\ sparseCursor = Len(got)
    /\ \A i \in 1..(sparseIdx - 1) : EndOf(Map[i]) <= sparseCursor
    /\ ~Exhausted => /\ sparsePos <= Len(Extent.data)
                     /\ sparsePos > 0 => sparseCursor = Extent.off + sparsePos
                     /\ sparseCursor <= EndOf(Extent)

(* io.EOF comes only behind the last byte of the last extent: what has     *)
(* been handed over reaches the end of every extent of the map.            *)
SparseEndsComplete ==
  (cur.kind = "sparse" /\ readEnd /\ ~failed)
     => \A i \in 1..Len(Map) : EndOf(Map[i]) <= Len(got)
=============================================================================
