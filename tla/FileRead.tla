------------------------------ MODULE FileRead ------------------------------
(***************************************************************************)
(* The files of an archive, one after the other, as Next opens them and    *)
(* Read delivers them (reader.go, streams.go): plain, sparse,              *)
(* compressed and encrypted ones share the fields of one Reader.  Headers, *)
(* blocks and media are left to the module Reader; what can fail here is   *)
(* the reading of an entry's data.                                         *)
(***************************************************************************)
EXTENDS SparseRead, FrameDecoder

CONSTANT Archives   (* sequences of files                                  *)

(* What is recorded of a file, its extents in order.                       *)
Kinds == {"plain", "sparse", "coded"}
Extents == Seq([off : Nat, data : Seq(Nat)])
Files ==
  [kind : Kinds, content : Seq(Nat), extents : Extents, comp : BOOLEAN, enc : BOOLEAN,
   raw : Seq(Cell), rawLen : Nat, displayed : Nat]
File(f) == f \in Files /\ InOrder(f.extents)
ASSUME ArchivesAssumption ==
  \A a \in Archives : Len(a) \in Nat /\ \A i \in 1..Len(a) : File(a[i])

VARIABLES
  archive,
  opened,      (* files that Next has yielded                                *)
  dataRem,     (* content of a plain file that is still to come              *)
  size,        (* Header.Size                                                *)
  headerOnly   (* the mode of Census and other walks that read no content    *)

walk == <<archive, opened, dataRem, size, headerOnly>>
vars == <<rcVars, place, key, dec, walk>>

-----------------------------------------------------------------------------
(* Next: the rest of the file before is passed, every field of it is       *)
(* reset, and the streams of the new one are walked up to its data.        *)

(* The branches of materializeStreams at the STAN stream. *)
Ways(f) == CASE f.kind = "sparse" -> {"sparse"}
             [] f.kind = "coded"  -> {"dec", "data"}
             [] OTHER -> {"data"}

(* captureStream keeps nothing in header-only mode. *)
Captured(f) == IF headerOnly THEN [f EXCEPT !.extents = <<>>] ELSE f

(* Mutant: the hole in front of the first extent is not counted. *)
HeaderSize_FromFirst(f) ==
  CASE f.kind = "sparse" -> IF f.extents = <<>> THEN 0 ELSE SizeOf(f.extents) - f.extents[1].off
    [] f.kind = "coded"  -> f.displayed
    [] OTHER -> Len(f.content)
(* Header.Size. *)
HeaderSize(f) == CASE f.kind = "sparse" -> SizeOf(f.extents)
                   [] f.kind = "coded"  -> f.displayed
                   [] OTHER -> Len(f.content)

One(b) == IF b THEN 1 ELSE 0

(* Mutant: the place in the sparse file before stays. *)
OpenFile_KeepsPlace(f) ==
  /\ Yield(f, Ways(f)) /\ UNCHANGED place
  /\ NewDecoder(f) /\ dataRem' = Len(f.content)
OpenFile(f) ==
  /\ Yield(f, Ways(f)) /\ ResetPlace
  /\ NewDecoder(f) /\ dataRem' = Len(f.content)

NextFile ==
  /\ pc = "idle" /\ opened < Len(archive)
  /\ LET f == Captured(archive[opened + 1])
     IN  /\ OpenFile(f)
         /\ size' = HeaderSize(f)
  /\ opened' = opened + 1
  /\ UNCHANGED <<faults, key, archive, headerOnly>>

(* The data that were not read cannot be passed: Next fails, and passes    *)
(* them no more when it is called again.  Census stops there.              *)
NextFails ==
  /\ pc = "idle" /\ ~headerOnly
  /\ opened \in 1..(Len(archive) - 1) /\ ~entryDone /\ faults < MaxFaults
  /\ faults' = faults + 1 /\ entryDone' = TRUE /\ ways' = ways \ {"sparse"}
  /\ res' = "fail" /\ failed' = (failed \/ ~readEnd)
  /\ UNCHANGED <<pc, want, readEnd, cur, got, place, key, dec, walk>>

-----------------------------------------------------------------------------
(* Read of a plain file: as much as was asked for, or less and an error.   *)
(* Behind the last byte the entry is finished.                             *)
CallPlain(k) ==
  /\ MayRead /\ ~entryDone /\ ways = {"data"}
  /\ \E j \in 0..Least(k, dataRem) :
       LET short == j < Least(k, dataRem)
       IN  /\ short => faults < MaxFaults
           /\ faults' = faults + One(short)
           /\ got' = got \o SubSeq(cur.content, Len(got) + 1, Len(got) + j)
           /\ dataRem' = dataRem - j
           /\ CASE short -> Return("fail")
                [] dataRem' = 0 -> Continue("finish")
                [] OTHER -> Return("ok")
  /\ UNCHANGED <<cur, ways, entryDone, place, key, dec, archive, opened, size, headerOnly>>

Call(k) ==
  \/ CallPlain(k)
  \/ CallSparse(k) /\ UNCHANGED <<key, dec, walk>>
  \/ CallDecoded(k) /\ UNCHANGED <<place, walk>>

Step ==
  \/ SparseStep /\ UNCHANGED <<key, dec, walk>>
  \/ DecoderStep /\ UNCHANGED <<place, walk>>
  \/ (ReadDone \/ Finish) /\ UNCHANGED <<place, key, dec, walk>>

Init ==
  /\ archive \in Archives /\ opened = 0
  /\ headerOnly \in BOOLEAN /\ key \in Keys
  /\ cur = Nothing /\ ways = {} /\ pc = "idle" /\ want = 0 /\ got = <<>>
  /\ res = "ok" /\ readEnd = FALSE /\ failed = FALSE /\ entryDone = TRUE /\ faults = 0
  /\ sparseIdx = 1 /\ sparsePos = 0 /\ sparseCursor = 0
  /\ left = 0 /\ rawPos = 0 /\ head = NoHead
  /\ out = <<>> /\ oi = 0 /\ eof = FALSE /\ decoded = <<>>
  /\ dataRem = 0 /\ size = 0

(* A caller reads each file in portions of one size, from any point on in  *)
(* another, and may go on to the next file at any time.  Census reads      *)
(* nothing.                                                                *)
Next ==
  \/ NextFile \/ NextFails
  \/ ~headerOnly /\ \E k \in 1..MaxRead : Call(k)
  \/ Step

Spec == Init /\ [][Next]_vars

(* A call that has begun goes on, and the caller calls Read until io.EOF   *)
(* or goes on to the next file.  The payload of a frame is left out of WF, *)
(* so that ENABLED does not have to decode it: its action can always       *)
(* happen, alone, and changes pc.                                          *)
FairSpec == Spec /\ WF_vars(pc # "payload" /\ Next) /\ []<>(pc # "payload")

-----------------------------------------------------------------------------
(* Every variable has its type, indexes and counts within what they count. *)
TypeOK ==
  /\ opened \in 0..Len(archive)
  /\ ways \subseteq Ways(cur) /\ pc \in {"idle", "sparse", "frame", "payload", "finish"}
  /\ want \in 0..MaxRead /\ got \in Seq(Nat) /\ res \in {"ok", "fail"}
  /\ {readEnd, failed, entryDone, eof, headerOnly} \subseteq BOOLEAN
  /\ faults \in 0..MaxFaults
  /\ sparseIdx \in 1..(Len(Map) + 1) /\ sparsePos \in Nat /\ sparseCursor \in Nat
  /\ key \in Keys /\ left \in 0..cur.rawLen /\ rawPos \in 0..Len(Raw)
  /\ oi \in 0..Len(out) /\ dataRem \in 0..Len(cur.content) /\ size \in Nat

(* What is handed over of a file, of whatever kind and in whatever         *)
(* portions, is the beginning of its content, whatever file was open       *)
(* before and however far it was read.  Of a compressed or encrypted file  *)
(* that is the decoded content, "the original bytes" (docs/streams.md:82,  *)
(* README.md:18, compress_test.go).  The comments at reader.go:1329 and    *)
(* mtf.go:144 promise the stored bytes; for those it would not hold.       *)
ContentExact ==
  Len(got) <= Len(cur.content) /\ got = SubSeq(cur.content, 1, Len(got))

(* io.EOF comes behind the last byte, also for a caller that has repeated  *)
(* a call: "Read returns io.EOF when the entry's content is exhausted"     *)
(* (reader.go).                                                            *)
EndIsEnd == readEnd => got = cur.content

(* Header.Size is the number of bytes Read delivers: the end of the last   *)
(* extent of a sparse file, the decoded length of a compressed one         *)
(* (docs/reader.md:74, docs/streams.md:100; by mtf.go:133 the stored one). *)
SizeDelivered == readEnd /\ ~failed => Len(got) = size

(* A file whose reading is not given up comes to its end, be there errors  *)
(* or not, and so does the archive (Read, Next).                           *)
FilesEnd == <>(opened = Len(archive) /\ (readEnd \/ headerOnly))

(* Read implements the delivery of a content in which there are no         *)
(* extents, frames and codecs, as docs/streams.md:80-82 has it; an end     *)
(* that follows an error is none (what becomes of it, EndIsEnd says).      *)
Content == INSTANCE EntryContent
  WITH content <- cur.content, got <- got, ended <- readEnd /\ ~failed
ImplementsContent == Content!Spec
=============================================================================
