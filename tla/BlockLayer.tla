----------------------------- MODULE BlockLayer -----------------------------
(***************************************************************************)
(* The block layer of mtf.Reader (reader.go, spanning.go): the part that   *)
(* turns a Tape - physical blocks separated by filemarks - into the byte   *)
(* stream the parser consumes, with a read-ahead buffer for the probe of   *)
(* a file's logical block boundaries, the arithmetic that keeps the        *)
(* physical block address (PBA) of the buffered block without asking the   *)
(* drive, and the seeks that address arithmetic allows.                    *)
(*                                                                         *)
(* A byte is its offset on the medium.  blockBuf is the number `block' of  *)
(* the physical block it holds and `off' is blockOff; peek is the sequence *)
(* of the offsets waiting in it.  The Go calls read(), readFull(), the     *)
(* discarding loop of seekToByte() and the probe are loops over the same   *)
(* three steps - drain peek, drain blockBuf, fill blockBuf - and are       *)
(* modelled as such loops: `op' says on whose behalf the loop runs and     *)
(* `need' how many bytes it still wants.  The tape decides in which step   *)
(* it fails.                                                               *)
(***************************************************************************)
EXTENDS Integers, Sequences

CONSTANTS
  Media,          (* media are numbered 1 .. Media in reading order           *)
  Blocks,         (* Blocks[m]: data blocks of m, at PBAs 0 .. Blocks[m]-1    *)
  Edge,           (* Edge[m][b]: offset of the first byte of block b;         *)
                  (* Edge[m][Blocks[m]] is the length of the medium           *)
  Marks,          (* Marks[m]: the blocks of m with a filemark in front       *)
  Bounds,         (* Bounds[m]: offsets of m's logical block boundaries       *)
  Eotm,           (* Eotm[m]: offset of the EOTM descriptor of m              *)
  ProbeSize,      (* bytes of a common descriptor block header (52)           *)
  SkipThreshold,  (* least skip that seeks; 0 is SkipAlways                   *)
  TellOK,         (* TellOK[m]: whether the tape of m answers TellBlock       *)
  Ops,            (* what callers do and tapes suffer: "probe", "skip",       *)
                  (* "jump" (SeekToBlock), "eio" (transient read errors)      *)
  MaxAsk,         (* bound: bytes one read or skip asks for                   *)
  MaxDrift        (* bound: failed reads in a row, see ReadFails              *)

None == -1

ASSUME BlockAssumption ==
  /\ Media \in Nat \ {0}
  /\ Blocks \in [1..Media -> Nat \ {0}]
  /\ \A m \in 1..Media :
       /\ Edge[m] \in [0..Blocks[m] -> Nat]
       /\ Edge[m][0] = 0
       /\ \A b, c \in 0..Blocks[m] : b < c => Edge[m][b] < Edge[m][c]
  /\ ProbeSize \in Nat \ {0}
  /\ MaxAsk \in Nat
  /\ MaxDrift \in Nat
  /\ SkipThreshold \in Nat
  /\ TellOK \in [1..Media -> BOOLEAN]

VARIABLES
  medium,      (* mediaSeq + 1: the medium that is loaded                     *)
  head,        (* the tape's position: the block the next ReadBlock returns   *)
  markPassed,  (* the filemark in front of that block lies behind the head    *)
  block,       (* the block held in blockBuf, None when blockBuf is nil       *)
  off,         (* blockOff                                                    *)
  physSize,    (* length of the first block read from the medium, 0 unknown   *)
  pendingErr,  (* error delivered together with the buffered block            *)
  curBlockPBA, (* the Reader's idea of the PBA of the buffered block          *)
  pbaInit,     (* FALSE: ask TellBlock at the next read                       *)
  peek,        (* bytes probed and handed back, not consumed yet              *)
  abspos,      (* bytes consumed since the medium or the target of a jump     *)
  ssetPBA,     (* anchor of the data set: PBA of the block with its SSET ...  *)
  ssetAbsPos,  (* ... and the abspos of that block's first byte               *)
  op,          (* the call in progress                                        *)
  need,        (* bytes that call still wants                                 *)
  hdr,         (* bytes collected by the probe                                *)
  skipLen,     (* length of the skip in progress                              *)
  target,      (* abspos the skip in progress leads to                        *)
  res,         (* error the last call ended with, "ok" if none                *)
  base,        (* history: offset on the medium that abspos counts from       *)
  out          (* history: the bytes the last step handed to the parser       *)

tapeVars   == <<head, markPassed>>
bufVars    == <<block, off, physSize, pendingErr>>
pbaVars    == <<curBlockPBA, pbaInit>>
anchorVars == <<ssetPBA, ssetAbsPos>>
callVars   == <<op, need, hdr, skipLen, target>>
vars == <<medium, tapeVars, bufVars, pbaVars, peek, abspos, anchorVars,
          callVars, res, base, out>>

Errors == {"ok", "eof", "eio"}

Recorded(m) == Edge[m][Blocks[m]]

BlockLen(m, b) == Edge[m][b + 1] - Edge[m][b]

(* len(r.blockBuf) *)
Buffered == IF block = None THEN 0 ELSE BlockLen(medium, block)

(* The offset on the medium the Reader believes it is at. *)
Here == base + abspos

(* The offsets of k consecutive bytes, the first one at a. *)
Run(a, k) == [i \in 1..k |-> a + i - 1]

Least(a, b) == IF a <= b THEN a ELSE b

(* Go's integer division truncates towards zero. *)
Quotient(a, b) == IF a >= 0 THEN a \div b ELSE -((-a) \div b)

-----------------------------------------------------------------------------
(* A caller is at work only while the last call did not end the stream. *)
Ready == op = "idle" /\ res # "eof"

(* read: the parser asks for n bytes. *)
StartRead(n) ==
  /\ Ready
  /\ op' = "read" /\ need' = n /\ res' = "ok" /\ out' = <<>>
  /\ UNCHANGED <<medium, tapeVars, bufVars, pbaVars, peek, abspos, anchorVars,
                 hdr, skipLen, target, base>>

(* scanStart: the parser asks for the header of the descriptor block at a  *)
(* logical block boundary.                                                 *)
StartHeader ==
  /\ Ready /\ Here \in Bounds[medium]
  /\ op' = "header" /\ need' = ProbeSize /\ res' = "ok" /\ out' = <<>>
  /\ UNCHANGED <<medium, tapeVars, bufVars, pbaVars, peek, abspos, anchorVars,
                 hdr, skipLen, target, base>>

(* Mutant: the anchor is the SSET itself, not the block it starts in.      *)
CaptureAnchor_AtHeader ==
  /\ ssetAbsPos' = abspos - ProbeSize
  /\ ssetPBA' = IF curBlockPBA >= 0 THEN curBlockPBA ELSE None

(* captureSsetAnchor: the start of the buffered block becomes the anchor   *)
(* of the data set.                                                        *)
CaptureAnchor ==
  /\ ssetAbsPos' = abspos - off
  /\ ssetPBA' = IF curBlockPBA >= 0 THEN curBlockPBA ELSE None

(* The header is complete.  A medium starts with its TAPE block, which     *)
(* voids the anchor; an SSET sets it; other blocks leave it alone.         *)
EndHeader ==
  /\ op = "header" /\ need = 0
  /\ op' = "idle" /\ out' = <<>>
  /\ IF Here = ProbeSize
     THEN ssetPBA' = None /\ UNCHANGED ssetAbsPos
     ELSE CaptureAnchor \/ UNCHANGED anchorVars
  /\ UNCHANGED <<medium, tapeVars, bufVars, pbaVars, peek, abspos, need, hdr,
                 skipLen, target, res, base>>

(* probeEOTM: inside a file's data, at a logical block boundary, look      *)
(* whether the next bytes are an EOTM header instead of data.              *)
StartProbe ==
  /\ "probe" \in Ops /\ Ready /\ Here \in Bounds[medium]
  /\ op' = "probe" /\ need' = ProbeSize /\ hdr' = <<>> /\ res' = "ok"
  /\ out' = <<>>
  /\ UNCHANGED <<medium, tapeVars, bufVars, pbaVars, peek, abspos, anchorVars,
                 skipLen, target, base>>

-----------------------------------------------------------------------------
(* The three steps of the reading loops. *)

Reading == op \in {"read", "header", "probe", "skip", "discard"} /\ need > 0

(* k bytes, those in `bytes', reach the call in progress.  The callers of  *)
(* read account for them in abspos; the probe does not.                    *)
Consume(k, bytes) ==
  /\ need' = need - k
  /\ IF op = "probe"
     THEN hdr' = hdr \o bytes /\ UNCHANGED abspos
     ELSE abspos' = abspos + k /\ UNCHANGED hdr
  /\ out' = IF op \in {"read", "header"} THEN bytes ELSE <<>>
  /\ op' = IF op \in {"probe", "header"} \/ k < need THEN op ELSE "idle"
  /\ res' = IF op \in {"skip", "discard"} /\ k = need THEN "ok" ELSE res
  /\ UNCHANGED <<medium, anchorVars, skipLen, target, base>>

(* Mutant: the read-ahead is cut at the wrong end. *)
DrainPeek_WrongEnd ==
  /\ Reading /\ peek # <<>>
  /\ LET k == Least(need, Len(peek))
     IN  /\ Consume(k, SubSeq(peek, 1, k))
         /\ peek' = SubSeq(peek, 1, Len(peek) - k)
  /\ UNCHANGED <<tapeVars, bufVars, pbaVars>>

DrainPeek ==
  /\ Reading /\ peek # <<>>
  /\ LET k == Least(need, Len(peek))
     IN  /\ Consume(k, SubSeq(peek, 1, k))
         /\ peek' = SubSeq(peek, k + 1, Len(peek))
  /\ UNCHANGED <<tapeVars, bufVars, pbaVars>>

DrainBlock ==
  /\ Reading /\ peek = <<>> /\ off < Buffered
  /\ LET k == Least(need, Buffered - off)
     IN  /\ Consume(k, Run(Edge[medium][block] + off, k))
         /\ off' = off + k
  /\ UNCHANGED <<tapeVars, block, physSize, pendingErr, pbaVars, peek>>

MustFill == Reading /\ peek = <<>> /\ off >= Buffered /\ pendingErr = "ok"

Inc(p) == IF p >= 0 THEN p + 1 ELSE p
Dec(p) == IF p >= 0 THEN p - 1 ELSE p

AtMark == head \in Marks[medium] /\ ~markPassed

(* The PBA fillBlock computes for the block it is about to read: asked for *)
(* once, then counted.  A filemark undoes one increment and is followed by *)
(* another turn of the loop.                                               *)
TrackedPBA == IF pbaInit THEN Inc(curBlockPBA)
              ELSE IF TellOK[medium] THEN head ELSE None
(* Mutant: the increment made for the filemark is kept. *)
NextPBA_CountsMarks == IF AtMark THEN Inc(TrackedPBA) ELSE TrackedPBA
NextPBA == IF AtMark THEN Inc(Dec(TrackedPBA)) ELSE TrackedPBA

(* fillBlock: ReadBlock returns a block.  The last one may come together   *)
(* with io.EOF, any of them with a transient error.                        *)
FillBlock ==
  /\ MustFill /\ head < Blocks[medium]
  /\ block' = head /\ off' = 0
  /\ physSize' = IF physSize = 0 THEN BlockLen(medium, head) ELSE physSize
  /\ pendingErr' \in {"ok"}
       \cup (IF head = Blocks[medium] - 1 THEN {"eof"} ELSE {})
       \cup (IF "eio" \in Ops THEN {"eio"} ELSE {})
  /\ head' = head + 1 /\ markPassed' = FALSE
  /\ curBlockPBA' = NextPBA /\ pbaInit' = TRUE
  /\ out' = <<>>
  /\ UNCHANGED <<medium, peek, abspos, anchorVars, callVars, res, base>>

(* Mutant: the discarding loop of a seek takes an error for its end. *)
Surface_SeekIgnoresError(e) ==
  /\ res' = (IF op = "discard" THEN "ok" ELSE e) /\ out' = <<>>
  /\ op' = "idle" /\ need' = 0
  /\ peek' = IF op = "probe" THEN hdr ELSE peek
  /\ UNCHANGED <<medium, abspos, anchorVars, hdr, skipLen, target, base>>

(* Mutant: what the probe collected before the error is lost. *)
Surface_DropsProbe(e) ==
  /\ res' = e /\ out' = <<>>
  /\ IF op = "discard" THEN op' = "skip" /\ need' = skipLen
                       ELSE op' = "idle" /\ need' = 0
  /\ UNCHANGED <<medium, peek, abspos, anchorVars, hdr, skipLen, target, base>>

(* An error ends the call in progress; what the probe collected is handed  *)
(* back.  skipStreamData answers a seek that failed on the way by reading  *)
(* the whole distance from wherever the tape is now.                       *)
Surface(e) ==
  /\ res' = e /\ out' = <<>>
  /\ IF op = "discard" THEN op' = "skip" /\ need' = skipLen
                       ELSE op' = "idle" /\ need' = 0
  /\ peek' = IF op = "probe" THEN hdr ELSE peek
  /\ UNCHANGED <<medium, abspos, anchorVars, hdr, skipLen, target, base>>

(* fillBlock: ReadBlock returns no bytes, at the end of the recorded data  *)
(* or because of a transient error.  The code's read returns the bytes it  *)
(* has by then and meets the error, or a new outcome of the drive, at its  *)
(* next turn; here the bytes were handed over by the steps before and the  *)
(* error ends the call at once.                                            *)
ReadFails ==
  /\ MustFill
  /\ \/ head = Blocks[medium] /\ Surface("eof")
     \/ /\ "eio" \in Ops /\ curBlockPBA < head + MaxDrift
        /\ Surface("eio")
  /\ markPassed' = (markPassed \/ AtMark)
  /\ curBlockPBA' = NextPBA /\ pbaInit' = TRUE
  /\ UNCHANGED <<head, bufVars>>

(* read: the error that came with the buffered block, now drained. *)
PendingFails ==
  /\ Reading /\ peek = <<>> /\ off >= Buffered /\ pendingErr # "ok"
  /\ Surface(pendingErr)
  /\ UNCHANGED <<tapeVars, bufVars, pbaVars>>

-----------------------------------------------------------------------------
(* skipStreamData: pass over n bytes. *)

(* Mutant: one byte beyond the buffered block counts as buffered. *)
InBuffer_OffByOne(n) == physSize > 0 /\ off + n <= Buffered + 1

InBuffer(n) == physSize > 0 /\ off + n <= Buffered

(* The target lies in the buffered block: move the offset. *)
SkipFast(n) ==
  /\ InBuffer(n)
  /\ off' = off + n /\ abspos' = abspos + n
  /\ res' = "ok" /\ out' = <<>>
  /\ skipLen' = n /\ target' = abspos + n
  /\ UNCHANGED <<medium, tapeVars, block, physSize, pendingErr, pbaVars, peek,
                 anchorVars, op, need, hdr, base>>

(* seekToByte: the block the target is in and the abspos of its start. *)
SeekBlockFor_RoundsUp(t) ==  \* mutant: the block after the target's
  IF ssetPBA >= 0
  THEN ssetPBA + Quotient(t - ssetAbsPos + physSize - 1, physSize)
  ELSE Quotient(t + physSize - 1, physSize)
SeekBlockFor(t) ==
  IF ssetPBA >= 0 THEN ssetPBA + Quotient(t - ssetAbsPos, physSize)
                  ELSE Quotient(t, physSize)
SeekPos_BlockLate(b) ==      \* mutant: the position of the next block
  IF ssetPBA >= 0 THEN ssetAbsPos + (b + 1 - ssetPBA) * physSize
                  ELSE (b + 1) * physSize
SeekPos(b) ==
  IF ssetPBA >= 0 THEN ssetAbsPos + (b - ssetPBA) * physSize
                  ELSE b * physSize

(* seekToByte: SeekBlock succeeds - a tape may also place a target beyond  *)
(* its data at the end - and the remainder within the block is to be read. *)
SkipSeek(n) ==
  LET t == abspos + n
      b == SeekBlockFor(t)
      s == SeekPos(b)
  IN /\ physSize > 0 /\ ~InBuffer(n) /\ n >= SkipThreshold
     /\ b >= 0
     /\ head' = Least(b, Blocks[medium]) /\ markPassed' = TRUE
     /\ block' = None /\ off' = 0 /\ peek' = <<>> /\ pendingErr' = "ok"
     /\ pbaInit' = FALSE
     /\ skipLen' = n /\ target' = t
     /\ IF s < t THEN op' = "discard" /\ need' = t - s /\ abspos' = s
                 ELSE UNCHANGED <<op, need>> /\ abspos' = t
     /\ res' = "ok" /\ out' = <<>>
     /\ UNCHANGED <<medium, physSize, curBlockPBA, anchorVars, hdr, base>>

(* No seek - the policy is against it or SeekBlock fails: read the bytes. *)
SkipThrough(n) ==
  /\ ~InBuffer(n)
  /\ \/ physSize = 0
     \/ n < SkipThreshold
     \/ "eio" \in Ops
     \/ physSize > 0 /\ SeekBlockFor(abspos + n) \notin 0..Blocks[medium]
  /\ op' = "skip" /\ need' = n /\ skipLen' = n /\ target' = abspos + n
  /\ res' = "ok" /\ out' = <<>>
  /\ UNCHANGED <<medium, tapeVars, bufVars, pbaVars, peek, abspos, anchorVars,
                 hdr, base>>

(* A header follows every skip, so none starts beyond the recorded data. *)
Skip(n) ==
  /\ "skip" \in Ops /\ Ready /\ Here <= Recorded(medium)
  /\ SkipFast(n) \/ SkipSeek(n) \/ SkipThrough(n)

-----------------------------------------------------------------------------
(* Mutant: the read-ahead survives the jump. *)
Jump_KeepsPeek(b) ==
  /\ "jump" \in Ops /\ op = "idle"
  /\ head' = b /\ markPassed' = TRUE
  /\ curBlockPBA' = b /\ pbaInit' = TRUE
  /\ block' = None /\ off' = 0 /\ pendingErr' = "ok"
  /\ abspos' = 0 /\ base' = Edge[medium][b]
  /\ res' = "ok" /\ out' = <<>>
  /\ UNCHANGED <<medium, physSize, peek, anchorVars, callVars>>

(* SeekToBlock: the caller positions the tape itself. *)
Jump(b) ==
  /\ "jump" \in Ops /\ op = "idle"
  /\ head' = b /\ markPassed' = TRUE
  /\ curBlockPBA' = b /\ pbaInit' = TRUE
  /\ block' = None /\ off' = 0 /\ peek' = <<>> /\ pendingErr' = "ok"
  /\ abspos' = 0 /\ base' = Edge[medium][b]
  /\ res' = "ok" /\ out' = <<>>
  /\ UNCHANGED <<medium, physSize, anchorVars, callVars>>

(* switchMedium: everything that belongs to the old medium is dropped. *)
SwitchMedium ==
  /\ medium < Media
  /\ medium' = medium + 1
  /\ head' = 0 /\ markPassed' = FALSE
  /\ block' = None /\ off' = 0 /\ physSize' = 0 /\ pendingErr' = "ok"
  /\ pbaInit' = FALSE /\ peek' = <<>>
  /\ abspos' = 0 /\ base' = 0
  /\ need' = ProbeSize /\ res' = "ok" /\ out' = <<>>
  /\ UNCHANGED <<curBlockPBA, anchorVars, hdr, skipLen, target>>

(* Next meets the EOTM between two entries and goes on with the TAPE       *)
(* header of the continuation medium.                                      *)
SwitchBetween ==
  /\ Ready /\ Here > Eotm[medium] /\ Here <= Recorded(medium)
  /\ SwitchMedium
  /\ op' = "header"

(* The probe has its bytes.  An EOTM header leads to the continuation      *)
(* medium, where resyncContinuation reads the leading blocks and passes    *)
(* over their meaning for the anchor, or to the end of the stream when     *)
(* there is none; anything else is handed back as data.                    *)
EndProbe ==
  /\ op = "probe" /\ need = 0
  /\ IF hdr = Run(Eotm[medium], ProbeSize)
     THEN \/ SwitchMedium /\ op' = "read"
          \/ /\ medium = Media
             /\ op' = "ended" /\ out' = <<>>
             /\ UNCHANGED <<medium, tapeVars, bufVars, pbaVars, peek, abspos,
                            anchorVars, need, hdr, skipLen, target, res, base>>
     ELSE /\ peek' = hdr /\ op' = "idle" /\ out' = <<>>
          /\ UNCHANGED <<medium, tapeVars, bufVars, pbaVars, abspos,
                         anchorVars, need, hdr, skipLen, target, res, base>>

-----------------------------------------------------------------------------
Init ==
  /\ medium = 1 /\ head = 0 /\ markPassed = FALSE
  /\ block = None /\ off = 0 /\ physSize = 0 /\ pendingErr = "ok"
  /\ curBlockPBA = 0 /\ pbaInit = FALSE
  /\ peek = <<>> /\ abspos = 0
  /\ ssetPBA = 0 /\ ssetAbsPos = 0
  /\ op = "idle" /\ need = 0 /\ hdr = <<>> /\ skipLen = 0 /\ target = 0
  /\ res = "ok" /\ base = 0 /\ out = <<>>

Next ==
  \/ \E n \in 1..MaxAsk : StartRead(n)
  \/ StartHeader
  \/ EndHeader
  \/ StartProbe
  \/ DrainPeek
  \/ DrainBlock
  \/ FillBlock
  \/ ReadFails
  \/ PendingFails
  \/ \E n \in 1..MaxAsk : Skip(n)
  \/ \E b \in 0..(Blocks[medium] - 1) : Jump(b)
  \/ SwitchBetween
  \/ EndProbe

Spec == Init /\ [][Next]_vars

-----------------------------------------------------------------------------
(* Every variable has its type. *)
TypeOK ==
  /\ medium \in 1..Media
  /\ head \in 0..Blocks[medium] /\ markPassed \in BOOLEAN
  /\ block \in {None} \cup 0..(Blocks[medium] - 1)
  /\ off \in 0..Buffered
  /\ physSize \in Nat /\ pendingErr \in Errors
  /\ curBlockPBA \in Int /\ pbaInit \in BOOLEAN
  /\ peek \in Seq(Int) /\ hdr \in Seq(Int)
  /\ abspos \in Int /\ base \in Int
  /\ ssetPBA \in Int /\ ssetAbsPos \in Int
  /\ op \in {"idle", "read", "header", "probe", "skip", "discard", "ended"}
  /\ need \in Nat /\ skipLen \in Nat /\ target \in Int
  /\ res \in Errors
  /\ out \in Seq(Int)

(* Bytes taken off the tape and not accounted for in abspos: the read-ahead *)
(* and what a probe in progress has collected.                             *)
InHand == Len(peek) + (IF op = "probe" THEN Len(hdr) ELSE 0)

(* The offset up to which the medium has been read. *)
Front == IF block = None THEN Edge[medium][head] ELSE Edge[medium][block] + off

(* abspos, the read-ahead and the buffer offset always add up to the place *)
(* the tape has been read to, over reads, probes, fast-path skips, seeks   *)
(* and medium switches (read, skipStreamData, seekToByte, switchMedium).   *)
(* Only a seek that a length field sent beyond the recorded data leaves    *)
(* abspos further on than the tape is.                                     *)
PositionAccounted ==
  \/ op = "ended"
  \/ Here + InHand = Front
  \/ block = None /\ head = Blocks[medium] /\ Here >= Recorded(medium)

(* curBlockPBA is the address of the block held in blockBuf, as the        *)
(* comment on the field says, whenever a call has returned without error:  *)
(* counting blocks instead of asking the drive loses nothing (fillBlock).  *)
PBAExact ==
  (op = "idle" /\ res = "ok" /\ block # None)
     => curBlockPBA = IF TellOK[medium] THEN block ELSE None

(* The anchor of the data set names a block of the loaded medium together  *)
(* with the position of exactly that block (captureSsetAnchor), whenever a *)
(* skip can start, so that a seek computed from it lands where abspos says. *)
AnchorExact ==
  (op = "idle" /\ res = "ok" /\ ssetPBA >= 0)
     => /\ ssetPBA < Blocks[medium]
        /\ base + ssetAbsPos = Edge[medium][ssetPBA]

(* The bytes waiting in the read-ahead are the ones at the Reader's own    *)
(* position: what is delivered next continues what was delivered before    *)
(* (probeEOTM, read).                                                      *)
PeekExact ==
  /\ op = "idle" => peek = Run(Here, Len(peek))
  /\ op = "probe" => hdr \o peek = Run(Here, Len(hdr) + Len(peek))

(* A skip that reports success has moved exactly the distance asked for,   *)
(* whichever of the three ways it went, also where a seek leads nowhere    *)
(* and reading takes over (skipStreamData, seekToByte): abspos ends equal  *)
(* to the target, as the comment of seekToByte says.                       *)
SkipLands ==
  [][ (op \in {"skip", "discard"} /\ op' = "idle" /\ res' = "ok")
        => abspos' = target ]_vars

(* How far the parser is: a skip in progress, which may seek to the start  *)
(* of a short last block and read it again, has not moved it yet.          *)
Reached == IF op \in {"skip", "discard"} THEN base + target - skipLen ELSE Here

(* The block layer delivers the bytes of each medium in order and each     *)
(* once, from where a caller's SeekToBlock put the tape: it implements the *)
(* byte stream the parser relies on.                                       *)
Starts(m) == {Edge[m][b] : b \in 0..(Blocks[m] - 1)}
BS == INSTANCE ByteStream WITH
        pos    <- Reached,
        Size   <- [m \in 1..Media |-> Recorded(m)],
        Places <- [m \in 1..Media |-> IF "jump" \in Ops THEN Starts(m) ELSE {}]
ImplementsByteStream == BS!Spec
=============================================================================
