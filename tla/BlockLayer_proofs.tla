-------------------------- MODULE BlockLayer_proofs --------------------------
(***************************************************************************)
(* Proofs about the block layer, for media of every number, length and     *)
(* block layout.                                                           *)
(***************************************************************************)
EXTENDS BlockLayer, SequenceTheorems, TLAPS

-----------------------------------------------------------------------------
(* Runs of consecutive offsets. *)

(* A run is a sequence of integers of the length asked for. *)
LEMMA RunIsSeq ==
  ASSUME NEW a \in Int, NEW k \in Nat
  PROVE  /\ Run(a, k) \in Seq(Int)
         /\ Len(Run(a, k)) = k
         /\ \A i \in 1..k : Run(a, k)[i] = a + i - 1
<1>1. Run(a, k) \in [1..k -> Int]
  BY DEF Run
<1>2. Run(a, k) \in Seq(Int)
  BY <1>1, SeqDef
<1>3. Len(Run(a, k)) = k
  BY <1>1, <1>2, LenProperties DEF Run
<1>4. QED
  BY <1>2, <1>3 DEF Run

(* Sequences of integers with the same elements are equal. *)
LEMMA SameElements ==
  ASSUME NEW s \in Seq(Int), NEW t \in Seq(Int), Len(s) = Len(t),
         \A i \in 1..Len(s) : s[i] = t[i]
  PROVE  s = t
  BY SeqEqual

(* Only the empty run has length zero. *)
LEMMA EmptyRun == ASSUME NEW a \in Int PROVE Run(a, 0) = <<>>
  BY RunIsSeq, EmptySeq

(* What SubSeq returns of a sequence of integers. *)
LEMMA IntSubSeq ==
  ASSUME NEW s \in Seq(Int), NEW m \in 1..(Len(s) + 1), NEW n \in 0..Len(s)
  PROVE  /\ SubSeq(s, m, n) \in Seq(Int)
         /\ Len(SubSeq(s, m, n)) = IF m <= n THEN n - m + 1 ELSE 0
         /\ \A i \in 1..(n - m + 1) : SubSeq(s, m, n)[i] = s[m + i - 1]
<1>1. m \in Int /\ n \in Int
  BY LenProperties
<1>2. \A i \in m..n : s[i] \in Int
  BY LenProperties, ElementOfSeq
<1>3. QED
  BY <1>1, <1>2, SubSeqProperties

(* A run cut in two is two runs, the second continuing the first. *)
LEMMA RunCut ==
  ASSUME NEW a \in Int, NEW n \in Nat, NEW k \in 0..n
  PROVE  /\ SubSeq(Run(a, n), 1, k) = Run(a, k)
         /\ SubSeq(Run(a, n), k + 1, n) = Run(a + k, n - k)
<1>1. Run(a, n) \in Seq(Int) /\ Len(Run(a, n)) = n
  BY RunIsSeq
<1>2. SubSeq(Run(a, n), 1, k) = Run(a, k)
  <2>1. /\ SubSeq(Run(a, n), 1, k) \in Seq(Int)
        /\ Len(SubSeq(Run(a, n), 1, k)) = k
        /\ \A i \in 1..k : SubSeq(Run(a, n), 1, k)[i] = Run(a, n)[i]
    BY <1>1, IntSubSeq
  <2>2. QED
    BY <2>1, RunIsSeq, SameElements
<1>3. SubSeq(Run(a, n), k + 1, n) = Run(a + k, n - k)
  <2>1. /\ SubSeq(Run(a, n), k + 1, n) \in Seq(Int)
        /\ Len(SubSeq(Run(a, n), k + 1, n)) = n - k
        /\ \A i \in 1..(n - k) :
             SubSeq(Run(a, n), k + 1, n)[i] = Run(a, n)[k + i]
    BY <1>1, IntSubSeq
  <2>2. a + k \in Int /\ n - k \in Nat
    OBVIOUS
  <2>3. \A i \in 1..(n - k) : Run(a, n)[k + i] = Run(a + k, n - k)[i]
    BY <2>2 DEF Run
  <2>4. QED
    BY <2>1, <2>2, <2>3, RunIsSeq, SameElements
<1>4. QED
  BY <1>2, <1>3

(* What concatenation returns of two sequences of integers. *)
LEMMA IntConcat ==
  ASSUME NEW s \in Seq(Int), NEW t \in Seq(Int)
  PROVE  /\ s \o t \in Seq(Int)
         /\ Len(s \o t) = Len(s) + Len(t)
         /\ \A i \in 1..(Len(s) + Len(t)) :
              (s \o t)[i] = IF i <= Len(s) THEN s[i] ELSE t[i - Len(s)]
  BY ConcatProperties

(* A run followed by the run that continues it is one run. *)
LEMMA RunJoin ==
  ASSUME NEW a \in Int, NEW i \in Nat, NEW j \in Nat
  PROVE  Run(a, i) \o Run(a + i, j) = Run(a, i + j)
<1>1. /\ Run(a, i) \in Seq(Int) /\ Len(Run(a, i)) = i
      /\ Run(a + i, j) \in Seq(Int) /\ Len(Run(a + i, j)) = j
      /\ Run(a, i + j) \in Seq(Int) /\ Len(Run(a, i + j)) = i + j
  BY RunIsSeq
<1>2. /\ Run(a, i) \o Run(a + i, j) \in Seq(Int)
      /\ Len(Run(a, i) \o Run(a + i, j)) = i + j
      /\ \A n \in 1..(i + j) : (Run(a, i) \o Run(a + i, j))[n] =
            IF n <= i THEN Run(a, i)[n] ELSE Run(a + i, j)[n - i]
  <2>1. ASSUME NEW s \in Seq(Int), NEW t \in Seq(Int),
               Len(s) = i, Len(t) = j
        PROVE  /\ s \o t \in Seq(Int)
               /\ Len(s \o t) = i + j
               /\ \A n \in 1..(i + j) :
                    (s \o t)[n] = IF n <= i THEN s[n] ELSE t[n - i]
    BY <2>1, IntConcat
  <2>2. QED
    BY <1>1, <2>1
<1>3. \A n \in 1..(i + j) :
         (Run(a, i) \o Run(a + i, j))[n] = Run(a, i + j)[n]
  BY <1>2 DEF Run
<1>4. QED
  BY <1>1, <1>2, <1>3, SameElements

-----------------------------------------------------------------------------
(* Type correctness. *)

(* The layout of a medium, as BlockAssumption gives it. *)
LEMMA Layout ==
  ASSUME NEW m \in 1..Media
  PROVE  /\ Blocks[m] \in Nat \ {0}
         /\ \A b \in 0..Blocks[m] : Edge[m][b] \in Nat
         /\ \A b \in 0..(Blocks[m] - 1) : BlockLen(m, b) \in Nat \ {0}
         /\ \A b, c \in 0..Blocks[m] : b <= c => Edge[m][b] <= Edge[m][c]
         /\ Edge[m][0] = 0
<1>1. /\ Blocks[m] \in Nat \ {0}
      /\ \A b \in 0..Blocks[m] : Edge[m][b] \in Nat
      /\ \A b, c \in 0..Blocks[m] : b < c => Edge[m][b] < Edge[m][c]
      /\ Edge[m][0] = 0
  BY BlockAssumption
<1>2. \A b \in 0..(Blocks[m] - 1) : b \in 0..Blocks[m] /\ b + 1 \in 0..Blocks[m]
  BY <1>1
<1>3. \A b \in 0..(Blocks[m] - 1) : BlockLen(m, b) \in Nat \ {0}
  BY <1>1, <1>2 DEF BlockLen
<1>4. QED
  BY <1>1, <1>3

(* The buffered block has a length. *)
LEMMA BufferedIsNat == TypeOK => Buffered \in Nat
  BY Layout DEF TypeOK, Buffered

(* Go's division yields integers for the block sizes it is used with. *)
LEMMA QuotientInt ==
  ASSUME NEW a \in Int, NEW d \in Nat \ {0}
  PROVE  Quotient(a, d) \in Int
  BY DEF Quotient

(* What a chunk of the reading loops leaves: the bytes still wanted, the   *)
(* position, the bytes collected and delivered all keep their types.       *)
LEMMA ConsumeType ==
  ASSUME TypeOK, Reading, NEW k \in Nat, k <= need, NEW bytes \in Seq(Int),
         Consume(k, bytes)
  PROVE  /\ need' \in Nat /\ abspos' \in Int /\ hdr' \in Seq(Int)
         /\ out' \in Seq(Int) /\ res' \in Errors
         /\ op' \in {"idle", "read", "header", "probe", "skip", "discard", "ended"}
         /\ medium' = medium /\ ssetPBA' \in Int /\ ssetAbsPos' \in Int
         /\ skipLen' \in Nat /\ target' \in Int /\ base' \in Int
<1>1. hdr \o bytes \in Seq(Int)
  BY IntConcat DEF TypeOK
<1>2. <<>> \in Seq(Int)
  BY EmptySeq
<1>3. need' \in Nat /\ abspos' \in Int
  BY DEF TypeOK, Reading, Consume
<1>4. hdr' \in Seq(Int) /\ out' \in Seq(Int)
  BY <1>1, <1>2 DEF TypeOK, Consume
<1>5. /\ res' \in Errors
      /\ op' \in {"idle", "read", "header", "probe", "skip", "discard", "ended"}
  BY DEF TypeOK, Consume, Errors
<1>6. QED
  BY <1>3, <1>4, <1>5 DEF TypeOK, Consume, anchorVars

(* Every variable keeps its type, whatever callers and tapes do. *)
THEOREM TypeCorrect == Spec => []TypeOK
<1>1. Init => TypeOK
  <2> SUFFICES ASSUME Init PROVE TypeOK
    OBVIOUS
  <2>1. medium \in 1..Media /\ Blocks[medium] \in Nat \ {0}
    BY BlockAssumption DEF Init
  <2>2. off \in 0..Buffered
    BY DEF Init, Buffered
  <2>3. <<>> \in Seq(Int)
    BY EmptySeq
  <2>4. head \in 0..Blocks[medium]
    BY <2>1 DEF Init
  <2>5. block \in {None} \cup 0..(Blocks[medium] - 1)
    BY DEF Init
  <2>6. peek \in Seq(Int) /\ hdr \in Seq(Int) /\ out \in Seq(Int)
    BY <2>3 DEF Init
  <2>7. ssetPBA \in Int /\ physSize \in Nat /\ abspos \in Int /\ base \in Int
    BY DEF Init
  <2>8. QED
    BY <2>1, <2>2, <2>4, <2>5, <2>6, <2>7 DEF Init, TypeOK, Errors
<1>2. TypeOK /\ [Next]_vars => TypeOK'
  <2> SUFFICES ASSUME TypeOK, [Next]_vars PROVE TypeOK'
    OBVIOUS
  <2> USE DEF Errors
  <2>a. /\ Blocks[medium] \in Nat \ {0}
        /\ \A b \in 0..Blocks[medium] : Edge[medium][b] \in Nat
        /\ \A b \in 0..(Blocks[medium] - 1) : BlockLen(medium, b) \in Nat \ {0}
    BY Layout DEF TypeOK
  <2>b. Buffered \in Nat
    BY BufferedIsNat
  <2>c. <<>> \in Seq(Int)
    BY EmptySeq
  <2>d. ProbeSize \in Nat /\ MaxAsk \in Nat
    BY BlockAssumption
  <2>1. ASSUME NEW n \in 1..MaxAsk, StartRead(n) PROVE TypeOK'
    BY <2>1, <2>c, <2>d
    DEF StartRead, TypeOK, Buffered, tapeVars, bufVars, pbaVars, anchorVars
  <2>2. CASE StartHeader
    BY <2>2, <2>c, <2>d
    DEF StartHeader, TypeOK, Buffered, tapeVars, bufVars, pbaVars, anchorVars
  <2>3. CASE EndHeader
    BY <2>3, <2>b, <2>c
    DEF EndHeader, CaptureAnchor, TypeOK, Buffered, None, tapeVars, bufVars,
        pbaVars, anchorVars
  <2>4. CASE StartProbe
    BY <2>4, <2>c, <2>d
    DEF StartProbe, TypeOK, Buffered, tapeVars, bufVars, pbaVars, anchorVars
  <2>5. CASE DrainPeek
    <3> DEFINE k == Least(need, Len(peek))
    <3>1. /\ Reading /\ peek # <<>>
          /\ Consume(k, SubSeq(peek, 1, k))
          /\ peek' = SubSeq(peek, k + 1, Len(peek))
          /\ UNCHANGED <<tapeVars, bufVars, pbaVars>>
      BY <2>5 DEF DrainPeek
    <3>2. k \in 0..Len(peek) /\ k \in Nat /\ k <= need
      BY LenProperties DEF TypeOK, Least
    <3>3. /\ SubSeq(peek, 1, k) \in Seq(Int)
          /\ SubSeq(peek, k + 1, Len(peek)) \in Seq(Int)
      BY SMTT(30), <3>2, IntSubSeq, LenProperties DEF TypeOK
    <3> HIDE DEF k
    <3>4. QED
      BY <3>1, <3>2, <3>3, ConsumeType
      DEF TypeOK, Buffered, tapeVars, bufVars, pbaVars
  <2>6. CASE DrainBlock
    <3> DEFINE k == Least(need, Buffered - off)
    <3> DEFINE bytes == Run(Edge[medium][block] + off, k)
    <3>1. /\ Reading /\ off < Buffered
          /\ Consume(k, bytes) /\ off' = off + k
          /\ UNCHANGED <<tapeVars, block, physSize, pendingErr, pbaVars, peek>>
      BY <2>6 DEF DrainBlock
    <3>2. k \in Nat /\ k <= need /\ off + k <= Buffered
      BY <2>b, <3>1 DEF TypeOK, Least
    <3>3. block # None
      BY <3>1 DEF TypeOK, Buffered, None
    <3>4. bytes \in Seq(Int)
      <4>1. block \in 0..Blocks[medium]
        BY <2>a, <3>3 DEF TypeOK
      <4>2. Edge[medium][block] \in Int /\ off \in Int
        BY <4>1, <2>a, <2>b DEF TypeOK
      <4>3. Edge[medium][block] + off \in Int
        BY <4>2
      <4> HIDE DEF k
      <4>4. QED
        BY <4>3, <3>2, RunIsSeq
    <3> HIDE DEF k, bytes
    <3>5. medium' = medium /\ Buffered' = Buffered /\ off' \in 0..Buffered
      BY <2>b, <3>1, <3>2, <3>4, ConsumeType DEF Buffered, TypeOK
    <3>6. QED
      BY <3>1, <3>2, <3>4, <3>5, ConsumeType
      DEF TypeOK, tapeVars, pbaVars
  <2>7. CASE FillBlock
    <3>1. NextPBA \in Int
      BY DEF NextPBA, TrackedPBA, Inc, Dec, None, TypeOK
    <3>2. /\ head \in 0..(Blocks[medium] - 1)
          /\ head' \in 0..Blocks[medium]
          /\ block' \in 0..(Blocks[medium] - 1)
          /\ physSize' \in Nat
      BY <2>7, <2>a DEF FillBlock, TypeOK
    <3>3. off' \in 0..Buffered'
      BY <2>7, <2>a, <3>2 DEF FillBlock, Buffered
    <3>4. pendingErr' \in Errors
      BY <2>7 DEF FillBlock
    <3>5. QED
      BY <2>7, <2>c, <3>1, <3>2, <3>3, <3>4
      DEF FillBlock, TypeOK, anchorVars, callVars
  <2>8. CASE ReadFails
    <3>1. \E e \in Errors : Surface(e)
      BY <2>8 DEF ReadFails
    <3>2. QED
      BY <2>8, <3>1, <2>c
      DEF ReadFails, Surface, TypeOK, Buffered, NextPBA, TrackedPBA, Inc, Dec,
          None, bufVars, anchorVars
  <2>9. CASE PendingFails
    BY <2>9, <2>c
    DEF PendingFails, Surface, TypeOK, Buffered, tapeVars, bufVars, pbaVars,
        anchorVars
  <2>10. ASSUME NEW n \in 1..MaxAsk, SkipFast(n) PROVE TypeOK'
    BY <2>10, <2>b, <2>c, <2>d
    DEF SkipFast, InBuffer, TypeOK, Buffered, tapeVars, pbaVars, anchorVars
  <2>11. ASSUME NEW n \in 1..MaxAsk, SkipSeek(n) PROVE TypeOK'
    <3> DEFINE t == abspos + n
    <3> DEFINE b == SeekBlockFor(t)
    <3> DEFINE s == SeekPos(b)
    <3>1. physSize \in Nat \ {0} /\ t \in Int
      BY <2>11, <2>d DEF SkipSeek, TypeOK
    <3>2. b \in Int
      <4>1. t - ssetAbsPos \in Int /\ ssetPBA \in Int
        BY <3>1 DEF TypeOK
      <4> HIDE DEF t
      <4>2. QED
        BY <3>1, <4>1, QuotientInt DEF SeekBlockFor
    <3>3. s \in Int
      BY <3>1, <3>2 DEF SeekPos, TypeOK
    <3>4. /\ head' = Least(b, Blocks[medium]) /\ b >= 0
          /\ markPassed' = TRUE /\ block' = None /\ off' = 0
          /\ peek' = <<>> /\ pendingErr' = "ok" /\ pbaInit' = FALSE
          /\ skipLen' = n /\ target' = t
          /\ IF s < t THEN op' = "discard" /\ need' = t - s /\ abspos' = s
                      ELSE UNCHANGED <<op, need>> /\ abspos' = t
          /\ res' = "ok" /\ out' = <<>>
          /\ UNCHANGED <<medium, physSize, curBlockPBA, anchorVars, hdr, base>>
      BY <2>11 DEF SkipSeek
    <3> HIDE DEF t, b, s
    <3>5. head' \in 0..Blocks[medium]
      BY <2>a, <3>2, <3>4 DEF Least
    <3>6. off' \in 0..Buffered'
      BY <3>4 DEF Buffered
    <3>7. need' \in Nat /\ abspos' \in Int /\ skipLen' \in Nat
      BY <2>d, <3>1, <3>3, <3>4 DEF TypeOK
    <3>8. QED
      BY <2>c, <3>1, <3>4, <3>5, <3>6, <3>7 DEF TypeOK, anchorVars
  <2>12. ASSUME NEW n \in 1..MaxAsk, SkipThrough(n) PROVE TypeOK'
    BY <2>12, <2>c, <2>d
    DEF SkipThrough, TypeOK, Buffered, tapeVars, bufVars, pbaVars, anchorVars
  <2>13. ASSUME NEW b \in 0..(Blocks[medium] - 1), Jump(b) PROVE TypeOK'
    BY <2>13, <2>a, <2>c
    DEF Jump, TypeOK, Buffered, None, anchorVars, callVars
  <2>14. ASSUME SwitchMedium, op' \in {"header", "read"} PROVE TypeOK'
    <3>1. medium' \in 1..Media
      BY <2>14, BlockAssumption DEF SwitchMedium, TypeOK
    <3>2. Blocks[medium'] \in Nat \ {0}
      BY <3>1, Layout
    <3>3. off' \in 0..Buffered'
      BY <2>14 DEF SwitchMedium, Buffered
    <3>4. head' \in 0..Blocks[medium'] /\ need' \in Nat
      BY <2>14, <3>2, <2>d DEF SwitchMedium
    <3>5. block' \in {None} \cup 0..(Blocks[medium'] - 1)
      BY <2>14 DEF SwitchMedium
    <3>6. markPassed' \in BOOLEAN /\ pbaInit' \in BOOLEAN
      BY <2>14 DEF SwitchMedium
    <3>7. physSize' \in Nat /\ abspos' \in Int /\ base' \in Int
      BY <2>14 DEF SwitchMedium
    <3>8. peek' \in Seq(Int) /\ out' \in Seq(Int) /\ hdr' \in Seq(Int)
      BY <2>14, <2>c DEF SwitchMedium, TypeOK
    <3>9. QED
      BY <2>14, <3>1, <3>3, <3>4, <3>5, <3>6, <3>7, <3>8
      DEF SwitchMedium, TypeOK, anchorVars
  <2>15. CASE SwitchBetween
    BY <2>14, <2>15 DEF SwitchBetween
  <2>16. CASE EndProbe
    <3>1. CASE SwitchMedium /\ op' = "read"
      BY <2>14, <3>1
    <3>2. CASE ~(SwitchMedium /\ op' = "read")
      BY <2>16, <3>2, <2>c
      DEF EndProbe, TypeOK, Buffered, tapeVars, bufVars, pbaVars, anchorVars
    <3>3. QED
      BY <3>1, <3>2
  <2>17. CASE UNCHANGED vars
    BY <2>17
    DEF vars, TypeOK, Buffered, tapeVars, bufVars, pbaVars, anchorVars, callVars
  <2>18. QED
    BY <2>1, <2>2, <2>3, <2>4, <2>5, <2>6, <2>7, <2>8, <2>9, <2>10, <2>11,
       <2>12, <2>13, <2>15, <2>16, <2>17 DEF Next, Skip
<1>3. QED
  BY <1>1, <1>2, PTL DEF Spec

-----------------------------------------------------------------------------
(* The address of the buffered block. *)

(* The tape and its use under which counting addresses is exact: no        *)
(* filemark in front of a medium's first block, and no SeekToBlock.        *)
CountableTape ==
  /\ \A m \in 1..Media : 0 \notin Marks[m]
  /\ "jump" \notin Ops

(* No read of the tape has failed.  A read that is repeated counts twice,  *)
(* and one that fails behind a seek makes a skip go too far, so addresses  *)
(* and skips are exact up to the first failure.  A theorem about           *)
(* behaviours in which there is none is one about all others up to then.   *)
Unfailed == pendingErr # "eio" /\ res # "eio"

(* The strengthening of PBAExact that every step preserves.  The count may *)
(* be wrong only after the end of the medium, from where nothing is read.  *)
PBAInv ==
  /\ block # None => head = block + 1
  /\ ~pbaInit => block = None
  /\ (pbaInit /\ block = None) => res = "eof"
  /\ (block # None /\ res # "eof") => curBlockPBA = IF TellOK[medium] THEN block ELSE None
  /\ pendingErr # "eio" /\ res # "eio"
  /\ pendingErr = "eof" => head = Blocks[medium]
  /\ res = "eof" => /\ head = Blocks[medium]
                    /\ op \in {"idle", "skip"}
                    /\ op = "skip" => peek = <<>> /\ off >= Buffered

(* The address fillBlock computes is that of the block it reads. *)
LEMMA NextPBAExact ==
  ASSUME CountableTape, TypeOK, PBAInv, res # "eof"
  PROVE  NextPBA = IF TellOK[medium] THEN head ELSE None
<1>1. head \in Nat /\ (head = 0 => ~AtMark)
  BY DEF CountableTape, TypeOK, AtMark
<1>2. CASE pbaInit
  <2>1. block # None /\ head = block + 1
    BY <1>2 DEF PBAInv
  <2>2. curBlockPBA = IF TellOK[medium] THEN block ELSE None
    BY <2>1 DEF PBAInv
  <2>3. block \in Nat
    BY <2>1 DEF TypeOK
  <2>4. QED
    BY <1>2, <2>1, <2>2, <2>3 DEF NextPBA, TrackedPBA, Inc, Dec, None
<1>3. CASE ~pbaInit
  BY <1>1, <1>3 DEF NextPBA, TrackedPBA, Inc, Dec, None
<1>4. QED
  BY <1>2, <1>3

(* Every step preserves PBAInv. *)
LEMMA PBAInvStep ==
  ASSUME CountableTape, TypeOK, PBAInv, [Next]_vars, Unfailed'
  PROVE  PBAInv'
<1>a. "jump" \notin Ops
  BY DEF CountableTape
<1>b. Blocks[medium] \in Nat \ {0}
  BY Layout DEF TypeOK
<1>1. ASSUME NEW n \in 1..MaxAsk, StartRead(n) PROVE PBAInv'
  BY <1>1 DEF StartRead, Ready, PBAInv, Buffered, tapeVars, bufVars, pbaVars
<1>2. CASE StartHeader
  BY <1>2 DEF StartHeader, Ready, PBAInv, Buffered, tapeVars, bufVars, pbaVars
<1>3. CASE EndHeader
  BY <1>3 DEF EndHeader, PBAInv, Buffered, tapeVars, bufVars, pbaVars
<1>4. CASE StartProbe
  BY <1>4 DEF StartProbe, Ready, PBAInv, Buffered, tapeVars, bufVars, pbaVars
<1>5. CASE DrainPeek
  <2>1. res # "eof" /\ res' # "eof" /\ res' # "eio"
    BY <1>5 DEF DrainPeek, Reading, Consume, PBAInv
  <2>2. QED
    BY <1>5, <2>1 DEF DrainPeek, Consume, PBAInv, tapeVars, bufVars, pbaVars
<1>6. CASE DrainBlock
  <2>1. Buffered \in Nat /\ off \in Nat
    BY BufferedIsNat DEF TypeOK
  <2>2. res # "eof" /\ res' # "eof" /\ res' # "eio"
    BY <1>6, <2>1 DEF DrainBlock, Reading, Consume, PBAInv
  <2>3. QED
    BY <1>6, <2>2 DEF DrainBlock, Consume, PBAInv, tapeVars, pbaVars
<1>7. CASE FillBlock
  <2>1. head \in 0..(Blocks[medium] - 1) /\ res # "eof"
    BY <1>7, <1>b DEF FillBlock, TypeOK, PBAInv
  <2>2. NextPBA = IF TellOK[medium] THEN head ELSE None
    BY <2>1, NextPBAExact
  <2>3. pendingErr' # "eio" /\ (pendingErr' = "eof" => head' = Blocks[medium'])
    BY <1>7, <2>1, <1>b DEF FillBlock, Unfailed
  <2>4. /\ block' = head /\ head' = head + 1 /\ curBlockPBA' = NextPBA
        /\ pbaInit' = TRUE /\ res' = res /\ block' # None /\ medium' = medium
    BY <1>7, <2>1 DEF FillBlock, None
  <2>5. QED
    BY <2>1, <2>2, <2>3, <2>4 DEF PBAInv
<1>8. CASE ReadFails
  <2>1. /\ MustFill /\ head = Blocks[medium] /\ Surface("eof")
        /\ pbaInit' = TRUE /\ UNCHANGED <<head, bufVars>>
    BY <1>8 DEF ReadFails, Surface, Unfailed
  <2>2. res' = "eof" /\ head' = head /\ medium' = medium /\ op' \in {"idle", "skip"}
    BY <2>1 DEF Surface
  <2>3. op' = "skip" => peek' = <<>> /\ off' >= Buffered'
    BY <2>1 DEF Surface, MustFill, Reading, Buffered, bufVars
  <2>4. QED
    BY <2>1, <2>2, <2>3 DEF PBAInv, bufVars
<1>9. CASE PendingFails
  <2>1. /\ pendingErr = "eof" /\ Surface("eof") /\ peek = <<>>
        /\ off >= Buffered /\ head = Blocks[medium]
        /\ UNCHANGED <<tapeVars, bufVars, pbaVars>>
    BY <1>9 DEF PendingFails, PBAInv, TypeOK, Errors
  <2>2. res' = "eof" /\ medium' = medium /\ op' \in {"idle", "skip"}
    BY <2>1 DEF Surface
  <2>3. op' = "skip" => peek' = <<>> /\ off' >= Buffered'
    BY <2>1 DEF Surface, Buffered, bufVars
  <2>4. QED
    BY <2>1, <2>2, <2>3 DEF PBAInv, tapeVars, bufVars, pbaVars
<1>10. ASSUME NEW n \in 1..MaxAsk, Ready, SkipFast(n) PROVE PBAInv'
  BY <1>10 DEF SkipFast, Ready, PBAInv, tapeVars, pbaVars
<1>11. ASSUME NEW n \in 1..MaxAsk, Ready, SkipSeek(n) PROVE PBAInv'
  BY <1>11 DEF SkipSeek, Ready, PBAInv
<1>12. ASSUME NEW n \in 1..MaxAsk, Ready, SkipThrough(n) PROVE PBAInv'
  BY <1>12
  DEF SkipThrough, Ready, PBAInv, Buffered, tapeVars, bufVars, pbaVars
<1>13. ASSUME NEW b \in 0..(Blocks[medium] - 1), Jump(b) PROVE PBAInv'
  BY <1>13, <1>a DEF Jump
<1>14. ASSUME SwitchMedium PROVE PBAInv'
  BY <1>14 DEF SwitchMedium, PBAInv
<1>15. CASE EndProbe
  <2>1. CASE SwitchMedium
    BY <2>1, <1>14
  <2>2. CASE ~SwitchMedium
    BY <1>15, <2>2 DEF EndProbe, PBAInv, Buffered, tapeVars, bufVars, pbaVars
  <2>3. QED
    BY <2>1, <2>2
<1>16. CASE UNCHANGED vars
  BY <1>16 DEF vars, PBAInv, Buffered, tapeVars, bufVars, pbaVars, callVars
<1>17. QED
  BY <1>1, <1>2, <1>3, <1>4, <1>5, <1>6, <1>7, <1>8, <1>9, <1>10, <1>11,
     <1>12, <1>13, <1>14, <1>15, <1>16 DEF Next, Skip, SwitchBetween

(* PBAInv is an invariant on a countable tape. *)
LEMMA PBAInvariant == ASSUME CountableTape PROVE Spec /\ []Unfailed => []PBAInv
<1>1. Init => PBAInv
  BY DEF Init, PBAInv, None
<1>2. TypeOK /\ PBAInv /\ [Next]_vars /\ Unfailed' => PBAInv'
  BY PBAInvStep
<1>3. QED
  BY <1>1, <1>2, TypeCorrect, PTL DEF Spec

(* Counting addresses instead of asking the drive is exact on a countable  *)
(* tape, up to the first read that fails: curBlockPBA is the address of    *)
(* the buffered block.                                                     *)
THEOREM PBACounted ==
  ASSUME CountableTape PROVE Spec /\ []Unfailed => []PBAExact
<1>1. PBAInv => PBAExact
  BY DEF PBAInv, PBAExact
<1>2. QED
  BY <1>1, PBAInvariant, PTL

-----------------------------------------------------------------------------
(* Reading without skipping: every byte is delivered, or probed and handed *)
(* back.  Transient errors, SeekToBlock and any filemarks are allowed.     *)

ReadsOnly == "skip" \notin Ops

(* The strengthening of PositionAccounted and PeekExact. *)
ReadInv ==
  /\ block # None => head = block + 1
  /\ op \notin {"skip", "discard"}
  /\ op # "ended" => Here + InHand = Front
  /\ op \notin {"probe", "ended"} => peek = Run(Here, Len(peek))
  /\ op = "probe" => /\ hdr = Run(Here, Len(hdr))
                     /\ peek = Run(Here + Len(hdr), Len(peek))
                     /\ Len(peek) <= need /\ Len(hdr) + need = ProbeSize
  /\ Len(peek) <= ProbeSize

(* When the buffer is drained the medium has been read up to its head. *)
LEMMA DrainedFront ==
  ASSUME TypeOK, block # None => head = block + 1, off >= Buffered
  PROVE  Front = Edge[medium][head]
<1>1. CASE block = None
  BY <1>1 DEF Front
<1>2. CASE block # None
  <2>1. off = Edge[medium][block + 1] - Edge[medium][block]
    BY <1>2, BufferedIsNat DEF TypeOK, Buffered, BlockLen
  <2>2. /\ Edge[medium][block] \in Nat /\ Edge[medium][block + 1] \in Nat
        /\ head = block + 1
    <3>1. block \in 0..Blocks[medium] /\ block + 1 \in 0..Blocks[medium]
      BY <1>2, Layout DEF TypeOK
    <3>2. QED
      BY <1>2, <3>1, Layout DEF TypeOK
  <2>3. QED
    BY <1>2, <2>1, <2>2 DEF Front
<1>3. QED
  BY <1>1, <1>2

(* The buffered block lies within the recorded bytes of the medium. *)
LEMMA BlockEnd ==
  ASSUME TypeOK, block # None
  PROVE  /\ Edge[medium][block] \in Nat /\ Edge[medium][block + 1] \in Nat
         /\ Edge[medium][block + 1] <= Recorded(medium)
<1>1. /\ Blocks[medium] \in Nat \ {0}
      /\ \A b \in 0..Blocks[medium] : Edge[medium][b] \in Nat
      /\ \A b, c \in 0..Blocks[medium] : b <= c => Edge[medium][b] <= Edge[medium][c]
  BY Layout DEF TypeOK
<1>2. /\ block \in 0..Blocks[medium] /\ block + 1 \in 0..Blocks[medium]
      /\ Blocks[medium] \in 0..Blocks[medium] /\ block + 1 <= Blocks[medium]
  BY <1>1 DEF TypeOK
<1>3. QED
  BY <1>1, <1>2 DEF Recorded

(* The medium is never read beyond its recorded bytes. *)
LEMMA FrontRecorded ==
  ASSUME TypeOK
  PROVE  Front \in Nat /\ Front <= Recorded(medium)
<1>1. /\ Blocks[medium] \in Nat \ {0}
      /\ \A b \in 0..Blocks[medium] : Edge[medium][b] \in Nat
      /\ \A b, c \in 0..Blocks[medium] : b <= c => Edge[medium][b] <= Edge[medium][c]
  BY Layout DEF TypeOK
<1>2. CASE block = None
  <2>1. head \in 0..Blocks[medium] /\ Blocks[medium] \in 0..Blocks[medium]
    BY <1>1 DEF TypeOK
  <2>2. QED
    BY <1>1, <1>2, <2>1 DEF Front, Recorded
<1>3. CASE block # None
  <2>1. block \in 0..Blocks[medium] /\ block + 1 \in 0..Blocks[medium]
    BY <1>1, <1>3 DEF TypeOK
  <2>2. off \in Nat /\ off <= Edge[medium][block + 1] - Edge[medium][block]
    BY <1>3, BufferedIsNat DEF TypeOK, Buffered, BlockLen
  <2>3. Edge[medium][block + 1] <= Edge[medium][Blocks[medium]]
    BY <1>1, <2>1
  <2>4. QED
    BY <1>1, <1>3, <2>1, <2>2, <2>3 DEF Front, Recorded
<1>4. QED
  BY <1>2, <1>3

(* A chunk of the read-ahead: its bytes are the ones at the position it is *)
(* accounted at, and the rest continues it.                                *)
LEMMA PeekChunk ==
  ASSUME TypeOK, NEW a \in Int, peek = Run(a, Len(peek)),
         NEW k \in Nat, k = Least(need, Len(peek))
  PROVE  /\ SubSeq(peek, 1, k) = Run(a, k)
         /\ SubSeq(peek, k + 1, Len(peek)) = Run(a + k, Len(peek) - k)
         /\ Len(SubSeq(peek, k + 1, Len(peek))) = Len(peek) - k
         /\ k <= Len(peek)
<1>1. Len(peek) \in Nat /\ k \in 0..Len(peek)
  BY LenProperties DEF TypeOK, Least
<1> DEFINE n == Len(peek)
<1>2. SubSeq(Run(a, n), 1, k) = Run(a, k) /\ SubSeq(Run(a, n), k + 1, n) = Run(a + k, n - k)
  BY <1>1, RunCut
<1>3. Len(Run(a + k, n - k)) = n - k
  <2>1. a + k \in Int /\ n - k \in Nat
    BY <1>1
  <2>2. QED
    BY <2>1, RunIsSeq
<1>4. QED
  BY <1>1, <1>2, <1>3

(* The steps of the reading regime preserve ReadInv. *)
LEMMA ReadInvStep ==
  ASSUME ReadsOnly, TypeOK, TypeOK', ReadInv, [Next]_vars
  PROVE  ReadInv'
<1>a. /\ Blocks[medium] \in Nat \ {0}
      /\ \A b \in 0..Blocks[medium] : Edge[medium][b] \in Nat
  BY Layout DEF TypeOK
<1>b. Here \in Int /\ Len(peek) \in Nat /\ Len(hdr) \in Nat
  BY LenProperties DEF TypeOK, Here
<1>c. /\ Len(<<>>) = 0 /\ \A a \in Int : Run(a, 0) = <<>>
  BY EmptySeq, EmptyRun
<1>d. Here' \in Int
  <2>1. base' \in Int /\ abspos' \in Int
    BY DEF TypeOK
  <2>2. QED
    BY <2>1 DEF Here
<1>e. need \in Nat /\ ProbeSize \in Nat
  BY BlockAssumption DEF TypeOK
<1>1. ASSUME NEW n \in 1..MaxAsk, StartRead(n) PROVE ReadInv'
  BY <1>1
  DEF StartRead, Ready, ReadInv, Here, InHand, Front, tapeVars, bufVars
<1>2. CASE StartHeader
  BY <1>2
  DEF StartHeader, Ready, ReadInv, Here, InHand, Front, tapeVars, bufVars
<1>3. CASE EndHeader
  BY <1>3 DEF EndHeader, ReadInv, Here, InHand, Front, tapeVars, bufVars
<1>4. CASE StartProbe
  BY <1>4, <1>b, <1>c, <1>e
  DEF StartProbe, Ready, ReadInv, Here, InHand, Front, tapeVars, bufVars
<1>5. CASE DrainPeek
  <2> DEFINE k == Least(need, Len(peek))
  <2>1. /\ Reading /\ Consume(k, SubSeq(peek, 1, k))
        /\ peek' = SubSeq(peek, k + 1, Len(peek))
        /\ UNCHANGED <<tapeVars, bufVars, pbaVars>>
    BY <1>5 DEF DrainPeek
  <2>2. k \in Nat /\ k = Least(need, Len(peek))
    BY <1>b, <1>e DEF Least
  <2> HIDE DEF k
  <2>3. /\ op \in {"read", "header", "probe"} /\ op' \notin {"skip", "discard", "ended"}
        /\ Front' = Front /\ block' = block /\ head' = head
    BY <2>1
    DEF Reading, Consume, ReadInv, Front, tapeVars, bufVars
  <2>4. CASE op = "probe"
    <3> DEFINE a == Here + Len(hdr)
    <3>1. a \in Int /\ peek = Run(a, Len(peek))
      BY <1>b, <2>4 DEF ReadInv
    <3>2. /\ hdr' = hdr \o Run(a, k) /\ peek' = Run(a + k, Len(peek) - k)
          /\ Len(peek') = Len(peek) - k /\ Here' = Here /\ op' = "probe"
          /\ k <= Len(peek)
      <4> HIDE DEF a
      <4>1. QED
        BY <2>1, <2>2, <2>4, <3>1, PeekChunk DEF Consume, Here
    <3>3. hdr' = Run(Here, Len(hdr) + k)
      <4>1. hdr = Run(Here, Len(hdr))
        BY <2>4 DEF ReadInv
      <4>2. QED
        BY ZenonT(30), <1>b, <2>2, <3>2, <4>1, RunJoin
    <3>4. Len(hdr') = Len(hdr) + k
      <4>1. Len(hdr) + k \in Nat
        BY <1>b, <2>2
      <4>2. QED
        BY <1>b, <3>3, <4>1, RunIsSeq
    <3>5. need' = need - k
      BY <2>1 DEF Consume
    <3>6. /\ hdr' = Run(Here', Len(hdr'))
          /\ peek' = Run(Here' + Len(hdr'), Len(peek'))
      <4>1. Here' = Here /\ Len(peek') = Len(peek) - k
        BY <3>2
      <4>2. Here' + Len(hdr') = a + k
        BY <1>b, <2>2, <3>4, <4>1
      <4>3. QED
        BY <3>2, <3>3, <3>4, <4>1, <4>2
    <3>7. Here' + Len(hdr') + Len(peek') = Front'
      BY SMTT(30), <1>b, <2>2, <2>3, <2>4, <3>2, <3>4 DEF ReadInv, InHand
    <3>8. /\ Len(peek') <= need' /\ Len(hdr') + need' = ProbeSize
          /\ Len(peek') <= ProbeSize
      <4>1. /\ Len(peek) <= need /\ Len(hdr) + need = ProbeSize
            /\ Len(peek) <= ProbeSize
        BY <2>4 DEF ReadInv
      <4>2. Len(peek') = Len(peek) - k
        BY <3>2
      <4>3. QED
        BY <1>b, <1>e, <2>2, <3>4, <3>5, <4>1, <4>2
    <3>9. Here' + InHand' = Front'
      BY <1>b, <1>d, <2>2, <3>2, <3>4, <3>7 DEF InHand
    <3>10. QED
      BY <2>3, <3>2, <3>6, <3>8, <3>9 DEF ReadInv
  <2>5. CASE op # "probe"
    <3>1. peek = Run(Here, Len(peek)) /\ op' # "probe"
      BY <2>1, <2>3, <2>5 DEF ReadInv, Consume
    <3>2. /\ peek' = Run(Here + k, Len(peek) - k)
          /\ Len(peek') = Len(peek) - k /\ k <= Len(peek)
      BY <1>b, <2>1, <2>2, <3>1, PeekChunk
    <3>3. Here' = Here + k
      <4>1. abspos' = abspos + k /\ base' = base
        BY <2>1, <2>5 DEF Consume
      <4>2. base \in Int /\ abspos \in Int
        BY DEF TypeOK
      <4>3. QED
        BY <2>2, <4>1, <4>2 DEF Here
    <3>4. Here + InHand = Front
      BY <2>3 DEF ReadInv
    <3>5. QED
      BY <1>b, <1>e, <2>2, <2>3, <2>5, <3>1, <3>2, <3>3, <3>4
      DEF ReadInv, InHand
  <2>6. QED
    BY <2>4, <2>5
<1>6. CASE DrainBlock
  <2> DEFINE k == Least(need, Buffered - off)
  <2>1. /\ Reading /\ peek = <<>> /\ off < Buffered
        /\ Consume(k, Run(Edge[medium][block] + off, k)) /\ off' = off + k
        /\ UNCHANGED <<tapeVars, block, physSize, pendingErr, pbaVars, peek>>
    BY <1>6 DEF DrainBlock
  <2>2. k \in Nat /\ off \in Nat /\ k <= need
    <3>1. Buffered \in Nat
      BY BufferedIsNat
    <3>2. off \in Nat
      BY <3>1 DEF TypeOK
    <3>3. QED
      BY <1>e, <2>1, <3>1, <3>2 DEF Least
  <2> HIDE DEF k
  <2>3. block # None /\ block \in 0..Blocks[medium]
    <3>1. block # None
      BY <2>1, <2>2 DEF Buffered
    <3>2. block \in 0..(Blocks[medium] - 1)
      BY <3>1 DEF TypeOK
    <3>3. Blocks[medium] \in Int
      BY <1>a
    <3>4. QED
      BY <3>1, <3>2, <3>3
  <2>4. /\ op \in {"read", "header", "probe"} /\ op' \notin {"skip", "discard", "ended"}
        /\ block' = block /\ head' = head /\ medium' = medium /\ peek' = <<>>
    BY <2>1 DEF Reading, Consume, ReadInv, tapeVars
  <2>5. Front' = Front + k /\ Front = Edge[medium][block] + off /\ Front \in Int
    BY <1>a, <2>1, <2>2, <2>3, <2>4 DEF Front
  <2>6. CASE op = "probe"
    <3>1. /\ Front = Here + Len(hdr) /\ hdr = Run(Here, Len(hdr))
      BY <1>b, <1>c, <2>1, <2>6 DEF ReadInv, InHand
    <3>2. /\ hdr' = hdr \o Run(Front, k) /\ Here' = Here /\ op' = "probe"
      BY <2>1, <2>5, <2>6 DEF Consume, Here
    <3>3. hdr' = Run(Here, Len(hdr) + k)
      BY ZenonT(30), <1>b, <2>2, <3>1, <3>2, RunJoin
    <3>4. Len(hdr') = Len(hdr) + k
      <4>1. Len(hdr) + k \in Nat
        BY <1>b, <2>2
      <4>2. QED
        BY <1>b, <3>3, <4>1, RunIsSeq
    <3>5. peek' = Run(Here' + Len(hdr'), Len(peek')) /\ Len(peek') = 0
      BY <1>b, <1>c, <2>2, <2>4, <3>2, <3>4
    <3>6. need' = need - k
      BY <2>1 DEF Consume
    <3>7. Here' + InHand' = Front'
      <4>1. Here' = Here /\ op' = "probe"
        BY <3>2
      <4>2. InHand' = Len(hdr) + k
        BY <1>b, <2>2, <3>4, <3>5, <4>1 DEF InHand
      <4>3. QED
        BY <1>b, <2>2, <2>5, <3>1, <4>1, <4>2
    <3>8. /\ Len(peek') <= need' /\ Len(hdr') + need' = ProbeSize
          /\ Len(peek') <= ProbeSize
      BY <1>b, <1>e, <2>2, <2>6, <3>4, <3>5, <3>6 DEF ReadInv
    <3>9. QED
      BY <2>3, <2>4, <3>2, <3>3, <3>4, <3>5, <3>7, <3>8 DEF ReadInv
  <2>7. CASE op # "probe"
    <3>1. Front = Here /\ op' # "probe"
      BY <1>b, <1>c, <2>1, <2>4, <2>7 DEF ReadInv, InHand, Consume
    <3>2. Here' = Here + k
      <4>1. abspos' = abspos + k /\ base' = base
        BY <2>1, <2>7 DEF Consume
      <4>2. base \in Int /\ abspos \in Int
        BY DEF TypeOK
      <4>3. QED
        BY <2>2, <4>1, <4>2 DEF Here
    <3>3. peek' = Run(Here', Len(peek')) /\ Len(peek') = 0
      BY <1>b, <1>c, <1>d, <2>4
    <3>4. QED
      BY <1>b, <1>e, <2>2, <2>3, <2>4, <2>5, <2>7, <3>1, <3>2, <3>3
      DEF ReadInv, InHand
  <2>8. QED
    BY <2>6, <2>7
<1>7. CASE FillBlock
  <2>1. Front = Edge[medium][head]
    BY <1>7, DrainedFront DEF FillBlock, MustFill, ReadInv
  <2>2. head \in 0..Blocks[medium] /\ head # None
    BY <1>a DEF TypeOK, None
  <2>3. Front' = Edge[medium][head]
    BY <1>7, <1>a, <2>2 DEF FillBlock, Front
  <2>4. QED
    BY <1>7, <2>1, <2>3
    DEF FillBlock, MustFill, ReadInv, Here, InHand, callVars
<1>8. ASSUME NEW e \in Errors, Surface(e), Reading, peek = <<>>,
             UNCHANGED <<head, bufVars>>
      PROVE  ReadInv'
  <2>1. /\ op' = "idle" /\ Here' = Here /\ Front' = Front
        /\ block' = block /\ head' = head /\ op \in {"read", "header", "probe"}
        /\ peek' = IF op = "probe" THEN hdr ELSE peek
    BY <1>8 DEF Surface, Reading, ReadInv, Here, Front, bufVars
  <2>2. CASE op = "probe"
    BY <1>b, <1>c, <1>e, <1>8, <2>1, <2>2 DEF ReadInv, InHand
  <2>3. CASE op # "probe"
    BY <1>b, <1>c, <1>e, <1>8, <2>1, <2>3 DEF ReadInv, InHand
  <2>4. QED
    BY <2>2, <2>3
<1>9. CASE ReadFails
  <2>1. \E e \in Errors : Surface(e)
    BY <1>9 DEF ReadFails, Errors
  <2>2. Reading /\ peek = <<>> /\ UNCHANGED <<head, bufVars>>
    BY <1>9 DEF ReadFails, MustFill
  <2>3. QED
    BY <1>8, <2>1, <2>2
<1>10. CASE PendingFails
  BY <1>8, <1>10 DEF PendingFails, TypeOK, tapeVars
<1>11. ASSUME NEW b \in 0..(Blocks[medium] - 1), Jump(b) PROVE ReadInv'
  <2>1. b \in 0..Blocks[medium] /\ Edge[medium][b] \in Nat
    BY <1>a
  <2>2. /\ op' = "idle" /\ block' = None /\ peek' = <<>> /\ medium' = medium
        /\ head' = b /\ Here' = Edge[medium][b]
    BY <1>11, <2>1 DEF Jump, Here, callVars
  <2>3. QED
    BY <1>c, <1>e, <2>1, <2>2 DEF ReadInv, InHand, Front
<1>12. ASSUME SwitchMedium, op' \in {"header", "read"} PROVE ReadInv'
  <2>1. Edge[medium'][0] = 0
    BY Layout DEF TypeOK
  <2>2. Here' = 0 /\ block' = None /\ peek' = <<>> /\ head' = 0
    BY <1>12 DEF SwitchMedium, Here
  <2>3. QED
    BY <1>c, <1>e, <1>12, <2>1, <2>2 DEF ReadInv, InHand, Front
<1>13. CASE EndProbe
  <2>1. CASE SwitchMedium /\ op' = "read"
    BY <2>1, <1>12
  <2>2. CASE ~(SwitchMedium /\ op' = "read")
    <3>1. op = "probe" /\ need = 0 /\ medium' = medium /\ Here' = Here
      BY <1>13, <2>2 DEF EndProbe, Here
    <3>2. CASE op' = "ended"
      BY <1>13, <2>2, <3>1, <3>2 DEF EndProbe, ReadInv, tapeVars, bufVars
    <3>3. CASE op' # "ended"
      <4>1. /\ op' = "idle" /\ peek' = hdr /\ Front' = Front
            /\ block' = block /\ head' = head
        BY <1>13, <2>2, <3>3 DEF EndProbe, Front, tapeVars, bufVars
      <4>2. /\ Here + Len(hdr) = Front /\ hdr = Run(Here, Len(hdr))
            /\ Len(hdr) = ProbeSize
        BY <1>b, <1>e, <3>1 DEF ReadInv, InHand
      <4>3. QED
        BY <1>e, <3>1, <4>1, <4>2 DEF ReadInv, InHand
    <3>4. QED
      BY <3>2, <3>3
  <2>3. QED
    BY <2>1, <2>2
<1>14. CASE UNCHANGED vars
  BY <1>14
  DEF vars, ReadInv, Here, InHand, Front, tapeVars, bufVars, callVars
<1>15. QED
  BY <1>1, <1>2, <1>3, <1>4, <1>5, <1>6, <1>7, <1>9, <1>10, <1>11, <1>12,
     <1>13, <1>14 DEF Next, Skip, SwitchBetween, ReadsOnly

(* ReadInv holds initially. *)
LEMMA ReadInvInit == ASSUME Init PROVE ReadInv
<1>1. Edge[medium][0] = 0 /\ ProbeSize \in Nat
  BY BlockAssumption, Layout DEF Init
<1>2. Len(<<>>) = 0 /\ Run(0, 0) = <<>>
  BY EmptySeq, EmptyRun
<1>3. Here = 0 /\ Front = 0 /\ InHand = 0
  BY <1>1, <1>2 DEF Init, Here, Front, InHand
<1>4. QED
  BY <1>1, <1>2, <1>3 DEF Init, ReadInv

(* ReadInv is an invariant of reading. *)
LEMMA ReadInvariant == ASSUME ReadsOnly PROVE Spec => []ReadInv
<1>1. Init => ReadInv
  BY ReadInvInit
<1>2. TypeOK /\ TypeOK' /\ ReadInv /\ [Next]_vars => ReadInv'
  BY ReadInvStep
<1>3. QED
  BY <1>1, <1>2, TypeCorrect, PTL DEF Spec

(* A reader that skips nothing accounts for every byte it takes off the    *)
(* tape, through probes, errors, filemarks, jumps and medium switches.     *)
THEOREM ReadingAccounted == ASSUME ReadsOnly PROVE Spec => []PositionAccounted
<1>1. ReadInv => PositionAccounted
  BY DEF ReadInv, PositionAccounted
<1>2. QED
  BY <1>1, ReadInvariant, PTL

(* The probe never loses, repeats or reorders a byte of the file's data.   *)
THEOREM ReadingExact == ASSUME ReadsOnly PROVE Spec => []PeekExact
<1>1. TypeOK /\ ReadInv => PeekExact
  <2> SUFFICES ASSUME TypeOK, ReadInv PROVE PeekExact
    OBVIOUS
  <2>1. ASSUME op = "probe" PROVE hdr \o peek = Run(Here, Len(hdr) + Len(peek))
    <3>1. Here \in Int /\ Len(hdr) \in Nat /\ Len(peek) \in Nat
      BY LenProperties DEF TypeOK, Here
    <3>2. hdr = Run(Here, Len(hdr)) /\ peek = Run(Here + Len(hdr), Len(peek))
      BY <2>1 DEF ReadInv
    <3>3. QED
      BY <3>1, <3>2, RunJoin
  <2>2. QED
    BY <2>1 DEF ReadInv, PeekExact
<1>2. QED
  BY <1>1, ReadInvariant, TypeCorrect, PTL

-----------------------------------------------------------------------------
(* Refinement. *)

(* A reading step that does not move the position delivers nothing. *)
LEMMA Standstill ==
  ASSUME Reached \in Int, Reached' = Reached, out' = <<>>, medium' = medium
  PROVE  BS!Next
<1>1. BS!Advance
  BY DEF BS!Advance
<1>2. QED
  BY <1>1 DEF BS!Next

(* A step that hands over the k bytes at the position is a Deliver. *)
LEMMA Delivery ==
  ASSUME TypeOK, NEW k \in Nat \ {0}, Reached + k <= Recorded(medium),
         Recorded(medium) \in Nat, Reached \in Int,
         out' = Run(Reached, k), Reached' = Reached + k, medium' = medium
  PROVE  BS!Next
<1>1. k \in 1..([m \in 1..Media |-> Recorded(m)][medium] - Reached)
  BY DEF TypeOK
<1>2. out' = BS!Run(Reached, k)
  BY DEF Run, BS!Run
<1>3. BS!Deliver
  BY <1>1, <1>2 DEF BS!Deliver
<1>4. QED
  BY <1>3 DEF BS!Next

(* A reader that skips nothing delivers the bytes of each medium in order  *)
(* and each once, from where a caller's SeekToBlock put the tape.          *)
THEOREM ReadingImplements ==
  ASSUME ReadsOnly
  PROVE  Spec => ImplementsByteStream
<1>1. Init => BS!Init
  BY DEF Init, BS!Init, Here, Reached
<1>2. TypeOK /\ TypeOK' /\ ReadInv /\ [Next]_vars => [BS!Next]_(BS!vars)
  <2> SUFFICES ASSUME TypeOK, TypeOK', ReadInv, [Next]_vars
               PROVE  BS!Next \/ UNCHANGED BS!vars
    OBVIOUS
  <2>a. /\ Here \in Int /\ Front \in Nat /\ Front <= Recorded(medium)
        /\ Recorded(medium) \in Nat /\ Len(peek) \in Nat /\ need \in Nat
    <3>1. Here \in Int /\ Len(peek) \in Nat /\ need \in Nat
      BY LenProperties DEF TypeOK, Here
    <3>2. Recorded(medium) \in Nat
      <4>1. Blocks[medium] \in 0..Blocks[medium]
        <5>1. Blocks[medium] \in Nat \ {0}
          BY Layout DEF TypeOK
        <5>2. QED
          BY <5>1
      <4>2. QED
        BY <4>1, Layout DEF TypeOK, Recorded
    <3>3. QED
      BY <3>1, <3>2, FrontRecorded
  <2>c. Reached = Here /\ Reached' = Here'
    BY ReadInvStep DEF ReadInv, Reached
  <2>b. Len(<<>>) = 0 /\ \A s \in Seq(Int) : s # <<>> => Len(s) \in Nat \ {0}
    BY EmptySeq
  <2>1. CASE \/ \E n \in 1..MaxAsk : StartRead(n)
             \/ StartHeader \/ EndHeader \/ StartProbe \/ FillBlock
             \/ ReadFails \/ PendingFails
    <3>1. Here' = Here /\ out' = <<>> /\ medium' = medium
      BY <2>1
      DEF StartRead, StartHeader, EndHeader, StartProbe, FillBlock, ReadFails,
          PendingFails, Surface, Here
    <3>2. QED
      BY <2>c, <2>a, <3>1, Standstill
  <2>2. CASE DrainPeek
    <3> DEFINE k == Least(need, Len(peek))
    <3>1. /\ Reading /\ peek # <<>> /\ Consume(k, SubSeq(peek, 1, k))
          /\ UNCHANGED <<tapeVars, bufVars, pbaVars>>
      BY <2>2 DEF DrainPeek
    <3>2. k \in Nat \ {0} /\ k <= Len(peek) /\ k = Least(need, Len(peek))
      BY <2>a, <2>b, <3>1 DEF Least, Reading, TypeOK
    <3> HIDE DEF k
    <3>3. medium' = medium /\ op \in {"read", "header", "probe"}
      BY <3>1 DEF Consume, Reading, ReadInv
    <3>4. CASE op = "probe"
      <4>1. Here' = Here /\ out' = <<>>
        BY <3>1, <3>4 DEF Consume, Here
      <4>2. QED
        BY <2>c, <2>a, <3>3, <4>1, Standstill
    <3>5. CASE op # "probe"
      <4>1. peek = Run(Here, Len(peek)) /\ Here + Len(peek) = Front
        BY <2>a, <3>3, <3>5 DEF ReadInv, InHand
      <4>2. SubSeq(peek, 1, k) = Run(Here, k)
        BY <2>a, <3>2, <4>1, PeekChunk
      <4>3. out' = Run(Here, k) /\ abspos' = abspos + k /\ base' = base
        BY <3>1, <3>3, <3>5, <4>2 DEF Consume
      <4>4. Here' = Here + k
        <5>1. base \in Int /\ abspos \in Int
          BY DEF TypeOK
        <5>2. QED
          BY <3>2, <4>3, <5>1 DEF Here
      <4>5. Here + k <= Recorded(medium)
        BY <2>a, <3>2, <4>1
      <4>6. /\ Reached + k <= Recorded(medium) /\ out' = Run(Reached, k)
            /\ Reached' = Reached + k /\ Reached \in Int
        BY <2>c, <2>a, <4>3, <4>4, <4>5
      <4>7. QED
        BY <2>a, <3>2, <3>3, <4>6, Delivery
    <3>6. QED
      BY <3>4, <3>5
  <2>3. CASE DrainBlock
    <3> DEFINE k == Least(need, Buffered - off)
    <3>1. /\ Reading /\ peek = <<>> /\ off < Buffered
          /\ Consume(k, Run(Edge[medium][block] + off, k)) /\ off' = off + k
          /\ UNCHANGED <<tapeVars, block, peek>>
      BY <2>3 DEF DrainBlock
    <3>2. k \in Nat \ {0}
      <4>1. Buffered \in Nat
        BY BufferedIsNat
      <4>2. off \in Nat
        BY <4>1 DEF TypeOK
      <4>3. QED
        BY <2>a, <3>1, <4>1, <4>2 DEF Least, Reading
    <3>2a. k = Least(need, Buffered - off)
      OBVIOUS
    <3> HIDE DEF k
    <3>3. medium' = medium /\ op \in {"read", "header", "probe"}
      BY <3>1 DEF Consume, Reading, ReadInv
    <3>4. CASE op = "probe"
      <4>1. Here' = Here /\ out' = <<>>
        BY <3>1, <3>4 DEF Consume, Here
      <4>2. QED
        BY <2>c, <2>a, <3>3, <4>1, Standstill
    <3>5. CASE op # "probe"
      <4>1. block # None
        <5>1. off \in Nat
          BY BufferedIsNat DEF TypeOK
        <5>2. QED
          BY <3>1, <5>1 DEF Buffered
      <4>2. Here = Front /\ Front = Edge[medium][block] + off
        BY <2>a, <2>b, <3>1, <3>3, <3>5, <4>1 DEF ReadInv, InHand, Front
      <4>3. out' = Run(Here, k) /\ abspos' = abspos + k /\ base' = base
        BY <3>1, <3>3, <3>5, <4>2 DEF Consume
      <4>4. Here' = Here + k
        <5>1. base \in Int /\ abspos \in Int
          BY DEF TypeOK
        <5>2. QED
          BY <3>2, <4>3, <5>1 DEF Here
      <4>5. Here + k <= Recorded(medium)
        <5>1. off \in Nat /\ Buffered = BlockLen(medium, block)
          BY <4>1, BufferedIsNat DEF TypeOK, Buffered
        <5>2. Buffered \in Nat /\ k <= Buffered - off
          BY <2>a, <3>2a, <5>1, BufferedIsNat DEF Least
        <5>3. /\ Edge[medium][block] \in Nat /\ Edge[medium][block + 1] \in Nat
              /\ Edge[medium][block + 1] <= Recorded(medium)
          BY <4>1, BlockEnd
        <5>4. Buffered = Edge[medium][block + 1] - Edge[medium][block]
          BY <5>1 DEF BlockLen
        <5>5. k <= Edge[medium][block + 1] - Edge[medium][block] - off
          BY <5>2, <5>4
        <5>6. Here = Edge[medium][block] + off
          BY <4>2
        <5>7. off \in Nat /\ k \in Nat
          BY <3>2, <5>1
        <5>8. ASSUME NEW e \in Nat, NEW f \in Nat, NEW r \in Nat,
                     k <= f - e - off, Here = e + off, f <= r
              PROVE  Here + k <= r
          BY <5>7, <5>8
        <5>9. QED
          BY <2>a, <5>3, <5>5, <5>6, <5>8
      <4>6. /\ Reached + k <= Recorded(medium) /\ out' = Run(Reached, k)
            /\ Reached' = Reached + k /\ Reached \in Int
        BY <2>c, <2>a, <4>3, <4>4, <4>5
      <4>7. QED
        BY <2>a, <3>2, <3>3, <4>6, Delivery
    <3>6. QED
      BY <3>4, <3>5
  <2>4. ASSUME SwitchMedium PROVE BS!Next
    <3>1. BS!Load
      BY <2>4, <2>c DEF SwitchMedium, BS!Load, Here
    <3>2. QED
      BY <3>1 DEF BS!Next
  <2>5. CASE EndProbe
    <3>1. CASE SwitchMedium
      BY <2>4, <3>1
    <3>2. CASE ~SwitchMedium
      <4>1. Here' = Here /\ out' = <<>> /\ medium' = medium
        BY <2>5, <3>2 DEF EndProbe, Here
      <4>2. QED
        BY <2>c, <2>a, <4>1, Standstill
    <3>3. QED
      BY <3>1, <3>2
  <2>6. CASE UNCHANGED vars
    BY <2>6, <2>c DEF vars, BS!vars, Here
  <2>7. ASSUME NEW b \in 0..(Blocks[medium] - 1), Jump(b) PROVE BS!Next
    <3>1. Edge[medium][b] \in Starts(medium) /\ Edge[medium][b] \in Nat
      <4>1. medium \in 1..Media /\ Blocks[medium] \in Nat \ {0}
        BY Layout DEF TypeOK
      <4>2. b \in 0..Blocks[medium]
        BY <4>1
      <4>3. Edge[medium] \in [0..Blocks[medium] -> Nat]
        BY <4>1, BlockAssumption
      <4>4. QED
        BY <4>2, <4>3 DEF Starts
    <3>2. Here' = Edge[medium][b]
      <4>1. base' = Edge[medium][b] /\ abspos' = 0
        BY <2>7 DEF Jump
      <4>2. QED
        BY <3>1, <4>1 DEF Here
    <3>3. "jump" \in Ops /\ medium' = medium /\ out' = <<>>
      BY <2>7 DEF Jump
    <3>4. BS!Place
      BY <2>c, <3>1, <3>2, <3>3 DEF BS!Place, TypeOK
    <3>5. QED
      BY <3>4 DEF BS!Next
  <2>8. QED
    BY <2>1, <2>2, <2>3, <2>4, <2>5, <2>6, <2>7
    DEF Next, Skip, SwitchBetween, ReadsOnly
<1>3. QED
  BY <1>1, <1>2, ReadInvariant, TypeCorrect, PTL
  DEF Spec, ImplementsByteStream, BS!Spec

-----------------------------------------------------------------------------
(***************************************************************************)
(* Skips that seek: positions, the anchor of the data set and the byte     *)
(* stream, for media of every number and length whose blocks all have one  *)
(* size, as tapes in fixed block mode have.                                *)
(***************************************************************************)

(* Blocks of one size, the last of a medium maybe shorter: what the        *)
(* arithmetic of seekToByte takes for granted.                             *)
EqualBlocks ==
  \A m \in 1..Media :
    /\ \A b \in 0..(Blocks[m] - 1) : Edge[m][b] = b * Edge[m][1]
    /\ Recorded(m) <= Blocks[m] * Edge[m][1]

(* Tapes and callers for which seeking is exact.  Without a continuation   *)
(* callback there are no probes.                                           *)
SeekingTape == CountableTape /\ EqualBlocks /\ "probe" \notin Ops

-----------------------------------------------------------------------------
(* The arithmetic of a seek. *)

(* What EqualBlocks says of one medium. *)
LEMMA EqualEdges ==
  ASSUME EqualBlocks, NEW m \in 1..Media
  PROVE  /\ Edge[m][1] \in Nat \ {0}
         /\ \A b \in 0..(Blocks[m] - 1) : Edge[m][b] = b * Edge[m][1]
         /\ Recorded(m) \in Nat /\ Recorded(m) <= Blocks[m] * Edge[m][1]
         /\ BlockLen(m, 0) = Edge[m][1]
<1>1. /\ Blocks[m] \in Nat \ {0} /\ Edge[m][0] = 0
      /\ \A b \in 0..Blocks[m] : Edge[m][b] \in Nat
      /\ BlockLen(m, 0) \in Nat \ {0}
  BY Layout
<1>2. 1 \in 0..Blocks[m] /\ Blocks[m] \in 0..Blocks[m]
  BY <1>1
<1>3. BlockLen(m, 0) = Edge[m][1]
  BY <1>1, <1>2 DEF BlockLen
<1>4. QED
  BY <1>1, <1>2, <1>3 DEF EqualBlocks, Recorded

(* Division of a position by the block size is the number of the block the *)
(* position is in.                                                         *)
LEMMA QuotientFloor ==
  ASSUME NEW a \in Nat, NEW d \in Nat \ {0}
  PROVE  /\ Quotient(a, d) \in Nat
         /\ Quotient(a, d) * d <= a /\ a < Quotient(a, d) * d + d
  BY DEF Quotient

(* Multiples of the block size are ordered as their numbers.               *)
LEMMA MultipleOrder ==
  ASSUME NEW i \in Nat, NEW j \in Nat, NEW d \in Nat \ {0}
  PROVE  /\ i <= j => i * d <= j * d
         /\ i < j => i * d + d <= j * d
<1>1. ASSUME i <= j PROVE i * d <= j * d
  <2>1. j = i + (j - i) /\ j - i \in Nat
    BY <1>1
  <2>2. j * d = i * d + (j - i) * d
    BY <2>1
  <2>3. (j - i) * d \in Nat /\ i * d \in Nat
    BY <2>1
  <2>4. QED
    BY <2>2, <2>3
<1>2. ASSUME i < j PROVE i * d + d <= j * d
  <2>1. j = i + 1 + (j - i - 1) /\ j - i - 1 \in Nat
    BY <1>2
  <2>2. j * d = i * d + d + (j - i - 1) * d
    BY <2>1
  <2>3. (j - i - 1) * d \in Nat /\ i * d \in Nat
    BY <2>1
  <2>4. QED
    BY <2>2, <2>3
<1>3. QED
  BY <1>1, <1>2

(* The anchor, or the start of the medium where there is none, gives the   *)
(* block the target of a seek is in and the position of that block.        *)
LEMMA SeekFor ==
  ASSUME TypeOK, NEW t \in Nat, physSize > 0,
         ssetPBA >= 0 => ssetAbsPos = ssetPBA * physSize /\ ssetAbsPos <= t
  PROVE  /\ SeekBlockFor(t) \in Nat
         /\ SeekPos(SeekBlockFor(t)) = SeekBlockFor(t) * physSize
         /\ SeekBlockFor(t) * physSize <= t
         /\ t < SeekBlockFor(t) * physSize + physSize
<1>1. physSize \in Nat \ {0} /\ ssetPBA \in Int /\ ssetAbsPos \in Int
  BY DEF TypeOK
<1>2. CASE ssetPBA >= 0
  <2> DEFINE q == Quotient(t - ssetAbsPos, physSize)
  <2>1. t - ssetAbsPos \in Nat
    BY <1>1, <1>2
  <2>2. /\ q \in Nat /\ q * physSize <= t - ssetAbsPos
        /\ t - ssetAbsPos < q * physSize + physSize
    BY <1>1, <2>1, QuotientFloor
  <2>3. SeekBlockFor(t) = ssetPBA + q
    BY <1>2 DEF SeekBlockFor
  <2> HIDE DEF q
  <2>4. SeekPos(ssetPBA + q) = ssetAbsPos + q * physSize
    BY <1>1, <1>2, <2>2 DEF SeekPos
  <2>5. (ssetPBA + q) * physSize = ssetAbsPos + q * physSize
    BY <1>1, <1>2, <2>2
  <2>6. q * physSize \in Int /\ ssetPBA + q \in Nat
    BY <1>1, <1>2, <2>2
  <2>7. QED
    BY <1>1, <2>2, <2>3, <2>4, <2>5, <2>6
<1>3. CASE ~(ssetPBA >= 0)
  BY <1>1, <1>3, QuotientFloor DEF SeekBlockFor, SeekPos
<1>4. QED
  BY <1>2, <1>3

-----------------------------------------------------------------------------
(* The invariant of seeking. *)

(* What is known of the tape and the buffer. *)
TapeInv ==
  /\ block # None => head = block + 1
  /\ physSize \in {0, Edge[medium][1]}
  /\ physSize = 0 => block = None /\ head = 0
  /\ op \notin {"probe", "ended"} /\ peek = <<>> /\ base = 0

(* abspos is the place the tape has been read to, or a seek went beyond    *)
(* the recorded bytes.                                                     *)
Exact == Here = Front
Beyond == block = None /\ head = Blocks[medium] /\ Here >= Recorded(medium)
PositionInv ==
  /\ Exact \/ Beyond
  /\ op = "header" /\ need = 0 => block # None /\ Exact

(* A skip in progress leads to its target, unless the end of the medium    *)
(* stops it.                                                               *)
Skipping == op \in {"skip", "discard"}
SkipInv ==
  /\ Skipping => target - skipLen <= Recorded(medium)
  /\ Skipping /\ res # "eof" => abspos + need = target
  /\ op = "skip" /\ res # "eof" => need <= skipLen
  /\ op = "skip" /\ res = "eof" => Here >= Recorded(medium)

(* The anchor names a block of the medium and its position, and lies       *)
(* behind the Reader.  That of the medium before waits for the TAPE header *)
(* to void it.                                                             *)
Voiding == op = "header" /\ abspos + need = ProbeSize
Over == op = "idle" /\ res = "eof"
Anchored ==
  /\ ssetPBA < Blocks[medium]
  /\ ssetAbsPos = Edge[medium][ssetPBA]
  /\ ssetAbsPos <= abspos
AnchorInv == ssetPBA >= 0 => Voiding \/ Over \/ Anchored

SeekInv == TapeInv /\ PositionInv /\ SkipInv /\ AnchorInv

(* Numbers the step lemmas need.                                           *)
LEMMA SeekNumbers ==
  ASSUME EqualBlocks, TypeOK, TapeInv, PositionInv
  PROVE  /\ Here = abspos /\ abspos \in Nat /\ Front \in Nat
         /\ Recorded(medium) \in Nat /\ Front <= Recorded(medium)
         /\ Buffered \in Nat /\ off \in Nat /\ need \in Nat
         /\ Edge[medium][1] \in Nat \ {0} /\ ProbeSize \in Nat \ {0}
<1>1. Here = abspos
  BY DEF Here, TapeInv, TypeOK
<1>2. Front \in Nat /\ Front <= Recorded(medium)
  BY FrontRecorded
<1>3. Buffered \in Nat /\ off \in Nat
  BY BufferedIsNat DEF TypeOK
<1>4. Edge[medium][1] \in Nat \ {0} /\ Recorded(medium) \in Nat
  BY EqualEdges DEF TypeOK
<1>5. abspos \in Nat
  BY <1>1, <1>2, <1>4 DEF PositionInv, Exact, Beyond, TypeOK
<1>6. QED
  BY <1>1, <1>2, <1>3, <1>4, <1>5, BlockAssumption DEF TypeOK

(* The invariant holds initially.                                          *)
LEMMA SeekInvInit == ASSUME EqualBlocks, Init PROVE SeekInv
<1>1. Edge[medium][0] = 0 /\ Blocks[medium] \in Nat \ {0} /\ ProbeSize \in Nat \ {0}
  BY BlockAssumption, Layout DEF Init
<1>2. Here = 0 /\ Front = 0
  BY <1>1 DEF Init, Here, Front
<1>3. QED
  BY <1>1, <1>2
  DEF Init, SeekInv, TapeInv, PositionInv, Exact, SkipInv, Skipping, AnchorInv,
      Anchored, None

(* A call that only begins, or ends having its bytes, leaves the invariant.*)
LEMMA BeginStep ==
  ASSUME EqualBlocks, TypeOK, TypeOK', SeekInv,
         \/ \E n \in 1..MaxAsk : StartRead(n)
         \/ StartHeader
  PROVE  SeekInv'
<1>1. ProbeSize \in Nat \ {0} /\ MaxAsk \in Nat
  BY BlockAssumption
<1>2. /\ Ready /\ op' \in {"read", "header"} /\ need' > 0
      /\ UNCHANGED <<medium, tapeVars, bufVars, pbaVars, peek, abspos,
                     anchorVars, skipLen, target, base>>
  BY <1>1 DEF StartRead, StartHeader
<1>3. Front' = Front /\ Here' = Here /\ Recorded(medium') = Recorded(medium)
  BY <1>2 DEF Front, Here, tapeVars, bufVars, Recorded
<1>4. QED
  BY <1>2, <1>3
  DEF SeekInv, TapeInv, PositionInv, Exact, Beyond, SkipInv, Skipping, AnchorInv,
      Anchored, Voiding, Over, Ready, tapeVars, bufVars, anchorVars

(* A complete header voids the anchor, makes one of the buffered block, or *)
(* leaves it.                                                              *)
LEMMA EndHeaderStep ==
  ASSUME EqualBlocks, TypeOK, TypeOK', PBAInv, SeekInv, EndHeader
  PROVE  SeekInv'
<1>1. /\ op = "header" /\ need = 0 /\ op' = "idle"
      /\ UNCHANGED <<medium, tapeVars, bufVars, pbaVars, peek, abspos, need,
                     skipLen, target, res, base>>
  BY DEF EndHeader
<1>2. /\ Front' = Front /\ Here' = Here /\ Recorded(medium') = Recorded(medium)
      /\ Edge[medium'] = Edge[medium] /\ Blocks[medium'] = Blocks[medium]
  BY <1>1 DEF Front, Here, tapeVars, bufVars, Recorded
<1>3. TapeInv' /\ PositionInv' /\ SkipInv'
  BY <1>1, <1>2
  DEF SeekInv, TapeInv, PositionInv, Exact, Beyond, SkipInv, Skipping, tapeVars,
      bufVars
<1>4. AnchorInv'
  <2>1. CASE Here = ProbeSize
    BY <2>1, <1>2 DEF EndHeader, AnchorInv, None
  <2>2. CASE Here # ProbeSize /\ UNCHANGED anchorVars
    <3>1. ~Voiding /\ ~Over
      BY <1>1, <2>2, SeekNumbers DEF SeekInv, Voiding, Over
    <3>2. QED
      BY <1>1, <1>2, <2>2, <3>1 DEF SeekInv, AnchorInv, Anchored, anchorVars
  <2>3. CASE Here # ProbeSize /\ CaptureAnchor
    <3>1. block # None /\ Exact /\ res # "eof"
      BY <1>1 DEF SeekInv, PositionInv, PBAInv
    <3>2. /\ abspos = Edge[medium][block] + off
          /\ abspos \in Nat /\ off \in Nat
      BY <3>1, SeekNumbers DEF SeekInv, Exact, Front
    <3>3. curBlockPBA = block \/ curBlockPBA = None
      BY <3>1 DEF PBAInv
    <3>4. Edge[medium][block] \in Nat
      BY <3>1, BlockEnd
    <3>5. block < Blocks[medium]
      <4>1. Blocks[medium] \in Nat \ {0} /\ block \in 0..(Blocks[medium] - 1)
        BY <3>1, Layout DEF TypeOK
      <4>2. QED
        BY <4>1
    <3>6. ssetAbsPos' = Edge[medium][block] /\ ssetPBA' \in {block, None}
      BY <2>3, <3>2, <3>3, <3>4 DEF CaptureAnchor
    <3>7. QED
      BY <1>1, <1>2, <3>2, <3>4, <3>5, <3>6 DEF AnchorInv, Anchored, None
  <2>4. QED
    BY <2>1, <2>2, <2>3 DEF EndHeader
<1>5. QED
  BY <1>3, <1>4 DEF SeekInv

(* A chunk of the buffered block moves the position and the offset alike.  *)
LEMMA DrainStep ==
  ASSUME EqualBlocks, TypeOK, TypeOK', PBAInv, SeekInv, DrainBlock
  PROVE  /\ SeekInv'
         /\ block # None /\ Exact /\ medium' = medium
         /\ \E k \in Nat \ {0} :
              /\ k <= need /\ Here + k <= Recorded(medium)
              /\ Consume(k, Run(Here, k)) /\ Here' = Here + k
         /\ Skipping => res # "eof"
<1> DEFINE k == Least(need, Buffered - off)
<1>1. /\ Reading /\ off < Buffered
      /\ Consume(k, Run(Edge[medium][block] + off, k)) /\ off' = off + k
      /\ UNCHANGED <<tapeVars, block, physSize, pendingErr, peek>>
  BY DEF DrainBlock
<1>n. /\ Here = abspos /\ abspos \in Nat /\ Buffered \in Nat /\ off \in Nat
      /\ need \in Nat /\ ProbeSize \in Nat /\ Recorded(medium) \in Nat
  BY SeekNumbers DEF SeekInv
<1>2. /\ k \in Nat \ {0} /\ k <= need /\ off + k <= Buffered
  BY <1>1, <1>n DEF Least, Reading
<1> HIDE DEF k
<1>3. block # None
  BY <1>1, <1>n DEF Buffered
<1>4. /\ Exact /\ Here = Edge[medium][block] + off
  BY <1>3 DEF SeekInv, PositionInv, Exact, Beyond, Front
<1>5. Here + k <= Recorded(medium)
  <2>1. /\ Edge[medium][block] \in Nat /\ Edge[medium][block + 1] \in Nat
        /\ Edge[medium][block + 1] <= Recorded(medium)
    BY <1>3, BlockEnd
  <2>2. off + k <= Edge[medium][block + 1] - Edge[medium][block]
    BY <1>2, <1>3 DEF Buffered, BlockLen
  <2>3. QED
    BY <1>n, <1>2, <1>4, <2>1, <2>2
<1>6. /\ op # "probe" /\ abspos' = abspos + k /\ need' = need - k
      /\ UNCHANGED <<medium, anchorVars, skipLen, target, base>>
      /\ op' = IF op = "header" \/ k < need THEN op ELSE "idle"
      /\ res' = IF op \in {"skip", "discard"} /\ k = need THEN "ok" ELSE res
  BY <1>1, <1>2, <1>n DEF SeekInv, TapeInv, Consume
<1>7. Here' = Here + k
  BY <1>n, <1>2, <1>6 DEF Here, SeekInv, TapeInv
<1>8. Skipping => res # "eof"
  BY <1>1, <1>n DEF PBAInv, Skipping
<1>9. TapeInv'
  BY <1>1, <1>6 DEF SeekInv, TapeInv, tapeVars, Consume
<1>10. PositionInv'
  <2>1. Front' = Front + k
    BY <1>1, <1>2, <1>3, <1>4, <1>6, <1>n, BlockEnd DEF Front
  <2>2. Exact' /\ block' # None
    BY <1>1, <1>3, <1>4, <1>7, <2>1 DEF Exact
  <2>3. QED
    BY <2>2 DEF PositionInv
<1>11. SkipInv'
  <2>1. CASE op' = "idle"
    BY <2>1 DEF SkipInv, Skipping
  <2>2. CASE op' # "idle"
    <3>1. op' = op /\ (Skipping => res' = res /\ res # "eof")
      BY <1>2, <1>6, <1>8, <1>n, <2>2 DEF Skipping
    <3>2. Recorded(medium') = Recorded(medium)
      BY <1>6 DEF Recorded
    <3>3. Skipping => skipLen \in Nat /\ target \in Int
      BY DEF TypeOK
    <3>4. QED
      BY <1>2, <1>6, <1>n, <3>1, <3>2, <3>3 DEF SeekInv, SkipInv, Skipping
  <2>3. QED
    BY <2>1, <2>2
<1>12. AnchorInv'
  <2>1. CASE ssetPBA >= 0 /\ Voiding
    <3>1. Voiding'
      BY <1>2, <1>6, <1>n, <2>1 DEF Voiding
    <3>2. QED
      BY <3>1 DEF AnchorInv
  <2>2. CASE ssetPBA >= 0 /\ Anchored
    <3>1. ssetAbsPos \in Int
      BY DEF TypeOK
    <3>2. Anchored'
      BY <1>2, <1>6, <1>n, <2>2, <3>1 DEF Anchored, anchorVars
    <3>3. QED
      BY <3>2 DEF AnchorInv
  <2>3. ~Over
    BY <1>1 DEF Over, Reading
  <2>4. QED
    BY <1>6, <2>1, <2>2, <2>3 DEF SeekInv, AnchorInv, anchorVars
<1>13. QED
  BY <1>1, <1>2, <1>3, <1>4, <1>5, <1>6, <1>7, <1>8, <1>9, <1>10, <1>11, <1>12
  DEF SeekInv

(* A block taken off the tape adds nothing and takes nothing.              *)
LEMMA FillStep ==
  ASSUME CountableTape, EqualBlocks, TypeOK, TypeOK', PBAInv, SeekInv, FillBlock
  PROVE  SeekInv'
<1>1. /\ MustFill /\ head < Blocks[medium] /\ block' = head /\ off' = 0
      /\ physSize' = IF physSize = 0 THEN BlockLen(medium, head) ELSE physSize
      /\ head' = head + 1
      /\ UNCHANGED <<medium, peek, abspos, anchorVars, callVars, res, base>>
  BY DEF FillBlock
<1>2. Front = Edge[medium][head] /\ head \in Nat /\ head # None
  BY <1>1, DrainedFront, Layout DEF SeekInv, TapeInv, MustFill, TypeOK, None
<1>3. Front' = Edge[medium][head] /\ Here' = Here
  <2>1. Edge[medium][head] \in Nat
    BY Layout DEF TypeOK
  <2>2. QED
    BY <1>1, <1>2, <2>1 DEF Front, Here
<1>4. TapeInv'
  <2>1. physSize' = Edge[medium][1] /\ Edge[medium][1] \in Nat \ {0}
    BY <1>1, EqualEdges DEF SeekInv, TapeInv, TypeOK
  <2>2. QED
    BY <1>1, <2>1 DEF SeekInv, TapeInv, callVars
<1>5. PositionInv'
  <2>1. Exact /\ head # Blocks[medium]
    <3>1. Blocks[medium] \in Nat
      BY Layout DEF TypeOK
    <3>2. QED
      BY <1>1, <1>2, <3>1 DEF SeekInv, PositionInv, Beyond
  <2>2. need' > 0
    BY <1>1 DEF MustFill, Reading, callVars
  <2>3. QED
    BY <1>1, <1>2, <1>3, <2>1, <2>2 DEF PositionInv, Exact
<1>6. SkipInv' /\ AnchorInv'
  BY <1>1, <1>3
  DEF SeekInv, SkipInv, Skipping, AnchorInv, Voiding, Over, Anchored, Recorded,
      callVars, anchorVars
<1>7. QED
  BY <1>4, <1>5, <1>6 DEF SeekInv

(* The end of the medium ends a call, or makes a seek fall back to reading *)
(* - at the end, from where that reading cannot move.                      *)
LEMMA EndStep ==
  ASSUME CountableTape, EqualBlocks, TypeOK, TypeOK', PBAInv, SeekInv,
         ReadFails \/ PendingFails, Unfailed'
  PROVE  /\ SeekInv'
         /\ res' = "eof" /\ out' = <<>> /\ medium' = medium /\ Here' = Here
         /\ op' = "idle" => Here >= Recorded(medium)
         /\ op' \in {"idle", "skip"} /\ (op' = "skip" => op = "discard")
         /\ UNCHANGED <<target, skipLen, base>>
<1>1. /\ Reading /\ peek = <<>> /\ off >= Buffered /\ head = Blocks[medium]
      /\ Surface("eof") /\ UNCHANGED <<head, bufVars>>
  BY DEF ReadFails, PendingFails, MustFill, Surface, Unfailed, PBAInv, TypeOK,
         Errors, tapeVars
<1>2. /\ res' = "eof" /\ out' = <<>> /\ peek' = peek
      /\ IF op = "discard" THEN op' = "skip" /\ need' = skipLen
                           ELSE op' = "idle" /\ need' = 0
      /\ UNCHANGED <<medium, abspos, anchorVars, skipLen, target, base>>
  BY <1>1 DEF Surface, SeekInv, TapeInv
<1>3. Here' = Here /\ Front' = Front /\ Recorded(medium') = Recorded(medium)
  BY <1>1, <1>2 DEF Here, Front, Recorded, bufVars
<1>4. Here >= Recorded(medium)
  <2>1. Front = Recorded(medium)
    BY <1>1, DrainedFront DEF SeekInv, TapeInv, Recorded
  <2>2. QED
    BY <2>1, SeekNumbers DEF SeekInv, PositionInv, Exact, Beyond
<1>5. TapeInv' /\ PositionInv'
  BY <1>1, <1>2, <1>3 DEF SeekInv, TapeInv, PositionInv, Exact, Beyond, bufVars
<1>6. SkipInv'
  BY <1>2, <1>3, <1>4 DEF SeekInv, SkipInv, Skipping
<1>7. AnchorInv'
  <2>1. CASE op = "discard"
    BY <1>2, <2>1
    DEF SeekInv, AnchorInv, Voiding, Over, Anchored, anchorVars
  <2>2. CASE op # "discard"
    BY <1>2, <2>2 DEF AnchorInv, Over
  <2>3. QED
    BY <2>1, <2>2
<1>8. QED
  BY <1>2, <1>3, <1>4, <1>5, <1>6, <1>7 DEF SeekInv

(* Where a skip can start the anchor, if there is one, is good.            *)
LEMMA ReadyAnchor ==
  ASSUME EqualBlocks, TypeOK, SeekInv, Ready, ssetPBA >= 0
  PROVE  /\ Anchored /\ ssetPBA \in Nat /\ ssetAbsPos \in Nat
         /\ ssetAbsPos = ssetPBA * Edge[medium][1]
<1>1. Anchored
  BY DEF SeekInv, AnchorInv, Voiding, Over, Ready
<1>2. ssetPBA \in 0..(Blocks[medium] - 1) /\ ssetPBA \in 0..Blocks[medium]
  BY <1>1, Layout DEF Anchored, TypeOK
<1>3. Edge[medium][ssetPBA] = ssetPBA * Edge[medium][1]
  BY <1>2, EqualEdges DEF TypeOK
<1>4. Edge[medium][ssetPBA] \in Nat
  BY <1>2, Layout DEF TypeOK
<1>5. QED
  BY <1>1, <1>2, <1>3, <1>4 DEF Anchored

(* A skip within the buffered block moves the position and the offset.     *)
LEMMA SkipFastStep ==
  ASSUME EqualBlocks, TypeOK, TypeOK', SeekInv, Ready,
         NEW n \in Nat \ {0}, SkipFast(n)
  PROVE  SeekInv' /\ op' = "idle" /\ out' = <<>> /\ Here' = Here + n
<1>1. /\ off + n <= Buffered /\ off' = off + n /\ abspos' = abspos + n
      /\ op' = op /\ out' = <<>>
      /\ UNCHANGED <<medium, tapeVars, block, physSize, peek, anchorVars, base>>
  BY DEF SkipFast, InBuffer
<1>n. /\ Here = abspos /\ abspos \in Nat /\ off \in Nat /\ Buffered \in Nat
  BY SeekNumbers DEF SeekInv
<1>2. block # None
  BY <1>1, <1>n DEF Buffered
<1>3. Exact /\ Front = Edge[medium][block] + off /\ Edge[medium][block] \in Nat
  BY <1>2, BlockEnd DEF SeekInv, PositionInv, Beyond, Front
<1>4. Here' = Here + n /\ Front' = Front + n
  BY <1>1, <1>2, <1>3, <1>n DEF Front, Here, SeekInv, TapeInv
<1>5. op' = "idle"
  BY <1>1 DEF Ready
<1>6. TapeInv' /\ PositionInv' /\ SkipInv'
  BY <1>1, <1>3, <1>4, <1>5
  DEF SeekInv, TapeInv, PositionInv, Exact, SkipInv, Skipping, tapeVars
<1>7. AnchorInv'
  <2>1. CASE ssetPBA >= 0
    <3>1. Anchored /\ ssetAbsPos \in Nat
      BY <2>1, ReadyAnchor
    <3>2. Anchored'
      BY <1>1, <1>n, <3>1 DEF Anchored, anchorVars
    <3>3. QED
      BY <3>2 DEF AnchorInv
  <2>2. CASE ~(ssetPBA >= 0)
    BY <1>1, <2>2 DEF AnchorInv, anchorVars
  <2>3. QED
    BY <2>1, <2>2
<1>8. QED
  BY <1>1, <1>4, <1>5, <1>6, <1>7 DEF SeekInv

(* A seek puts the tape in front of the block the target is in and abspos  *)
(* at that block's position, or both at the end or beyond.                 *)
LEMMA SkipSeekStep ==
  ASSUME EqualBlocks, TypeOK, TypeOK', SeekInv, Ready, Here <= Recorded(medium),
         NEW n \in Nat \ {0}, SkipSeek(n)
  PROVE  /\ SeekInv' /\ out' = <<>>
         /\ \/ op' = "discard" /\ target' = abspos + n /\ skipLen' = n /\ base' = base
            \/ op' = "idle" /\ Here' = Here + n
<1> DEFINE t == abspos + n
<1> DEFINE b == SeekBlockFor(t)
<1> DEFINE s == SeekPos(b)
<1> DEFINE p == Edge[medium][1]
<1>1. /\ physSize > 0 /\ head' = Least(b, Blocks[medium])
      /\ block' = None /\ off' = 0 /\ peek' = <<>>
      /\ skipLen' = n /\ target' = t
      /\ IF s < t THEN op' = "discard" /\ need' = t - s /\ abspos' = s
                  ELSE UNCHANGED <<op, need>> /\ abspos' = t
      /\ res' = "ok" /\ out' = <<>>
      /\ UNCHANGED <<medium, physSize, anchorVars, base>>
  BY DEF SkipSeek
<1>n. /\ Here = abspos /\ abspos \in Nat /\ Recorded(medium) \in Nat
      /\ p \in Nat \ {0} /\ t \in Nat /\ physSize = p /\ base = 0
  BY <1>1, SeekNumbers DEF SeekInv, TapeInv
<1>a. ssetPBA >= 0 => /\ Anchored /\ ssetPBA \in Nat /\ ssetAbsPos \in Nat
                      /\ ssetAbsPos = ssetPBA * p /\ ssetAbsPos <= t
  BY <1>n, ReadyAnchor DEF Anchored
<1>2. b \in Nat /\ s = b * p /\ b * p <= t /\ t < b * p + p
  <2>1. t \in Nat /\ (ssetPBA >= 0 => ssetAbsPos = ssetPBA * physSize /\ ssetAbsPos <= t)
    BY <1>n, <1>a
  <2> HIDE DEF t
  <2>2. QED
    BY <1>1, <1>n, <2>1, SeekFor
<1>3. Blocks[medium] \in Nat \ {0}
  BY Layout DEF TypeOK
<1> HIDE DEF t, b, s, p
<1>4. s \in Nat /\ s <= t
  BY <1>2, <1>n
<1>5. /\ abspos' = s
      /\ \/ op' = "discard" /\ need' = t - s
         \/ op' = "idle" /\ s = t
  <2>1. t \in Nat
    BY <1>n
  <2>2. IF s < t THEN op' = "discard" /\ need' = t - s /\ abspos' = s
                 ELSE op' = "idle" /\ abspos' = t
    BY <1>1, Zenon DEF Ready
  <2>3. ~(s < t) => s = t
    BY <1>4, <2>1
  <2>4. QED
    BY <2>2, <2>3
<1>6. Here' = s
  BY <1>1, <1>4, <1>5, <1>n DEF Here
<1>7. Exact' \/ Beyond'
  <2>1. CASE b < Blocks[medium]
    <3>1. head' = b
      <4>1. head' = Least(b, Blocks[medium])
        BY <1>1
      <4>2. QED
        BY <1>2, <1>3, <2>1, <4>1 DEF Least
    <3>2. Edge[medium][b] = s
      <4>1. b \in 0..(Blocks[medium] - 1)
        BY <1>2, <1>3, <2>1
      <4>2. medium \in 1..Media
        BY DEF TypeOK
      <4>3. Edge[medium][b] = b * p
        BY <4>1, <4>2, EqualEdges DEF p
      <4>4. QED
        BY <1>2, <4>3
    <3>3. QED
      BY <1>1, <1>6, <3>1, <3>2 DEF Exact, Front
  <2>2. CASE ~(b < Blocks[medium])
    <3>1. Recorded(medium) <= Blocks[medium] * p
      BY EqualEdges DEF TypeOK, p
    <3>2. Blocks[medium] * p <= s
      BY <1>2, <1>3, <1>n, <2>2, MultipleOrder
    <3>3. head' = Blocks[medium]
      BY <1>1, <1>2, <1>3, <2>2 DEF Least
    <3>4. Blocks[medium] * p \in Nat
      BY <1>3, <1>n
    <3>5. s >= Recorded(medium)
      BY <1>4, <1>n, <3>1, <3>2, <3>4
    <3>6. QED
      BY <1>1, <1>6, <3>3, <3>5 DEF Beyond, Recorded
  <2>3. QED
    BY <2>1, <2>2
<1>8. TapeInv'
  BY <1>1, <1>5, <1>n DEF SeekInv, TapeInv
<1>9. PositionInv'
  BY <1>5, <1>7 DEF PositionInv
<1>10. SkipInv'
  BY <1>1, <1>4, <1>5, <1>n DEF SkipInv, Skipping, Recorded, t
<1>11. AnchorInv'
  <2>1. CASE ssetPBA >= 0
    <3>1. ssetPBA <= b
      <4>1. CASE b < ssetPBA
        <5>1. b * p + p <= ssetPBA * p
          BY <1>2, <1>a, <1>n, <2>1, <4>1, MultipleOrder
        <5>2. QED
          BY <1>2, <1>4, <1>a, <1>n, <2>1, <5>1
      <4>2. QED
        BY <1>2, <1>a, <2>1, <4>1
    <3>2. ssetAbsPos <= s
      BY <1>2, <1>a, <1>n, <2>1, <3>1, MultipleOrder
    <3>3. Anchored'
      BY <1>1, <1>5, <1>a, <2>1, <3>2 DEF Anchored, anchorVars
    <3>4. QED
      BY <3>3 DEF AnchorInv
  <2>2. CASE ~(ssetPBA >= 0)
    BY <1>1, <2>2 DEF AnchorInv, anchorVars
  <2>3. QED
    BY <2>1, <2>2
<1>12. \/ op' = "discard" /\ target' = abspos + n /\ skipLen' = n /\ base' = base
       \/ op' = "idle" /\ Here' = Here + n
  BY <1>1, <1>5, <1>6, <1>n DEF t
<1>13. QED
  BY <1>1, <1>8, <1>9, <1>10, <1>11, <1>12 DEF SeekInv

(* Reading the distance instead starts from where the Reader is.           *)
LEMMA SkipThroughStep ==
  ASSUME EqualBlocks, TypeOK, TypeOK', SeekInv, Ready, Here <= Recorded(medium),
         NEW n \in Nat \ {0}, SkipThrough(n)
  PROVE  /\ SeekInv' /\ op' = "skip" /\ out' = <<>>
         /\ target' = abspos + n /\ skipLen' = n /\ base' = base
<1>1. /\ op' = "skip" /\ need' = n /\ skipLen' = n /\ target' = abspos + n
      /\ res' = "ok" /\ out' = <<>>
      /\ UNCHANGED <<medium, tapeVars, bufVars, peek, abspos, anchorVars, base>>
  BY DEF SkipThrough
<1>n. Here = abspos /\ abspos \in Nat /\ Recorded(medium) \in Nat
  BY SeekNumbers DEF SeekInv
<1>2. Front' = Front /\ Here' = Here /\ Recorded(medium') = Recorded(medium)
  BY <1>1 DEF Front, Here, tapeVars, bufVars, Recorded
<1>3. TapeInv' /\ PositionInv'
  BY <1>1, <1>2
  DEF SeekInv, TapeInv, PositionInv, Exact, Beyond, tapeVars, bufVars
<1>4. SkipInv'
  BY <1>1, <1>2, <1>n DEF SkipInv, Skipping
<1>5. AnchorInv'
  <2>1. ssetPBA >= 0 => Anchored
    BY ReadyAnchor
  <2>2. QED
    BY <1>1, <2>1 DEF AnchorInv, Anchored, anchorVars
<1>6. QED
  BY <1>1, <1>3, <1>4, <1>5 DEF SeekInv

(* The continuation medium starts with its TAPE header; until that has     *)
(* been read the anchor is that of the medium before.                      *)
LEMMA SwitchStep ==
  ASSUME EqualBlocks, TypeOK, TypeOK', SeekInv, SwitchBetween
  PROVE  SeekInv'
<1>1. /\ op' = "header" /\ need' = ProbeSize /\ head' = 0 /\ block' = None
      /\ physSize' = 0 /\ peek' = <<>> /\ abspos' = 0 /\ base' = 0
      /\ ProbeSize \in Nat \ {0}
  BY BlockAssumption DEF SwitchBetween, SwitchMedium
<1>2. Edge[medium'][0] = 0
  BY Layout DEF TypeOK
<1>3. Here' = 0 /\ Front' = 0
  BY <1>1, <1>2 DEF Here, Front
<1>4. QED
  BY <1>1, <1>3
  DEF SeekInv, TapeInv, PositionInv, Exact, SkipInv, Skipping, AnchorInv, Voiding

(* Every step preserves the invariant of seeking.                          *)
LEMMA SeekInvStep ==
  ASSUME SeekingTape, TypeOK, TypeOK', PBAInv, SeekInv, [Next]_vars, Unfailed'
  PROVE  SeekInv'
<1>1. CountableTape /\ EqualBlocks /\ "probe" \notin Ops /\ "jump" \notin Ops
  BY DEF SeekingTape, CountableTape
<1>2. \A n \in 1..MaxAsk : n \in Nat \ {0}
  BY BlockAssumption
<1>3. ASSUME NEW n \in 1..MaxAsk, Skip(n) PROVE SeekInv'
  BY <1>1, <1>2, <1>3, SkipFastStep, SkipSeekStep, SkipThroughStep DEF Skip
<1>4. CASE UNCHANGED vars
  BY <1>4
  DEF vars, SeekInv, TapeInv, PositionInv, Exact, Beyond, Here, Front, SkipInv,
      Skipping, AnchorInv, Voiding, Over, Anchored, tapeVars, bufVars, callVars,
      anchorVars, Recorded
<1>5. ~StartProbe /\ ~DrainPeek /\ ~EndProbe
  BY <1>1 DEF StartProbe, DrainPeek, EndProbe, SeekInv, TapeInv
<1>6. \A b \in 0..(Blocks[medium] - 1) : ~Jump(b)
  BY <1>1 DEF Jump
<1>7. QED
  BY <1>1, <1>3, <1>4, <1>5, <1>6, BeginStep, EndHeaderStep, DrainStep, FillStep,
     EndStep, SwitchStep DEF Next

(* The invariant of seeking is one.                                        *)
LEMMA SeekInvariant ==
  ASSUME SeekingTape PROVE Spec /\ []Unfailed => [](TypeOK /\ PBAInv /\ SeekInv)
<1>1. CountableTape /\ EqualBlocks
  BY DEF SeekingTape
<1>2. Init => SeekInv
  BY <1>1, SeekInvInit
<1>3. TypeOK /\ TypeOK' /\ PBAInv /\ SeekInv /\ [Next]_vars /\ Unfailed' => SeekInv'
  BY SeekInvStep
<1>4. Spec => []TypeOK
  BY TypeCorrect
<1>5. Spec /\ []Unfailed => []PBAInv
  BY <1>1, PBAInvariant
<1>6. QED
  BY <1>2, <1>3, <1>4, <1>5, PTL DEF Spec

-----------------------------------------------------------------------------
(* What a reader that seeks keeps. *)

(* Reads, headers, filemarks, medium switches and skips by every way leave *)
(* abspos, the read-ahead and the buffer offset in agreement, up to the    *)
(* first read that fails.                                                  *)
THEOREM SeekingAccounted ==
  ASSUME SeekingTape PROVE Spec /\ []Unfailed => []PositionAccounted
<1>1. TypeOK /\ SeekInv => PositionAccounted
  <2> SUFFICES ASSUME TypeOK, SeekInv PROVE PositionAccounted
    OBVIOUS
  <2>1. InHand = 0
    BY EmptySeq DEF InHand, SeekInv, TapeInv
  <2>2. Here \in Int
    BY DEF Here, TypeOK
  <2>3. QED
    BY <2>1, <2>2
    DEF PositionAccounted, SeekInv, PositionInv, Exact, Beyond
<1>2. QED
  BY <1>1, SeekInvariant, PTL

(* Whenever a skip can start, the anchor it would seek from is a block of  *)
(* the loaded medium together with that block's position, up to the first  *)
(* read that fails.                                                        *)
THEOREM AnchorStaysExact ==
  ASSUME SeekingTape PROVE Spec /\ []Unfailed => []AnchorExact
<1>1. TypeOK /\ SeekInv => AnchorExact
  <2> SUFFICES ASSUME TypeOK, SeekInv, op = "idle", res = "ok", ssetPBA >= 0
               PROVE  ssetPBA < Blocks[medium] /\ base + ssetAbsPos = Edge[medium][ssetPBA]
    BY DEF AnchorExact
  <2>1. Anchored /\ base = 0
    BY DEF SeekInv, AnchorInv, TapeInv, Voiding, Over
  <2>2. ssetAbsPos \in Int
    BY DEF TypeOK
  <2>3. QED
    BY <2>1, <2>2 DEF Anchored
<1>2. QED
  BY <1>1, SeekInvariant, PTL

(* A skip that reports success has moved exactly its distance, by whatever *)
(* way it went: the drive refusing the seek and the medium ending on the   *)
(* way included, up to the first read that fails.                          *)
THEOREM SkipsLand ==
  ASSUME SeekingTape PROVE Spec /\ []Unfailed => SkipLands
<1>1. TypeOK /\ TypeOK' /\ PBAInv /\ SeekInv /\ [Next]_vars /\ Unfailed'
        => [(op \in {"skip", "discard"} /\ op' = "idle" /\ res' = "ok")
              => abspos' = target]_vars
  <2> SUFFICES ASSUME TypeOK, TypeOK', PBAInv, SeekInv, Next, Unfailed',
                      op \in {"skip", "discard"}, op' = "idle", res' = "ok"
               PROVE  abspos' = target
    BY DEF vars
  <2>a. CountableTape /\ EqualBlocks /\ "probe" \notin Ops /\ "jump" \notin Ops
    BY DEF SeekingTape, CountableTape
  <2>1. DrainBlock
    <3>1. ~ReadFails /\ ~PendingFails
      BY <2>a, EndStep
    <3>2. ~DrainPeek
      BY DEF DrainPeek, SeekInv, TapeInv
    <3>3. ~FillBlock
      BY DEF FillBlock, callVars
    <3>4. QED
      BY <2>a, <3>1, <3>2, <3>3
      DEF Next, StartRead, StartHeader, EndHeader, StartProbe, Skip, Jump,
          SwitchBetween, EndProbe, Ready
  <2>2. PICK k \in Nat \ {0} : k <= need /\ Consume(k, Run(Here, k))
    BY <2>1, <2>a, DrainStep
  <2>3. abspos' = abspos + k /\ k = need
    BY SMTT(30), <2>2 DEF Consume, TypeOK
  <2>4. abspos + need = target
    BY <2>1, <2>a, DrainStep DEF SeekInv, SkipInv, Skipping
  <2>5. QED
    BY <2>3, <2>4
<1>2. QED
  BY <1>1, SeekInvariant, PTL DEF Spec, SkipLands

(* A reader that seeks delivers the bytes of each medium in order and each *)
(* once, passing over those it skips, up to the first read that fails.     *)
THEOREM SeekingImplements ==
  ASSUME SeekingTape PROVE Spec /\ []Unfailed => ImplementsByteStream
<1>a. CountableTape /\ EqualBlocks /\ "probe" \notin Ops /\ "jump" \notin Ops
  BY DEF SeekingTape, CountableTape
<1>1. Init => BS!Init
  BY DEF Init, BS!Init, Here, Reached
<1>2. TypeOK /\ TypeOK' /\ PBAInv /\ SeekInv /\ [Next]_vars /\ Unfailed'
        => [BS!Next]_(BS!vars)
  <2> SUFFICES ASSUME TypeOK, TypeOK', PBAInv, SeekInv, [Next]_vars, Unfailed'
               PROVE  BS!Next \/ UNCHANGED BS!vars
    OBVIOUS
  <2>n. /\ Here = abspos /\ abspos \in Nat /\ Recorded(medium) \in Nat /\ base = 0
        /\ need \in Nat /\ skipLen \in Nat /\ target \in Int
    BY <1>a, SeekNumbers DEF SeekInv, TapeInv, TypeOK
  <2>r. Reached \in Int
    BY <2>n DEF Reached
  <2>g. ASSUME Reached' \in Int, Reached' >= Reached, out' = <<>>, medium' = medium
        PROVE  BS!Next
    BY <2>g DEF BS!Next, BS!Advance
  <2>1. CASE \/ \E n \in 1..MaxAsk : StartRead(n)
             \/ StartHeader \/ EndHeader
    <3>1. /\ ~Skipping /\ ~Skipping' /\ Here' = Here
          /\ out' = <<>> /\ medium' = medium
      BY <2>1 DEF StartRead, StartHeader, EndHeader, Ready, Here, Skipping
    <3>2. Reached' = Reached
      BY <3>1 DEF Reached, Skipping
    <3>3. QED
      BY <2>r, <2>g, <3>1, <3>2
  <2>2. CASE FillBlock
    <3>1. Reached' = Reached /\ out' = <<>> /\ medium' = medium
      BY <2>2 DEF FillBlock, Reached, Here, callVars
    <3>2. QED
      BY <2>r, <2>g, <3>1
  <2>3. CASE ReadFails \/ PendingFails
    <3>1. /\ out' = <<>> /\ medium' = medium /\ Here' = Here
          /\ op' = "idle" => Here >= Recorded(medium)
          /\ op' \in {"idle", "skip"} /\ (op' = "skip" => op = "discard")
          /\ UNCHANGED <<target, skipLen, base>>
      BY <1>a, <2>3, EndStep
    <3>2. Skipping => Reached <= Recorded(medium)
      BY <2>n DEF SeekInv, SkipInv, Skipping, Reached
    <3>3. Reached' \in Int /\ Reached' >= Reached
      BY <2>n, <2>r, <3>1, <3>2 DEF Reached, Skipping
    <3>4. QED
      BY <2>g, <3>1, <3>3
  <2>4. CASE DrainBlock
    <3>1. /\ medium' = medium /\ (Skipping => res # "eof")
          /\ \E k \in Nat \ {0} :
               /\ k <= need /\ Here + k <= Recorded(medium)
               /\ Consume(k, Run(Here, k)) /\ Here' = Here + k
      BY <1>a, <2>4, DrainStep
    <3>2. PICK k \in Nat \ {0} :
               /\ k <= need /\ Here + k <= Recorded(medium)
               /\ Consume(k, Run(Here, k)) /\ Here' = Here + k
      BY <3>1
    <3>3. CASE Skipping
      <4>1. out' = <<>> /\ op' \in {op, "idle"} /\ UNCHANGED <<target, skipLen, base>>
        BY <3>2, <3>3 DEF Consume, Skipping
      <4>2. CASE op' = op
        BY <2>r, <2>g, <3>1, <3>3, <4>1, <4>2 DEF Reached, Skipping
      <4>3. CASE op' # op
        <5>1. op' = "idle" /\ k = need
          BY <2>n, <3>2, <3>3, <4>1, <4>3 DEF Consume, Skipping
        <5>2. Here' = target
          BY <2>n, <3>1, <3>2, <3>3, <5>1 DEF SeekInv, SkipInv
        <5>3. Reached' = target /\ Reached = target - skipLen
          BY <2>n, <3>3, <5>1, <5>2 DEF Reached, Skipping
        <5>4. QED
          BY <2>n, <2>g, <3>1, <4>1, <5>3
      <4>4. QED
        BY <4>2, <4>3
    <3>4. CASE ~Skipping
      <4>1. op \in {"read", "header"} /\ out' = Run(Here, k) /\ op' \in {op, "idle"}
        BY <2>4, <3>2, <3>4
        DEF Consume, Skipping, DrainBlock, Reading, SeekInv, TapeInv
      <4>2. Reached = Here /\ Reached' = Here'
        BY <4>1 DEF Reached
      <4>3. QED
        BY <2>n, <3>1, <3>2, <4>1, <4>2, Delivery
    <3>5. QED
      BY <3>3, <3>4
  <2>5. ASSUME NEW n \in 1..MaxAsk, Skip(n) PROVE BS!Next
    <3>1. Ready /\ Here <= Recorded(medium) /\ n \in Nat \ {0} /\ medium' = medium
      BY <2>5, BlockAssumption DEF Skip, SkipFast, SkipSeek, SkipThrough
    <3>2. Reached = Here
      BY <3>1 DEF Reached, Ready
    <3>3. /\ out' = <<>>
          /\ \/ op' = "idle" /\ Here' = Here + n
             \/ /\ op' \in {"skip", "discard"} /\ base' = base
                /\ target' = abspos + n /\ skipLen' = n
      BY <1>a, <2>5, <3>1, SkipFastStep, SkipSeekStep, SkipThroughStep DEF Skip
    <3>4. Reached' \in {Here, Here + n}
      BY <2>n, <3>1, <3>3 DEF Reached
    <3>5. QED
      BY <2>n, <2>g, <3>1, <3>2, <3>3, <3>4
  <2>6. CASE SwitchBetween
    <3>1. Reached' = 0
      BY <2>6 DEF SwitchBetween, SwitchMedium, Reached, Here
    <3>2. BS!Load
      BY <2>6, <3>1 DEF SwitchBetween, SwitchMedium, BS!Load
    <3>3. QED
      BY <3>2 DEF BS!Next
  <2>7. CASE UNCHANGED vars
    BY <2>7 DEF vars, BS!vars, Reached, Here, callVars
  <2>8. ~StartProbe /\ ~DrainPeek /\ ~EndProbe
    BY <1>a DEF StartProbe, DrainPeek, EndProbe, SeekInv, TapeInv
  <2>9. QED
    BY <1>a, <2>1, <2>2, <2>3, <2>4, <2>5, <2>6, <2>7, <2>8 DEF Next, Jump
<1>3. QED
  BY <1>1, <1>2, SeekInvariant, PTL
  DEF Spec, ImplementsByteStream, BS!Spec
=============================================================================
