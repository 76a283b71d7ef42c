--------------------------- MODULE Content_proofs ---------------------------
(***************************************************************************)
(* Proofs about what Read delivers of files of every kind, one after the   *)
(* other: for every archive, every portion, every read error and every     *)
(* caller that gives files up.  What the frames of a coded file decode to  *)
(* is taken as recorded; that the decoder of a frame's bytes gets it right *)
(* is what the runs of MCFileRead check.                                   *)
(***************************************************************************)
EXTENDS FileRead_proofs

(* The frames of a coded file f, at[p] the bytes of its content in front   *)
(* of the frame at place p: frames follow one another as their headers     *)
(* say, each decodes to the next bytes of the content, and where the       *)
(* stream ends, at the first byte of a header or of a payload, all of the  *)
(* content has come.                                                       *)
StreamEnd(f) == Least(f.rawLen, Len(f.raw))
GoodFrame(f, p) == p < StreamEnd(f) /\ GoodHeader(f, f.raw[p + 1])
FrameEnd(f, p) == p + HdrLen + f.raw[p + 1].clen
Payload(f, p) == SubSeq(f.raw, p + HdrLen + 1, FrameEnd(f, p))
Framing(f, at) ==
  /\ 0 \in DOMAIN at /\ at[0] = 0
  /\ \A p \in DOMAIN at :
       /\ p \in Nat /\ at[p] \in 0..Len(f.content)
       /\ p < Len(f.raw) => f.raw[p + 1].k \in {"FH", "EH"}
       /\ p = StreamEnd(f) => at[p] = Len(f.content)
       /\ GoodFrame(f, p) /\ p + HdrLen = StreamEnd(f) /\ FrameEnd(f, p) > StreamEnd(f)
            => at[p] = Len(f.content)
       /\ GoodFrame(f, p) /\ FrameEnd(f, p) <= StreamEnd(f) =>
            /\ FrameEnd(f, p) \in DOMAIN at /\ at[p] <= at[FrameEnd(f, p)]
            /\ Decoded(f, f.raw[p + 1], Payload(f, p))
                 = SubSeq(f.content, at[p] + 1, at[FrameEnd(f, p)])

(* The content of a file is what its extents, or its frames, stand for.    *)
Recorded(f) ==
  /\ f.kind = "sparse" =>
       f.content = [p \in 1..SizeOf(f.extents) |-> ByteAt(f.extents, p)]
  /\ f.kind = "coded" => f.displayed = Len(f.content) /\ \E at : Framing(f, at)
WellRecorded ==
  \A a \in Archives : \A i \in 1..Len(a) : Recorded(a[i])

-----------------------------------------------------------------------------
(* The entry opened and the call in progress.                              *)
Opened ==
  /\ opened \in 0..Len(archive)
  /\ cur.content \in Seq(Nat) /\ cur.raw \in Seq(Cell) /\ cur.rawLen \in Nat
  /\ cur.kind \in {"plain", "coded"} => ways = Ways(cur)
  /\ size \in Nat /\ key \in Keys
Called ==
  /\ pc \in {"idle", "sparse", "frame", "payload", "finish"}
  /\ pc # "idle" => ~readEnd /\ ~entryDone /\ cur.kind # "none"
  /\ readEnd => cur.kind # "none"
  /\ want \in 0..MaxRead /\ faults \in 0..MaxFaults /\ res \in {"ok", "fail"}
  /\ headerOnly => got = <<>> /\ pc = "idle" /\ ~readEnd /\ (entryDone => cur.kind = "none")

(* A plain file: what is to come and what has come are all of it.          *)
PlainPlace ==
  /\ dataRem \in 0..Len(cur.content)
  /\ cur.kind \in {"plain", "none"} =>
       Len(got) + dataRem = Len(cur.content) /\ got = SubSeq(cur.content, 1, Len(got))

(* A coded one: what is pending is nothing when a frame is read, and       *)
(* nothing once the stream has ended.                                      *)
Pending ==
  /\ got \in Seq(Nat) /\ out \in Seq(Nat) /\ oi \in 0..Len(out) /\ decoded \in Seq(Nat)
  /\ eof \in BOOLEAN
  /\ pc \in {"frame", "payload"} \/ eof => out = <<>> /\ oi = 0
  /\ pc \in {"frame", "payload"} => ~eof
  /\ NothingLost
RawPlace ==
  /\ rawPos \in 0..Len(Raw) /\ left \in 0..cur.rawLen /\ left + rawPos = cur.rawLen
  /\ pc = "payload" => head \in Cell

TypeInv == Inv /\ Opened /\ Called /\ PlainPlace /\ Pending /\ RawPlace

(* What is recorded of the entry opened.                                   *)
RecordedOK ==
  /\ cur.kind = "coded" => \E at : Framing(cur, at)
  /\ cur.kind = "sparse" /\ ~headerOnly =>
       cur.content = [p \in 1..SizeOf(Map) |-> ByteAt(Map, p)]
  /\ cur.kind = "coded" => cur.displayed = Len(cur.content)
  /\ size = HeaderSize(cur)
At(f) == CHOOSE at : Framing(f, at)

(* The decoder stands at a frame, or behind the header of one, and has     *)
(* decoded the content in front of it.                                     *)
FramePlace ==
  cur.kind = "coded" =>
    /\ Len(decoded) <= Len(cur.content) /\ decoded = SubSeq(cur.content, 1, Len(decoded))
    /\ ~eof /\ pc # "payload" =>
         rawPos \in DOMAIN At(cur) /\ At(cur)[rawPos] = Len(decoded)
    /\ ~eof /\ pc = "payload" =>
         \E p \in DOMAIN At(cur) :
           /\ rawPos = p + HdrLen /\ At(cur)[p] = Len(decoded)
           /\ GoodFrame(cur, p) /\ head = Raw[p + 1]

(* The cursor of a sparse file is not behind its end.                      *)
CursorWithin == cur.kind = "sparse" => sparseCursor <= SizeOf(Map)

(* A plain or coded file ends behind its last byte, unless a call on it    *)
(* has failed.                                                             *)
EndsFull ==
  cur.kind \in {"plain", "coded"} /\ ~failed =>
    /\ pc = "finish" \/ entryDone \/ readEnd => Len(got) = Len(cur.content)
    /\ cur.kind = "coded" /\ eof => Len(got) = Len(cur.content)

ContentInv == TypeInv /\ RecordedOK /\ FramePlace /\ CursorWithin /\ EndsFull

-----------------------------------------------------------------------------
(* Portions of sequences.                                                  *)
LEMMA Adjacent ==
  ASSUME NEW s \in Seq(Nat), NEW a \in Nat, NEW b \in Nat, NEW c \in Nat,
         a <= b, b <= c, c <= Len(s)
  PROVE  SubSeq(s, a + 1, b) \o SubSeq(s, b + 1, c) = SubSeq(s, a + 1, c)
<1>1. Len(s) \in Nat
  OBVIOUS
<1>2. a + 1 \in 1..(Len(s) + 1) /\ b \in ((a + 1) - 1)..Len(s) /\ c \in b..Len(s)
  BY <1>1
<1> QED BY <1>2, ConcatAdjacentSubSeq

LEMMA Portion ==
  ASSUME NEW s \in Seq(Nat), NEW a \in Nat, NEW b \in Nat, a <= b, b <= Len(s)
  PROVE  SubSeq(s, a + 1, b) \in Seq(Nat) /\ Len(SubSeq(s, a + 1, b)) = b - a
<1>1. Len(s) \in Nat /\ \A i \in (a + 1)..b : s[i] \in Nat
  <2>1. Len(s) \in Nat
    OBVIOUS
  <2>2. ASSUME NEW i \in (a + 1)..b PROVE s[i] \in Nat
    <3>1. i \in 1..Len(s)
      BY <2>1
    <3> QED BY <3>1, ElementOfSeq
  <2> QED BY <2>1, <2>2
<1>2. a + 1 \in Int /\ b \in Int
  OBVIOUS
<1>3. SubSeq(s, a + 1, b) \in Seq(Nat)
      /\ Len(SubSeq(s, a + 1, b)) = IF a + 1 <= b THEN b - (a + 1) + 1 ELSE 0
  BY <1>1, <1>2, SubSeqProperties
<1> QED BY <1>3

LEMMA Associative ==
  ASSUME NEW s \in Seq(Nat), NEW t \in Seq(Nat), NEW u \in Seq(Nat)
  PROVE  (s \o t) \o u = s \o (t \o u)
BY SMTT(30)

LEMMA NonePending ==
  ASSUME NEW s \in Seq(Nat)
  PROVE  s \o SubSeq(<<>>, 0 + 1, Len(<<>>)) = s
<1>1. SubSeq(<<>>, 0 + 1, Len(<<>>)) = <<>>
  <2>1. Len(<<>>) = 0 /\ 0 + 1 = 1
    OBVIOUS
  <2> QED BY <2>1, SubSeqEmpty
<1> QED BY <1>1, ConcatEmptySeq

LEMMA LeastIs ==
  ASSUME NEW a \in Int, NEW b \in Int
  PROVE  Least(a, b) \in {a, b} /\ Least(a, b) <= a /\ Least(a, b) <= b
BY DEF Least

(* What the size of a map in order is: the end of its last extent.         *)
LEMMA SizeIs ==
  ASSUME NEW x \in Extents, InOrder(x)
  PROVE  /\ SizeOf(x) \in Nat
         /\ \A i \in 1..Len(x) : EndOf(x[i]) <= SizeOf(x)
         /\ SizeOf(x) = 0 \/ \E i \in 1..Len(x) : SizeOf(x) = EndOf(x[i])
<1>1. \A i \in 1..Len(x) : x[i].off \in Nat /\ EndOf(x[i]) \in Nat /\ x[i].off <= EndOf(x[i])
  BY ExtentType DEF Extents
<1>2. Len(x) \in Nat
  BY DEF Extents
<1> DEFINE ends == {0} \cup {EndOf(x[i]) : i \in 1..Len(x)}
<1>3. ends \subseteq Nat
  BY <1>1
<1>4. \E m \in ends : \A e \in ends : e <= m
  <2>1. CASE Len(x) = 0
    <3>1. ends = {0}
      BY <2>1
    <3> HIDE DEF ends
    <3>2. 0 \in ends /\ \A e \in ends : e <= 0
      BY <3>1
    <3> QED BY <3>2
  <2>2. CASE Len(x) # 0
    <3>1. Len(x) \in 1..Len(x)
      BY <1>2, <2>2
    <3>2. EndOf(x[Len(x)]) \in ends
      BY <3>1
    <3>3. ASSUME NEW i \in 1..Len(x) PROVE EndOf(x[i]) <= EndOf(x[Len(x)])
      <4>1. CASE i = Len(x)
        BY <1>1, <3>1, <4>1
      <4>2. CASE i < Len(x)
        <5>1. EndOf(x[i]) <= x[Len(x)].off
          BY <3>1, <4>2 DEF InOrder
        <5> QED BY <1>1, <3>1, <5>1
      <4> QED BY <1>2, <4>1, <4>2
    <3>4. 0 <= EndOf(x[Len(x)])
      BY <1>1, <3>1
    <3> QED BY <3>2, <3>3, <3>4
  <2> QED BY <2>1, <2>2
<1>5. SizeOf(x) = CHOOSE m \in ends : \A e \in ends : e <= m
  BY DEF SizeOf
<1> HIDE DEF ends
<1>6. SizeOf(x) \in ends /\ \A e \in ends : e <= SizeOf(x)
  BY <1>4, <1>5
<1> QED BY <1>3, <1>6 DEF ends

(* How the reading of n raw bytes can end.                                 *)
LEMMA TakenIs ==
  ASSUME NEW n \in Nat, NEW j, NEW e, <<j, e>> \in Taken(n), There \in Nat
  PROVE  /\ j \in 0..There
         /\ e \in Ends
         /\ e = "ok" => j = n /\ n <= There
         /\ e = "eof" => There = 0 /\ n > 0
         /\ e = "eio" => faults < MaxFaults
<1>1. CASE <<j, e>> \in {<<n, "ok">>} /\ n <= There
  BY <1>1 DEF Ends
<1>2. CASE <<j, e>> \in {<<0, "eof">>} /\ There = 0 /\ ~(n <= There)
  BY <1>2 DEF Ends
<1>3. CASE <<j, e>> \in {<<There, "unexpected">>}
  BY <1>3 DEF Ends
<1>4. CASE <<j, e>> \in {<<i, "eio">> : i \in {i \in 0..(n - 1) : i <= There}} /\ faults < MaxFaults
  BY <1>4 DEF Ends
<1> QED BY <1>1, <1>2, <1>3, <1>4 DEF Taken

(* What a frame decodes to is a sequence of bytes.                         *)
LEMMA DecodedType ==
  ASSUME NEW f, NEW h, NEW c \in Seq(Cell)
  PROVE  Decoded(f, h, c) \in Seq(Nat)
<1>1. ASSUME NEW d \in Seq(Cell) PROVE Values(d) \in Seq(Nat)
  <2>1. Len(d) \in Nat /\ \A i \in 1..Len(d) : d[i].b \in Nat
    <3>1. \A i \in 1..Len(d) : d[i] \in Cell
      BY <1>1, ElementOfSeq
    <3> QED BY <1>1, <3>1 DEF Cell
  <2> QED BY <2>1 DEF Values
<1>2. Values(Deciphered(c)) \in Seq(Nat)
  <2>1. Len(c) \in Nat /\ \A i \in 1..Len(c) : c[i] \in Cell
    BY ElementOfSeq
  <2>2. ASSUME NEW d \in Cell, NEW v PROVE [d EXCEPT !.x = v].b = d.b /\ d.b \in Nat
    BY DEF Cell
  <2>3. Len(Deciphered(c)) = Len(c)
        /\ \A i \in 1..Len(c) : Deciphered(c)[i] = [c[i] EXCEPT !.x = ~@]
    BY <2>1 DEF Deciphered
  <2>4. \A i \in 1..Len(c) : Deciphered(c)[i].b \in Nat
    <3>1. SUFFICES ASSUME NEW i \in 1..Len(c) PROVE Deciphered(c)[i].b \in Nat
      OBVIOUS
    <3> DEFINE v == ~c[i].x
    <3>2. Deciphered(c)[i] = [c[i] EXCEPT !.x = v]
      BY <2>3, Zenon
    <3> HIDE DEF v
    <3> QED BY <2>1, <2>2, <3>2
  <2> QED BY <2>1, <2>3, <2>4 DEF Values
<1> DEFINE plain == Values(IF f.enc THEN Deciphered(c) ELSE c)
<1>3. plain \in Seq(Nat)
  BY <1>1, <1>2
<1> HIDE DEF plain
<1>4. Decode(plain) \in Seq(Nat)
  BY <1>3, DecodeIs
<1>5. Decoded(f, h, c) = IF ~f.comp \/ StoredPlain(f, h) THEN plain ELSE Decode(plain)
  BY DEF Decoded, plain
<1> QED BY <1>3, <1>4, <1>5

-----------------------------------------------------------------------------
(* What the parts of TypeInv ask of a step that leaves most of them alone. *)
LEMMA StillOpened ==
  ASSUME Opened, UNCHANGED <<cur, opened, archive, size, key>>,
         cur.kind \in {"plain", "coded"} => ways' = ways
  PROVE  Opened'
BY DEF Opened

LEMMA StillPlain ==
  ASSUME PlainPlace, UNCHANGED <<cur, dataRem>>,
         cur.kind \in {"plain", "none"} => got' = got
  PROVE  PlainPlace'
BY DEF PlainPlace

LEMMA StillPending ==
  ASSUME Pending, UNCHANGED <<cur, out, oi, eof, decoded>>, got' \in Seq(Nat),
         cur.kind = "coded" => got' = got,
         pc' \in {"frame", "payload"} => pc \in {"frame", "payload"}
  PROVE  Pending'
BY DEF Pending, NothingLost

LEMMA StillRaw ==
  ASSUME RawPlace, UNCHANGED <<cur, left, rawPos, head>>, pc' = "payload" => pc = "payload"
  PROVE  RawPlace'
BY DEF RawPlace, Raw

(* A call that returns, and one that goes on.                              *)
LEMMA ReturnCalled ==
  ASSUME NEW e, Called, Return(e), faults' \in 0..MaxFaults, cur.kind # "none",
         ~headerOnly, UNCHANGED <<headerOnly, cur>>
  PROVE  Called'
<1>1. pc' = "idle" /\ want' = 0 /\ res' \in {"ok", "fail"} /\ 0 \in 0..MaxRead
  BY ReadCallAssumption DEF Return
<1> QED BY <1>1 DEF Called

LEMMA ContinueCalled ==
  ASSUME NEW p \in {"payload", "finish"}, Called, Continue(p), faults' \in 0..MaxFaults, cur.kind # "none",
         ~readEnd, ~entryDone, ~headerOnly, UNCHANGED <<headerOnly, cur, entryDone>>
  PROVE  Called'
BY DEF Called, Continue

LEMMA InitType == Init => TypeInv
<1> SUFFICES ASSUME Init PROVE TypeInv
  OBVIOUS
<1>1. /\ cur.kind = "none" /\ cur.content = <<>> /\ cur.raw = <<>> /\ cur.rawLen = 0
  BY DEF Init, Nothing
<1>2. Opened
  <2>1. Len(archive) \in Nat
    BY ArchivesAssumption DEF Init
  <2> QED BY <1>1, <2>1 DEF Init, Opened
<1>3. Called
  BY <1>1, ReadCallAssumption DEF Init, Called
<1>4. PlainPlace
  BY <1>1 DEF Init, PlainPlace
<1>5. Pending
  <2>1. got = <<>> /\ out = <<>> /\ oi = 0 /\ eof = FALSE /\ decoded = <<>> /\ pc = "idle"
    BY DEF Init
  <2>2. <<>> \in Seq(Nat) /\ 0 \in 0..Len(<<>>)
    OBVIOUS
  <2> QED BY <2>1, <2>2, NonePending DEF Pending, NothingLost
<1>6. RawPlace
  BY <1>1 DEF Init, RawPlace, Raw
<1> QED BY InitInv, <1>2, <1>3, <1>4, <1>5, <1>6 DEF TypeInv

(* Next opens a file of the archive.                                       *)
LEMMA OpenedFile ==
  ASSUME TypeInv, NextFile
  PROVE  /\ cur' = Captured(archive[opened + 1]) /\ cur' \in Files /\ InOrder(cur'.extents)
         /\ opened + 1 \in 1..Len(archive) /\ archive \in Archives
<1> DEFINE g == archive[opened + 1]
<1>1. opened + 1 \in 1..Len(archive) /\ archive \in Archives
  BY ArchivesAssumption DEF NextFile, TypeInv, Opened, Inv, EntryOK
<1>2. g \in Files /\ InOrder(g.extents)
  BY <1>1, ArchivesAssumption DEF File
<1>3. cur' = Captured(g)
  BY DEF NextFile, OpenFile, Yield
<1> HIDE DEF g
<1>4. Captured(g) \in Files /\ InOrder(Captured(g).extents)
  <2>1. CASE headerOnly
    <3>1. Captured(g) = [g EXCEPT !.extents = <<>>] /\ <<>> \in Extents
      BY <2>1 DEF Captured, Extents
    <3>2. Captured(g) \in Files /\ Captured(g).extents = <<>>
      BY <1>2, <3>1 DEF Files
    <3> QED BY <3>2 DEF InOrder
  <2>2. CASE ~headerOnly
    BY <1>2, <2>2 DEF Captured
  <2> QED BY <2>1, <2>2
<1> QED BY <1>1, <1>3, <1>4 DEF g

LEMMA SizeType ==
  ASSUME NEW f \in Files, InOrder(f.extents)
  PROVE  HeaderSize(f) \in Nat
<1>1. f.displayed \in Nat /\ Len(f.content) \in Nat /\ f.extents \in Extents
  BY DEF Files
<1>2. SizeOf(f.extents) \in Nat
  BY <1>1, SizeIs
<1> QED BY <1>1, <1>2 DEF HeaderSize

LEMMA NextFileType == ASSUME TypeInv, Inv', NextFile PROVE TypeInv'
<1>1. cur' \in Files /\ InOrder(cur'.extents) /\ opened + 1 \in 1..Len(archive)
  BY OpenedFile
<1>2. /\ cur'.content \in Seq(Nat) /\ cur'.raw \in Seq(Cell) /\ cur'.rawLen \in Nat
      /\ Len(cur'.content) \in Nat /\ Len(cur'.raw) \in Nat /\ cur'.kind \in Kinds
  BY <1>1 DEF Files
<1>3. /\ OpenFile(cur') /\ size' = HeaderSize(cur') /\ opened' = opened + 1
      /\ UNCHANGED <<faults, key, archive, headerOnly>>
  BY DEF NextFile, OpenFile, Yield
<1>4. /\ ways' = Ways(cur') /\ got' = <<>> /\ entryDone' = FALSE
      /\ pc' = "idle" /\ want' = 0 /\ res' = "ok" /\ readEnd' = FALSE
      /\ left' = cur'.rawLen /\ rawPos' = 0 /\ out' = <<>> /\ oi' = 0 /\ eof' = FALSE
      /\ decoded' = <<>> /\ dataRem' = Len(cur'.content)
  BY <1>3 DEF OpenFile, Yield, NewDecoder
<1>5. Opened'
  BY <1>1, <1>2, <1>3, <1>4, SizeType DEF TypeInv, Opened
<1>6. Called'
  BY <1>3, <1>4, ReadCallAssumption DEF TypeInv, Called
<1>7. PlainPlace'
  <2>1. SubSeq(cur'.content, 1, 0) = <<>>
    BY SubSeqEmpty
  <2> QED BY <1>2, <1>4, <2>1 DEF PlainPlace
<1>8. Pending'
  <2>1. <<>> \in Seq(Nat) /\ 0 \in 0..Len(<<>>)
    OBVIOUS
  <2> QED BY <1>4, <2>1, NonePending DEF Pending, NothingLost
<1>9. RawPlace'
  BY <1>2, <1>4 DEF RawPlace, Raw
<1> QED BY <1>5, <1>6, <1>7, <1>8, <1>9 DEF TypeInv

LEMMA NextFailsType == ASSUME TypeInv, Inv', NextFails PROVE TypeInv'
<1>1. /\ UNCHANGED <<pc, want, readEnd, cur, got, place, key, dec, walk>>
      /\ pc = "idle" /\ ~headerOnly /\ faults < MaxFaults /\ faults' = faults + 1
      /\ ways' = ways \ {"sparse"} /\ res' = "fail"
  BY DEF NextFails
<1>2. Opened'
  <2>1. cur.kind \in {"plain", "coded"} => ways' = ways
    BY <1>1 DEF TypeInv, Opened, Ways
  <2> QED BY <1>1, <2>1, StillOpened DEF TypeInv, walk
<1>3. Called'
  BY <1>1, ReadCallAssumption DEF TypeInv, Called, walk
<1>4. PlainPlace' /\ Pending' /\ RawPlace'
  BY <1>1, StillPlain, StillPending, StillRaw DEF TypeInv, Pending, walk, dec
<1> QED BY <1>2, <1>3, <1>4 DEF TypeInv

-----------------------------------------------------------------------------
(* Read of a plain file.                                                   *)
LEMMA PlainPortion ==
  ASSUME NEW c \in Seq(Nat), NEW n \in Nat, NEW j \in Nat, n + j <= Len(c)
  PROVE  /\ SubSeq(c, 1, n) \o SubSeq(c, n + 1, n + j) = SubSeq(c, 1, n + j)
         /\ SubSeq(c, 1, n + j) \in Seq(Nat) /\ Len(SubSeq(c, 1, n + j)) = n + j
<1>1. 0 + 1 = 1 /\ 0 <= n /\ n <= n + j /\ n + j \in Nat /\ 0 <= n + j /\ (n + j) - 0 = n + j
  OBVIOUS
<1>2. SubSeq(c, 0 + 1, n) \o SubSeq(c, n + 1, n + j) = SubSeq(c, 0 + 1, n + j)
  BY <1>1, Adjacent
<1>3. SubSeq(c, 0 + 1, n + j) \in Seq(Nat) /\ Len(SubSeq(c, 0 + 1, n + j)) = (n + j) - 0
  BY <1>1, Portion
<1> QED BY <1>1, <1>2, <1>3

LEMMA CallPlainStep ==
  ASSUME TypeInv, NEW k \in 1..MaxRead, CallPlain(k), ~headerOnly
  PROVE  /\ cur.kind = "plain" /\ got' \in Seq(Nat) /\ Len(got) <= Len(got') /\ PlainPlace'
         /\ faults' \in 0..MaxFaults
         /\ Return("fail") \/ (Continue("finish") /\ dataRem' = 0) \/ Return("ok")
         /\ UNCHANGED <<cur, ways, entryDone, place, key, dec, archive, opened, size, headerOnly>>
<1>1. cur.kind = "plain"
  <2>1. ways = {"data"} /\ cur.kind # "none"
    BY DEF CallPlain, MayRead
  <2>2. cur.kind \in {"plain", "sparse", "coded"}
    BY <2>1 DEF TypeInv, Inv, EntryOK, Kinds
  <2>3. cur.kind # "coded"
    <3>1. cur.kind = "coded" => ways = {"dec", "data"}
      BY DEF TypeInv, Opened, Ways
    <3>2. "dec" \notin ways
      BY <2>1
    <3> QED BY <3>1, <3>2
  <2>4. cur.kind # "sparse"
    BY <2>1 DEF TypeInv, Inv, CallOK, Ways
  <2> QED BY <2>2, <2>3, <2>4
<1>2. PICK j \in 0..Least(k, dataRem) :
        LET short == j < Least(k, dataRem)
        IN  /\ short => faults < MaxFaults
            /\ faults' = faults + One(short)
            /\ got' = got \o SubSeq(cur.content, Len(got) + 1, Len(got) + j)
            /\ dataRem' = dataRem - j
            /\ CASE short -> Return("fail")
                 [] dataRem' = 0 -> Continue("finish")
                 [] OTHER -> Return("ok")
  BY DEF CallPlain
<1> DEFINE n == Len(got)
           l == Len(cur.content)
<1>0. got = SubSeq(cur.content, 1, n) /\ cur.content \in Seq(Nat)
  BY <1>1 DEF TypeInv, PlainPlace, Opened
<1>3. dataRem \in 0..l /\ n + dataRem = l /\ n \in Nat /\ dataRem \in Nat /\ l \in Nat
  BY SMTT(30), <1>1 DEF TypeInv, PlainPlace, Opened, Pending
<1>4. j \in Nat /\ j <= dataRem
  <2>1. k \in Int /\ dataRem \in Int
    BY <1>3
  <2>2. Least(k, dataRem) <= dataRem /\ Least(k, dataRem) \in Int
    BY <2>1, LeastIs
  <2> QED BY <1>3, <2>2
<1>5. n + j <= l
  BY <1>3, <1>4
<1>6. /\ got' = SubSeq(cur.content, 1, n + j) /\ got' \in Seq(Nat)
      /\ Len(got') = n + j
  <2>1. got' = got \o SubSeq(cur.content, n + 1, n + j)
    BY <1>2
  <2>2. n + j <= Len(cur.content)
    BY <1>5
  <2> HIDE DEF n
  <2>3. /\ SubSeq(cur.content, 1, n) \o SubSeq(cur.content, n + 1, n + j) = SubSeq(cur.content, 1, n + j)
        /\ SubSeq(cur.content, 1, n + j) \in Seq(Nat) /\ Len(SubSeq(cur.content, 1, n + j)) = n + j
    BY <1>0, <1>3, <1>4, <2>2, PlainPortion
  <2> QED BY <1>0, <2>1, <2>3
<1>7. dataRem' = dataRem - j
  BY <1>2
<1>8. UNCHANGED <<cur, ways, entryDone, place, key, dec, archive, opened, size, headerOnly>>
  BY DEF CallPlain
<1>9. PlainPlace'
  <2>1. cur' = cur /\ Len(got') = n + j
    BY <1>6, <1>8
  <2> HIDE DEF n, l
  <2>2. Len(got') + dataRem' = l /\ dataRem' \in 0..l
    BY <1>3, <1>4, <1>7, <2>1
  <2>3. got' = SubSeq(cur.content, 1, Len(got'))
    BY <1>6, <2>1
  <2> QED BY <2>1, <2>2, <2>3 DEF PlainPlace, l
<1>10. faults' \in 0..MaxFaults
  <2>1. faults' = faults \/ (faults < MaxFaults /\ faults' = faults + 1)
    <3>1. CASE j < Least(k, dataRem)
      BY <1>2, <3>1 DEF One
    <3>2. CASE ~(j < Least(k, dataRem))
      <4>1. faults' = faults + 0
        BY <1>2, <3>2 DEF One
      <4> QED BY <4>1 DEF TypeInv, Called
    <3> QED BY <3>1, <3>2
  <2> QED BY <2>1, ReadCallAssumption DEF TypeInv, Called
<1>11. Return("fail") \/ (Continue("finish") /\ dataRem' = 0) \/ Return("ok")
  BY <1>2
<1>12. Len(got) <= Len(got')
  BY <1>3, <1>4, <1>6
<1> QED BY <1>1, <1>6, <1>8, <1>9, <1>10, <1>11, <1>12

LEMMA CallPlainType ==
  ASSUME TypeInv, Inv', NEW k \in 1..MaxRead, CallPlain(k), ~headerOnly
  PROVE  TypeInv'
<1>1. /\ cur.kind = "plain" /\ got' \in Seq(Nat) /\ PlainPlace' /\ faults' \in 0..MaxFaults
      /\ Return("fail") \/ Continue("finish") \/ Return("ok")
      /\ UNCHANGED <<cur, ways, entryDone, place, key, dec, archive, opened, size, headerOnly>>
  BY CallPlainStep
<1>2. Opened'
  BY <1>1, StillOpened DEF TypeInv
<1>3. Called'
  <2>1. ~readEnd /\ ~entryDone /\ cur.kind # "none"
    BY <1>1 DEF CallPlain, MayRead
  <2> QED BY <1>1, <2>1, ReturnCalled, ContinueCalled DEF TypeInv
<1>4. pc' = "idle" \/ pc' = "finish"
  BY <1>1 DEF Return, Continue
<1>5. Pending' /\ RawPlace'
  BY <1>1, <1>4, StillPending, StillRaw DEF TypeInv, dec
<1> QED BY <1>1, <1>2, <1>3, <1>5 DEF TypeInv

-----------------------------------------------------------------------------
(* Read of a sparse file.  Only the bytes handed over are its own, and     *)
(* those are in order by Inv.                                              *)
LEMMA SparseAside ==
  ASSUME TypeInv, Inv', Called', cur.kind = "sparse", UNCHANGED <<cur, key, dec, walk>>,
         pc' \in {"idle", "sparse", "finish"}
  PROVE  TypeInv'
<1>1. got' \in Seq(Nat)
  BY DEF Inv, PlaceType
<1>2. Opened'
  BY StillOpened DEF TypeInv, walk
<1>3. PlainPlace' /\ Pending' /\ RawPlace'
  BY <1>1, StillPlain, StillPending, StillRaw DEF TypeInv, walk, dec
<1> QED BY <1>2, <1>3 DEF TypeInv

LEMMA CallSparseType ==
  ASSUME TypeInv, Inv', NEW k \in 1..MaxRead, CallSparse(k), UNCHANGED <<key, dec, walk>>, ~headerOnly
  PROVE  TypeInv'
<1>1. cur.kind = "sparse"
  BY DEF TypeInv, Inv, CallOK, CallSparse, Ways
<1>2. /\ pc' = "sparse" /\ want' = k /\ UNCHANGED <<res, readEnd, entryDone, cur, faults, headerOnly>>
      /\ ~readEnd /\ ~entryDone
  BY DEF CallSparse, MayRead, walk
<1>3. Called'
  <2>1. k \in 0..MaxRead
    BY ReadCallAssumption
  <2> QED BY <1>1, <1>2, <2>1 DEF TypeInv, Called
<1> QED BY <1>1, <1>2, <1>3, SparseAside

(* A round of the loop stays within the buffer, and within the extent.     *)
LEMMA HoleRound ==
  ASSUME Inv, SparseHole
  PROVE  /\ want' \in 0..want /\ sparseIdx \in 1..Len(Map)
         /\ sparseCursor <= sparseCursor' /\ sparseCursor' <= EndOf(Extent)
         /\ UNCHANGED <<pc, res, readEnd, failed, cur, ways, entryDone, faults>>
<1> DEFINE n == Least(Extent.off - sparseCursor, want)
<1>1. cur.kind = "sparse" /\ ~Exhausted /\ sparseCursor < Extent.off
  BY DEF SparseHole, InHole, Inv, CallOK
<1>2. /\ sparseIdx \in 1..Len(Map) /\ Extent.off \in Nat /\ Len(Extent.data) \in Nat
      /\ EndOf(Extent) = Extent.off + Len(Extent.data) /\ sparseCursor \in Nat
  BY <1>1, AtExtent
<1>3. want \in Nat
  BY DEF Inv, CallOK
<1>4. n \in Nat /\ n <= want /\ sparseCursor + n <= Extent.off
  <2>1. Extent.off - sparseCursor \in Nat
    BY <1>1, <1>2
  <2>2. n \in {Extent.off - sparseCursor, want} /\ n <= want /\ n <= Extent.off - sparseCursor
    BY <1>3, <2>1, LeastIs
  <2> HIDE DEF n
  <2> QED BY <1>2, <1>3, <2>1, <2>2
<1>5. /\ want' = want - n /\ sparseCursor' = sparseCursor + n
      /\ UNCHANGED <<pc, res, readEnd, failed, cur, ways, entryDone, faults>>
  BY DEF SparseHole
<1> HIDE DEF n
<1> QED BY <1>2, <1>3, <1>4, <1>5

LEMMA DataRound ==
  ASSUME Inv, SparseData
  PROVE  /\ want' \in 0..want /\ sparseIdx \in 1..Len(Map)
         /\ sparseCursor <= sparseCursor' /\ sparseCursor' <= EndOf(Extent)
         /\ UNCHANGED <<pc, res, readEnd, failed, cur, ways, entryDone, faults>>
<1> DEFINE n == Least(Len(Extent.data) - sparsePos, want)
<1>1. cur.kind = "sparse" /\ ~Exhausted
  BY DEF SparseData, Inv, CallOK
<1>2. /\ sparseIdx \in 1..Len(Map) /\ Extent.off \in Nat /\ Len(Extent.data) \in Nat
      /\ EndOf(Extent) = Extent.off + Len(Extent.data) /\ sparseCursor \in Nat
      /\ sparsePos \in Nat /\ sparsePos <= Len(Extent.data)
      /\ sparseCursor <= Extent.off + sparsePos
  BY <1>1, AtExtent
<1>3. want \in Nat
  BY DEF Inv, CallOK
<1>4. n \in Nat /\ n <= want /\ sparsePos + n <= Len(Extent.data)
  <2>1. Len(Extent.data) - sparsePos \in Nat
    BY <1>2
  <2>2. n \in {Len(Extent.data) - sparsePos, want} /\ n <= want /\ n <= Len(Extent.data) - sparsePos
    BY <1>3, <2>1, LeastIs
  <2> HIDE DEF n
  <2> QED BY <1>2, <1>3, <2>1, <2>2
<1>5. /\ want' = want - n /\ sparseCursor' = sparseCursor + n
      /\ UNCHANGED <<pc, res, readEnd, failed, cur, ways, entryDone, faults>>
  BY DEF SparseData
<1> HIDE DEF n
<1> QED BY <1>2, <1>3, <1>4, <1>5

LEMMA SparseStepType ==
  ASSUME TypeInv, Inv', SparseStep, UNCHANGED <<key, dec, walk>>
  PROVE  TypeInv'
<1>1. cur.kind = "sparse" /\ pc = "sparse" /\ UNCHANGED <<cur, entryDone, faults, headerOnly>>
  BY DEF SparseStep, SparseEnd, SparseHole, SparseData, SparseFull, TypeInv, Inv, CallOK, walk
<1>2. ~headerOnly /\ ~readEnd /\ ~entryDone /\ faults \in 0..MaxFaults
  BY <1>1 DEF TypeInv, Called
<1>3. CASE SparseHole \/ SparseData
  <2>1. want' \in 0..want /\ UNCHANGED <<pc, res, readEnd>>
    BY <1>3, HoleRound, DataRound DEF TypeInv
  <2>2. want' \in 0..MaxRead
    BY <2>1, ReadCallAssumption DEF TypeInv, Called
  <2>3. Called'
    BY <1>1, <1>2, <2>1, <2>2 DEF TypeInv, Called
  <2> QED BY <1>1, <2>1, <2>3, SparseAside
<1>4. CASE SparseEnd \/ SparseFull
  <2>1. Return("eof") \/ Return("ok") \/ Continue("finish")
    BY <1>4 DEF SparseEnd, SparseFull
  <2>2. pc' \in {"idle", "finish"}
    BY <2>1 DEF Return, Continue
  <2>3. Called'
    BY <1>1, <1>2, <2>1, ReturnCalled, ContinueCalled DEF TypeInv
  <2> QED BY <1>1, <2>2, <2>3, SparseAside
<1> QED BY <1>3, <1>4 DEF SparseStep

(* The ends of a call.                                                     *)
LEMMA ReadDoneType == ASSUME TypeInv, Inv', ReadDone, UNCHANGED <<place, key, dec, walk>> PROVE TypeInv'
<1>1. Return("eof") /\ UNCHANGED <<cur, ways, got, entryDone, faults, headerOnly>>
      /\ ~headerOnly /\ pc' = "idle" /\ cur.kind # "none"
  BY DEF ReadDone, Return, MayRead, TypeInv, Called, walk
<1>2. Called'
  BY <1>1, ReturnCalled DEF TypeInv, Called
<1>3. Opened' /\ PlainPlace' /\ Pending' /\ RawPlace'
  BY <1>1, StillOpened, StillPlain, StillPending, StillRaw DEF TypeInv, Pending, walk, dec
<1> QED BY <1>2, <1>3 DEF TypeInv

LEMMA FinishType == ASSUME TypeInv, Inv', Finish, UNCHANGED <<place, key, dec, walk>> PROVE TypeInv'
<1>1. /\ Return("eof") \/ Return("fail")
      /\ UNCHANGED <<cur, got, headerOnly>> /\ ways' = ways \ {"sparse"}
      /\ ~headerOnly /\ pc' = "idle" /\ cur.kind # "none"
  BY DEF Finish, Return, TypeInv, Called, walk
<1>2. faults' \in 0..MaxFaults
  <2>1. faults' = faults \/ (faults < MaxFaults /\ faults' = faults + 1)
    BY DEF Finish
  <2> QED BY <2>1, ReadCallAssumption DEF TypeInv, Called
<1>3. Called'
  BY <1>1, <1>2, ReturnCalled DEF TypeInv
<1>4. Opened'
  <2>1. cur.kind \in {"plain", "coded"} => ways' = ways
    BY <1>1 DEF TypeInv, Opened, Ways
  <2> QED BY <1>1, <2>1, StillOpened DEF TypeInv, walk
<1>5. PlainPlace' /\ Pending' /\ RawPlace'
  BY <1>1, StillPlain, StillPending, StillRaw DEF TypeInv, Pending, walk, dec
<1> QED BY <1>3, <1>4, <1>5 DEF TypeInv

-----------------------------------------------------------------------------
(* Read of a coded file.  First what raw bytes are there, and what taking  *)
(* some of them does.                                                      *)
LEMMA ThereIs ==
  ASSUME RawPlace, cur.raw \in Seq(Cell), cur.rawLen \in Nat
  PROVE  /\ There \in Nat /\ There <= left /\ rawPos + There <= Len(Raw)
         /\ There = StreamEnd(cur) - rawPos /\ StreamEnd(cur) \in Nat
         /\ rawPos \in Nat /\ left \in Nat
<1>1. Len(Raw) \in Nat /\ rawPos \in 0..Len(Raw) /\ left \in Nat /\ left = cur.rawLen - rawPos
  BY DEF RawPlace, Raw
<1>2. There = Least(left, Len(Raw) - rawPos) /\ StreamEnd(cur) = Least(cur.rawLen, Len(Raw))
  BY DEF There, StreamEnd, Raw
<1>3. There \in {left, Len(Raw) - rawPos} /\ There <= left /\ There <= Len(Raw) - rawPos
  BY <1>1, <1>2, LeastIs
<1>4. There = StreamEnd(cur) - rawPos /\ StreamEnd(cur) \in Nat
  BY <1>1, <1>2 DEF Least
<1> QED BY <1>1, <1>3, <1>4

LEMMA TakeIs ==
  ASSUME RawPlace, cur.raw \in Seq(Cell), cur.rawLen \in Nat, faults \in 0..MaxFaults,
         NEW n \in Nat, NEW j, NEW e, <<j, e>> \in Taken(n), Take(j, e)
  PROVE  /\ rawPos' \in 0..Len(Raw) /\ left' \in 0..cur.rawLen /\ left' + rawPos' = cur.rawLen
         /\ faults' \in 0..MaxFaults /\ e \in Ends
         /\ e = "ok" => rawPos' = rawPos + n /\ rawPos + n <= StreamEnd(cur)
         /\ e = "eof" => rawPos = StreamEnd(cur) /\ n > 0
<1>1. /\ There \in Nat /\ There <= left /\ rawPos + There <= Len(Raw)
      /\ There = StreamEnd(cur) - rawPos /\ StreamEnd(cur) \in Nat
      /\ rawPos \in Nat /\ left \in Nat /\ Len(Raw) \in Nat
  BY ThereIs DEF Raw
<1>2. /\ j \in 0..There /\ e \in Ends
      /\ e = "ok" => j = n /\ n <= There
      /\ e = "eof" => There = 0 /\ n > 0
      /\ e = "eio" => faults < MaxFaults
  BY <1>1, TakenIs
<1>3. rawPos' = rawPos + j /\ left' = left - j /\ left + rawPos = cur.rawLen
  BY DEF Take, RawPlace
<1>4. faults' \in 0..MaxFaults
  <2>1. CASE e = "eio"
    BY <1>2, <2>1, ReadCallAssumption DEF Take
  <2>2. CASE e # "eio"
    <3>1. faults' = faults + 0
      BY <2>2 DEF Take
    <3> QED BY <3>1
  <2> QED BY <2>1, <2>2
<1> QED BY SMTT(30), <1>1, <1>2, <1>3, <1>4

(* A step of the decoder: what it has to show.                             *)
LEMMA DecoderAside ==
  ASSUME TypeInv, Inv', Called', Pending', RawPlace', cur.kind = "coded",
         UNCHANGED <<cur, ways, key, place, walk>>
  PROVE  TypeInv'
<1>1. Opened' /\ PlainPlace'
  BY StillOpened, StillPlain DEF TypeInv, walk
<1> QED BY <1>1 DEF TypeInv

(* Serving pending bytes: what is handed over is taken off what is pending. *)
LEMMA ServePending ==
  ASSUME NEW g \in Seq(Nat), NEW o \in Seq(Nat), NEW i \in 0..Len(o), NEW k \in Nat, i + k <= Len(o)
  PROVE  /\ (g \o SubSeq(o, i + 1, i + k)) \o SubSeq(o, (i + k) + 1, Len(o))
               = g \o SubSeq(o, i + 1, Len(o))
         /\ g \o SubSeq(o, i + 1, i + k) \in Seq(Nat)
         /\ Len(g \o SubSeq(o, i + 1, i + k)) = Len(g) + k
<1>1. /\ i \in Nat /\ i + k \in Nat /\ Len(o) \in Nat /\ i <= i + k /\ Len(o) <= Len(o)
      /\ (i + k) - i = k
  OBVIOUS
<1>2. /\ SubSeq(o, i + 1, i + k) \in Seq(Nat) /\ Len(SubSeq(o, i + 1, i + k)) = (i + k) - i
      /\ SubSeq(o, (i + k) + 1, Len(o)) \in Seq(Nat)
  BY <1>1, Portion
<1>3. SubSeq(o, i + 1, i + k) \o SubSeq(o, (i + k) + 1, Len(o)) = SubSeq(o, i + 1, Len(o))
  BY ZenonT(30), <1>1, Adjacent
<1>4. (g \o SubSeq(o, i + 1, i + k)) \o SubSeq(o, (i + k) + 1, Len(o))
        = g \o (SubSeq(o, i + 1, i + k) \o SubSeq(o, (i + k) + 1, Len(o)))
  <2> DEFINE p == SubSeq(o, i + 1, i + k)
             q == SubSeq(o, (i + k) + 1, Len(o))
  <2>1. p \in Seq(Nat) /\ q \in Seq(Nat)
    BY <1>2
  <2> HIDE DEF p, q
  <2>2. (g \o p) \o q = g \o (p \o q)
    BY <2>1, Associative
  <2> QED BY <2>2 DEF p, q
<1>5. /\ g \o SubSeq(o, i + 1, i + k) \in Seq(Nat)
      /\ Len(g \o SubSeq(o, i + 1, i + k)) = Len(g) + Len(SubSeq(o, i + 1, i + k))
  BY <1>2, Joined
<1> QED BY <1>1, <1>2, <1>3, <1>4, <1>5

(* Whatever the kind of the file, its reading only goes on; nothing of a   *)
(* coded one is handed over that has not been decoded.                     *)
LEMMA CallDecodedStep ==
  ASSUME TypeInv, NEW n \in 1..MaxRead, CallDecoded(n), UNCHANGED <<place, walk>>, ~headerOnly
  PROVE  /\ cur.kind = "coded" /\ Pending' /\ Called' /\ RawPlace' /\ Len(got) <= Len(got')
         /\ UNCHANGED <<cur, ways, entryDone, key, rawPos, head, eof, decoded>>
<1>1. cur.kind = "coded" /\ cur.kind # "none" /\ ~readEnd /\ ~entryDone
  BY DEF TypeInv, Inv, CallOK, CallDecoded, MayRead, Ways
<1>2. /\ UNCHANGED <<cur, ways, entryDone, faults, key, left, rawPos, head, eof, decoded>>
      /\ UNCHANGED headerOnly
  BY DEF CallDecoded, walk
<1>3. /\ got \in Seq(Nat) /\ out \in Seq(Nat) /\ oi \in 0..Len(out) /\ decoded \in Seq(Nat)
      /\ eof \in BOOLEAN /\ (eof => out = <<>> /\ oi = 0)
      /\ got \o SubSeq(out, oi + 1, Len(out)) = decoded
      /\ Len(out) \in Nat /\ Len(got) \in Nat /\ faults \in 0..MaxFaults
  <2>1. /\ got \in Seq(Nat) /\ out \in Seq(Nat) /\ oi \in 0..Len(out) /\ decoded \in Seq(Nat)
        /\ eof \in BOOLEAN /\ (eof => out = <<>> /\ oi = 0) /\ NothingLost
    BY DEF TypeInv, Pending
  <2>2. got \o SubSeq(out, oi + 1, Len(out)) = decoded
    BY <1>1, <2>1 DEF NothingLost
  <2>3. Len(out) \in Nat /\ Len(got) \in Nat
    BY <2>1
  <2>4. faults \in 0..MaxFaults
    BY DEF TypeInv, Called
  <2> QED BY <2>1, <2>2, <2>3, <2>4
<1>4. CASE oi < Len(out)
  <2> DEFINE k == Least(n, Len(out) - oi)
  <2>1. /\ got' = got \o SubSeq(out, oi + 1, oi + k) /\ oi' = oi + k
        /\ Return("ok") /\ UNCHANGED out
    BY <1>4 DEF CallDecoded, Served
  <2>2. k \in Nat /\ oi + k <= Len(out)
    <3>1. k \in {n, Len(out) - oi} /\ k <= Len(out) - oi
      BY <1>3, LeastIs
    <3> HIDE DEF k
    <3> QED BY <1>3, <1>4, <3>1
  <2> HIDE DEF k
  <2>3. /\ (got \o SubSeq(out, oi + 1, oi + k)) \o SubSeq(out, (oi + k) + 1, Len(out))
               = got \o SubSeq(out, oi + 1, Len(out))
        /\ got \o SubSeq(out, oi + 1, oi + k) \in Seq(Nat)
        /\ Len(got \o SubSeq(out, oi + 1, oi + k)) = Len(got) + k
    BY ZenonT(30), <1>3, <2>2, ServePending
  <2>4. pc' = "idle"
    BY <2>1 DEF Return
  <2>5. ~eof
    BY <1>3, <1>4
  <2>6. got' \o SubSeq(out', oi' + 1, Len(out')) = decoded'
    BY <1>2, <1>3, <2>1, <2>3
  <2>7. got' \in Seq(Nat) /\ oi' \in 0..Len(out') /\ Len(got) <= Len(got')
    <3>1. got' \in Seq(Nat) /\ Len(got') = Len(got) + k
      BY <2>1, <2>3
    <3>2. oi' \in 0..Len(out)
      BY <1>3, <2>1, <2>2
    <3>3. Len(got) <= Len(got) + k /\ out' = out
      BY <1>3, <2>1, <2>2
    <3> QED BY <3>1, <3>2, <3>3
  <2>8. Pending'
    BY <1>2, <1>3, <2>1, <2>4, <2>5, <2>6, <2>7 DEF Pending, NothingLost
  <2>9. Called'
    BY <1>1, <1>2, <1>3, <2>1, ReturnCalled DEF TypeInv
  <2>10. RawPlace'
    BY <1>2, <2>4, StillRaw DEF TypeInv
  <2> QED BY <1>1, <1>2, <2>7, <2>8, <2>9, <2>10
<1>5. CASE ~(oi < Len(out)) /\ eof
  <2>1. Continue("finish") /\ UNCHANGED <<got, out, oi>>
    BY <1>5 DEF CallDecoded
  <2>2. pc' = "finish" /\ Len(got) <= Len(got')
    BY <1>3, <2>1 DEF Continue
  <2>3. Called'
    BY <1>1, <1>2, <1>3, <2>1, ContinueCalled DEF TypeInv
  <2>4. Pending' /\ RawPlace'
    BY <1>2, <1>3, <2>1, <2>2, StillPending, StillRaw DEF TypeInv
  <2> QED BY <1>1, <1>2, <2>2, <2>3, <2>4
<1>6. CASE ~(oi < Len(out)) /\ ~eof
  <2>1. out' = <<>> /\ oi' = 0 /\ pc' = "frame" /\ want' = n /\ UNCHANGED <<got, res, readEnd, failed>>
    BY <1>6 DEF CallDecoded
  <2>2. got = decoded
    <3>1. oi = Len(out) /\ Len(out) < Len(out) + 1
      BY <1>3, <1>6
    <3>2. SubSeq(out, oi + 1, Len(out)) = <<>>
      BY <1>3, <3>1, SubSeqEmpty
    <3> QED BY <1>3, <3>2, ConcatEmptySeq
  <2>3. Pending'
    <3>1. <<>> \in Seq(Nat) /\ 0 \in 0..Len(<<>>)
      OBVIOUS
    <3> QED BY <1>2, <1>3, <1>6, <2>1, <2>2, <3>1, NonePending DEF Pending, NothingLost
  <2>4. n \in 0..MaxRead
    BY ReadCallAssumption
  <2>5. Called'
    BY <1>1, <1>2, <2>1, <2>4 DEF TypeInv, Called
  <2>6. RawPlace'
    BY <1>2, <2>1, StillRaw DEF TypeInv
  <2> QED BY <1>1, <1>2, <1>3, <2>1, <2>3, <2>5, <2>6
<1> QED BY <1>3, <1>4, <1>5, <1>6

LEMMA CallDecodedType ==
  ASSUME TypeInv, Inv', NEW k \in 1..MaxRead, CallDecoded(k), UNCHANGED <<place, walk>>, ~headerOnly
  PROVE  TypeInv'
BY CallDecodedStep, DecoderAside

(* What a step of the decoder may count on.                                *)
LEMMA InDecoder ==
  ASSUME TypeInv, pc \in {"frame", "payload"}
  PROVE  /\ cur.kind = "coded" /\ cur.kind # "none" /\ ~readEnd /\ ~entryDone /\ ~headerOnly
         /\ out = <<>> /\ oi = 0 /\ got \in Seq(Nat) /\ decoded \in Seq(Nat) /\ got = decoded
         /\ ~eof /\ eof \in BOOLEAN /\ faults \in 0..MaxFaults /\ want \in 0..MaxRead
         /\ cur.content \in Seq(Nat) /\ cur.raw \in Seq(Cell) /\ cur.rawLen \in Nat
<1>1. cur.kind = "coded"
  BY DEF TypeInv, Inv, CallOK
<1>2. ~readEnd /\ ~entryDone /\ ~headerOnly /\ faults \in 0..MaxFaults /\ want \in 0..MaxRead
  BY DEF TypeInv, Called
<1>3. out = <<>> /\ oi = 0 /\ got \in Seq(Nat) /\ decoded \in Seq(Nat) /\ eof \in BOOLEAN /\ ~eof
  BY DEF TypeInv, Pending
<1>4. got = decoded
  <2>1. got \o SubSeq(out, oi + 1, Len(out)) = decoded
    BY <1>1 DEF TypeInv, Pending, NothingLost
  <2> QED BY <1>3, <2>1, NonePending
<1>5. cur.content \in Seq(Nat) /\ cur.raw \in Seq(Cell) /\ cur.rawLen \in Nat
  BY DEF TypeInv, Opened
<1> QED BY <1>1, <1>2, <1>3, <1>4, <1>5

LEMMA FailCalled ==
  ASSUME NEW e, TypeInv, pc \in {"frame", "payload"}, Fail(e), faults' \in 0..MaxFaults,
         UNCHANGED <<cur, headerOnly, entryDone>>
  PROVE  Called' /\ pc' \in {"idle", "finish"}
<1>1. Continue("finish") \/ Return("fail")
  BY DEF Fail
<1>2. pc' \in {"idle", "finish"}
  BY <1>1 DEF Continue, Return
<1> QED BY <1>1, <1>2, InDecoder, ReturnCalled, ContinueCalled DEF TypeInv

(* Where nothing is decoded, nothing stays pending.                        *)
LEMMA StillNone ==
  ASSUME TypeInv, pc \in {"frame", "payload"}, UNCHANGED <<cur, got, out, oi, decoded>>, eof' \in BOOLEAN,
         pc' \in {"frame", "payload"} => ~eof'
  PROVE  Pending'
<1>1. out = <<>> /\ oi = 0
  BY InDecoder
<1> QED BY <1>1 DEF TypeInv, Pending, NothingLost

LEMMA NoMoreFramesType ==
  ASSUME TypeInv, Inv', NoMoreFrames, UNCHANGED <<place, walk>>
  PROVE  TypeInv'
<1>1. /\ pc = "frame" /\ Fail("eof") /\ UNCHANGED headerOnly
      /\ UNCHANGED <<cur, ways, got, entryDone, faults, key, left, rawPos, head, out, oi, decoded>>
  BY DEF NoMoreFrames, walk
<1>2. Called' /\ pc' \in {"idle", "finish"}
  BY <1>1, InDecoder, FailCalled
<1>3. Pending'
  BY <1>1, <1>2, StillNone DEF Fail
<1>4. RawPlace'
  BY <1>1, <1>2, StillRaw DEF TypeInv
<1> QED BY <1>1, <1>2, <1>3, <1>4, InDecoder, DecoderAside

LEMMA FrameHeaderStep ==
  ASSUME TypeInv, FrameHeader, UNCHANGED <<place, walk>>
  PROVE  /\ Called' /\ Pending' /\ RawPlace'
         /\ UNCHANGED <<cur, ways, got, entryDone, key, out, oi, decoded>>
         /\ \/ /\ pc' = "payload" /\ UNCHANGED <<eof, failed>> /\ head' = Raw[rawPos + 1]
                /\ GoodFrame(cur, rawPos) /\ rawPos' = rawPos + HdrLen /\ rawPos + HdrLen <= StreamEnd(cur)
            \/ /\ eof' = TRUE /\ pc' \in {"idle", "finish"}
               /\ failed' \/ rawPos = StreamEnd(cur)
<1>0. pc = "frame" /\ UNCHANGED <<cur, ways, got, entryDone, key, out, oi, decoded>> /\ UNCHANGED headerOnly
  BY DEF FrameHeader, walk
<1>1. PICK j \in 0..HdrLen, e \in Ends :
        /\ <<j, e>> \in Taken(HdrLen) /\ Take(j, e)
        /\ IF e = "ok" /\ GoodHeader(cur, Raw[rawPos + 1])
           THEN head' = Raw[rawPos + 1] /\ Continue("payload") /\ UNCHANGED eof
           ELSE Fail(IF e = "ok" THEN "corrupt" ELSE e) /\ UNCHANGED head
  BY DEF FrameHeader
<1>2. HdrLen \in Nat /\ HdrLen > 0
  BY DecoderAssumption
<1>3. /\ cur.kind # "none" /\ ~readEnd /\ ~entryDone /\ ~headerOnly /\ eof \in BOOLEAN
      /\ cur.raw \in Seq(Cell) /\ cur.rawLen \in Nat /\ faults \in 0..MaxFaults
  BY <1>0, InDecoder
<1>4. /\ rawPos' \in 0..Len(Raw) /\ left' \in 0..cur.rawLen /\ left' + rawPos' = cur.rawLen
      /\ faults' \in 0..MaxFaults
      /\ e = "ok" => rawPos' = rawPos + HdrLen /\ rawPos + HdrLen <= StreamEnd(cur)
      /\ e = "eof" => rawPos = StreamEnd(cur)
  BY <1>1, <1>2, <1>3, TakeIs DEF TypeInv
<1>5. rawPos \in Nat /\ StreamEnd(cur) \in Nat /\ StreamEnd(cur) <= Len(Raw) /\ Len(Raw) \in Nat
  <2>1. rawPos \in Nat /\ StreamEnd(cur) \in Nat /\ There = StreamEnd(cur) - rawPos /\ rawPos + There <= Len(Raw)
    BY <1>3, ThereIs DEF TypeInv
  <2>2. Len(Raw) \in Nat
    BY <1>3 DEF Raw
  <2> QED BY <2>1, <2>2
<1>6. CASE e = "ok" /\ GoodHeader(cur, Raw[rawPos + 1])
  <2>1. head' = Raw[rawPos + 1] /\ Continue("payload") /\ UNCHANGED eof
    BY <1>1, <1>6
  <2>2. Called' /\ pc' = "payload" /\ failed' = failed
    BY <1>0, <1>3, <1>4, <2>1, ContinueCalled DEF TypeInv, Continue
  <2>3. rawPos + 1 \in 1..Len(Raw) /\ rawPos < StreamEnd(cur)
    BY <1>2, <1>4, <1>5, <1>6
  <2>4. head' \in Cell
    BY <1>3, <2>1, <2>3, ElementOfSeq DEF Raw
  <2>5. RawPlace'
    BY <1>0, <1>4, <2>4 DEF RawPlace, Raw
  <2>6. Pending'
    BY <1>0, <1>3, <2>1, InDecoder, StillNone
  <2>7. GoodFrame(cur, rawPos)
    BY <1>6, <2>3 DEF GoodFrame, Raw
  <2> QED BY <1>0, <1>4, <1>6, <2>1, <2>2, <2>5, <2>6, <2>7
<1>7. CASE ~(e = "ok" /\ GoodHeader(cur, Raw[rawPos + 1]))
  <2> DEFINE d == IF e = "ok" THEN "corrupt" ELSE e
  <2>1. Fail(d) /\ UNCHANGED head
    BY <1>1, <1>7
  <2>2. d = "eof" => e = "eof"
    OBVIOUS
  <2> HIDE DEF d
  <2>3. Called' /\ pc' \in {"idle", "finish"}
    BY <1>0, <1>4, <2>1, FailCalled
  <2>4. eof' = TRUE /\ (d # "eof" => failed')
    BY <2>1 DEF Fail, Return
  <2>5. RawPlace'
    BY <1>0, <1>4, <2>3 DEF RawPlace, Raw
  <2>6. Pending'
    BY <1>0, <2>3, <2>4, StillNone
  <2>7. failed' \/ rawPos = StreamEnd(cur)
    BY <1>4, <2>2, <2>4
  <2> QED BY <1>0, <2>3, <2>4, <2>5, <2>6, <2>7
<1> QED BY <1>6, <1>7

LEMMA FrameHeaderType ==
  ASSUME TypeInv, Inv', FrameHeader, UNCHANGED <<place, walk>>
  PROVE  TypeInv'
<1>1. cur.kind = "coded"
  BY InDecoder DEF FrameHeader
<1> QED BY <1>1, FrameHeaderStep, DecoderAside

LEMMA FramePayloadStep ==
  ASSUME TypeInv, FramePayload, UNCHANGED <<place, walk>>
  PROVE  /\ Called' /\ Pending' /\ RawPlace' /\ UNCHANGED <<cur, ways, entryDone, key>>
         /\ pc' \in {"idle", "finish"} /\ Len(got) <= Len(got')
         /\ \/ /\ UNCHANGED <<eof, failed>> /\ pc' = "idle" /\ ~readEnd'
                /\ decoded' = decoded \o Decoded(cur, head, SubSeq(Raw, rawPos + 1, rawPos + head.clen))
                /\ rawPos' = rawPos + head.clen /\ rawPos + head.clen <= StreamEnd(cur)
            \/ /\ eof' = TRUE /\ UNCHANGED <<got, decoded>>
               /\ failed' \/ (rawPos = StreamEnd(cur) /\ head.clen > 0)
<1>0. pc = "payload" /\ UNCHANGED <<cur, ways, entryDone, key, head>> /\ UNCHANGED headerOnly
  BY DEF FramePayload, walk
<1> DEFINE o == Decoded(cur, head, SubSeq(Raw, rawPos + 1, rawPos + head.clen))
           k == Least(want, Len(o))
<1>1. PICK j \in 0..head.clen, e \in Ends :
        /\ <<j, e>> \in Taken(head.clen) /\ Take(j, e)
        /\ IF e = "ok" /\ (cur.enc => key = "right")
           THEN /\ out' = o /\ oi' = k
                /\ got' = got \o SubSeq(o, 1, k) /\ decoded' = decoded \o o
                /\ Return("ok") /\ UNCHANGED eof
           ELSE /\ Fail(IF e = "ok" THEN "undeciphered" ELSE e)
                /\ UNCHANGED <<out, oi, got, decoded>>
  BY DEF FramePayload
<1> HIDE DEF k, o
<1>2. head \in Cell /\ head.clen \in Nat
  BY <1>0 DEF TypeInv, RawPlace, Cell
<1>3. /\ cur.kind # "none" /\ ~readEnd /\ ~entryDone /\ ~headerOnly /\ eof \in BOOLEAN
      /\ cur.raw \in Seq(Cell) /\ cur.rawLen \in Nat /\ faults \in 0..MaxFaults
      /\ got \in Seq(Nat) /\ decoded = got /\ want \in 0..MaxRead /\ Len(got) \in Nat
  BY <1>0, InDecoder
<1>4. /\ rawPos' \in 0..Len(Raw) /\ left' \in 0..cur.rawLen /\ left' + rawPos' = cur.rawLen
      /\ faults' \in 0..MaxFaults
      /\ e = "ok" => rawPos' = rawPos + head.clen /\ rawPos + head.clen <= StreamEnd(cur)
      /\ e = "eof" => rawPos = StreamEnd(cur) /\ head.clen > 0
  BY <1>1, <1>2, <1>3, TakeIs DEF TypeInv
<1>5. rawPos \in Nat /\ StreamEnd(cur) \in Nat /\ StreamEnd(cur) <= Len(Raw) /\ Len(Raw) \in Nat
  <2>1. rawPos \in Nat /\ StreamEnd(cur) \in Nat /\ There = StreamEnd(cur) - rawPos /\ rawPos + There <= Len(Raw)
    BY <1>3, ThereIs DEF TypeInv
  <2>2. Len(Raw) \in Nat
    BY <1>3 DEF Raw
  <2> QED BY <2>1, <2>2
<1>6. CASE e = "ok" /\ (cur.enc => key = "right")
  <2>1. /\ out' = o /\ oi' = k /\ got' = got \o SubSeq(o, 1, k) /\ decoded' = decoded \o o
        /\ Return("ok") /\ UNCHANGED eof
    BY <1>1, <1>6
  <2>2. o \in Seq(Nat)
    <3>1. SubSeq(Raw, rawPos + 1, rawPos + head.clen) \in Seq(Cell)
      <4>1. \A i \in (rawPos + 1)..(rawPos + head.clen) : Raw[i] \in Cell
        <5>1. SUFFICES ASSUME NEW i \in (rawPos + 1)..(rawPos + head.clen) PROVE Raw[i] \in Cell
          OBVIOUS
        <5>2. i \in 1..Len(Raw)
          BY <1>2, <1>4, <1>5, <1>6
        <5> QED BY <1>3, <5>2, ElementOfSeq DEF Raw
      <4>2. rawPos + 1 \in Int /\ rawPos + head.clen \in Int
        BY <1>2, <1>5
      <4> QED BY <4>1, <4>2, SubSeqProperties
    <3> QED BY <3>1, DecodedType DEF o
  <2>3. k \in Nat /\ k <= Len(o) /\ Len(o) \in Nat /\ 0 + k = k
    <3>1. Len(o) \in Nat /\ want \in Nat
      BY <1>3, <2>2, ReadCallAssumption
    <3>2. k \in {want, Len(o)} /\ k <= Len(o)
      BY <3>1, LeastIs DEF k
    <3> QED BY <3>1, <3>2
  <2>4. /\ (got \o SubSeq(o, 0 + 1, 0 + k)) \o SubSeq(o, (0 + k) + 1, Len(o))
               = got \o SubSeq(o, 0 + 1, Len(o))
        /\ got \o SubSeq(o, 0 + 1, 0 + k) \in Seq(Nat)
        /\ Len(got \o SubSeq(o, 0 + 1, 0 + k)) = Len(got) + k
    <3>1. 0 \in 0..Len(o) /\ 0 + k <= Len(o)
      BY <2>3
    <3> QED BY <1>3, <2>2, <2>3, <3>1, ServePending
  <2>5. SubSeq(o, 0 + 1, Len(o)) = o /\ SubSeq(o, 0 + 1, 0 + k) = SubSeq(o, 1, k)
    <3>1. 0 + 1 = 1
      OBVIOUS
    <3> QED BY <2>2, <2>3, <3>1, SubSeqFull
  <2>6. /\ got' \in Seq(Nat) /\ Len(got') = Len(got) + k
        /\ got' \o SubSeq(out', oi' + 1, Len(out')) = decoded'
    BY <1>3, <2>1, <2>3, <2>4, <2>5
  <2>7. decoded' \in Seq(Nat)
    BY <1>3, <2>1, <2>2, Joined
  <2>8. Called' /\ pc' = "idle" /\ failed' = failed /\ ~readEnd'
    <3>1. failed \in BOOLEAN
      BY DEF TypeInv, Inv, CallOK
    <3> QED BY <1>0, <1>3, <1>4, <2>1, <3>1, ReturnCalled DEF TypeInv, Return
  <2>9. Pending'
    <3>1. ~eof
      BY <1>0, InDecoder
    <3>2. oi' \in 0..Len(out')
      BY <2>1, <2>3
    <3> QED BY <1>3, <2>1, <2>2, <2>6, <2>7, <2>8, <3>1, <3>2 DEF Pending, NothingLost
  <2>10. RawPlace'
    BY <1>0, <1>4, <2>8 DEF RawPlace, Raw
  <2>11. Len(got) <= Len(got')
    BY <1>3, <2>3, <2>6
  <2> QED BY <1>0, <1>4, <1>6, <2>1, <2>8, <2>9, <2>10, <2>11 DEF o
<1>7. CASE ~(e = "ok" /\ (cur.enc => key = "right"))
  <2> DEFINE d == IF e = "ok" THEN "undeciphered" ELSE e
  <2>1. Fail(d) /\ UNCHANGED <<out, oi, got, decoded>>
    BY <1>1, <1>7
  <2>2. d = "eof" => e = "eof"
    OBVIOUS
  <2> HIDE DEF d
  <2>3. Called' /\ pc' \in {"idle", "finish"}
    BY <1>0, <1>4, <2>1, FailCalled
  <2>4. eof' = TRUE /\ (d # "eof" => failed')
    BY <2>1 DEF Fail, Return
  <2>5. RawPlace'
    BY <1>0, <1>4, <2>3 DEF RawPlace, Raw
  <2>6. Pending'
    BY <1>0, <2>1, <2>3, <2>4, StillNone
  <2>7. failed' \/ (rawPos = StreamEnd(cur) /\ head.clen > 0)
    BY <1>4, <2>2, <2>4
  <2>8. Len(got) <= Len(got')
    BY <1>3, <2>1
  <2> QED BY <1>0, <2>1, <2>3, <2>4, <2>5, <2>6, <2>7, <2>8
<1> QED BY <1>6, <1>7

LEMMA FramePayloadType ==
  ASSUME TypeInv, Inv', FramePayload, UNCHANGED <<place, walk>>
  PROVE  TypeInv'
<1>1. cur.kind = "coded"
  BY InDecoder DEF FramePayload
<1> QED BY <1>1, FramePayloadStep, DecoderAside

-----------------------------------------------------------------------------
LEMMA StepType == TypeInv /\ [Next]_vars => TypeInv'
<1> SUFFICES ASSUME TypeInv, [Next]_vars PROVE TypeInv'
  OBVIOUS
<1>0. Inv'
  BY StepInv DEF TypeInv
<1>1. CASE NextFile
  BY <1>0, <1>1, NextFileType
<1>2. CASE NextFails
  BY <1>0, <1>2, NextFailsType
<1>3. CASE ~headerOnly /\ \E k \in 1..MaxRead : Call(k)
  <2>1. PICK k \in 1..MaxRead : Call(k)
    BY <1>3
  <2> QED BY <1>0, <1>3, <2>1, CallPlainType, CallSparseType, CallDecodedType DEF Call
<1>4. CASE Step
  <2>1. CASE SparseStep /\ UNCHANGED <<key, dec, walk>>
    BY <1>0, <2>1, SparseStepType
  <2>2. CASE DecoderStep /\ UNCHANGED <<place, walk>>
    BY <1>0, <2>2, NoMoreFramesType, FrameHeaderType, FramePayloadType DEF DecoderStep
  <2>3. CASE (ReadDone \/ Finish) /\ UNCHANGED <<place, key, dec, walk>>
    BY <1>0, <2>3, ReadDoneType, FinishType
  <2> QED BY <1>4, <2>1, <2>2, <2>3 DEF Step
<1>5. CASE UNCHANGED vars
  <2>1. UNCHANGED <<cur, ways, pc, want, res, readEnd, failed, got, entryDone, faults, place,
                    key, left, rawPos, head, out, oi, eof, decoded, archive, opened, dataRem,
                    size, headerOnly>>
    BY <1>5 DEF vars, rcVars, call, walk, dec
  <2>2. Opened' /\ PlainPlace' /\ RawPlace'
    BY <2>1, StillOpened, StillPlain, StillRaw DEF TypeInv
  <2>3. Called'
    BY <2>1 DEF TypeInv, Called
  <2>4. Pending'
    BY <2>1, StillPending DEF TypeInv, Pending
  <2> QED BY <1>0, <2>2, <2>3, <2>4 DEF TypeInv
<1> QED BY <1>1, <1>2, <1>3, <1>4, <1>5 DEF Next

LEMMA AlwaysTyped == Spec => []TypeInv
<1>1. TypeInv /\ [Next]_vars => TypeInv'
  BY StepType
<1> QED BY <1>1, InitType, PTL DEF Spec

(* Indexes, counts and lengths stay within what they index and count: for  *)
(* every archive, every caller and any errors, the extents of a sparse     *)
(* file, the raw bytes of a coded one and the content of a plain one are   *)
(* never overrun (Next, Read, decoder.Read).                               *)
THEOREM TypesHold == Spec => []TypeOK
<1>1. TypeInv => TypeOK
  <2> SUFFICES ASSUME TypeInv PROVE TypeOK
    OBVIOUS
  <2>1. opened \in 0..Len(archive) /\ size \in Nat /\ key \in Keys
    BY DEF TypeInv, Opened
  <2>2. /\ pc \in {"idle", "sparse", "frame", "payload", "finish"} /\ want \in 0..MaxRead
        /\ faults \in 0..MaxFaults /\ res \in {"ok", "fail"}
    BY DEF TypeInv, Called
  <2>3. /\ ways \subseteq Ways(cur) /\ {readEnd, failed, entryDone, headerOnly} \subseteq BOOLEAN
        /\ sparseIdx \in 1..(Len(Map) + 1) /\ sparsePos \in Nat /\ sparseCursor \in Nat
    BY DEF TypeInv, Inv, CallOK, EntryOK, PlaceType
  <2>4. got \in Seq(Nat) /\ eof \in BOOLEAN /\ oi \in 0..Len(out)
    BY DEF TypeInv, Pending
  <2>5. left \in 0..cur.rawLen /\ rawPos \in 0..Len(Raw) /\ dataRem \in 0..Len(cur.content)
    BY DEF TypeInv, RawPlace, PlainPlace
  <2>6. {readEnd, failed, entryDone, eof, headerOnly} \subseteq BOOLEAN
    BY <2>3, <2>4
  <2> QED BY <2>1, <2>2, <2>3, <2>4, <2>5, <2>6 DEF TypeOK
<1> QED BY <1>1, AlwaysTyped, PTL

(* What the frames of a coded file have decoded to is handed over once and *)
(* in order, in portions of any size and across calls that fail            *)
(* (decoder.Read, deliver).                                                *)
THEOREM NothingIsLost == Spec => []NothingLost
<1>1. TypeInv => NothingLost
  BY DEF TypeInv, Pending
<1> QED BY <1>1, AlwaysTyped, PTL

-----------------------------------------------------------------------------
(* From here on the content of a file is what is recorded of it.           *)
LEMMA FramingSame ==
  ASSUME NEW f, NEW g, NEW at, Framing(f, at), g.content = f.content, g.raw = f.raw,
         g.rawLen = f.rawLen, g.comp = f.comp, g.enc = f.enc
  PROVE  Framing(g, at)
<1>1. \A h, c : Decoded(g, h, c) = Decoded(f, h, c)
  BY DEF Decoded, StoredPlain
<1>2. \A p : /\ StreamEnd(g) = StreamEnd(f) /\ (GoodFrame(g, p) <=> GoodFrame(f, p))
             /\ FrameEnd(g, p) = FrameEnd(f, p) /\ Payload(g, p) = Payload(f, p)
  BY DEF StreamEnd, GoodFrame, GoodHeader, FrameEnd, Payload
<1> QED BY SMTT(30), <1>1, <1>2 DEF Framing

LEMMA StillRecorded ==
  ASSUME RecordedOK, UNCHANGED <<cur, size, headerOnly>>
  PROVE  RecordedOK'
<1>1. HeaderSize(cur)' = HeaderSize(cur) /\ Map' = Map
  BY DEF HeaderSize, Map
<1> QED BY <1>1 DEF RecordedOK

LEMMA NextFileRecorded ==
  ASSUME WellRecorded, TypeInv, NextFile
  PROVE  RecordedOK'
<1> DEFINE g == archive[opened + 1]
           c == Captured(g)
<1>1. /\ cur' = c /\ g \in Files /\ Recorded(g) /\ size' = HeaderSize(c)
      /\ headerOnly' = headerOnly
  <2>1. cur' = c /\ opened + 1 \in 1..Len(archive) /\ archive \in Archives
    BY OpenedFile
  <2>2. g \in Files
    BY <2>1, ArchivesAssumption DEF File
  <2>3. Recorded(g)
    BY <2>1 DEF WellRecorded
  <2>4. size' = HeaderSize(c) /\ headerOnly' = headerOnly
    BY DEF NextFile
  <2> QED BY <2>1, <2>2, <2>3, <2>4
<1> HIDE DEF g
<1>2. /\ c.kind = g.kind /\ c.content = g.content /\ c.raw = g.raw /\ c.rawLen = g.rawLen
      /\ c.comp = g.comp /\ c.enc = g.enc /\ c.displayed = g.displayed
      /\ (~headerOnly => c.extents = g.extents)
  <2>1. CASE headerOnly
    <3>1. c = [g EXCEPT !.extents = <<>>]
      BY <2>1 DEF Captured
    <3> QED BY <1>1, <2>1, <3>1 DEF Files
  <2>2. CASE ~headerOnly
    BY <2>2 DEF Captured
  <2> QED BY <2>1, <2>2
<1> HIDE DEF c
<1>3. cur'.kind = "coded" => \E at : Framing(cur', at)
  <2>1. SUFFICES ASSUME g.kind = "coded" PROVE \E at : Framing(c, at)
    BY <1>1, <1>2
  <2>2. PICK at : Framing(g, at)
    BY <1>1, <2>1 DEF Recorded
  <2>3. Framing(c, at)
    BY <1>2, <2>2, FramingSame
  <2> QED BY <2>3
<1>4. cur'.kind = "sparse" /\ ~headerOnly' =>
        cur'.content = [p \in 1..SizeOf(Map') |-> ByteAt(Map', p)]
  BY <1>1, <1>2 DEF Recorded, Map
<1>5. cur'.kind = "coded" => cur'.displayed = Len(cur'.content)
  BY <1>1, <1>2 DEF Recorded
<1> QED BY <1>1, <1>3, <1>4, <1>5 DEF RecordedOK

(* The frames of the current file.                                         *)
LEMMA AtIs ==
  ASSUME RecordedOK, cur.kind = "coded"
  PROVE  Framing(cur, At(cur))
BY DEF RecordedOK, At

LEMMA StillFramed ==
  ASSUME FramePlace, UNCHANGED <<cur, rawPos, head, eof, decoded>>, (pc' = "payload") <=> (pc = "payload")
  PROVE  FramePlace'
BY DEF FramePlace, Raw

LEMMA EndFramed ==
  ASSUME FramePlace, UNCHANGED <<cur, decoded>>, eof'
  PROVE  FramePlace'
BY DEF FramePlace

LEMMA NextFileFramed ==
  ASSUME WellRecorded, TypeInv, NextFile
  PROVE  FramePlace'
<1>1. SUFFICES ASSUME cur'.kind = "coded" PROVE FramePlace'
  BY DEF FramePlace
<1>2. Framing(cur', At(cur'))
  <2>1. \E at : Framing(cur', at)
    BY <1>1, NextFileRecorded DEF RecordedOK
  <2> QED BY <2>1 DEF At
<1>3. decoded' = <<>> /\ rawPos' = 0 /\ eof' = FALSE /\ pc' = "idle"
  BY DEF NextFile, OpenFile, Yield, NewDecoder
<1>4. cur'.content \in Seq(Nat)
  BY OpenedFile DEF Files
<1>5. SubSeq(cur'.content, 1, 0) = <<>> /\ Len(<<>>) = 0 /\ 0 <= Len(cur'.content)
  BY <1>4, SubSeqEmpty
<1>6. 0 \in DOMAIN At(cur') /\ At(cur')[0] = 0
  BY <1>2 DEF Framing
<1> QED BY <1>3, <1>5, <1>6 DEF FramePlace

LEMMA FrameHeaderFramed ==
  ASSUME TypeInv, FramePlace, FrameHeader, UNCHANGED <<place, walk>>
  PROVE  FramePlace'
<1>1. cur.kind = "coded" /\ pc = "frame" /\ ~eof
  BY InDecoder DEF FrameHeader
<1>2. UNCHANGED <<cur, decoded>>
  BY FrameHeaderStep
<1>3. CASE eof' = TRUE
  BY <1>2, <1>3, EndFramed
<1>4. CASE /\ pc' = "payload" /\ UNCHANGED eof /\ head' = Raw[rawPos + 1]
           /\ GoodFrame(cur, rawPos) /\ rawPos' = rawPos + HdrLen
  <2>1. rawPos \in DOMAIN At(cur) /\ At(cur)[rawPos] = Len(decoded)
    BY <1>1 DEF FramePlace
  <2> QED BY <1>1, <1>2, <1>4, <2>1 DEF FramePlace, Raw
<1> QED BY <1>3, <1>4, FrameHeaderStep

LEMMA FramePayloadFramed ==
  ASSUME WellRecorded, TypeInv, RecordedOK, FramePlace, FramePayload, UNCHANGED <<place, walk>>
  PROVE  FramePlace'
<1>1. cur.kind = "coded" /\ pc = "payload" /\ ~eof /\ cur.content \in Seq(Nat)
  BY InDecoder DEF FramePayload
<1>2. Framing(cur, At(cur)) /\ cur' = cur
  BY <1>1, AtIs, FramePayloadStep
<1>3. CASE eof' = TRUE /\ UNCHANGED decoded
  BY <1>2, <1>3, EndFramed
<1>4. CASE /\ UNCHANGED eof /\ pc' = "idle" /\ rawPos' = rawPos + head.clen
           /\ rawPos + head.clen <= StreamEnd(cur)
           /\ decoded' = decoded \o Decoded(cur, head, SubSeq(Raw, rawPos + 1, rawPos + head.clen))
  <2> DEFINE at == At(cur)
  <2>1. PICK p \in DOMAIN at :
          rawPos = p + HdrLen /\ at[p] = Len(decoded) /\ GoodFrame(cur, p) /\ head = Raw[p + 1]
    BY <1>1 DEF FramePlace
  <2> DEFINE e == FrameEnd(cur, p)
  <2>2. e = rawPos + head.clen /\ e <= StreamEnd(cur)
    BY <1>4, <2>1 DEF FrameEnd, Raw
  <2>3. Payload(cur, p) = SubSeq(Raw, rawPos + 1, rawPos + head.clen)
    BY <2>1, <2>2 DEF Payload, Raw
  <2>4. /\ e \in DOMAIN at /\ at[p] <= at[e]
        /\ Decoded(cur, cur.raw[p + 1], Payload(cur, p)) = SubSeq(cur.content, at[p] + 1, at[e])
    BY <1>2, <2>1, <2>2 DEF Framing
  <2>5. at[p] \in 0..Len(cur.content) /\ at[e] \in 0..Len(cur.content) /\ Len(cur.content) \in Nat
    <3>1. \A q \in DOMAIN at : at[q] \in 0..Len(cur.content)
      BY <1>2 DEF Framing
    <3> QED BY <1>1, <2>1, <2>4, <3>1
  <2> HIDE DEF at, e
  <2>6. decoded = SubSeq(cur.content, 1, at[p])
    BY <1>1, <2>1 DEF FramePlace
  <2>7. decoded' = SubSeq(cur.content, 1, at[p]) \o SubSeq(cur.content, at[p] + 1, at[e])
    BY <1>4, <2>1, <2>3, <2>4, <2>6 DEF Raw
  <2>8. /\ SubSeq(cur.content, 0 + 1, at[p]) \o SubSeq(cur.content, at[p] + 1, at[e])
              = SubSeq(cur.content, 0 + 1, at[e])
        /\ Len(SubSeq(cur.content, 0 + 1, at[e])) = at[e] - 0
    <3>1. at[p] \in Nat /\ at[e] \in Nat /\ 0 <= at[p] /\ 0 <= at[e] /\ at[e] <= Len(cur.content)
      BY <2>5
    <3> QED BY <1>1, <2>4, <3>1, Adjacent, Portion
  <2>9. decoded' = SubSeq(cur.content, 1, at[e]) /\ Len(decoded') = at[e]
    <3>1. 0 + 1 = 1 /\ at[e] - 0 = at[e]
      BY <2>5
    <3> QED BY <2>7, <2>8, <3>1
  <2>10. Len(decoded') <= Len(cur.content)
    BY <2>5, <2>9
  <2> QED BY <1>1, <1>2, <1>4, <2>2, <2>4, <2>9, <2>10 DEF FramePlace, at
<1> QED BY <1>3, <1>4, FramePayloadStep

-----------------------------------------------------------------------------
(* How a plain or coded file ends.  A step that hands over nothing may end *)
(* it only where a call has failed or all has come.                        *)
LEMMA StillFull ==
  ASSUME EndsFull, UNCHANGED <<cur, got>>, failed => failed',
         pc' = "finish" \/ entryDone' \/ readEnd' =>
           failed' \/ pc = "finish" \/ entryDone \/ readEnd \/ (cur.kind = "coded" /\ eof)
             \/ Len(got) = Len(cur.content),
         eof' => eof \/ failed' \/ Len(got) = Len(cur.content)
  PROVE  EndsFull'
BY DEF EndsFull

LEMMA EndOfStream ==
  ASSUME TypeInv, RecordedOK, FramePlace, pc = "frame", rawPos = StreamEnd(cur)
  PROVE  Len(got) = Len(cur.content)
<1>1. cur.kind = "coded" /\ ~eof /\ got = decoded
  BY InDecoder
<1>2. rawPos \in DOMAIN At(cur) /\ At(cur)[rawPos] = Len(decoded)
  BY <1>1 DEF FramePlace
<1>3. At(cur)[rawPos] = Len(cur.content)
  BY <1>1, <1>2, AtIs DEF Framing
<1> QED BY <1>1, <1>2, <1>3

LEMMA EndOfStreamBehind ==
  ASSUME TypeInv, RecordedOK, FramePlace, pc = "payload", rawPos = StreamEnd(cur), head.clen > 0
  PROVE  Len(got) = Len(cur.content)
<1>1. cur.kind = "coded" /\ ~eof /\ got = decoded
  BY InDecoder
<1>2. PICK p \in DOMAIN At(cur) :
        rawPos = p + HdrLen /\ At(cur)[p] = Len(decoded) /\ GoodFrame(cur, p) /\ head = Raw[p + 1]
  BY <1>1 DEF FramePlace
<1>3. rawPos \in Nat /\ head.clen \in Nat
  BY DEF TypeInv, RawPlace, Cell
<1>4. FrameEnd(cur, p) > StreamEnd(cur)
  BY <1>2, <1>3 DEF FrameEnd, Raw
<1>5. At(cur)[p] = Len(cur.content)
  BY <1>1, <1>2, <1>4, AtIs DEF Framing
<1> QED BY <1>1, <1>2, <1>5

LEMMA NoMoreFramesFull ==
  ASSUME TypeInv, RecordedOK, FramePlace, EndsFull, NoMoreFrames, UNCHANGED <<place, walk>>
  PROVE  EndsFull'
<1>1. pc = "frame" /\ left <= 0 /\ UNCHANGED <<cur, got, entryDone>> /\ Continue("finish")
  BY DEF NoMoreFrames, Fail
<1>2. rawPos = StreamEnd(cur)
  <2>1. /\ left \in Nat /\ left + rawPos = cur.rawLen /\ rawPos \in 0..Len(Raw)
        /\ Len(Raw) \in Nat
    BY DEF TypeInv, RawPlace, Opened, Raw
  <2>2. rawPos = cur.rawLen /\ cur.rawLen <= Len(cur.raw)
    BY <1>1, <2>1 DEF Raw
  <2> QED BY <2>2 DEF StreamEnd, Least
<1>3. Len(got) = Len(cur.content)
  BY <1>1, <1>2, EndOfStream
<1> QED BY <1>1, <1>3, StillFull DEF Continue

LEMMA FrameHeaderFull ==
  ASSUME TypeInv, RecordedOK, FramePlace, EndsFull, FrameHeader, UNCHANGED <<place, walk>>
  PROVE  EndsFull'
<1>1. /\ pc = "frame" /\ UNCHANGED <<cur, got, entryDone>> /\ ~readEnd /\ ~entryDone
      /\ ~eof /\ failed \in BOOLEAN
  BY InDecoder DEF FrameHeader, TypeInv, Inv, CallOK
<1>2. CASE eof' = TRUE /\ (failed' \/ rawPos = StreamEnd(cur))
  <2>1. failed' \/ Len(got) = Len(cur.content)
    BY <1>1, <1>2, EndOfStream
  <2> QED BY <1>1, <2>1 DEF EndsFull
<1>3. CASE pc' = "payload" /\ UNCHANGED <<eof, failed>>
  <2>1. ~readEnd'
    BY <1>3, FrameHeaderStep DEF Called
  <2> QED BY <1>1, <1>3, <2>1 DEF EndsFull
<1> QED BY <1>2, <1>3, FrameHeaderStep

LEMMA FramePayloadFull ==
  ASSUME WellRecorded, TypeInv, RecordedOK, FramePlace, EndsFull, FramePayload, UNCHANGED <<place, walk>>
  PROVE  EndsFull'
<1>1. /\ pc = "payload" /\ UNCHANGED <<cur, entryDone>> /\ ~entryDone /\ ~eof
  BY InDecoder DEF FramePayload
<1>2. CASE /\ eof' = TRUE /\ UNCHANGED <<got, decoded>>
           /\ failed' \/ (rawPos = StreamEnd(cur) /\ head.clen > 0)
  <2>1. failed' \/ Len(got) = Len(cur.content)
    BY <1>1, <1>2, EndOfStreamBehind
  <2> QED BY <1>1, <1>2, <2>1 DEF EndsFull
<1>3. CASE UNCHANGED <<eof, failed>> /\ pc' = "idle" /\ ~readEnd'
  BY <1>1, <1>3 DEF EndsFull
<1> QED BY <1>2, <1>3, FramePayloadStep

LEMMA CallDecodedFull ==
  ASSUME TypeInv, EndsFull, NEW n \in 1..MaxRead, CallDecoded(n), UNCHANGED <<place, walk>>, ~headerOnly
  PROVE  EndsFull'
<1>1. cur.kind = "coded" /\ UNCHANGED <<cur, entryDone, eof>> /\ ~entryDone /\ ~readEnd
  BY CallDecodedStep DEF CallDecoded, MayRead
<1>2. failed \in BOOLEAN /\ (eof => out = <<>> /\ oi = 0)
  BY DEF TypeInv, Inv, CallOK, Pending
<1>3. CASE eof
  <2>1. ~(oi < Len(out))
    BY <1>2, <1>3
  <2>2. UNCHANGED got /\ Continue("finish")
    BY <1>3, <2>1 DEF CallDecoded
  <2> QED BY <1>1, <1>3, <2>2, StillFull DEF Continue
<1>4. CASE ~eof
  <2>1. pc' \in {"idle", "frame"} /\ ~readEnd'
    BY <1>1, <1>4 DEF CallDecoded, Return
  <2> QED BY <1>1, <1>4, <2>1 DEF EndsFull
<1> QED BY <1>3, <1>4

LEMMA CallPlainFull ==
  ASSUME TypeInv, EndsFull, NEW k \in 1..MaxRead, CallPlain(k), ~headerOnly
  PROVE  EndsFull'
<1>1. /\ cur.kind = "plain" /\ UNCHANGED <<cur, entryDone>> /\ PlainPlace' /\ got' \in Seq(Nat)
      /\ Return("fail") \/ (Continue("finish") /\ dataRem' = 0) \/ Return("ok")
  BY CallPlainStep
<1>2. ~entryDone /\ ~readEnd
  BY DEF CallPlain, MayRead
<1>3. CASE Return("fail")
  BY <1>1, <1>3 DEF Return, EndsFull
<1>4. CASE Return("ok")
  BY <1>1, <1>2, <1>4 DEF Return, EndsFull
<1>5. CASE Continue("finish") /\ dataRem' = 0
  <2>1. Len(got') + dataRem' = Len(cur'.content) /\ Len(got') \in Nat
    BY <1>1 DEF PlainPlace
  <2>2. Len(got') = Len(cur'.content)
    BY <1>5, <2>1
  <2> QED BY <1>1, <2>2 DEF EndsFull
<1> QED BY <1>1, <1>3, <1>4, <1>5

(* The cursor of a sparse file stays within the file.                      *)
LEMMA RoundWithin ==
  ASSUME TypeInv, SparseHole \/ SparseData, UNCHANGED <<key, dec, walk>>
  PROVE  CursorWithin'
<1>1. /\ sparseCursor' <= EndOf(Extent) /\ sparseIdx \in 1..Len(Map) /\ cur' = cur
      /\ cur.kind = "sparse"
  BY HoleRound, DataRound DEF TypeInv, Inv, CallOK, SparseHole, SparseData
<1>2. Map \in Extents /\ InOrder(Map) /\ Map' = Map
  BY <1>1 DEF TypeInv, Inv, EntryOK, Map, Extents
<1>3. EndOf(Extent) <= SizeOf(Map) /\ SizeOf(Map) \in Nat
  BY <1>1, <1>2, SizeIs DEF Extent
<1>4. EndOf(Extent) \in Nat /\ sparseCursor' \in Nat
  <2>1. EndOf(Extent) \in Nat
    BY <1>1, <1>2, ExtentType DEF Extents, Extent
  <2>2. sparseCursor' \in Nat
    <3>1. Inv' => sparseCursor' \in Nat
      BY DEF Inv, PlaceType
    <3>2. Inv'
      BY SparseHoleInv, SparseDataInv DEF TypeInv
    <3> QED BY <3>1, <3>2
  <2> QED BY <2>1, <2>2
<1> QED BY <1>1, <1>2, <1>3, <1>4 DEF CursorWithin

LEMMA StillWithin ==
  ASSUME CursorWithin, UNCHANGED <<cur, sparseCursor>>
  PROVE  CursorWithin'
BY DEF CursorWithin, Map

LEMMA NextFileContent ==
  ASSUME WellRecorded, TypeInv, NextFile
  PROVE  RecordedOK' /\ FramePlace' /\ CursorWithin' /\ EndsFull'
<1>1. /\ pc' = "idle" /\ readEnd' = FALSE /\ entryDone' = FALSE /\ eof' = FALSE
      /\ sparseCursor' = 0
  BY DEF NextFile, OpenFile, Yield, ResetPlace, NewDecoder
<1>2. cur'.extents \in Extents /\ InOrder(cur'.extents)
  BY OpenedFile DEF Files
<1>3. SizeOf(Map') \in Nat
  BY <1>2, SizeIs DEF Map
<1>4. CursorWithin'
  BY <1>1, <1>3 DEF CursorWithin
<1>5. EndsFull'
  BY <1>1 DEF EndsFull
<1> QED BY <1>4, <1>5, NextFileRecorded, NextFileFramed

(* Only the kind of the file whose turn it is has anything to show.        *)
LEMMA SparseContent ==
  ASSUME ContentInv, cur.kind = "sparse", UNCHANGED <<cur, size, headerOnly>>, CursorWithin'
  PROVE  RecordedOK' /\ FramePlace' /\ CursorWithin' /\ EndsFull'
<1>1. RecordedOK'
  BY StillRecorded DEF ContentInv
<1> QED BY <1>1 DEF FramePlace, EndsFull

LEMMA PlainContent ==
  ASSUME ContentInv, cur.kind = "plain", UNCHANGED <<cur, size, headerOnly>>, EndsFull'
  PROVE  RecordedOK' /\ FramePlace' /\ CursorWithin' /\ EndsFull'
<1>1. RecordedOK'
  BY StillRecorded DEF ContentInv
<1> QED BY <1>1 DEF FramePlace, CursorWithin

LEMMA CodedContent ==
  ASSUME ContentInv, cur.kind = "coded", UNCHANGED <<cur, size, headerOnly>>, FramePlace', EndsFull'
  PROVE  RecordedOK' /\ FramePlace' /\ CursorWithin' /\ EndsFull'
<1>1. RecordedOK'
  BY StillRecorded DEF ContentInv
<1> QED BY <1>1 DEF CursorWithin

(* A step between two reads of the data.                                   *)
LEMMA IdleContent ==
  ASSUME ContentInv, NextFails \/ ((ReadDone \/ Finish) /\ UNCHANGED <<place, key, dec, walk>>)
  PROVE  RecordedOK' /\ FramePlace' /\ CursorWithin' /\ EndsFull'
<1>1. /\ UNCHANGED <<cur, got, size, headerOnly, sparseCursor, rawPos, head, eof, decoded>>
      /\ pc # "payload" /\ pc' # "payload"
  BY DEF NextFails, ReadDone, Finish, MayRead, Return, walk, dec, place
<1>2. failed => failed'
  BY DEF NextFails, ReadDone, Finish, Return, ContentInv, TypeInv, Inv, CallOK
<1>3. (pc' = "finish" \/ entryDone' \/ readEnd') => failed' \/ pc = "finish" \/ entryDone \/ readEnd
  <2>1. CASE NextFails
    BY <2>1 DEF NextFails
  <2>2. CASE ReadDone
    BY <2>2 DEF ReadDone
  <2>3. CASE Finish
    BY <2>3 DEF Finish
  <2> QED BY <2>1, <2>2, <2>3
<1>4. EndsFull'
  BY <1>1, <1>2, <1>3, StillFull DEF ContentInv
<1>5. RecordedOK' /\ FramePlace' /\ CursorWithin'
  BY <1>1, StillRecorded, StillFramed, StillWithin DEF ContentInv
<1> QED BY <1>4, <1>5

LEMMA CallContent ==
  ASSUME ContentInv, NEW k \in 1..MaxRead, Call(k), ~headerOnly
  PROVE  RecordedOK' /\ FramePlace' /\ CursorWithin' /\ EndsFull'
<1>1. CASE CallPlain(k)
  <2>1. cur.kind = "plain" /\ UNCHANGED <<cur, size, headerOnly>>
    BY <1>1, CallPlainStep DEF ContentInv
  <2>2. EndsFull'
    BY <1>1, CallPlainFull DEF ContentInv
  <2> QED BY <2>1, <2>2, PlainContent
<1>2. CASE CallSparse(k) /\ UNCHANGED <<key, dec, walk>>
  <2>1. cur.kind = "sparse"
    BY <1>2 DEF ContentInv, TypeInv, Inv, CallOK, CallSparse, Ways
  <2>2. UNCHANGED <<cur, size, headerOnly, sparseCursor>>
    BY <1>2 DEF CallSparse, place, walk
  <2>3. CursorWithin'
    BY <2>2, StillWithin DEF ContentInv
  <2> QED BY <2>1, <2>2, <2>3, SparseContent
<1>3. CASE CallDecoded(k) /\ UNCHANGED <<place, walk>>
  <2>1. cur.kind = "coded" /\ UNCHANGED <<cur, rawPos, head, eof, decoded>>
    BY <1>3, CallDecodedStep DEF ContentInv
  <2>2. UNCHANGED <<size, headerOnly>>
    BY <1>3 DEF walk
  <2>3. pc # "payload" /\ pc' # "payload"
    BY <1>3 DEF CallDecoded, MayRead, Return, Continue
  <2>4. FramePlace'
    BY <2>1, <2>3, StillFramed DEF ContentInv
  <2>5. EndsFull'
    BY <1>3, CallDecodedFull DEF ContentInv
  <2> QED BY <2>1, <2>2, <2>4, <2>5, CodedContent
<1> QED BY <1>1, <1>2, <1>3 DEF Call

LEMMA SparseStepContent ==
  ASSUME ContentInv, SparseStep, UNCHANGED <<key, dec, walk>>
  PROVE  RecordedOK' /\ FramePlace' /\ CursorWithin' /\ EndsFull'
<1>1. cur.kind = "sparse" /\ UNCHANGED cur
  BY DEF SparseStep, SparseEnd, SparseHole, SparseData, SparseFull, ContentInv, TypeInv, Inv, CallOK
<1>2. UNCHANGED <<size, headerOnly>>
  BY DEF walk
<1>3. CASE SparseHole \/ SparseData
  <2>1. CursorWithin'
    BY <1>3, RoundWithin DEF ContentInv
  <2> QED BY <1>1, <1>2, <2>1, SparseContent
<1>4. CASE SparseEnd \/ SparseFull
  <2>1. UNCHANGED sparseCursor
    BY <1>4 DEF SparseEnd, SparseFull, place
  <2>2. CursorWithin'
    BY <1>1, <2>1, StillWithin DEF ContentInv
  <2> QED BY <1>1, <1>2, <2>2, SparseContent
<1> QED BY <1>3, <1>4 DEF SparseStep

LEMMA DecoderStepContent ==
  ASSUME WellRecorded, ContentInv, DecoderStep, UNCHANGED <<place, walk>>
  PROVE  RecordedOK' /\ FramePlace' /\ CursorWithin' /\ EndsFull'
<1>1. cur.kind = "coded" /\ UNCHANGED <<cur, size, headerOnly>>
  BY DEF DecoderStep, NoMoreFrames, FrameHeader, FramePayload, ContentInv, TypeInv, Inv, CallOK, walk
<1>2. CASE NoMoreFrames
  <2>1. eof' /\ UNCHANGED decoded
    BY <1>2 DEF NoMoreFrames, Fail
  <2>2. FramePlace'
    BY <1>1, <2>1, EndFramed DEF ContentInv
  <2>3. EndsFull'
    BY <1>2, NoMoreFramesFull DEF ContentInv
  <2> QED BY <1>1, <2>2, <2>3, CodedContent
<1>3. CASE FrameHeader
  <2>1. FramePlace' /\ EndsFull'
    BY <1>3, FrameHeaderFramed, FrameHeaderFull DEF ContentInv
  <2> QED BY <1>1, <2>1, CodedContent
<1>4. CASE FramePayload
  <2>1. FramePlace' /\ EndsFull'
    BY <1>4, FramePayloadFramed, FramePayloadFull DEF ContentInv
  <2> QED BY <1>1, <2>1, CodedContent
<1> QED BY <1>2, <1>3, <1>4 DEF DecoderStep

LEMMA InitContent == Init => ContentInv
<1> SUFFICES ASSUME Init PROVE ContentInv
  OBVIOUS
<1>1. cur.kind = "none" /\ cur.content = <<>> /\ size = 0
  BY DEF Init, Nothing
<1>2. HeaderSize(cur) = 0
  BY <1>1 DEF HeaderSize
<1> QED BY <1>1, <1>2, InitType
        DEF ContentInv, RecordedOK, FramePlace, CursorWithin, EndsFull

LEMMA StepContent == ASSUME WellRecorded PROVE ContentInv /\ [Next]_vars => ContentInv'
<1> SUFFICES ASSUME ContentInv, [Next]_vars PROVE ContentInv'
  OBVIOUS
<1>0. TypeInv'
  BY StepType DEF WellRecorded, ContentInv
<1>1. CASE NextFile
  BY <1>0, <1>1, NextFileContent DEF ContentInv
<1>2. CASE NextFails
  BY <1>0, <1>2, IdleContent DEF ContentInv
<1>3. CASE ~headerOnly /\ \E k \in 1..MaxRead : Call(k)
  BY <1>0, <1>3, CallContent DEF ContentInv
<1>4. CASE Step
  BY <1>0, <1>4, SparseStepContent, DecoderStepContent, IdleContent DEF Step, ContentInv
<1>5. CASE UNCHANGED vars
  <2>1. UNCHANGED <<cur, pc, readEnd, failed, got, entryDone, sparseCursor, rawPos, head, eof, decoded, size, headerOnly>>
    BY <1>5 DEF vars, rcVars, call, walk, dec, place
  <2>2. RecordedOK' /\ FramePlace' /\ CursorWithin'
    BY <2>1, StillRecorded, StillFramed, StillWithin DEF ContentInv
  <2>3. EndsFull'
    BY <2>1, StillFull DEF ContentInv
  <2> QED BY <1>0, <2>2, <2>3 DEF ContentInv
<1> QED BY <1>1, <1>2, <1>3, <1>4, <1>5 DEF Next

LEMMA ContentInvariant == ASSUME WellRecorded PROVE Spec => []ContentInv
<1>1. ContentInv /\ [Next]_vars => ContentInv'
  BY StepContent
<1> QED BY <1>1, InitContent, PTL DEF Spec

-----------------------------------------------------------------------------
(* What ContentInv says of what the caller has.                            *)
LEMMA Beginning ==
  ASSUME NEW s \in Seq(Nat), NEW t \in Seq(Nat), NEW c \in Seq(Nat), NEW n \in Nat,
         n <= Len(c), s \o t = SubSeq(c, 1, n)
  PROVE  Len(s) <= n /\ s = SubSeq(c, 1, Len(s))
<1>1. /\ Len(s) \in Nat /\ Len(t) \in Nat /\ Len(c) \in Nat
      /\ Len(s \o t) = Len(s) + Len(t) /\ \A p \in 1..Len(s) : (s \o t)[p] = s[p]
  BY Joined
<1>2. 0 \in Nat /\ 0 + 1 = 1 /\ 0 + n = n /\ n - 0 = n
  OBVIOUS
<1>3. Len(SubSeq(c, 1, n)) = n /\ \A p \in 1..n : SubSeq(c, 1, n)[p] = c[p]
  BY <1>2, PortionIs
<1>4. Len(s) <= n
  BY <1>1, <1>3
<1>5. \A p \in 1..Len(s) : s[p] = c[p]
  BY <1>1, <1>3, <1>4
<1> DEFINE m == Len(s)
           u == SubSeq(c, 1, m)
<1>6. u \in Seq(Nat) /\ Len(u) = m /\ \A p \in 1..m : u[p] = c[p]
  <2>1. m <= Len(c) /\ 0 + m = m
    BY <1>1, <1>4
  <2> QED BY <1>1, <1>2, <2>1, PortionIs
<1>7. s = u
  <2> HIDE DEF u
  <2> QED BY <1>5, <1>6, SeqEqual
<1> QED BY <1>4, <1>7

LEMMA SparseHas ==
  ASSUME ContentInv, cur.kind = "sparse"
  PROVE  /\ got \in Seq(Nat) /\ Len(got) = sparseCursor /\ Len(got) <= SizeOf(Map)
         /\ SizeOf(Map) \in Nat
         /\ ~headerOnly => /\ Len(cur.content) = SizeOf(Map)
                           /\ \A p \in 1..Len(got) : got[p] = cur.content[p]
<1>1. got \in Seq(Nat) /\ Len(got) = sparseCursor
  BY DEF ContentInv, TypeInv, Inv, PlaceExact, PlaceType
<1>2. Map \in Extents /\ InOrder(Map)
  BY DEF ContentInv, TypeInv, Inv, EntryOK, Map, Extents
<1>3. SizeOf(Map) \in Nat /\ Len(got) <= SizeOf(Map)
  BY <1>1, <1>2, SizeIs DEF ContentInv, CursorWithin
<1>4. ASSUME ~headerOnly
      PROVE  Len(cur.content) = SizeOf(Map) /\ \A p \in 1..Len(got) : got[p] = cur.content[p]
  <2>1. cur.content = [p \in 1..SizeOf(Map) |-> ByteAt(Map, p)]
    BY <1>4 DEF ContentInv, RecordedOK
  <2>2. \A p \in 1..Len(got) : got[p] = ByteAt(Map, p)
    BY DEF ContentInv, TypeInv, Inv, SparseExact
  <2>3. \A p \in 1..Len(got) : p \in 1..SizeOf(Map)
    BY <1>1, <1>3
  <2>4. DOMAIN cur.content = 1..SizeOf(Map)
    BY <2>1
  <2>5. \A p \in 1..SizeOf(Map) : cur.content[p] = ByteAt(Map, p)
    BY <2>1
  <2>6. Len(cur.content) = SizeOf(Map)
    <3>1. cur.content \in Seq(Nat)
      BY DEF ContentInv, TypeInv, Opened
    <3> QED BY <1>3, <2>4, <3>1, LenProperties
  <2> QED BY <2>2, <2>3, <2>5, <2>6
<1> QED BY <1>1, <1>3, <1>4

LEMMA ExactInContent == ContentInv => ContentExact
<1> SUFFICES ASSUME ContentInv PROVE ContentExact
  OBVIOUS
<1>1. /\ got \in Seq(Nat) /\ Len(got) \in Nat /\ cur.content \in Seq(Nat) /\ Len(cur.content) \in Nat
  BY DEF ContentInv, TypeInv, Pending, Opened
<1>2. cur.kind \in {"none", "plain", "coded", "sparse"}
  BY DEF ContentInv, TypeInv, Inv, EntryOK, Kinds
<1>3. CASE cur.kind \in {"plain", "none"}
  <2>1. /\ dataRem \in 0..Len(cur.content) /\ Len(got) + dataRem = Len(cur.content)
        /\ got = SubSeq(cur.content, 1, Len(got))
    BY <1>3 DEF ContentInv, TypeInv, PlainPlace
  <2> DEFINE n == Len(got)
  <2>2. n <= Len(cur.content)
    <3>1. n \in Nat /\ n + dataRem = Len(cur.content) /\ dataRem \in Nat
      BY <1>1, <2>1
    <3> HIDE DEF n
    <3> QED BY <1>1, <3>1
  <2> QED BY <2>1, <2>2 DEF ContentExact
<1>4. CASE cur.kind = "coded"
  <2> DEFINE t == SubSeq(out, oi + 1, Len(out))
             n == Len(decoded)
  <2>1. got \o t = decoded
    BY <1>4 DEF ContentInv, TypeInv, Pending, NothingLost
  <2>2. t \in Seq(Nat)
    <3>1. out \in Seq(Nat) /\ oi \in 0..Len(out)
      BY DEF ContentInv, TypeInv, Pending
    <3>2. oi \in Nat /\ Len(out) \in Nat /\ oi <= Len(out) /\ Len(out) <= Len(out)
      BY <3>1
    <3> QED BY <3>1, <3>2, Portion
  <2>3. n \in Nat /\ n <= Len(cur.content) /\ decoded = SubSeq(cur.content, 1, n)
    <3>1. decoded \in Seq(Nat)
      BY DEF ContentInv, TypeInv, Pending
    <3> QED BY <1>4, <3>1 DEF ContentInv, FramePlace
  <2> HIDE DEF t, n
  <2>4. got \o t = SubSeq(cur.content, 1, n)
    BY <2>1, <2>3
  <2>5. Len(got) <= n /\ got = SubSeq(cur.content, 1, Len(got))
    BY <1>1, <2>2, <2>3, <2>4, Beginning
  <2>6. Len(got) <= Len(cur.content)
    BY <1>1, <2>3, <2>5
  <2> QED BY <2>5, <2>6 DEF ContentExact
<1>5. CASE cur.kind = "sparse" /\ headerOnly
  <2>1. got = <<>>
    BY <1>5 DEF ContentInv, TypeInv, Called
  <2>2. SubSeq(cur.content, 1, 0) = <<>> /\ Len(<<>>) = 0
    BY <1>1, SubSeqEmpty
  <2> QED BY <1>1, <2>1, <2>2 DEF ContentExact
<1>6. CASE cur.kind = "sparse" /\ ~headerOnly
  <2> DEFINE n == Len(got)
             u == SubSeq(cur.content, 1, n)
  <2>1. n <= Len(cur.content) /\ \A p \in 1..n : got[p] = cur.content[p]
    BY <1>6, SparseHas
  <2>2. u \in Seq(Nat) /\ Len(u) = n /\ \A p \in 1..n : u[p] = cur.content[p]
    <3>1. 0 \in Nat /\ 0 + 1 = 1 /\ 0 + n = n /\ n \in Nat
      BY <1>1
    <3> QED BY <1>1, <2>1, <3>1, PortionIs
  <2>3. got = u
    <3> HIDE DEF u
    <3> QED BY <1>1, <2>1, <2>2, SeqEqual
  <2> QED BY <2>1, <2>3 DEF ContentExact
<1> QED BY <1>2, <1>3, <1>4, <1>5, <1>6

(* Behind the end there is nothing more: the last byte has come.           *)
LEMMA EndIsLast == ContentInv /\ readEnd /\ ~failed => Len(got) = Len(cur.content)
<1> SUFFICES ASSUME ContentInv, readEnd, ~failed PROVE Len(got) = Len(cur.content)
  OBVIOUS
<1>1. cur.kind \in {"plain", "coded", "sparse"} /\ ~headerOnly
  BY DEF ContentInv, TypeInv, Inv, EntryOK, Kinds, Called
<1>2. CASE cur.kind \in {"plain", "coded"}
  BY <1>2 DEF ContentInv, EndsFull
<1>3. CASE cur.kind = "sparse"
  <2>1. /\ got \in Seq(Nat) /\ Len(got) <= SizeOf(Map) /\ SizeOf(Map) \in Nat
        /\ Len(cur.content) = SizeOf(Map)
    BY <1>1, <1>3, SparseHas
  <2>2. \A i \in 1..Len(Map) : EndOf(Map[i]) <= Len(got)
    BY <1>3 DEF ContentInv, TypeInv, Inv, SparseEndsComplete
  <2>3. SizeOf(Map) = 0 \/ \E i \in 1..Len(Map) : SizeOf(Map) = EndOf(Map[i])
    BY SizeIs DEF ContentInv, TypeInv, Inv, EntryOK, Map, Extents
  <2>4. SizeOf(Map) <= Len(got)
    BY <2>1, <2>2, <2>3
  <2> QED BY <2>1, <2>4
<1> QED BY <1>1, <1>2, <1>3

(* Whatever the kind of the file, the portions asked for, the errors met   *)
(* and the file that was open before: what is handed over is the beginning *)
(* of its content (Next, Read).                                            *)
THEOREM ContentDelivered == ASSUME WellRecorded PROVE Spec => []ContentExact
<1> QED BY ContentInvariant, ExactInContent, PTL

(* Between two calls the decoder stands at a frame header, however many    *)
(* frames it has taken, until an error or the end stops it for good (fill, *)
(* frameReader).                                                           *)
THEOREM FramesKept == ASSUME WellRecorded PROVE Spec => []AtFrame
<1>1. ContentInv => AtFrame
  <2> SUFFICES ASSUME ContentInv, cur.kind = "coded", pc = "idle", ~eof, rawPos < Len(Raw)
               PROVE  Raw[rawPos + 1].k \in {"FH", "EH"}
    BY DEF AtFrame
  <2>1. rawPos \in DOMAIN At(cur)
    BY DEF ContentInv, FramePlace
  <2>2. Framing(cur, At(cur))
    BY AtIs DEF ContentInv
  <2> QED BY <2>1, <2>2 DEF Framing, Raw
<1> QED BY <1>1, ContentInvariant, PTL

(* As many bytes are handed over before io.EOF as Header.Size says, of a   *)
(* plain, a sparse or a coded file, unless a call on it has failed         *)
(* (materializeStreams, finishSparse, Read).                               *)
THEOREM SizeIsDelivered == ASSUME WellRecorded PROVE Spec => []SizeDelivered
<1>1. ContentInv => SizeDelivered
  <2> SUFFICES ASSUME ContentInv, readEnd, ~failed PROVE Len(got) = size
    BY DEF SizeDelivered
  <2>1. Len(got) = Len(cur.content) /\ size = HeaderSize(cur)
    BY EndIsLast DEF ContentInv, RecordedOK
  <2>2. cur.kind \in {"plain", "coded", "sparse"} /\ ~headerOnly
    BY DEF ContentInv, TypeInv, Inv, EntryOK, Kinds, Called
  <2>3. cur.kind = "sparse" => Len(cur.content) = SizeOf(cur.extents)
    BY <2>2, SparseHas DEF Map
  <2>4. cur.kind = "coded" => cur.displayed = Len(cur.content)
    BY DEF ContentInv, RecordedOK
  <2> QED BY <2>1, <2>2, <2>3, <2>4 DEF HeaderSize
<1> QED BY <1>1, ContentInvariant, PTL

-----------------------------------------------------------------------------
(* Read implements the delivery of a content.  Whatever is not Next leaves *)
(* the file, takes nothing back, and behind the end changes nothing.       *)
Ended == readEnd /\ ~failed
GoesOn ==
  /\ cur' = cur /\ Len(got) <= Len(got')
  /\ Ended => got' = got /\ Ended'

LEMMA IdleGoesOn ==
  ASSUME ContentInv, NextFails \/ ReadDone \/ Finish
  PROVE  GoesOn
<1>1. cur' = cur /\ got' = got /\ Len(got) \in Nat
  BY DEF NextFails, ReadDone, Finish, ContentInv, TypeInv, Pending
<1>2. Ended => Ended'
  <2>1. CASE NextFails
    BY <2>1 DEF NextFails, Ended
  <2>2. CASE ReadDone
    BY <2>2 DEF ReadDone, MayRead, Ended
  <2>3. CASE Finish
    BY <2>3 DEF Finish, Ended, ContentInv, TypeInv, Called
  <2> QED BY <2>1, <2>2, <2>3
<1> QED BY <1>1, <1>2 DEF GoesOn

LEMMA CallGoesOn ==
  ASSUME ContentInv, NEW k \in 1..MaxRead, Call(k), ~headerOnly
  PROVE  GoesOn
<1>1. ~readEnd
  BY DEF Call, CallPlain, CallSparse, CallDecoded, MayRead
<1>2. CASE CallPlain(k)
  BY <1>1, <1>2, CallPlainStep DEF ContentInv, GoesOn, Ended
<1>3. CASE CallSparse(k)
  BY <1>1, <1>3 DEF CallSparse, ContentInv, TypeInv, Pending, GoesOn, Ended
<1>4. CASE CallDecoded(k) /\ UNCHANGED <<place, walk>>
  BY <1>1, <1>4, CallDecodedStep DEF ContentInv, GoesOn, Ended
<1> QED BY <1>2, <1>3, <1>4 DEF Call

LEMMA StepGoesOn ==
  ASSUME WellRecorded, ContentInv, Step
  PROVE  GoesOn
<1>1. CASE SparseStep /\ UNCHANGED <<key, dec, walk>>
  <2>1. pc = "sparse" /\ cur.kind = "sparse" /\ ~readEnd /\ cur' = cur
    BY <1>1 DEF SparseStep, SparseEnd, SparseHole, SparseData, SparseFull,
                ContentInv, TypeInv, Inv, CallOK, Called
  <2>2. CASE SparseHole \/ SparseData
    <3>1. sparseCursor <= sparseCursor'
      BY <2>2, HoleRound, DataRound DEF ContentInv, TypeInv
    <3>2. Inv'
      BY <1>1, <2>2, SparseHoleInv, SparseDataInv DEF ContentInv, TypeInv
    <3>3. Len(got) = sparseCursor /\ Len(got') = sparseCursor'
      BY <2>1, <3>2 DEF Inv, PlaceExact, ContentInv, TypeInv
    <3> QED BY <2>1, <3>1, <3>3 DEF GoesOn, Ended
  <2>3. CASE SparseEnd \/ SparseFull
    <3>1. got' = got /\ Len(got) \in Nat
      BY <2>3 DEF SparseEnd, SparseFull, ContentInv, TypeInv, Pending
    <3> QED BY <2>1, <3>1 DEF GoesOn, Ended
  <2> QED BY <1>1, <2>2, <2>3 DEF SparseStep
<1>2. CASE DecoderStep /\ UNCHANGED <<place, walk>>
  <2>1. pc \in {"frame", "payload"}
    BY <1>2 DEF DecoderStep, NoMoreFrames, FrameHeader, FramePayload
  <2>2. ~readEnd /\ Len(got) \in Nat
    BY <2>1, InDecoder DEF ContentInv
  <2>3. cur' = cur /\ Len(got) <= Len(got')
    <3>1. CASE NoMoreFrames \/ FrameHeader
      BY <2>2, <3>1 DEF NoMoreFrames, FrameHeader
    <3>2. CASE FramePayload
      BY <1>2, <3>2, FramePayloadStep DEF ContentInv, WellRecorded
    <3> QED BY <1>2, <3>1, <3>2 DEF DecoderStep
  <2> QED BY <2>2, <2>3 DEF GoesOn, Ended
<1>3. CASE ReadDone \/ Finish
  BY <1>3, IdleGoesOn
<1> QED BY <1>1, <1>2, <1>3 DEF Step

Seen == ContentInv /\ ContentExact /\ (Ended => Len(got) = Len(cur.content))

LEMMA AlwaysSeen == ASSUME WellRecorded PROVE Spec => []Seen
<1>1. ContentInv => Seen
  BY ExactInContent, EndIsLast DEF Seen, Ended
<1> QED BY <1>1, ContentInvariant, PTL

LEMMA GoingOnDelivers ==
  ASSUME ContentInv, Seen', GoesOn
  PROVE  [Content!Next]_(Content!vars)
<1>1. /\ cur' = cur /\ got' \in Seq(Nat) /\ Len(got') \in Nat /\ Len(got) \in Nat
      /\ Len(got) <= Len(got') /\ Len(cur.content) \in Nat /\ cur.content \in Seq(Nat)
  <2>1. got \in Seq(Nat) /\ cur.content \in Seq(Nat)
    BY DEF ContentInv, TypeInv, Pending, Opened
  <2>2. got' \in Seq(Nat)
    BY DEF Seen, ContentInv, TypeInv, Pending
  <2> QED BY <2>1, <2>2 DEF GoesOn
<1>2. Len(got') <= Len(cur.content) /\ got' = SubSeq(cur.content, 1, Len(got'))
  BY <1>1 DEF Seen, ContentExact
<1>3. Ended' => got' = cur.content
  <2>1. ASSUME Ended' PROVE got' = cur.content
    <3>1. Len(got') = Len(cur.content)
      BY <1>1, <2>1 DEF Seen
    <3>2. SubSeq(cur.content, 1, Len(cur.content)) = cur.content
      BY <1>1, SubSeqFull
    <3> QED BY <1>2, <3>1, <3>2
  <2> QED BY <2>1
<1>4. CASE Ended
  BY <1>1, <1>4 DEF GoesOn, Ended, Content!vars
<1>5. CASE ~Ended
  <2>1. \E k \in Len(got)..Len(cur.content) : got' = SubSeq(cur.content, 1, k)
    <3> DEFINE n == Len(got')
    <3>1. n \in Len(got)..Len(cur.content) /\ got' = SubSeq(cur.content, 1, n)
      BY <1>1, <1>2
    <3> HIDE DEF n
    <3> QED BY <3>1
  <2>2. Ended' \in {FALSE, got' = cur.content}
    <3>1. CASE Ended'
      <4>1. Ended' = TRUE /\ (got' = cur.content) = TRUE
        BY <1>3, <3>1 DEF Ended
      <4> QED BY <4>1
    <3>2. CASE ~Ended'
      <4>1. Ended' = FALSE
        BY <3>2 DEF Ended
      <4> QED BY <4>1
    <3> QED BY <3>1, <3>2
  <2>3. Content!Deliver
    BY <1>1, <1>5, <2>1, <2>2 DEF Content!Deliver, Ended
  <2> QED BY <2>3 DEF Content!Next
<1> QED BY <1>4, <1>5

LEMMA StepDelivers ==
  ASSUME WellRecorded
  PROVE  Seen /\ Seen' /\ [Next]_vars => [Content!Next]_(Content!vars)
<1> SUFFICES ASSUME Seen, Seen', [Next]_vars
             PROVE  [Content!Next]_(Content!vars)
  OBVIOUS
<1>0. ContentInv
  BY DEF Seen
<1>1. CASE NextFile
  <2>1. got' = <<>> /\ readEnd' = FALSE
    BY <1>1 DEF NextFile, OpenFile, Yield
  <2>2. Content!Open
    BY <2>1 DEF Content!Open
  <2> QED BY <2>2 DEF Content!Next
<1>2. CASE NextFails
  BY <1>0, <1>2, IdleGoesOn, GoingOnDelivers
<1>3. CASE ~headerOnly /\ \E k \in 1..MaxRead : Call(k)
  BY <1>0, <1>3, CallGoesOn, GoingOnDelivers
<1>4. CASE Step
  BY <1>0, <1>4, StepGoesOn, GoingOnDelivers
<1>5. CASE UNCHANGED vars
  <2>1. UNCHANGED <<cur, got, readEnd, failed>>
    BY <1>5 DEF vars, rcVars, call
  <2> QED BY <2>1 DEF Content!vars
<1> QED BY <1>1, <1>2, <1>3, <1>4, <1>5 DEF Next

(* Of extents, holes, frames and codecs the caller of Read sees nothing:   *)
(* it is handed a content, from its first byte on and in portions, and     *)
(* io.EOF once it has all of it (Next, Read).                              *)
THEOREM DeliveryImplements == ASSUME WellRecorded PROVE Spec => ImplementsContent
<1>1. Init => Content!Init
  BY DEF Init, Content!Init
<1>2. Seen /\ Seen' /\ [Next]_vars => [Content!Next]_(Content!vars)
  BY StepDelivers
<1> QED BY <1>1, <1>2, AlwaysSeen, PTL DEF Spec, ImplementsContent, Content!Spec
=============================================================================
