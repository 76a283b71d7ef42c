----------------------------- MODULE MCFileRead -----------------------------
(* Files for FileRead.  A byte has four bits here, a short offset two and  *)
(* a long one three, so that a match of every form fits into a few bytes.  *)
(* Blocks are encoded the way lzs_test.go does it, frames are built the    *)
(* way compress_test.go does it, sparse files as in streams_test.go.       *)
EXTENDS FileRead, FiniteSets

MCByteBits == 4
MCShortBits == 2
MCLongBits == 3
MCHdrLen == 2

-----------------------------------------------------------------------------
(* LZS blocks: a token is a literal or a match. *)
L(b) == [off |-> 0, len |-> 1, b |-> b]
M(o, n) == [off |-> o, len |-> n, b |-> 0]

Bits(v, n) == [i \in 1..n |-> (v \div 2^(n - i)) % 2]

(* writeLength. *)
LengthBits(n) ==
  LET more == (n - 8) \div 15
  IN  IF n <= 4 THEN Bits(n - 2, 2)
      ELSE IF n <= 7 THEN Bits(3, 2) \o Bits(n - 5, 2)
      ELSE Bits(15, 4) \o [i \in 1..(4 * more) |-> 1] \o Bits((n - 8) % 15, 4)

TokenBits(t) ==
  IF t.off = 0 THEN <<0>> \o Bits(t.b, ByteBits)
  ELSE (IF t.off <= ShortMax THEN <<1, 1>> \o Bits(t.off - 1, ShortBits)
        ELSE <<1, 0>> \o Bits(t.off - ShortMax, LongBits)) \o LengthBits(t.len)

Concat(ss) ==
  LET c[i \in 0..Len(ss)] == IF i = 0 THEN <<>> ELSE c[i - 1] \o ss[i]
  IN  c[Len(ss)]

Bytes(bits) ==
  LET count == (Len(bits) + ByteBits - 1) \div ByteBits
      all  == bits \o [i \in 1..ByteBits |-> 0]
      byte(i) == LET v[k \in 0..ByteBits] ==
                       IF k = 0 THEN 0 ELSE 2 * v[k - 1] + all[(i - 1) * ByteBits + k]
                 IN  v[ByteBits]
  IN  [i \in 1..count |-> byte(i)]

Encode(ts) ==
  Bytes(Concat([i \in 1..Len(ts) |-> TokenBits(ts[i])]) \o <<1, 0>> \o Bits(0, LongBits))
(* What the tokens stand for: a match repeats what is off bytes back.      *)
Expand(ts) ==
  LET more(o, t) ==
        LET e[k \in 0..t.len] ==
              IF k = 0 THEN o ELSE LET p == e[k - 1] IN Append(p, p[Len(p) - t.off + 1])
        IN  IF t.off = 0 THEN Append(o, t.b) ELSE e[t.len]
      x[i \in 0..Len(ts)] == IF i = 0 THEN <<>> ELSE more(x[i - 1], ts[i])
  IN  x[Len(ts)]

-----------------------------------------------------------------------------
(* Frames and files. *)
Header(k, u, c) == [k |-> k, sum |-> TRUE, ulen |-> u, clen |-> c, b |-> 0, x |-> FALSE]
Fill == [Header("fill", 0, 0) EXCEPT !.sum = FALSE]
Cells(s, x) == [i \in 1..Len(s) |-> [Fill EXCEPT !.k = "byte", !.b = s[i], !.x = x]]
Frame(k, u, s, x) ==
  <<Header(k, u, Len(s))>> \o [i \in 1..(HdrLen - 1) |-> Fill] \o Cells(s, x)

(* The block, or what it stands for if that is no longer. *)
Packed(ts, block) ==
  IF Len(block) >= Len(Expand(ts)) THEN Frame("FH", Len(Expand(ts)), Expand(ts), FALSE)
  ELSE Frame("FH", Len(Expand(ts)), block, FALSE)
Ciphered(ts) == Frame("EH", Len(Expand(ts)), Expand(ts), TRUE)
PackedCiphered(ts) == Frame("EH", Len(Expand(ts)), Encode(ts), TRUE)

Coded(comp, enc, content, raw, len) ==
  [Nothing EXCEPT !.kind = "coded", !.content = content, !.comp = comp, !.enc = enc,
                  !.raw = raw, !.rawLen = len, !.displayed = Len(content)]
Whole(comp, enc, content, raw) == Coded(comp, enc, content, raw, Len(raw))

OneBlock(ts) == Whole(TRUE, FALSE, Expand(ts), Packed(ts, Encode(ts)))

Plain(c) == [Nothing EXCEPT !.kind = "plain", !.content = c]
Ext(o, d) == [off |-> o, data |-> d]
Sparse(x) ==
  [Nothing EXCEPT !.kind = "sparse", !.extents = x,
                  !.content = [p \in 1..SizeOf(x) |-> ByteAt(x, p)]]

-----------------------------------------------------------------------------
(* Every match of every length form over one, two and four bytes, with     *)
(* short and long offsets, some of them over the end of the ring.          *)
Lengths == {2, 4, 5, 7, 8, 9, 22, 23, 37, 38, 39}
Blocks ==
  {<<L(1), M(1, n)>> : n \in Lengths}
  \cup {<<L(1), L(2), M(o, n)>> : o \in 1..2, n \in Lengths}
  \cup {<<L(1), L(2), L(3), M(2, 2), M(o, n), L(6)>> : o \in 3..5, n \in Lengths}
  \cup {<<L(9), L(2), M(2, 8), L(3), M(o, n)>> : o \in 1..7, n \in {3, 6, 10}}
  \cup {<<>>, <<L(7)>>, <<L(7), L(8)>>}

Short == <<L(1), M(1, 22)>>
Longer == <<L(3), L(4), M(2, 8), L(5), M(7, 9)>>
Two == Whole(TRUE, FALSE, Expand(Short) \o Expand(Longer),
             Packed(Short, Encode(Short)) \o Packed(Longer, Encode(Longer)))
Stored == Whole(TRUE, FALSE, <<7, 8>> \o Expand(Short),
                Packed(<<L(7), L(8)>>, Encode(<<L(7), L(8)>>)) \o Packed(Short, Encode(Short)))
Secret == Whole(FALSE, TRUE, <<4, 5, 6>>,
                Ciphered(<<L(4), L(5)>>) \o Ciphered(<<L(6)>>))
Both == Whole(TRUE, TRUE, Expand(Short), PackedCiphered(Short))
NoFrames == Whole(TRUE, FALSE, <<>>, <<>>)
EmptyFrame == Whole(TRUE, FALSE, <<7>>, Packed(<<>>, <<>>) \o Packed(<<L(7)>>, Encode(<<L(7)>>)))

(* Damaged: the second header's checksum, its kind; the medium ends inside *)
(* the last frame; the last frame is longer than the stream.               *)
Second == 1 + HdrLen + Two.raw[1].clen
BadSum == [Two EXCEPT !.raw[Second].sum = FALSE]
BadKind == [Two EXCEPT !.raw[Second].k = "EH"]
Cut == [Two EXCEPT !.raw = SubSeq(@, 1, Len(@) - 1)]
Overlong == [Two EXCEPT !.rawLen = @ - 2]

Maps ==
  {<<>>, <<Ext(0, <<1, 2>>)>>, <<Ext(2, <<1>>), Ext(3, <<2, 3>>), Ext(7, <<4>>)>>,
   <<Ext(1, <<1, 2, 3>>), Ext(6, <<>>)>>, <<Ext(0, <<>>), Ext(2, <<5, 6>>)>>}

(* All archives of one file, and of two small ones of every kind, so that  *)
(* each follows each at every point of its reading.                        *)
Alone == {OneBlock(ts) : ts \in Blocks}
         \cup {Two, Stored, Secret, Both, NoFrames, EmptyFrame, BadSum, BadKind, Cut, Overlong}
         \cup {Sparse(x) : x \in Maps} \cup {Plain(<<>>), Plain(<<1, 2, 3, 4>>)}
Small == {Secret, OneBlock(<<L(1), M(1, 9)>>), Plain(<<>>), Plain(<<1, 2, 3>>),
          Sparse(<<Ext(1, <<5, 6>>), Ext(4, <<7>>)>>), Sparse(<<Ext(2, <<>>)>>)}
MCArchives == {<<f>> : f \in Alone} \cup {<<f, g>> : f, g \in Small}

(* An undamaged compressed file. *)
MCTransient == {<<Two>>}
=============================================================================
