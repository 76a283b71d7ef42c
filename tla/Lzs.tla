--------------------------------- MODULE Lzs ---------------------------------
(***************************************************************************)
(* The LZS decoder (lzs.go): a bit stream of literals and back-references  *)
(* into a ring of history, decoded block by block.  The widths of a byte,  *)
(* of the two offset codes and with them of the ring are parameters; the   *)
(* code has 8, 7 and 11.                                                   *)
(***************************************************************************)
EXTENDS Integers, Sequences

CONSTANTS ByteBits, ShortBits, LongBits

ASSUME LzsAssumption ==
  /\ ByteBits \in Nat \ {0} /\ ShortBits \in Nat \ {0}
  /\ LongBits \in Nat /\ LongBits > ShortBits

History  == 2^LongBits           \* lzsHistorySize
ShortMax == 2^ShortBits - 1      \* 127
LongMax  == 2^LongBits - 1       \* 2047

-----------------------------------------------------------------------------
(* lzsBitReader: bits are numbered from 0, the highest of a byte first.    *)

BitCount(buf) == Len(buf) * ByteBits
Has(buf, i, n) == i + n <= BitCount(buf)
Bit(buf, i) == (buf[(i \div ByteBits) + 1] \div 2^(ByteBits - 1 - (i % ByteBits))) % 2

(* readBits: n bits from i, where the block has them. *)
ReadBits(buf, i, n) ==
  LET v[k \in 0..n] == IF k = 0 THEN 0 ELSE 2 * v[k - 1] + Bit(buf, i + k - 1)
  IN  v[n]

(* What a reader of a code returns: its value and the bit behind it. *)
Code(v, next) == [ok |-> TRUE, v |-> v, next |-> next]
NoCode == [ok |-> FALSE, v |-> 0, next |-> 0]
EndOffset == -1

(* The short code holds one less than the offset. *)
ShortOffset(code) == code + 1

(* readOffset: a short offset behind a 1, a long one behind a 0, whose     *)
(* zero is the end marker.                                                 *)
ReadOffset(buf, i) ==
  CASE ~Has(buf, i, 1) -> NoCode
    [] Has(buf, i, 1) /\ Bit(buf, i) = 1 ->
         LET off == ShortOffset(ReadBits(buf, i + 1, ShortBits))
         IN  IF ~Has(buf, i + 1, ShortBits) \/ off > ShortMax
             THEN NoCode ELSE Code(off, i + 1 + ShortBits)
    [] OTHER ->
         LET code == ReadBits(buf, i + 1, LongBits)
             off  == code + ShortMax
             next == i + 1 + LongBits
         IN  CASE ~Has(buf, i + 1, LongBits) -> NoCode
               [] Has(buf, i + 1, LongBits) /\ code = 0 -> Code(EndOffset, next)
               [] OTHER -> IF off > LongMax THEN NoCode ELSE Code(off, next)

(* The groups of four bits behind 1111, each 15 adding on; a block that    *)
(* ends in them leaves the length as it is.                                *)
ReadGroups(buf, i) ==
  LET group(k) == ReadBits(buf, i + 4 * k, 4)
      groups[k \in Nat] ==
        LET at == i + 4 * k
        IN  CASE ~Has(buf, at, 4) -> Code(8 + 15 * k, at)
              [] Has(buf, at, 4) /\ group(k) < 15 -> Code(8 + 15 * k + group(k), at + 4)
              [] OTHER -> groups[k + 1]
  IN  groups[0]

(* lzsLength. *)
ReadLength(buf, i) ==
  LET a == ReadBits(buf, i, 2)
      b == ReadBits(buf, i + 2, 2)
  IN  CASE ~Has(buf, i, 2) -> NoCode
        [] Has(buf, i, 2) /\ a < 3 -> Code(a + 2, i + 2)
        [] Has(buf, i, 2) /\ a = 3 /\ ~Has(buf, i + 2, 2) -> NoCode
        [] Has(buf, i, 4) /\ a = 3 /\ b < 3 -> Code(b + 5, i + 4)
        [] OTHER -> ReadGroups(buf, i + 4)

-----------------------------------------------------------------------------
(* lzsDecoder: the ring, its write position, and how much went through it. *)

Empty == [win |-> [i \in 0..(History - 1) |-> 0], pos |-> 0, written |-> 0,
          out |-> <<>>, bit |-> 0, done |-> FALSE]

(* put. *)
Put(d, b) ==
  [d EXCEPT !.win[d.pos] = b, !.pos = (d.pos + 1) % History,
            !.written = @ + 1, !.out = Append(@, b)]

(* Mutant: the whole match is fetched before any of it is written. *)
Source_Before(d, start, off, k) ==
  start.win[(start.pos - off + k - 1 + History) % History]
(* copyMatch fetches its k-th byte when the ones before it are in the ring. *)
Source(d, start, off, k) == d.win[(d.pos - off + History) % History]

Reach(off, written) == IF off > written THEN written ELSE off

CopyMatch(d, off, length) ==
  LET o == Reach(off, d.written)
      copied[k \in 0..length] ==
        IF k = 0 THEN d
        ELSE LET e == copied[k - 1] IN Put(e, Source(e, d, o, k))
  IN  copied[length]

(* One token of decode.  Whatever is wrong with it ends the block without  *)
(* an error.                                                               *)
Token(buf, d) ==
  LET stop == [d EXCEPT !.done = TRUE]
      i == d.bit + 1
      off == ReadOffset(buf, i)
      len == ReadLength(buf, off.next)
  IN  CASE ~Has(buf, d.bit, 1) -> stop
        [] Has(buf, d.bit, 1) /\ Bit(buf, d.bit) = 0 ->
             IF Has(buf, i, ByteBits)
             THEN [Put(d, ReadBits(buf, i, ByteBits)) EXCEPT !.bit = i + ByteBits]
             ELSE stop
        [] OTHER ->
             IF ~off.ok \/ off.v = EndOffset \/ ~len.ok THEN stop
             ELSE [CopyMatch(d, off.v, len.v) EXCEPT !.bit = len.next]

(* decode: each token takes at least one bit. *)
Decode(buf) ==
  LET after[n \in Nat] ==
        IF n = 0 THEN Empty
        ELSE LET d == after[n - 1] IN IF d.done THEN d ELSE Token(buf, d)
  IN  after[BitCount(buf) + 1].out
=============================================================================
