---------------------------- MODULE FrameDecoder ----------------------------
(***************************************************************************)
(* The decoder of compressed and encrypted files (compress.go): Read takes *)
(* the stream's raw bytes frame by frame, checks each frame's header,      *)
(* decrypts and decompresses its payload, and serves the caller from the   *)
(* decoded bytes.                                                          *)
(*                                                                         *)
(* The raw stream is a sequence of cells of one byte each: "FH" or "EH",   *)
(* the first byte of a frame header, "fill", the others, and "byte", data, *)
(* which may be encrypted.                                                 *)
(***************************************************************************)
EXTENDS ReadCall, Lzs

CONSTANTS
  HdrLen,    (* bytes of a frame header (cmpHeaderSize)                      *)
  Keys       (* what decryptors are registered: "none", "right", "failing"   *)

ASSUME DecoderAssumption ==
  HdrLen \in Nat \ {0} /\ Keys \subseteq {"none", "right", "failing"}

(* A byte of the raw stream, the first one of a frame header with what is  *)
(* tested of it.                                                           *)
Cell == [k : {"FH", "EH", "fill", "byte"}, sum : BOOLEAN, ulen : Nat, clen : Nat,
         b : Nat, x : BOOLEAN]

VARIABLES
  key,       (* the decryptor registered                                     *)
  left,      (* raw bytes of the stream that are still to come (fr.n)        *)
  rawPos,    (* raw bytes taken off the medium                               *)
  head,      (* the header of the frame being read                           *)
  out, oi,   (* decoded bytes pending delivery                               *)
  eof,
  decoded    (* history: what the frames of the file have decoded to         *)

dec == <<left, rawPos, head, out, oi, eof, decoded>>

NoHead == [k |-> "fill"]
Raw == cur.raw

(* newDecoder, for every compressed or encrypted file. *)
NewDecoder(f) ==
  /\ left' = f.rawLen /\ rawPos' = 0 /\ head' = NoHead
  /\ out' = <<>> /\ oi' = 0 /\ eof' = FALSE /\ decoded' = <<>>

(* Mutant: the frame is not held to the length of the stream. *)
(* How io.ReadFull of n bytes through frameReader.Read can end, and after  *)
(* how many: what is not there ends the stream, at its first byte with     *)
(* io.EOF and behind it with io.ErrUnexpectedEOF.                          *)
There_OnMedium == Len(Raw) - rawPos
There == Least(left, Len(Raw) - rawPos)
Taken(n) ==
  (IF n <= There THEN {<<n, "ok">>}
   ELSE IF There = 0 THEN {<<0, "eof">>} ELSE {<<There, "unexpected">>})
  \cup IF faults < MaxFaults
       THEN {<<j, "eio">> : j \in {i \in 0..(n - 1) : i <= There}} ELSE {}
Ends == {"ok", "eof", "unexpected", "eio"}

Take(j, e) ==
  /\ rawPos' = rawPos + j /\ left' = left - j
  /\ faults' = faults + (IF e = "eio" THEN 1 ELSE 0)

(* Mutant: only io.EOF is remembered. *)
Fail_OnlyEnd(e) ==
  /\ eof' = (e = "eof")
  /\ IF e = "eof" THEN Continue("finish") ELSE Return("fail")
(* An error e of fill sets eof; Read finishes the entry if it is io.EOF.   *)
Fail(e) ==
  /\ eof' = TRUE
  /\ IF e = "eof" THEN Continue("finish") ELSE Return("fail")

-----------------------------------------------------------------------------
(* Mutant: what follows the first portion is passed over. *)
Served_All(o, k) == Len(out)
Served(o, k) == o + k

(* Pending bytes are served first, then the next frame is decoded. *)
CallDecoded(n) ==
  /\ MayRead /\ ~entryDone /\ "dec" \in ways /\ "sparse" \notin ways
  /\ IF oi < Len(out)
     THEN LET k == Least(n, Len(out) - oi)
          IN  /\ got' = got \o SubSeq(out, oi + 1, oi + k) /\ oi' = Served(oi, k)
              /\ Return("ok")
              /\ UNCHANGED out
     ELSE /\ UNCHANGED got
          /\ IF eof
             THEN Continue("finish") /\ UNCHANGED <<out, oi>>
             ELSE /\ out' = <<>> /\ oi' = 0
                  /\ pc' = "frame" /\ want' = n /\ UNCHANGED <<res, readEnd, failed>>
  /\ UNCHANGED <<cur, ways, entryDone, faults, key, left, rawPos, head, eof, decoded>>

NoMoreFrames ==
  /\ pc = "frame" /\ left <= 0
  /\ Fail("eof")
  /\ UNCHANGED <<cur, ways, got, entryDone, faults, key, left, rawPos, head, out, oi, decoded>>

(* parseFrameHeader: the kind of frame the stream wants, the checksum right. *)
GoodHeader(f, c) == c.k = (IF f.enc THEN "EH" ELSE "FH") /\ c.sum

FrameHeader ==
  /\ pc = "frame" /\ left > 0
  /\ \E j \in 0..HdrLen, e \in Ends :
       /\ <<j, e>> \in Taken(HdrLen) /\ Take(j, e)
       /\ IF e = "ok" /\ GoodHeader(cur, Raw[rawPos + 1])
          THEN head' = Raw[rawPos + 1] /\ Continue("payload") /\ UNCHANGED eof
          ELSE Fail(IF e = "ok" THEN "corrupt" ELSE e) /\ UNCHANGED head
  /\ UNCHANGED <<cur, ways, got, entryDone, key, out, oi, decoded>>

(* Mutant: a frame that compresses to its own size is taken for compressed. *)
StoredPlain_Above(f, h) == ~f.enc /\ h.clen > h.ulen
StoredPlain(f, h) == ~f.enc /\ h.clen >= h.ulen

Values(cells) == [i \in 1..Len(cells) |-> cells[i].b]
Deciphered(cells) == [i \in 1..Len(cells) |-> [cells[i] EXCEPT !.x = ~@]]

(* What the payload of a frame of f with header h decodes to. *)
Decoded(f, h, payload) ==
  LET plain == Values(IF f.enc THEN Deciphered(payload) ELSE payload)
  IN  IF ~f.comp \/ StoredPlain(f, h) THEN plain ELSE Decode(plain)

(* The payload is read whole, whatever else is wrong with the frame. *)
FramePayload ==
  /\ pc = "payload"
  /\ \E j \in 0..head.clen, e \in Ends :
       /\ <<j, e>> \in Taken(head.clen) /\ Take(j, e)
       /\ IF e = "ok" /\ (cur.enc => key = "right")
          THEN /\ LET o == Decoded(cur, head, SubSeq(Raw, rawPos + 1, rawPos + head.clen))
                      k == Least(want, Len(o))
                  IN  /\ out' = o /\ oi' = k
                      /\ got' = got \o SubSeq(o, 1, k) /\ decoded' = decoded \o o
               /\ Return("ok") /\ UNCHANGED eof
          ELSE /\ Fail(IF e = "ok" THEN "undeciphered" ELSE e)
               /\ UNCHANGED <<out, oi, got, decoded>>
  /\ UNCHANGED <<cur, ways, entryDone, key, head>>

DecoderStep == NoMoreFrames \/ FrameHeader \/ FramePayload

-----------------------------------------------------------------------------
(* What a frame has decoded to is handed over once and in order, in        *)
(* portions of any size: what has been handed over and what is pending are *)
(* all of it (decoder.Read, deliver).                                      *)
NothingLost ==
  cur.kind = "coded" => got \o SubSeq(out, oi + 1, Len(out)) = decoded

(* Between two calls the decoder stands at a frame: it has taken whole     *)
(* frames, and the place of the next header follows from theirs, unless an *)
(* error has stopped it for good (fill, frameReader).                      *)
AtFrame ==
  (cur.kind = "coded" /\ pc = "idle" /\ ~eof /\ rawPos < Len(Raw))
     => Raw[rawPos + 1].k \in {"FH", "EH"}
=============================================================================
