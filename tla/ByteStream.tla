----------------------------- MODULE ByteStream -----------------------------
(***************************************************************************)
(* What the block layer of mtf.Reader promises the parser above it.        *)
(*                                                                         *)
(* The parser sees each medium as one run of bytes.  It is at a position   *)
(* `pos' of medium `medium'; it takes the bytes that follow, in order and  *)
(* each once, or moves forward without taking them, or goes on to the next *)
(* medium.  Physical blocks, filemarks, read-ahead and block addresses do  *)
(* not exist at this level.  A byte is represented by its offset on the    *)
(* medium, so `out', the bytes the last step handed over, says which       *)
(* bytes of the medium these were.                                         *)
(***************************************************************************)
EXTENDS Integers, Sequences

CONSTANTS Media,   (* media are numbered 1 .. Media in reading order *)
          Size,    (* Size[m]: recorded bytes of medium m            *)
          Places   (* Places[m]: where callers may put the tape      *)

VARIABLES medium, pos, out

vars == <<medium, pos, out>>

(* The offsets of k consecutive bytes, the first one at a. *)
Run(a, k) == [i \in 1..k |-> a + i - 1]

Init == medium = 1 /\ pos = 0 /\ out = <<>>

(* The next bytes of the medium are handed to the parser. *)
Deliver ==
  /\ \E k \in 1..(Size[medium] - pos) : /\ out' = Run(pos, k)
                                        /\ pos' = pos + k
  /\ UNCHANGED medium

(* Bytes are passed over.  The distance comes from a length field of the   *)
(* archive, so it may lead beyond the recorded bytes, where nothing is     *)
(* delivered any more; it never leads back.                                *)
Advance ==
  /\ pos' \in Int
  /\ pos' >= pos
  /\ out' = <<>>
  /\ UNCHANGED medium

(* The caller puts the tape at one of the places it may. *)
Place ==
  /\ pos' \in Places[medium]
  /\ out' = <<>>
  /\ UNCHANGED medium

(* The continuation medium replaces the current one. *)
Load ==
  /\ medium < Media
  /\ medium' = medium + 1
  /\ pos' = 0
  /\ out' = <<>>

Next == Deliver \/ Advance \/ Place \/ Load

Spec == Init /\ [][Next]_vars
=============================================================================
