---------------------------- MODULE EntryContent ----------------------------
(***************************************************************************)
(* What Read promises of one entry: its content from the first byte on,    *)
(* in portions of any size, and io.EOF once all of it has been handed      *)
(* over.  Extents, holes, frames and codecs do not exist at this level.    *)
(***************************************************************************)
EXTENDS Naturals, Sequences

VARIABLES
  content, (* of the current entry                                           *)
  got,     (* handed over so far                                             *)
  ended    (* Read has returned io.EOF                                       *)

vars == <<content, got, ended>>

Init == got = <<>> /\ ended = FALSE

(* The reader moves to another entry, the content of this one read or not. *)
Open == got' = <<>> /\ ended' = FALSE

(* A portion, the last one maybe together with io.EOF. *)
Deliver ==
  /\ ~ended
  /\ \E k \in Len(got)..Len(content) : got' = SubSeq(content, 1, k)
  /\ ended' \in {FALSE, got' = content}
  /\ UNCHANGED content

Next == Open \/ Deliver

Spec == Init /\ [][Next]_vars
=============================================================================
