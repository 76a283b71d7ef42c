---------------------------- MODULE ArchiveWalk ----------------------------
(***************************************************************************)
(* What mtf.Reader promises a caller who walks a complete archive: every   *)
(* structural item - media, data sets, volumes, directories, files, set    *)
(* ends - once and in the order of recording, for a file its own bytes     *)
(* from the first one on, and the end of the walk only after the last      *)
(* item.  Logical blocks, streams, headers and media boundaries inside a   *)
(* file do not exist at this level.                                        *)
(***************************************************************************)
EXTENDS Naturals, Sequences

VARIABLES
  items,   (* the archive: its items in order, each with its content          *)
  seen,    (* the items the walk has yielded                                  *)
  got,     (* the content of the last one handed to the caller so far         *)
  ended    (* the walk has reported the end of the archive                    *)

vars == <<items, seen, got, ended>>

Init == seen = <<>> /\ got = <<>> /\ ended = FALSE

(* The next item is yielded, whether the content of the last one has been  *)
(* read or not.                                                            *)
Yield ==
  /\ ~ended /\ Len(seen) < Len(items)
  /\ seen' = Append(seen, items[Len(seen) + 1].item) /\ got' = <<>>
  /\ UNCHANGED <<items, ended>>

(* More of the content of the item is handed over. *)
Deliver ==
  /\ ~ended /\ seen # <<>>
  /\ LET content == items[Len(seen)].content
     IN  \E k \in (Len(got) + 1)..Len(content) : got' = SubSeq(content, 1, k)
  /\ UNCHANGED <<items, seen, ended>>

End ==
  /\ ~ended /\ Len(seen) = Len(items)
  /\ ended' = TRUE
  /\ UNCHANGED <<items, seen, got>>

Next == Yield \/ Deliver \/ End

Spec == Init /\ [][Next]_vars
=============================================================================
