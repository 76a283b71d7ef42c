------------------------------ MODULE ReadCall ------------------------------
(***************************************************************************)
(* One call of Reader.Read in progress (reader.go), as far as the sparse   *)
(* reconstruction and the frame decoder share it: what was asked for, what *)
(* has been handed over, and how the call ends.                            *)
(***************************************************************************)
EXTENDS Integers, Sequences

CONSTANTS
  MaxRead,   (* bound: bytes one Read asks for                               *)
  MaxFaults  (* bound: transient read errors in one behaviour                *)

ASSUME ReadCallAssumption == MaxRead \in Nat \ {0} /\ MaxFaults \in Nat

VARIABLES
  cur,       (* the current entry, as it was recorded; Nothing before        *)
  ways,      (* the Reader's fields sparse, dec and inData that are set      *)
  pc,        (* "idle" between two calls                                     *)
  want,      (* bytes of the caller's buffer that are still free             *)
  got,       (* history: content of the entry handed over                    *)
  res,       (* how the last call ended: "ok" or "fail"                      *)
  readEnd,   (* it returned io.EOF                                           *)
  failed,    (* history: a call on this entry has returned an error          *)
  entryDone,
  faults     (* history: transient read errors that have happened            *)

call == <<pc, want, res, readEnd, failed>>
rcVars == <<cur, ways, call, got, entryDone, faults>>

(* What an entry has recorded; an entry of one kind has the rest empty. *)
Nothing == [kind |-> "none", content |-> <<>>, extents |-> <<>>,
            comp |-> FALSE, enc |-> FALSE, raw |-> <<>>, rawLen |-> 0,
            displayed |-> 0]

Least(a, b) == IF a <= b THEN a ELSE b

(* The call ends with e: nil, io.EOF or another error. *)
Return(e) ==
  /\ pc' = "idle" /\ want' = 0
  /\ res' = (IF e = "fail" THEN "fail" ELSE "ok")
  /\ readEnd' = (e = "eof")
  /\ failed' = (failed \/ e = "fail")

(* Next yields entry e, which Read will read in the ways w. *)
Yield(e, w) ==
  /\ cur' = e /\ ways' = w /\ got' = <<>> /\ entryDone' = FALSE
  /\ pc' = "idle" /\ want' = 0 /\ res' = "ok" /\ readEnd' = FALSE /\ failed' = FALSE

Continue(p) == pc' = p /\ UNCHANGED <<want, res, readEnd, failed>>

(* A caller reads until io.EOF and repeats a call that has failed, as the  *)
(* guide for tapes tells it to.                                            *)
MayRead == pc = "idle" /\ ~readEnd /\ cur.kind # "none"

(* An entry whose end has been passed returns io.EOF at once. *)
ReadDone ==
  /\ MayRead /\ entryDone
  /\ Return("eof")
  /\ UNCHANGED <<cur, ways, got, entryDone, faults>>

(* finishEntry passes the rest of the entry; it may fail on a read error,  *)
(* and the entry is done all the same.                                     *)
Finish ==
  /\ pc = "finish"
  /\ entryDone' = TRUE
  /\ \/ Return("eof") /\ UNCHANGED faults
     \/ faults < MaxFaults /\ faults' = faults + 1 /\ Return("fail")
  /\ ways' = ways \ {"sparse"}
  /\ UNCHANGED <<cur, got>>
=============================================================================
