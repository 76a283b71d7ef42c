---------------------------- MODULE MCBlockLayer ----------------------------
(* Small media for BlockLayer.  The first medium has three blocks of four  *)
(* bytes, the last one a byte short, and ends in an EOTM header; logical   *)
(* blocks of three bytes straddle the physical ones.  The second medium    *)
(* has two blocks and no EOTM.  A filemark follows the media header block. *)
EXTENDS BlockLayer, TLC

MCBlocks == <<3, 2>>
MCEdge   == << 0 :> 0 @@ 1 :> 4 @@ 2 :> 8 @@ 3 :> 11,
               0 :> 0 @@ 1 :> 4 @@ 2 :> 6 >>
MCMarks  == << {1}, {1} >>
MCBounds == << {0, 3, 6, 9}, {0, 3, 6} >>
MCEotm   == << 9, 99 >>

(* The tape of the second medium does not answer TellBlock.               *)
MCTellOK == << TRUE, FALSE >>
=============================================================================
