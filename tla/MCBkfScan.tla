----------------------------- MODULE MCBkfScan -----------------------------
(* Three workers and four files: more files than workers, so that workers  *)
(* come back for more, and one file that may be gone.                      *)
EXTENDS BkfScan

CONSTANTS w1, w2, w3

MCWorkers == {w1, w2, w3}
MCVanishing == {2}
=============================================================================
