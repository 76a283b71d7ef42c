------------------------------ MODULE BkfScan ------------------------------
(***************************************************************************)
(* The worker pool of cmd/bkfscan (main.go): main hands the paths it has   *)
(* found to workers over an unbuffered channel, each worker claims a slot  *)
(* of the result slice with an atomic counter and stores what scanning the *)
(* file gave, a goroutine shows the progress, and main reports when every  *)
(* worker has left.  A file is its number in the order found; the result   *)
(* of scanning it is represented by that number too.                       *)
(***************************************************************************)
EXTENDS Integers, FiniteSets

CONSTANTS
  N,          (* files found: len(all)                                        *)
  Workers,    (* the worker goroutines, 64 in the code                        *)
  Vanishing   (* files that may be gone when they are scanned                 *)

ASSUME ScanAssumption ==
  N \in Nat /\ IsFiniteSet(Workers) /\ Vanishing \subseteq 1..N

VARIABLES
  sent,       (* files main has handed over                                   *)
  main,       (* where main is                                                *)
  worker,     (* where each worker is                                         *)
  file,       (* the path p each worker has                                   *)
  slot,       (* the idx each worker has claimed                              *)
  ri,         (* the atomic counter                                           *)
  res,        (* the results, 0 the zero value of a slot                      *)
  done,       (* the done channel, capacity one                               *)
  progress,   (* where the progress goroutine is                              *)
  shown       (* the count it printed last                                    *)

vars == <<sent, main, worker, file, slot, ri, res, done, progress, shown>>

Files == 1..N
Slots == 0..(N - 1)
Empty == {}

(* Mutant: the bound of the loop over the files is off by one. *)
Hand_OneMore(w) ==
  /\ main = "send" /\ sent <= N /\ worker[w] = "take"
  /\ sent' = sent + 1
  /\ file' = [file EXCEPT ![w] = sent + 1]
  /\ worker' = [worker EXCEPT ![w] = "count"]
  /\ UNCHANGED <<main, slot, ri, res, done, progress, shown>>

(* jobs <- p meets a worker ranging over jobs. *)
Hand(w) ==
  /\ main = "send" /\ sent < N /\ worker[w] = "take"
  /\ sent' = sent + 1
  /\ file' = [file EXCEPT ![w] = sent + 1]
  /\ worker' = [worker EXCEPT ![w] = "count"]
  /\ UNCHANGED <<main, slot, ri, res, done, progress, shown>>

(* Mutant: the counter is read but not advanced. *)
Count_LoadsOnly(w) ==
  /\ main # "crashed" /\ worker[w] = "count"
  /\ slot' = [slot EXCEPT ![w] = ri] /\ ri' = ri
  /\ worker' = [worker EXCEPT ![w] = "scan"]
  /\ UNCHANGED <<sent, main, file, res, done, progress, shown>>

(* atomic.AddInt64(&ri, 1) - 1 *)
Count(w) ==
  /\ main # "crashed" /\ worker[w] = "count"
  /\ slot' = [slot EXCEPT ![w] = ri] /\ ri' = ri + 1
  /\ worker' = [worker EXCEPT ![w] = "scan"]
  /\ UNCHANGED <<sent, main, file, res, done, progress, shown>>

(* res[idx] = scanOne(p), whatever Census says of the file. *)
Store(w) ==
  /\ main # "crashed" /\ worker[w] = "scan"
  /\ res' = [res EXCEPT ![slot[w]] = file[w]]
  /\ worker' = [worker EXCEPT ![w] = "take"]
  /\ UNCHANGED <<sent, main, file, slot, ri, done, progress, shown>>

(* scanOne drops the error of os.Stat: the size of a file that is gone is  *)
(* asked of a nil FileInfo, and the panic ends the program.                *)
Vanish(w) ==
  /\ main # "crashed" /\ worker[w] = "scan" /\ file[w] \in Vanishing
  /\ main' = "crashed"
  /\ UNCHANGED <<sent, worker, file, slot, ri, res, done, progress, shown>>

(* Mutant: jobs is closed behind wg.Wait. *)
Closed_AfterWait == main = "tell"

Closed == main \in {"wait", "tell"}

(* jobs is closed and drained: the worker's loop ends (wg.Done). *)
Leave(w) ==
  /\ Closed /\ worker[w] = "take"
  /\ worker' = [worker EXCEPT ![w] = "left"]
  /\ UNCHANGED <<sent, main, file, slot, ri, res, done, progress, shown>>

Close ==
  /\ main = "send" /\ sent = N
  /\ main' = "wait"
  /\ UNCHANGED <<sent, worker, file, slot, ri, res, done, progress, shown>>

(* Mutant: main goes on when the jobs are handed out. *)
Wait_NotAtAll ==
  /\ main = "wait"
  /\ main' = "tell"
  /\ UNCHANGED <<sent, worker, file, slot, ri, res, done, progress, shown>>

(* wg.Wait *)
Wait ==
  /\ main = "wait" /\ \A w \in Workers : worker[w] = "left"
  /\ main' = "tell"
  /\ UNCHANGED <<sent, worker, file, slot, ri, res, done, progress, shown>>

(* done <- ri, into the buffer. *)
Tell ==
  /\ main = "tell" /\ done = Empty
  /\ done' = {ri}
  /\ main' = "report"
  /\ UNCHANGED <<sent, worker, file, slot, ri, res, progress, shown>>

(* A tick, or the end.  Returning from main stops the goroutine wherever   *)
(* it is.                                                                  *)
Show ==
  /\ main \notin {"crashed", "returned"} /\ progress = "run"
  /\ \/ shown' = ri /\ UNCHANGED <<done, progress>>
     \/ \E n \in done : shown' = n /\ done' = Empty /\ progress' = "over"
  /\ UNCHANGED <<sent, main, worker, file, slot, ri, res>>

Report ==
  /\ main = "report"
  /\ main' = "returned"
  /\ UNCHANGED <<sent, worker, file, slot, ri, res, done, progress, shown>>

Init ==
  /\ sent = 0 /\ main = "send" /\ ri = 0 /\ done = Empty
  /\ worker = [w \in Workers |-> "take"]
  /\ file = [w \in Workers |-> 0] /\ slot = [w \in Workers |-> 0]
  /\ res = [i \in Slots |-> 0]
  /\ progress = "run" /\ shown = 0

Main   == Close \/ Wait \/ Tell \/ Report
Work(w) == Hand(w) \/ Count(w) \/ Store(w) \/ Vanish(w) \/ Leave(w)
Next   == Main \/ Show \/ \E w \in Workers : Work(w)

Spec == Init /\ [][Next]_vars

(* The scheduler runs every goroutine that can go on, and a rendezvous     *)
(* takes place when some worker is ready for it.  Nothing is asked of the  *)
(* progress goroutine.                                                     *)
FairSpec ==
  /\ Spec /\ WF_vars(Main) /\ WF_vars(\E w \in Workers : Hand(w))
  /\ \A w \in Workers : WF_vars(Count(w) \/ Store(w) \/ Vanish(w) \/ Leave(w))

-----------------------------------------------------------------------------
(* Every variable has its type. *)
TypeOK ==
  /\ sent \in 0..N /\ ri \in 0..N /\ shown \in 0..N
  /\ main \in {"send", "wait", "tell", "report", "returned", "crashed"}
  /\ worker \in [Workers -> {"take", "count", "scan", "left"}]
  /\ file \in [Workers -> 0..N] /\ slot \in [Workers -> Nat]
  /\ res \in [Slots -> 0..N]
  /\ done \in SUBSET (0..N) /\ progress \in {"run", "over"}

Scanning == {w \in Workers : worker[w] = "scan"}

(* A worker that is about to store its result owns the slot: it lies in    *)
(* the slice, nothing has been stored there, and no other worker is going  *)
(* to store there.                                                         *)
SlotsOwned ==
  \A w \in Scanning : /\ slot[w] \in Slots /\ res[slot[w]] = 0
                      /\ \A v \in Scanning : slot[v] = slot[w] => v = w

Counting == {w \in Workers : worker[w] = "count"}
Busy     == Counting \cup Scanning

(* Every slot claimed is filled or about to be, as many as files counted.  *)
Claims ==
  /\ ri + Cardinality(Counting) = sent
  /\ \A w \in Scanning : slot[w] < ri
  /\ \A i \in Slots : i < ri => \/ res[i] # 0
                                \/ \E w \in Scanning : slot[w] = i
  /\ \A i \in Slots : res[i] # 0 => i < ri

(* Every file handed over is with one worker or in one slot. *)
Holdings ==
  /\ \A f \in 1..sent : \/ \E i \in Slots : res[i] = f
                        \/ \E w \in Busy : file[w] = f
  /\ \A w \in Busy : /\ file[w] \in 1..sent
                     /\ \A i \in Slots : res[i] # file[w]
                     /\ \A v \in Busy : file[v] = file[w] => v = w
  /\ \A i \in Slots : res[i] <= sent
  /\ \A i, j \in Slots : res[i] = res[j] /\ res[i] # 0 => i = j

(* main does not run ahead of the workers. *)
Phases ==
  /\ main \in {"wait", "tell", "report", "returned"} => sent = N
  /\ main \in {"tell", "report", "returned"}
       => \A w \in Workers : worker[w] = "left"

(* Nothing is lost or doubled on the way through the pool: at any moment   *)
(* each file is in one place and each slot has one claim (main, the        *)
(* workers, wg.Wait).                                                      *)
Accounted == Claims /\ Holdings /\ Phases

(* The report sees every file that was found, once, and no empty slot:     *)
(* whatever the order in which the workers finished.                       *)
ReportComplete ==
  main \in {"report", "returned"} =>
    /\ \A f \in Files : \E i \in Slots : res[i] = f
    /\ \A i \in Slots : res[i] # 0
    /\ \A i, j \in Slots : res[i] = res[j] => i = j

(* The scan ends, also when the progress goroutine never runs again. *)
ScanEnds == <>(main \in {"returned", "crashed"})
=============================================================================
