--------------------------- MODULE BkfScan_proofs ---------------------------
(***************************************************************************)
(* Proofs about the worker pool of cmd/bkfscan for any number of files and *)
(* workers.  The inductive invariant says where every file and every slot  *)
(* is: a file handed over is held by one worker or stored in one slot, a   *)
(* slot claimed is filled or about to be, and as many slots are claimed as *)
(* files are handed over and counted.                                      *)
(***************************************************************************)
EXTENDS BkfScan, FiniteSetTheorems, TLAPS

IInv == TypeOK /\ SlotsOwned /\ Accounted

(* The number of workers that have a file and no slot yet. *)
LEMMA CountingFinite ==
  IsFiniteSet(Counting) /\ Cardinality(Counting) \in Nat
  <1>1. IsFiniteSet(Workers) /\ Counting \subseteq Workers
    BY ScanAssumption DEF Counting
  <1> QED
    BY <1>1, FS_Subset, FS_CardinalityType

(* The initial states. *)
LEMMA StartInv == Init => IInv
  <1> SUFFICES ASSUME Init PROVE IInv
    OBVIOUS
  <1>1. N \in Nat
    BY ScanAssumption
  <1>2. Counting = {} /\ Scanning = {} /\ Busy = {}
    BY DEF Init, Counting, Scanning, Busy
  <1>3. Cardinality(Counting) = 0
    BY <1>2, FS_EmptySet
  <1>4. TypeOK
    BY <1>1 DEF Init, TypeOK, Slots, Empty
  <1>5. SlotsOwned
    BY <1>2 DEF SlotsOwned
  <1>6. Claims
    BY <1>1, <1>2, <1>3 DEF Init, Claims, Slots
  <1>7. Holdings
    BY <1>1, <1>2 DEF Init, Holdings, Slots
  <1>8. Phases
    BY DEF Init, Phases
  <1> QED
    BY <1>4, <1>5, <1>6, <1>7, <1>8 DEF IInv, Accounted

(* A path reaches a worker. *)
LEMMA HandInv ==
  ASSUME IInv, NEW w \in Workers, Hand(w)
  PROVE  IInv'
  <1> USE ScanAssumption
  <1>1. w \notin Counting /\ w \notin Scanning /\ sent < N /\ sent' = sent + 1
    BY DEF Hand, Counting, Scanning
  <1>2. Counting' = Counting \cup {w} /\ Scanning' = Scanning /\ Busy' = Busy \cup {w}
    BY <1>1 DEF IInv, Accounted, TypeOK, Hand, Counting, Scanning, Busy
  <1>3. Cardinality(Counting') = Cardinality(Counting) + 1
    BY <1>1, <1>2, CountingFinite, FS_AddElement
  <1>4. /\ file' \in [Workers -> 0..N] /\ file'[w] = sent + 1
        /\ \A v \in Busy : file'[v] = file[v]
    BY <1>1 DEF Hand, IInv, Accounted, TypeOK, Busy
  <1>5. TypeOK'
    BY <1>1, <1>4 DEF Hand, IInv, Accounted, TypeOK
  <1>6. SlotsOwned'
    BY <1>2 DEF Hand, IInv, Accounted, SlotsOwned
  <1>7. Claims'
    BY <1>1, <1>2, <1>3, CountingFinite DEF Hand, IInv, Accounted, TypeOK, Claims
  <1>8. Holdings'
    <2>1. \A i \in Slots : res'[i] = res[i] /\ res[i] \in 0..N /\ res[i] <= sent
      BY DEF Hand, IInv, Accounted, TypeOK, Holdings
    <2>2. \A f \in 1..sent' : \/ \E i \in Slots : res'[i] = f
                              \/ \E v \in Busy' : file'[v] = f
      BY <1>1, <1>2, <1>4, <2>1 DEF IInv, Accounted, TypeOK, Holdings
    <2>3. \A v \in Busy' : /\ file'[v] \in 1..sent'
                           /\ \A i \in Slots : res'[i] # file'[v]
      BY <1>1, <1>2, <1>4, <2>1 DEF IInv, Accounted, TypeOK, Holdings
    <2>4. \A u, v \in Busy' : file'[v] = file'[u] => v = u
      <3>1. \A u \in Busy : file[u] \in 1..sent
        BY DEF IInv, Accounted, Holdings
      <3>2. \A u \in Busy : file'[u] # sent + 1
        BY <1>4, <3>1 DEF IInv, Accounted, TypeOK
      <3> QED
        BY <1>2, <1>4, <3>2 DEF IInv, Accounted, Holdings
    <2>5. /\ \A i \in Slots : res'[i] <= sent'
          /\ \A i, j \in Slots : res'[i] = res'[j] /\ res'[i] # 0 => i = j
      BY <1>1, <2>1 DEF IInv, Accounted, TypeOK, Holdings
    <2>6. Slots' = Slots
      BY DEF Slots
    <2> QED
      BY <2>2, <2>3, <2>4, <2>5, <2>6 DEF Holdings
  <1>9. Phases'
    BY DEF Hand, IInv, Accounted, Phases
  <1> QED
    BY <1>5, <1>6, <1>7, <1>8, <1>9 DEF IInv, Accounted

(* A slot is claimed. *)
LEMMA CountInv ==
  ASSUME IInv, NEW w \in Workers, Count(w)
  PROVE  IInv'
  <1> USE ScanAssumption
  <1>1. /\ w \in Counting /\ w \notin Scanning
        /\ ri' = ri + 1 /\ slot' = [slot EXCEPT ![w] = ri]
    BY DEF Count, Counting, Scanning
  <1>2. /\ Counting' = Counting \ {w} /\ Scanning' = Scanning \cup {w}
        /\ Busy' = Busy
    BY <1>1 DEF IInv, Accounted, TypeOK, Count, Counting, Scanning, Busy
  <1>3. Cardinality(Counting') = Cardinality(Counting) - 1
    BY <1>1, <1>2, CountingFinite, FS_RemoveElement
  <1>4. Cardinality(Counting) # 0
    BY <1>1, CountingFinite, FS_EmptySet
  <1>5. ri < sent /\ ri \in 0..N /\ sent \in 0..N /\ ri \in Slots
    BY <1>4, CountingFinite DEF IInv, Accounted, TypeOK, Claims, Slots
  <1>6. /\ slot'[w] = ri /\ slot' \in [Workers -> Nat]
        /\ \A v \in Scanning : slot'[v] = slot[v] /\ slot[v] < ri /\ slot[v] \in Slots
    BY <1>1, <1>5 DEF IInv, Accounted, TypeOK, SlotsOwned, Claims, Scanning
  <1>7. res' = res /\ res[ri] = 0
    BY <1>5 DEF Count, IInv, Accounted, TypeOK, Claims
  <1>8. TypeOK'
    BY <1>5, <1>6 DEF Count, IInv, Accounted, TypeOK
  <1>9. SlotsOwned'
    <2>1. \A u, v \in Scanning' : slot'[u] = slot'[v] => u = v
      BY <1>2, <1>5, <1>6 DEF IInv, Accounted, SlotsOwned, TypeOK, Slots
    <2> QED
      BY <1>2, <1>5, <1>6, <1>7, <2>1 DEF IInv, Accounted, SlotsOwned
  <1>10. Claims'
    <2>1. \A v \in Scanning' : slot'[v] < ri'
      BY <1>1, <1>2, <1>5, <1>6 DEF Slots
    <2>2. ASSUME NEW i \in Slots, i < ri'
          PROVE  res'[i] # 0 \/ \E v \in Scanning' : slot'[v] = i
      <3>1. i < ri \/ i = ri
        BY <1>1, <1>5, <2>2 DEF Slots
      <3>2. CASE i = ri
        BY <1>2, <1>6, <3>2
      <3>3. CASE i < ri
        BY <1>2, <1>6, <1>7, <3>3 DEF IInv, Accounted, Claims
      <3> QED
        BY <3>1, <3>2, <3>3
    <2>3. \A i \in Slots : res'[i] # 0 => i < ri'
      BY <1>1, <1>5, <1>7 DEF IInv, Accounted, Claims, Slots
    <2>4. ri' + Cardinality(Counting') = sent'
      BY <1>1, <1>3, <1>5, CountingFinite DEF Count, IInv, Accounted, Claims
    <2> QED
      BY <2>1, <2>2, <2>3, <2>4 DEF Claims, Slots
  <1>11. Holdings'
    BY <1>2 DEF Count, IInv, Accounted, Holdings
  <1>12. Phases'
    BY DEF Count, IInv, Accounted, Phases
  <1> QED
    BY <1>8, <1>9, <1>10, <1>11, <1>12 DEF IInv, Accounted

(* A result is stored. *)
LEMMA StoreInv ==
  ASSUME IInv, NEW w \in Workers, Store(w)
  PROVE  IInv'
  <1> USE ScanAssumption
  <1> DEFINE k == slot[w]
  <1>1. w \in Scanning /\ w \in Busy /\ w \notin Counting
    BY DEF Store, Counting, Scanning, Busy
  <1>2. /\ Counting' = Counting /\ Scanning' = Scanning \ {w} /\ Busy' = Busy \ {w}
    BY <1>1 DEF IInv, Accounted, TypeOK, Store, Counting, Scanning, Busy
  <1>3. k \in Slots /\ res[k] = 0 /\ k < ri
    BY <1>1 DEF IInv, Accounted, SlotsOwned, Claims
  <1>4. /\ file[w] \in 1..sent /\ sent \in 0..N
        /\ \A i \in Slots : res[i] # file[w]
    BY <1>1 DEF IInv, Accounted, Holdings, TypeOK
  <1>5. /\ res'[k] = file[w] /\ res' \in [Slots -> 0..N]
        /\ \A i \in Slots \ {k} : res'[i] = res[i]
    BY <1>3, <1>4 DEF Store, IInv, Accounted, TypeOK
  <1>6. UNCHANGED <<sent, main, file, slot, ri>>
    BY DEF Store
  <1>7. TypeOK'
    BY <1>5 DEF Store, IInv, Accounted, TypeOK
  <1>8. SlotsOwned'
    BY <1>1, <1>2, <1>3, <1>5, <1>6 DEF IInv, Accounted, SlotsOwned
  <1>9. Claims'
    <2>1. res'[k] # 0
      BY <1>4, <1>5
    <2>2. \A i \in Slots : i < ri => res'[i] # 0 \/ \E v \in Scanning' : slot'[v] = i
      BY <1>2, <1>5, <1>6, <2>1 DEF IInv, Accounted, Claims
    <2>3. \A i \in Slots : res'[i] # 0 => i < ri
      BY <1>3, <1>5 DEF IInv, Accounted, Claims
    <2> QED
      BY <1>2, <1>6, <2>2, <2>3 DEF IInv, Accounted, Claims
  <1>10. Holdings'
    <2>1. \A f \in 1..sent : \/ \E i \in Slots : res'[i] = f
                             \/ \E v \in Busy' : file[v] = f
      <3>1. ASSUME NEW f \in 1..sent, NEW i \in Slots, res[i] = f
            PROVE  res'[i] = f
        BY <1>3, <1>5, <3>1
      <3> QED
        BY <1>2, <1>3, <1>5, <3>1 DEF IInv, Accounted, Holdings
    <2>2. \A v \in Busy' : /\ file[v] \in 1..sent
                           /\ \A i \in Slots : res'[i] # file[v]
                           /\ \A u \in Busy' : file[u] = file[v] => u = v
      BY <1>1, <1>2, <1>5 DEF IInv, Accounted, Holdings
    <2>3. \A i \in Slots : res'[i] <= sent
      BY <1>4, <1>5 DEF IInv, Accounted, Holdings
    <2>4. \A i, j \in Slots : res'[i] = res'[j] /\ res'[i] # 0 => i = j
      BY <1>3, <1>4, <1>5 DEF IInv, Accounted, Holdings
    <2> QED
      BY <1>2, <1>6, <2>1, <2>2, <2>3, <2>4 DEF Holdings, Slots
  <1>11. Phases'
    <2>1. main \notin {"tell", "report", "returned"}
      BY DEF Store, IInv, Accounted, Phases
    <2> QED
      BY <1>6, <2>1 DEF IInv, Accounted, Phases
  <1> QED
    BY <1>7, <1>8, <1>9, <1>10, <1>11 DEF IInv, Accounted

(* The steps that move no file. *)
LEMMA OtherInv ==
  ASSUME IInv,
         Main \/ Show \/ UNCHANGED vars \/ \E w \in Workers : Vanish(w) \/ Leave(w)
  PROVE  IInv'
  <1> USE ScanAssumption
  <1>1. UNCHANGED <<sent, file, slot, ri, res>>
    BY DEF Main, Close, Wait, Tell, Report, Show, Vanish, Leave, Closed, vars
  <1>2. Counting' = Counting /\ Scanning' = Scanning /\ Busy' = Busy
    BY DEF Main, Close, Wait, Tell, Report, Show, Vanish, Leave, Closed, vars, IInv, Accounted, TypeOK,
           Counting, Scanning, Busy
  <1>3. TypeOK'
    BY DEF Main, Close, Wait, Tell, Report, Show, Vanish, Leave, Closed, vars, IInv, Accounted, TypeOK, Empty
  <1>4. SlotsOwned' /\ Claims' /\ Holdings'
    BY <1>1, <1>2 DEF IInv, Accounted, SlotsOwned, Claims, Holdings
  <1>5. Phases'
    BY DEF Main, Close, Wait, Tell, Report, Show, Vanish, Leave, Closed, vars, IInv, Accounted, TypeOK, Phases
  <1> QED
    BY <1>3, <1>4, <1>5 DEF IInv, Accounted

(* The invariant holds in every reachable state. *)
THEOREM PoolInv == Spec => []IInv
  <1>1. IInv /\ [Next]_vars => IInv'
    BY HandInv, CountInv, StoreInv, OtherInv DEF Next, Work
  <1> QED
    BY StartInv, <1>1, PTL DEF Spec

(* Every variable has its type: no counter of the pool runs past the files *)
(* found, whatever the order in which the workers count.                   *)
THEOREM TypesHold == Spec => []TypeOK
  <1>1. IInv => TypeOK
    BY DEF IInv
  <1> QED
    BY PoolInv, <1>1, PTL

(* A worker of the pool always owns the slot it is about to store to: it   *)
(* is a slot of the slice, empty, and claimed by nobody else.              *)
THEOREM SlotsAlwaysOwned == Spec => []SlotsOwned
  <1>1. IInv => SlotsOwned
    BY DEF IInv, Accounted
  <1> QED
    BY PoolInv, <1>1, PTL

(* No file and no slot is lost or doubled at any point of the scan.        *)
THEOREM PoolAccounted == Spec => []Accounted
  <1>1. IInv => Accounted
    BY DEF IInv
  <1> QED
    BY PoolInv, <1>1, PTL

(* The report of bkfscan is complete: every file once, no empty slot.      *)
THEOREM ReportAlwaysComplete == Spec => []ReportComplete
  <1>1. IInv => ReportComplete
    <2> SUFFICES ASSUME IInv, main \in {"report", "returned"}
                 PROVE  /\ \A f \in Files : \E i \in Slots : res[i] = f
                        /\ \A i \in Slots : res[i] # 0
                        /\ \A i, j \in Slots : res[i] = res[j] => i = j
      BY DEF ReportComplete
    <2>1. sent = N /\ Counting = {} /\ Scanning = {} /\ Busy = {}
      BY DEF IInv, Accounted, Phases, Counting, Scanning, Busy
    <2>2. ri = N
      BY <2>1, FS_EmptySet DEF IInv, Accounted, Claims, TypeOK
    <2>3. \A i \in Slots : res[i] # 0
      BY <2>1, <2>2, ScanAssumption DEF IInv, Accounted, Claims, Slots
    <2> QED
      BY <2>1, <2>3 DEF IInv, Accounted, Holdings, Files
  <1> QED
    BY PoolInv, <1>1, PTL
=============================================================================
