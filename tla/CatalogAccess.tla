--------------------------- MODULE CatalogAccess ---------------------------
(***************************************************************************)
(* The two ways to a Media Based Catalog: the search for the set map from  *)
(* the end of the medium (ReadSetMapWithTape), and the capture of catalog  *)
(* streams by a Reader that walks it (captureCatalog, Catalog).            *)
(*                                                                         *)
(* The medium is a sequence of physical blocks numbered from 0.  k names   *)
(* what a block is: the TAPE, SSET, ESET and EOTM descriptors, a filemark, *)
(* "map" for a block that begins with the header of a set map stream, or   *)
(* anything else.  cells is the payload in a block, len the length its     *)
(* stream declares, streams what is attached to an ESET, rec what the      *)
(* writer of the catalog recorded.                                         *)
(***************************************************************************)
EXTENDS CatalogRecords

CONSTANTS
  Tapes,       (* the media                                                *)
  Reach,       (* blocks a probe goes back: 256 in the code                *)
  MaxFaults    (* how often an operation of the drive may fail             *)

ASSUME AccessAssumption == Reach \in Nat /\ MaxFaults \in Nat

(* A medium that was closed in order: the EOTM before the last filemark    *)
(* names the last ESET, as catalog.go:645 has it, or the block behind it,  *)
(* as readsetmap_test.go has it.                                           *)
LastEsetIn(t, p) ==
  p \in 0..(Len(t) - 1) /\ t[p + 1].k = "eset" /\ \A q \in (p + 2)..Len(t) : t[q].k # "eset"
Ends(t) ==
  LET eotm == t[Len(t) - 1]
  IN  Len(t) > 2 /\ eotm.k = "eotm" /\ ~eotm.noEset =>
        eotm.last \in Nat /\ (LastEsetIn(t, eotm.last) \/ LastEsetIn(t, eotm.last - 1))
ASSUME TapesAssumption == \A t \in Tapes : Len(t) \in Nat /\ Ends(t)

VARIABLES
  tape,
  pc,          (* "idle": nothing under way                                *)
  faults,
  (* the search *)
  flb,         (* the primer found the TAPE block: flbsize is known        *)
  last,        (* the last ESET's address as the EOTM has it               *)
  delta,       (* the distance of the next probe                           *)
  found,       (* the set map: id, cells so far, declared len, the block   *)
               (* it was found at and the next one to read                 *)
  hidden,      (* a probe failed on a filemark (history)                   *)
  (* the walk *)
  at,          (* the ESET reached, or -1                                  *)
  k,           (* the stream of it to be read                              *)
  raw,         (* catFDDraw, catSMPraw and catSMPStreamID                  *)
  cached,      (* r.catalog                                                *)
  given        (* the last KindSetEnd: its ESET and its catalog            *)

search == <<flb, last, delta, found, hidden>>
walk == <<at, k, raw, cached, given>>
vars == <<tape, pc, faults, search, walk>>

B(p) == tape[p + 1]
FddIds == {"TFDD", "FDD2"}
NoMap == [id |-> "", cells |-> <<>>, len |-> 0, from |-> -1, next |-> 0]
NoCatalog == [fdd |-> <<>>, map |-> <<>>, be |-> <<>>, rawFdd |-> <<>>]
Nothing == [fdd |-> <<>>, map |-> <<>>, id |-> ""]

(* An operation of the drive works, or fails.  *)
Works(o) == o = "ok" /\ UNCHANGED faults
Breaks(o) == o = "fault" /\ faults < MaxFaults /\ faults' = faults + 1

Init ==
  /\ tape \in Tapes
  /\ pc = "idle" /\ faults = 0
  /\ flb = FALSE /\ last = 0 /\ delta = 0 /\ found = NoMap /\ hidden = FALSE
  /\ at = -1 /\ k = 0 /\ raw = Nothing /\ cached = NoCatalog /\ given = [at |-> -1, cat |-> NoCatalog]

-----------------------------------------------------------------------------
(* The search.  It is not started in the middle of a walk: its Readers are *)
(* its own and it moves the tape.                                          *)

Searching == pc \in {"eotm", "back", "payload", "chain"}

(* SeekBlock(0) and the Next of the primer: a failure only costs the       *)
(* logical block size.                                                     *)
Prime(o) ==
  /\ pc = "idle" /\ at = -1
  /\ Works(o) \/ Breaks(o)
  /\ flb' = (o = "ok" /\ B(0).k = "tape")
  /\ pc' = "eotm"
  /\ UNCHANGED <<tape, last, delta, found, hidden, walk>>

(* To the end of the medium and two blocks back. *)
LocateEOTM(o) ==
  LET eotm == B(Len(tape) - 2)
  IN  /\ pc = "eotm"
      /\ \/ Breaks(o) /\ pc' = "error" /\ UNCHANGED <<last, delta>>
         \/ Works(o) /\ Len(tape) <= 2 /\ pc' = "none" /\ UNCHANGED <<last, delta>>
         \/ Works(o) /\ Len(tape) > 2 /\ eotm.k # "eotm" /\ pc' = "error" /\ UNCHANGED <<last, delta>>
         \/ Works(o) /\ Len(tape) > 2 /\ eotm.k = "eotm" /\ eotm.noEset
            /\ pc' = "none" /\ UNCHANGED <<last, delta>>
         \/ Works(o) /\ Len(tape) > 2 /\ eotm.k = "eotm" /\ ~eotm.noEset
            /\ last' = eotm.last /\ delta' = 1 /\ pc' = "back"
      /\ UNCHANGED <<tape, flb, found, hidden, walk>>

(* Mutants: a block that is not looked for is read again; every other one  *)
(* is passed over.                                                         *)
Further_Same == UNCHANGED delta
Further_Twice == delta' = delta + 2
(* A probe goes on one block earlier. *)
Further == delta' = delta + 1

(* A probe goes on past a block it cannot read, whatever it was.           *)
Missed(o, p) == Breaks(o) /\ hidden' = (hidden \/ B(p).k = "fm") /\ Further

(* Mutant: a filemark is a block like any other. *)
Crosses_Never(p) == p < 0
(* The probe would leave the recorded section of the last ESET.            *)
Crosses(p) == p < 0 \/ B(p).k = "fm"

(* probeSetMapBackward found nothing: probeSetMapESETChain needs a Reader. *)
TryChain == pc' = (IF flb THEN "chain" ELSE "none") /\ delta' = 0

(* probeSetMapBackward, one block. *)
Backward(o) ==
  LET p == last - delta
  IN  /\ pc = "back"
      /\ \/ /\ delta > Reach \/ p < 0
            /\ Works(o) /\ TryChain /\ UNCHANGED <<found, hidden>>
         \/ /\ delta <= Reach /\ p >= 0
            /\ Missed(o, p) /\ UNCHANGED <<pc, found>>
         \/ /\ delta <= Reach /\ p >= 0 /\ Crosses(p)
            /\ Works(o) /\ TryChain /\ UNCHANGED <<found, hidden>>
         \/ /\ delta <= Reach /\ p >= 0 /\ ~Crosses(p) /\ B(p).k # "map"
            /\ Works(o) /\ Further /\ UNCHANGED <<pc, found, hidden>>
         \/ /\ delta <= Reach /\ p >= 0 /\ ~Crosses(p) /\ B(p).k = "map"
            /\ Works(o)
            /\ found' = [id |-> B(p).id, len |-> B(p).len, from |-> p, next |-> p + 1,
                         cells |-> IF B(p).len = 0 THEN <<>> ELSE B(p).cells]
            /\ pc' = "payload" /\ UNCHANGED <<delta, hidden>>
      /\ UNCHANGED <<tape, flb, last, walk>>

(* Mutant: the block with the stream header is read again.                 *)
NextBlock_First == found.from
NextBlock == found.next

(* readStreamPayload, one block: whatever ends it leaves a short payload.  *)
Payload(o) ==
  LET p == NextBlock
  IN  /\ pc = "payload"
      /\ \/ /\ Len(found.cells) < found.len /\ p < Len(tape) /\ B(p).k # "fm"
            /\ Works(o) /\ UNCHANGED pc
            /\ found' = [found EXCEPT !.cells = @ \o B(p).cells, !.next = p + 1]
         \/ /\ Len(found.cells) < found.len
            /\ Breaks(o) \/ (Works(o) /\ (p = Len(tape) \/ B(p).k = "fm"))
            /\ pc' = "found" /\ UNCHANGED found
         \/ /\ Len(found.cells) >= found.len
            /\ Works(o) /\ pc' = "found"
            /\ found' = [found EXCEPT !.cells = SubSeq(@, 1, found.len)]
      /\ UNCHANGED <<tape, flb, last, delta, hidden, walk>>

(* The last of the streams that has one of the ids, or nothing.            *)
LastOf(streams, ids) ==
  LET hits == {i \in DOMAIN streams : streams[i].id \in ids}
  IN  IF hits = {} THEN [id |-> "", cells |-> <<>>, rec |-> <<>>]
      ELSE streams[CHOOSE i \in hits : \A j \in hits : j <= i]

(* Mutant: the probe starts at the block before. *)
ChainAt_Before == last - 2 - delta
ChainAt == last - 1 - delta

(* probeSetMapESETChain, one block: at an ESET that checks, its streams    *)
(* are read by a Reader from there; a failure on the way means the next    *)
(* block.                                                                  *)
Chain(o) ==
  LET p  == ChainAt
      sm == LastOf(B(p).streams, SetMapIds)
      candidate == B(p).k = "eset" /\ B(p).sum /\ sm.cells # <<>>
  IN  /\ pc = "chain"
      /\ \/ /\ delta > Reach \/ p < 0
            /\ Works(o) /\ pc' = "none" /\ UNCHANGED <<delta, found, hidden>>
         \/ /\ delta <= Reach /\ p >= 0
            /\ Missed(o, p) /\ UNCHANGED <<pc, found>>
         \/ /\ delta <= Reach /\ p >= 0 /\ Crosses(p)
            /\ Works(o) /\ pc' = "none" /\ UNCHANGED <<delta, found, hidden>>
         \/ /\ delta <= Reach /\ p >= 0 /\ ~Crosses(p) /\ ~candidate
            /\ Works(o) /\ Further /\ UNCHANGED <<pc, found, hidden>>
         \/ /\ delta <= Reach /\ p >= 0 /\ ~Crosses(p) /\ candidate
            /\ Works(o) /\ pc' = "found" /\ UNCHANGED <<delta, hidden>>
            /\ found' = [id |-> sm.id, cells |-> sm.cells, len |-> Len(sm.cells),
                         from |-> p, next |-> p + 1]
      /\ UNCHANGED <<tape, flb, last, walk>>

Search(o) == Prime(o) \/ LocateEOTM(o) \/ Backward(o) \/ Payload(o) \/ Chain(o)

-----------------------------------------------------------------------------
(* The walk. *)

Esets == {p \in 0..(Len(tape) - 1) : B(p).k = "eset"}
Least(S) == CHOOSE p \in S : \A q \in S : p <= q

(* Next comes to the next ESET. *)
ReachSetEnd ==
  LET ahead == {p \in Esets : p > at}
  IN  /\ pc = "idle" /\ ahead # {}
      /\ at' = Least(ahead) /\ k' = 1 /\ pc' = "capture"
      /\ UNCHANGED <<tape, faults, search, raw, cached, given>>

(* Mutant: the parsed catalog survives a new capture. *)
Drop_Kept == UNCHANGED cached
Drop == cached' = NoCatalog

(* captureCatalog, one stream.  A failure ends the Next and keeps what was *)
(* captured.                                                               *)
CaptureStream(o) ==
  LET s == B(at).streams[k]
  IN  /\ pc = "capture" /\ k <= Len(B(at).streams)
      /\ \/ Breaks(o) /\ pc' = "idle" /\ UNCHANGED <<k, raw, cached>>
         \/ /\ Works(o) /\ s.id \in FddIds
            /\ raw' = [raw EXCEPT !.fdd = s.cells]
            /\ Drop /\ k' = k + 1 /\ UNCHANGED pc
         \/ /\ Works(o) /\ s.id \in SetMapIds
            /\ raw' = [raw EXCEPT !.map = s.cells, !.id = s.id]
            /\ Drop /\ k' = k + 1 /\ UNCHANGED pc
         \/ /\ Works(o) /\ s.id \notin FddIds \cup SetMapIds
            /\ k' = k + 1 /\ UNCHANGED <<pc, raw, cached>>
      /\ UNCHANGED <<tape, search, at, given>>

(* becatalog.ParseFDD: the sections of a Backup Exec catalog.  *)
BackupExec(cells) ==
  IF cells # <<>> /\ cells[1].k = "xml" THEN [i \in 1..Len(cells) |-> cells[i].n] ELSE <<>>

(* Catalog(): parsed once and kept.  *)
Parsed ==
  LET fdd == ParseFDD(raw.fdd)
  IN  [fdd |-> fdd, map |-> ParseSetMap(raw.id, raw.map), rawFdd |-> raw.fdd,
       be  |-> IF fdd = <<>> THEN BackupExec(raw.fdd) ELSE <<>>]
Catalog ==
  IF cached # NoCatalog THEN cached
  ELSE IF raw.fdd = <<>> /\ raw.map = <<>> THEN NoCatalog ELSE Parsed

(* The terminal SPAD: the set's end is yielded with the catalog.           *)
YieldSetEnd ==
  /\ pc = "capture" /\ k > Len(B(at).streams)
  /\ cached' = Catalog /\ given' = [at |-> at, cat |-> Catalog]
  /\ pc' = "idle"
  /\ UNCHANGED <<tape, faults, search, at, k, raw>>

(* Catalog or Family is called between two calls of Next.  *)
AskCatalog ==
  /\ pc = "idle" /\ cached' = Catalog
  /\ UNCHANGED <<tape, pc, faults, search, at, k, raw, given>>

-----------------------------------------------------------------------------
Next ==
  \/ \E o \in {"ok", "fault"} : Search(o) \/ CaptureStream(o)
  \/ ReachSetEnd \/ YieldSetEnd \/ AskCatalog

Spec == Init /\ [][Next]_vars
(* Each probe and read is one iteration of a loop of the call under way.   *)
FairSpec == Spec /\ WF_vars(Searching /\ \E o \in {"ok", "fault"} : Search(o))

-----------------------------------------------------------------------------
(* What the writer of a medium put on it, where a proof relies on it.      *)

(* The parsers return what a stream recorded.                              *)
NodesOf(cells) == IF ParseFDD(cells) = <<>> THEN BackupExec(cells) ELSE <<>>
Encodes(s) ==
  /\ s.id \in FddIds => ParseFDD(s.cells) \o NodesOf(s.cells) = s.rec
  /\ s.id \in SetMapIds => ParseSetMap(s.id, s.cells) = s.rec
WellEncoded ==
  \A t \in Tapes : \A p \in 0..(Len(t) - 1) :
    /\ DOMAIN t[p + 1].streams = 1..Len(t[p + 1].streams)
    /\ Len(t[p + 1].streams) \in Nat
    /\ \A i \in DOMAIN t[p + 1].streams : Encodes(t[p + 1].streams[i])

(* Every parent that a recorded tree names is in it.                       *)
TreesClosed ==
  \A t \in Tapes : \A p \in 0..(Len(t) - 1) :
    \A i \in 1..Len(t[p + 1].streams) :
      t[p + 1].streams[i].id \in FddIds => NodesOf(t[p + 1].streams[i].cells) \in NodeLists

(* The cells in the blocks from p on: in the first d + 1 of them.          *)
Held(t, p) ==
  LET upTo[d \in 0..(Len(t) - 1 - p)] ==
        IF d = 0 THEN t[p + 1].cells ELSE upTo[d - 1] \o t[p + 1 + d].cells
  IN  upTo
(* The set map that begins in block p is on the medium in one piece, and   *)
(* it parses into what was recorded.                                       *)
MapWhole(t, p) ==
  \E d \in 0..(Len(t) - 1 - p) :
    /\ \A q \in (p + 1)..(p + d) : t[q + 1].k # "fm"
    /\ Len(Held(t, p)[d]) >= t[p + 1].len
    /\ ParseSetMap(t[p + 1].id, SubSeq(Held(t, p)[d], 1, t[p + 1].len)) = t[p + 1].rec
MapsWhole ==
  \A t \in Tapes : \A p \in 0..(Len(t) - 1) :
    /\ IsPayload(t[p + 1].cells)
    /\ \A i \in DOMAIN t[p + 1].streams :
         t[p + 1].streams[i].id \in SetMapIds => IsPayload(t[p + 1].streams[i].cells)
    /\ t[p + 1].k = "map" => t[p + 1].len \in Nat /\ MapWhole(t, p)

-----------------------------------------------------------------------------
(* Every variable has its type, addresses and counts within the medium and *)
(* the reach of the probes.                                                *)
TypeOK ==
  /\ pc \in {"idle", "eotm", "back", "payload", "chain", "found", "none", "error", "capture"}
  /\ faults \in 0..MaxFaults /\ flb \in BOOLEAN /\ hidden \in BOOLEAN
  /\ last \in 0..Len(tape) /\ delta \in 0..(Reach + 1)
  /\ found.from \in -1..(Len(tape) - 1) /\ at \in -1..(Len(tape) - 1)

LastEset == CHOOSE p \in Esets : \A q \in Esets : q <= p

(* What the set that the ESET at p closes recorded as its set map: in the  *)
(* ESET's streams, or from a block of its section on.                      *)
Section(p) == {q \in 0..p : \A r \in q..p : B(r).k # "fm"}
Aligned(p) == {q \in Section(p) : B(q).k = "map"}

(* The set map that the search finds is that of the last set, whatever of  *)
(* the reads failed, as long as no filemark was lost to a failure          *)
(* (catalog.go:645-646).                                                   *)
FoundIsLast ==
  pc = "found" /\ ~hidden => found.from \in Section(LastEset)

(* A search that reports "no set map", and the set map an intact ESET has  *)
(* among its streams.                                                      *)
ReportsNone == pc = "none" /\ faults = 0 /\ Len(tape) > 2 /\ ~B(Len(tape) - 2).noEset
Attached(p) == LastOf(B(p).streams, SetMapIds).cells # <<>> /\ B(p).sum

(* Without a failure the search reports "no set map" only where the last   *)
(* set has none within reach of a probe: no block-aligned one, and, with   *)
(* an EOTM that names the block behind the ESET, none attached to the      *)
(* ESET, or no TAPE block to read it with.  With the address of the ESET   *)
(* itself (catalog.go:647) the chain probe starts one block too early and  *)
(* passes over an attached one.                                            *)
NoneOnlyIfAbsent ==
  ReportsNone =>
    /\ \A q \in Aligned(LastEset) : last - q > Reach
    /\ last = LastEset + 1 /\ flb => ~Attached(LastEset)

(* The entries begin as they were recorded, and with them their volumes.   *)
Begins(s, t) == Len(s) <= Len(t) /\ \A i \in 1..Len(s) : s[i] = t[i]
Shortened(es, rec) ==
  /\ Len(es) <= Len(rec)
  /\ \A i \in 1..Len(es) :
       /\ es[i].id = rec[i].id /\ Begins(es[i].vols, rec[i].vols)
       /\ i < Len(es) => es[i] = rec[i]

(* A set map found is parsed into the sets and volumes that were recorded; *)
(* where a failure cut its payload short, into the first of them, the last *)
(* perhaps with fewer volumes, and never into another one.                 *)
MapParsed ==
  pc = "found" =>
    LET b   == B(found.from)
        rec == IF b.k = "map" THEN b.rec ELSE LastOf(b.streams, SetMapIds).rec
        es  == ParseSetMap(found.id, found.cells)
    IN  IF faults = 0 THEN es = rec ELSE Shortened(es, rec)

(* A set that recorded a file catalog or a set map is given its own, as    *)
(* recorded, whatever was parsed and cached before.                        *)
OwnCatalog ==
  LET streams == B(given.at).streams
      fdd == LastOf(streams, FddIds)
      sm  == LastOf(streams, SetMapIds)
  IN  given.at >= 0 =>
        /\ fdd.cells # <<>> => given.cat.fdd \o given.cat.be = fdd.rec /\ given.cat.rawFdd = fdd.cells
        /\ sm.cells # <<>> => given.cat.map = sm.rec

(* The directory tree built from a catalog has every node whose parents    *)
(* lead to a root, once, under its parents, and no other (tree.go:18-21).  *)
TreeComplete ==
  LET nodes == given.cat.be
  IN  TreePaths(nodes) = {Ancestry(nodes, i) : i \in DOMAIN nodes} \ {<<>>}

(* A search ends with a set map, with none, or with an error.              *)
SearchEnds == [](Searching => <>(pc \in {"found", "none", "error"}))

(* "nil when the set recorded no catalog" (mtf.go:332). *)
CatalogOfSet ==
  given.at >= 0 /\ (\A i \in DOMAIN B(given.at).streams : B(given.at).streams[i].cells = <<>>) =>
    given.cat = NoCatalog
=============================================================================
