--------------------------- MODULE CatalogRecords ---------------------------
(***************************************************************************)
(* The parsers of the Media Based Catalog (catalog.go, besetmap/,          *)
(* becatalog/): walks over a payload whose records say how long they are.  *)
(* A payload is a sequence of cells; a cell is the fixed part a record     *)
(* begins with, or a unit of what follows it.                              *)
(***************************************************************************)
EXTENDS Integers, Sequences

CONSTANTS
  FddHdr,    (* cells of the fixed part of an FDD record (fddHdrSize)        *)
  SmHdr,     (* of the header of a set map (smHdrSize)                       *)
  SmeMin     (* of a set map entry without its volumes (smeMinSize)          *)

ASSUME RecordsAssumption == {FddHdr, SmHdr, SmeMin} \subseteq Nat \ {0} /\ FddHdr <= SmeMin

(* A payload: cells with lengths and counts.                               *)
IsPayload(cells) ==
  /\ cells \in Seq({cells[q] : q \in DOMAIN cells})
  /\ \A q \in DOMAIN cells : cells[q].len \in Nat /\ cells[q].n \in Nat

(* The record at offset off, and whether its fixed part is there. *)
At(raw, off) == raw[off + 1]
Fits(raw, off, n) == off + n <= Len(raw)

-----------------------------------------------------------------------------
(* The file catalog. *)

FddTypes == {"VOLB", "DIRB", "FILE"}

(* parseFDDEntry recognises the record. *)
GoodFdd(raw, off) ==
  /\ At(raw, off).len >= FddHdr /\ Fits(raw, off, At(raw, off).len)
  /\ At(raw, off).k \in FddTypes \cup {"FEND"}

(* parseFDD.  A FEND record is passed like any other. *)
ParseFDD(raw) ==
  LET from[off \in Nat] ==
        IF Fits(raw, off, FddHdr) /\ GoodFdd(raw, off)
        THEN (IF At(raw, off).k = "FEND" THEN <<>> ELSE <<At(raw, off).id>>)
               \o from[off + At(raw, off).len]
        ELSE <<>>
  IN  from[0]

-----------------------------------------------------------------------------
(* The set map. *)

(* A volume record that does not reach beyond limit. *)
GoodVolume(raw, off, limit) ==
  off + FddHdr <= limit /\ At(raw, off).len >= FddHdr /\ off + At(raw, off).len <= limit

(* Up to n volume records from off on, and where they end. *)
Volumes(raw, off, limit, n) ==
  LET from[v \in Nat] ==
        [o \in Nat |->
          IF v > 0 /\ GoodVolume(raw, o, limit)
          THEN LET rest == from[v - 1][o + At(raw, o).len]
               IN  [ids |-> <<At(raw, o).id>> \o rest.ids, end |-> rest.end]
          ELSE [ids |-> <<>>, end |-> o]]
  IN  from[n][off]

(* ParseSetMapEntryFixed. *)
GoodEntry(raw, off) == Fits(raw, off, SmeMin) /\ At(raw, off).len >= SmeMin

Lesser(a, b) == IF a <= b THEN a ELSE b

NestedLimit(raw, off) == Lesser(off + At(raw, off).len, Len(raw))

(* parseSetMapEntries: the volumes of an entry are inside its length, which *)
(* is not compared with what is left of the payload.                       *)
NestedEntry(raw, off) ==
  [id |-> At(raw, off).id,
   vols |-> Volumes(raw, off + SmeMin, NestedLimit(raw, off), At(raw, off).n).ids]
NestedEntries(raw, start, count) ==
  LET from[i \in Nat] ==
        [off \in Nat |->
          IF i > 0 /\ GoodEntry(raw, off)
          THEN <<NestedEntry(raw, off)>> \o from[i - 1][off + At(raw, off).len]
          ELSE <<>>]
  IN  from[count][start]

(* besetmap.Parse: the volumes of an entry follow it. *)
VolumesBehind(raw, off) == Volumes(raw, off + At(raw, off).len, Len(raw), At(raw, off).n)
SeparateEntry(raw, off) == [id |-> At(raw, off).id, vols |-> VolumesBehind(raw, off).ids]
SeparateEntries(raw, start, count) ==
  LET from[i \in Nat] ==
        [off \in Nat |->
          IF i > 0 /\ GoodEntry(raw, off) /\ Fits(raw, off, At(raw, off).len)
          THEN LET next == VolumesBehind(raw, off).end
               IN  <<SeparateEntry(raw, off)>>
                     \o (IF Fits(raw, next, SmHdr) THEN from[i - 1][next] ELSE <<>>)
          ELSE <<>>]
  IN  from[count][start]

SetMapIds == {"TSMP", "MAP2", "SMP2"}

(* parseSetMapFor, besetmap being registered for SMP2; parseSetMap returns *)
(* nil and besetmap.Parse an empty map where there is no header.           *)
ParseSetMap(id, raw) ==
  IF ~Fits(raw, 0, SmHdr) THEN <<>>
  ELSE IF id = "SMP2" THEN SeparateEntries(raw, SmHdr, At(raw, 0).n)
  ELSE NestedEntries(raw, SmHdr, At(raw, 0).n)

-----------------------------------------------------------------------------
(* The directory tree of a Backup Exec catalog: a node is the index of its *)
(* parent, counted from 0.                                                 *)

Root == -1

(* The lists of nodes that BuildTree can take: it indexes by the parents   *)
(* unchecked.                                                              *)
NodeLists ==
  {nodes \in Seq(Int) : \A i \in 1..Len(nodes) : nodes[i] \in {Root} \cup 0..(Len(nodes) - 1)}

(* Mutant: indices count from 1. *)
ParentOf_FromOne(nodes, i) == IF nodes[i] = Root THEN 0 ELSE nodes[i]
ParentOf(nodes, i) == IF nodes[i] = Root THEN 0 ELSE nodes[i] + 1

(* BuildTree: the nodes as paths, from the roots down. *)
TreePaths(nodes) ==
  LET children(p) == {i \in 1..Len(nodes) : ParentOf(nodes, i) = p}
      down[d \in 1..Len(nodes)] ==
        IF d = 1 THEN {<<i>> : i \in children(0)}
        ELSE UNION {{Append(p, c) : c \in children(p[d - 1])} : p \in down[d - 1]}
  IN  UNION {down[d] : d \in 1..Len(nodes)}

(* What it should be: a node whose parents lead to a root has the path of  *)
(* its parents, and a node on a cycle or above one has none.               *)
Ancestry(nodes, i) ==
  LET above[d \in 0..Len(nodes)] ==
        [j \in 1..Len(nodes) |->
          IF nodes[j] = Root THEN <<j>>
          ELSE IF d = 0 THEN <<>>
          ELSE LET a == above[d - 1][nodes[j] + 1]
               IN  IF a = <<>> THEN <<>> ELSE Append(a, j)]
  IN  above[Len(nodes)][i]
=============================================================================
