----------------------------- MODULE MCCatalog -----------------------------
(* Media for CatalogAccess: the fixed part of a volume and of a set map    *)
(* entry is two cells, a block of payload three.                           *)
EXTENDS CatalogAccess

MCFddHdr == 2
MCSmHdr == 1
MCSmeMin == 2
Room == 3

Cell(kind, len, n, id) == [k |-> kind, len |-> len, n |-> n, id |-> id]
Pad == Cell("pad", 0, 0, 0)
Pads(n) == [i \in 1..n |-> Pad]

Joined(ss) ==
  LET f[i \in 0..Len(ss)] == IF i = 0 THEN <<>> ELSE f[i - 1] \o ss[i]
  IN  f[Len(ss)]

(* Records, with a cell of strings behind the fixed part of every other.   *)
Rec(kind, id) == LET n == MCFddHdr + (id % 2) IN <<Cell(kind, n, 0, id)>> \o Pads(n - 1)
VolumesOf(e) == Joined([i \in DOMAIN e.vols |-> Rec("VOLB", e.vols[i])])

E(id, vols) == [id |-> id, vols |-> vols]
Fixed(e, extra) == <<Cell("entry", MCSmeMin + extra, Len(e.vols), e.id)>> \o Pads(MCSmeMin - 1)
Header(es) == <<Cell("map", 0, Len(es), 0)>>
Nested(es) ==
  Header(es) \o Joined([i \in DOMAIN es |-> Fixed(es[i], Len(VolumesOf(es[i]))) \o VolumesOf(es[i])])
Separate(es) == Header(es) \o Joined([i \in DOMAIN es |-> Fixed(es[i], 0) \o VolumesOf(es[i])])
Encoded(id, es) == IF id = "SMP2" THEN Separate(es) ELSE Nested(es)

Maps == {<<E(1, <<2>>)>>, <<E(1, <<2, 3>>), E(4, <<5>>)>>, <<E(1, <<>>), E(4, <<5, 6>>), E(7, <<8>>)>>}

-----------------------------------------------------------------------------
Blk(kind) ==
  [k |-> kind, id |-> "", len |-> 0, cells |-> Pads(Room), streams |-> <<>>,
   last |-> 0, noEset |-> FALSE, sum |-> TRUE, rec |-> <<>>]

Stream(id, cells, rec) == [id |-> id, cells |-> cells, rec |-> rec]
MapStream(id, es) == Stream(id, Encoded(id, es), es)
FddStream(id, ids) ==
  Stream(id, Joined([i \in DOMAIN ids |-> Rec(IF i = 1 THEN "VOLB" ELSE "FILE", ids[i])])
               \o Rec("FEND", 0), ids)
TreeStream(nodes) == Stream("TFDD", [i \in DOMAIN nodes |-> Cell("xml", 0, nodes[i], i)], nodes)

(* A set map from a block boundary on. *)
AlignedMap(id, es) ==
  LET c     == Encoded(id, es)
      count == (Len(c) + Room - 1) \div Room
      full  == c \o Pads(Room)
  IN  [i \in 1..count |->
        [Blk(IF i = 1 THEN "map" ELSE "more")
           EXCEPT !.id = id, !.len = Len(c), !.rec = es,
                  !.cells = SubSeq(full, (i - 1) * Room + 1, i * Room)]]

Eset(streams) == [Blk("eset") EXCEPT !.streams = streams]
DataSet(maps, eset) == <<Blk("sset"), Blk("data")>> \o maps \o <<eset, Blk("fm")>>

(* The end of a medium; the EOTM names the last ESET (gap 0) or the block  *)
(* behind it (gap 1, as in readsetmap_test.go).                            *)
Ended(blocks, noEset, gap) ==
  LET final == CHOOSE p \in 0..(Len(blocks) - 1) : LastEsetIn(blocks, p)
  IN  blocks \o <<[Blk("eotm") EXCEPT !.last = final + gap, !.noEset = noEset], Blk("fm")>>

(* For the search: what an earlier set left, and what the last one has.    *)
One == CHOOSE m \in Maps : Len(m) = 1
Earlier ==
  {<<>>, DataSet(AlignedMap("SMP2", <<E(7, <<8>>)>>), Eset(<<>>)),
   DataSet(<<>>, Eset(<<MapStream("TSMP", <<E(7, <<8>>)>>)>>))}
LastSets ==
  {DataSet(<<>>, Eset(<<>>)),
   DataSet(<<Blk("fm")>>, [Eset(<<MapStream("TSMP", One)>>) EXCEPT !.sum = FALSE]),
   DataSet(AlignedMap("MAP2", One), Eset(<<MapStream("TSMP", <<E(4, <<5>>)>>)>>))}
  \cup {DataSet(AlignedMap(id, es), Eset(<<>>)) : id \in {"TSMP", "SMP2"}, es \in Maps}
  \cup {DataSet(<<Blk("fm")>>, Eset(<<FddStream("TFDD", <<1, 2>>), MapStream(id, es)>>)) :
          id \in {"MAP2", "SMP2"}, es \in Maps}
Searched(gap) ==
  {Ended(<<Blk(first)>> \o e \o s, FALSE, gap) :
      first \in {"tape", "data"}, e \in Earlier, s \in LastSets}
MCSearched ==
  Searched(0) \cup Searched(1)
  \cup {Ended(<<Blk("tape")>> \o DataSet(<<>>, Eset(<<>>)), TRUE, 1),
        <<Blk("tape"), Blk("fm")>>, <<Blk("tape"), Blk("sset"), Blk("data")>>}

(* For the walk: two and three sets with what their ESETs carry.           *)
Catalogs ==
  {<<>>, <<Stream("other", Pads(2), <<>>)>>,
   <<FddStream("TFDD", <<1, 2, 3>>)>>,
   <<FddStream("FDD2", <<4>>), MapStream("TSMP", <<E(1, <<2, 3>>), E(4, <<>>)>>)>>,
   <<TreeStream(<<Root, 0, 0>>), MapStream("SMP2", <<E(4, <<5>>)>>)>>}
Walked(cs) ==
  <<Blk("tape")>> \o Joined([i \in DOMAIN cs |-> DataSet(<<>>, Eset(cs[i]))])
Trees == [1..3 -> {Root, 0, 1, 2}]
MCWalked ==
  {Walked(<<c, d, e>>) : c \in Catalogs, d \in Catalogs, e \in {<<>>, <<FddStream("TFDD", <<6>>)>>}}
  \cup {Walked(<<<<TreeStream(t)>>>>) : t \in Trees}

MCTapes == MCSearched \cup MCWalked
(* A set with a catalog, then one without. *)
MCThenNone == {Walked(<<c, <<>>>>) : c \in Catalogs}

(* These media are written as the theorems assume.                         *)
ASSUME MediaAssumption == WellEncoded /\ TreesClosed /\ MapsWhole
=============================================================================
