----------------------------- MODULE Recording -----------------------------
(***************************************************************************)
(* How the items of an archive are recorded, as far as a walk with         *)
(* mtf.Reader relies on it: which blocks stand where on which medium, where *)
(* their streams and data are, and how a file goes on on the next medium.  *)
(*                                                                         *)
(* A layout is the set of the stops of an archive: the places at which the *)
(* walk looks for a descriptor block, with what it has behind it there.    *)
(* Recorded says, stop by stop, that the cells of the media bear the       *)
(* layout out and that the items come in order; the archives of the model  *)
(* are checked to be recorded so, and the proofs hold for all that are.    *)
(***************************************************************************)
EXTENDS Reader

(* What a walk knows between two blocks: how many items it has yielded,    *)
(* how many cells of an unfinished file are still to come, and the volume, *)
(* the directory and the catalog that items are named in.                  *)
Contexts == [seen : Nat, left : Nat, volume : Nat, cwd : Nat, cat : Nat]
Blank    == [seen |-> 0, left |-> 0, volume |-> 0, cwd |-> 0, cat |-> 0]

(* A stream of a block: the place of its header, and of its data; whether  *)
(* it follows standard data; the catalog captured in front of it.          *)
Strands == [head : Nat, data : Nat, past : BOOLEAN, cat : Nat]

(* A stop: its medium and place, counted from 0, and the place of the next *)
(* one; the streams of the block; the context before and after it.         *)
Stops == [m : Nat, at : Nat, end : Nat, streams : SUBSET Strands,
          before : Contexts, after : Contexts]

Extent(a, m)    == Len(a.media[m])
CellAt(a, m, p) == a.media[m][p + 1]
(* The next FLB boundary. *)
Up(p) == p + ((-p) % W)

HeaderOf(a, b)    == AsBlock(CellAt(a, b.m, b.at))
StreamOf(a, b, s) == AsStream(CellAt(a, b.m, s.head))
BehindOf(a, b, s) == s.data + StreamOf(a, b, s).len
CatBehind(a, b, s) ==
  IF StreamOf(a, b, s).type = "TFDD" THEN StreamOf(a, b, s).id ELSE s.cat

(* In the middle of a file only its continuation counts, elsewhere padding *)
(* and repeated context yield nothing.                                     *)
Resuming(b) == b.before.left > 0
Yielding(a, b) ==
  /\ ~Resuming(b)
  /\ \/ HeaderOf(a, b).type \in {"TAPE", "ESET", "FILE"}
     \/ HeaderOf(a, b).type \in {"SSET", "VOLB", "DIRB"} /\ ~HeaderOf(a, b).cont
HasStreams(a, b) ==
  \/ HeaderOf(a, b).type = "FILE"
  \/ /\ Yielding(a, b) /\ HeaderOf(a, b).type \in {"VOLB", "DIRB", "ESET"}
     /\ HeaderOf(a, b).off # 0

(* The streams of a block that ends a data set may include a catalog. *)
HasCatalog(a, b) == \E s \in b.streams : StreamOf(a, b, s).type = "TFDD"
(* The item a block stands for. *)
ItemOf(a, b) ==
  LET h == HeaderOf(a, b)
  IN  [kind |-> h.type, id |-> h.id,
       vol |-> IF h.type \in {"DIRB", "FILE"} THEN b.after.volume ELSE 0,
       dir |-> IF h.type = "FILE" THEN b.after.cwd ELSE 0,
       cat |-> IF h.type = "ESET" /\ HasCatalog(a, b) THEN b.after.cat ELSE 0]
(* The content of the file a block opens or resumes. *)
ContentOf(a, b) == a.items[b.after.seen].content

-----------------------------------------------------------------------------
(* The context behind a block. *)
Leads(a, b) ==
  LET h == HeaderOf(a, b)
  IN  /\ IF Yielding(a, b)
         THEN /\ b.after.seen = b.before.seen + 1 /\ b.after.seen <= Len(a.items)
              /\ a.items[b.after.seen].item = ItemOf(a, b)
         ELSE b.after.seen = b.before.seen
      /\ h.type # "FILE" => b.after.left = b.before.left
      /\ b.after.volume = (IF h.type = "VOLB" THEN h.id ELSE b.before.volume)
      /\ b.after.cwd = CASE h.type = "VOLB" /\ Yielding(a, b) -> 0
                         [] h.type = "DIRB" -> h.id
                         [] OTHER -> b.before.cwd
      /\ ~(h.type = "ESET" /\ HasStreams(a, b)) => b.after.cat = b.before.cat

(* Stream t is the next one behind s: at the next multiple of StreamAlign. *)
NextTo(a, b, s, t) ==
  /\ t.head = BehindOf(a, b, s) + ((-BehindOf(a, b, s)) % StreamAlign)
  /\ t.data = t.head + 1
  /\ t.past = (s.past \/ StreamOf(a, b, s).type = "STAN")
  /\ t.cat = CatBehind(a, b, s)

(* The terminal stream fills up the FLB. *)
Closing(a, b, s) ==
  /\ Up(BehindOf(a, b, s)) = b.end /\ Up(s.data) = b.end
  /\ b.before.left = 0 /\ b.after.left = 0
  /\ HeaderOf(a, b).type = "ESET" => b.after.cat = s.cat
  /\ HeaderOf(a, b).type = "FILE" /\ ~s.past => ContentOf(a, b) = <<>>

(* Where a file's data begin and how far they reach on this medium: those  *)
(* of a continuation may begin at the next FLB.                            *)
BeginOf(a, b, s) ==
  IF Resuming(b) /\ StreamOf(a, b, s).cont THEN Up(s.data) ELSE s.data
ReachOf(a, b, s) == BeginOf(a, b, s) + (StreamOf(a, b, s).len - b.after.left)

(* The standard data of a file are its content, or what is left of it, up  *)
(* to where the medium ends with an EOTM in their place.                   *)
Holding(a, b, s) ==
  LET c   == ContentOf(a, b)
      len == StreamOf(a, b, s).len
  IN  /\ len = (IF Resuming(b) THEN b.before.left ELSE Len(c))
      /\ len <= Len(c) /\ b.after.left <= len
      /\ ReachOf(a, b, s) <= Extent(a, b.m)
      /\ \A p \in BeginOf(a, b, s)..(ReachOf(a, b, s) - 1) :
           /\ CellAt(a, b.m, p) = c[Len(c) - len + (p - BeginOf(a, b, s)) + 1]
           /\ ~IsEOTM(CellAt(a, b.m, p))
      /\ b.after.left > 0 => /\ b.end = ReachOf(a, b, s) /\ b.end < Extent(a, b.m)
                             /\ IsEOTM(CellAt(a, b.m, b.end))
      /\ Resuming(b) /\ b.after.left = 0 => b.end = Up(ReachOf(a, b, s))

(* Only a file has standard data.  The data of a split file, and those of  *)
(* a continuation, are the last of the block.                              *)
Content(a, b, s) ==
  /\ HeaderOf(a, b).type = "FILE" /\ ~s.past /\ StreamOf(a, b, s).type = "STAN"
Final(a, b, s) ==
  \/ StreamOf(a, b, s).type = "SPAD"
  \/ Content(a, b, s) /\ (Resuming(b) \/ b.after.left > 0)

First(a, b, s) ==
  /\ s.head = b.at + HeaderOf(a, b).off /\ s.data = s.head + 1
  /\ ~s.past /\ s.cat = b.before.cat

(* The streams of a block are its first one and those that follow. *)
Chained(a, b) ==
  /\ \E s \in b.streams : First(a, b, s)
  /\ \A t \in b.streams : First(a, b, t) \/ \E s \in b.streams : NextTo(a, b, s, t)
  /\ \A s \in b.streams :
       /\ s.head < Extent(a, b.m) /\ s.data <= Extent(a, b.m)
       /\ StreamOf(a, b, s).k = "str"
       /\ Final(a, b, s) \/ \E t \in b.streams : NextTo(a, b, s, t)
       /\ StreamOf(a, b, s).type = "SPAD" => Closing(a, b, s)
       /\ Content(a, b, s) => Holding(a, b, s)
       /\ HeaderOf(a, b).type \in {"VOLB", "DIRB"} => StreamOf(a, b, s).type # "STAN"

-----------------------------------------------------------------------------
(* The end of the last medium; an EOTM; any other block. *)
Ending(a, b) == b.before.seen = Len(a.items) /\ b.before.left = 0
Turning(a, l, b) ==
  /\ b.at + W = Extent(a, b.m)
  /\ \A p \in (b.at + 1)..(b.at + W - 1) : CellAt(a, b.m, p) = Pad
  /\ b.m < Len(a.media) =>
       \E c \in l : c.m = b.m + 1 /\ c.at = 0 /\ c.before = b.before
Leading(a, l, b) ==
  /\ Leads(a, b)
  /\ IF HasStreams(a, b) THEN Chained(a, b) ELSE b.end = b.at + W
  /\ \E c \in l : c.m = b.m /\ c.at = b.end /\ c.before = b.after

Standing(a, l, b) ==
  /\ b.m \in 1..Len(a.media) /\ b.at <= Extent(a, b.m) /\ b.at % W = 0
  /\ IF b.at = Extent(a, b.m) THEN Ending(a, b)
     ELSE /\ HeaderOf(a, b).k = "hdr"
          /\ IF HeaderOf(a, b).type = "EOTM" THEN Turning(a, l, b)
             ELSE Leading(a, l, b)

Recorded(a, l) ==
  /\ \E b \in l : b.m = 1 /\ b.at = 0 /\ b.before = Blank
  /\ \A b \in l : Standing(a, l, b)
  /\ Len(a.items) \in Nat
  /\ \A i \in 1..Len(a.items) : a.items[i].content \in Seq(Cells)
  /\ \A i, j \in 1..Len(a.items) :
       (/\ a.items[i].item.kind = "FILE" /\ a.items[j].item.kind = "FILE"
        /\ a.items[i].item.id = a.items[j].item.id)
         => a.items[i].content = a.items[j].content
-----------------------------------------------------------------------------
(* How such an archive is walked.  Files are passed over with a callback   *)
(* only where no read-ahead is left behind; the end of a medium inside a   *)
(* file is noticed without a callback only near the end of the file, and   *)
(* only by Read; no set without a catalog comes behind one that has one.   *)
Walked(a, l) ==
  /\ a.callback => a.phys = 1 \/ a.discards = {}
  /\ ~a.callback => \A b \in l : b.after.left > 0 =>
                       b.after.left <= 2 * W /\ a.discards = {}
  /\ \A b \in l : (/\ b.at < Extent(a, b.m) /\ HeaderOf(a, b).type = "ESET"
                  /\ ~HasCatalog(a, b)) => b.after.cat = 0

(* Every archive that is walked is recorded in order. *)
Orderly == \A a \in Walks : \E l \in SUBSET Stops : Recorded(a, l) /\ Walked(a, l)
=============================================================================
