# A verification project for go-mtf

`go-mtf` reads the Microsoft Tape Format (MTF): the on-tape format of NTBackup
and Backup Exec. `mtf.Reader` walks an archive block by block, over physical
tape blocks, filemarks, several media and transient read errors, and hands the
caller tape headers, data sets, volumes, directories and files with their
content. This directory holds TLA+ modules of that program, TLC configurations
that check them on small instances, and TLAPS proofs about them for every value
of the constants.

Source lines below are given as `file:line`, relative to the repository.

## 1. Inventory

| Part | State | Operations | Correct when |
|---|---|---|---|
| Block layer (`reader.go` fillBlock, read, readFull, skipStreamData, seekToByte, SeekToBlock, captureSsetAnchor; `spanning.go` probeEOTM, switchMedium) | buffered block and offset, `peekBuf`, `pendingErr`, `curBlockPBA`/`pbaInit`, `abspos`, SSET anchor, `physSize` | read n bytes, skip n bytes (three ways), jump, probe a header and hand it back, change the medium | the parser sees each medium's bytes in order and once; the counted block address is the address of the buffered block; seeks land where `abspos` says |
| Block iterator (`reader.go` Next, Read, scanStart, scanNext, finishEntry; `streams.go`) | the descriptor block, the current stream, `flbread`, `streamDid`, `dataRem`, `entryDone`, context of the current volume and directory | Next, Read, the walk over streams, alignment to the next Format Logical Block (FLB) | every item once and in order, each file its own bytes, the end only at the end |
| Media spanning (`spanning.go`) | `mediaSeq`, `hitEOTM`, `streamContinued`, the callback | EOTM between entries, EOTM inside a file's data, resynchronisation, continuation file | a split file is delivered as one; missing media are flagged |
| Catalog capture (`catalog.go` captureCatalog, Catalog) | `catFDDraw`, `catSMPraw`, the parsed `catalog` | capture at an ESET, Catalog and Family between two calls | an ESET carries its own set's catalog, whatever was parsed before |
| Set map search and catalog parsers (`catalog.go`, `besetmap/`) | a Reader of its own, the probe's address, the payload so far | ReadSetMap, ReadSetMapWithTape, two probes, record walks | finds the set map that is there, of the last set and no other |
| Sparse reconstruction (`streams.go` readSparse) | extents, `sparseIdx`, `sparsePos`, `sparseCursor` | Read of a sparse file | holes are zeros, extents land where they say, for portions of any size |
| Frame decoder and LZS (`compress.go`, `lzs.go`) | raw bytes left, decoded bytes pending, `eof`; bit position and ring of a block | Read of a compressed or encrypted stream | every decoded byte once and in order; an end that is the end |
| Census (`census.go`) | counters | a fold over Next | counts what Next yields, a sum |
| Backup Exec catalog (`becatalog/`) | - | XML decoding, BuildTree | each directory under its parent, once |
| Field decoders (`strings.go`, `datetime.go`, `header.go`, `ntparse.go`, `ntmode.go`) | none | conversions | table tests of the repository |
| Tape (`tape.go` and the platform files) | the device | ReadBlock, SeekBlock, TellBlock | external: modelled as seen by the Reader |
| bkfscan (`cmd/bkfscan/main.go`) | jobs and done channels, an atomic counter, a result slice | main, 64 workers, a progress goroutine | each file found is reported once |
| bkfcensus, mtfwalk | - | loops over Next | the caller in `Reader` |

How they interact. The iterator calls the block layer, the block layer calls
the Tape; the iterator calls the continuation callback, which supplies a Tape.
A Reader belongs to one goroutine: there is no concurrency inside it, and the
difficulty lies in long sequences of legal calls, in errors in the middle of
them, and in two or three representations of one position which have to agree
(`abspos`, `peekBuf` and `blockOff`; `dataRem` and `streamDid`; `flbread` and the
place on the medium; `curBlockPBA` and the place of the tape). The only
concurrent program is bkfscan.

What is hard to test here (the list with lines is `hazards` in `PROJECT.json`):
read-ahead that is still waiting when a skip moves the buffer offset; errors
that arrive together with data; errors on the way to a seek's target; address
arithmetic over filemarks; a length field at an exact block boundary; probes
that hit a boundary at the last byte of the data; a file that continues twice,
or continues on a medium that does not hold it; a callback that fails; a
call repeated after it failed half way; fields of the Reader that belong to one
entry and outlive it (the place in a sparse file, the decoder, a captured or
parsed catalog); frames read in two parts, either of which may fail; code
lengths of a bit stream; records that say how long they are; a search that
passes over what it cannot read; and, in bkfscan, the order in which workers
claim, store and leave.

## 2. Modules

```
ByteStream   <--refined by--  BlockLayer    <--  MCBlockLayer
                                  ^----------  BlockLayer_proofs
ArchiveWalk  <--refined by--  Reader        <--  Recording <-- MCReader
                                  ^----------  Reader_proofs <-- Recording_proofs
EntryContent <--refined by--  FileRead      <--  MCFileRead
                                  ^----------  FileRead_proofs <-- Content_proofs
               FileRead = ReadCall + SparseRead + FrameDecoder (+ Lzs)
CatalogRecords <--            CatalogAccess <--  MCCatalog
                                  ^----------  CatalogAccess_proofs
Recursion    <--              FileRead_proofs, CatalogAccess_proofs
                              BkfScan       <--  MCBkfScan
                                  ^----------  BkfScan_proofs
```

`BlockLayer` and `Reader` are two levels of one program. `BlockLayer` shows that
blocks, filemarks and read-ahead amount to a `ByteStream`; `Reader` is written on
a byte stream of that kind, keeping only the parts of the block layer that show
through: the read-ahead, the medium, and the end of the buffered block, on
which the fast path of a skip depends.

### ByteStream, BlockLayer

A byte is represented by its offset on the medium. `ByteStream` has a position;
it delivers the bytes from there (`Deliver`), passes over some (`Advance`), is put
somewhere by a caller (`Place`), or goes on to the next medium (`Load`).

`BlockLayer` has the Reader's own fields as variables; `head` and `markPassed` are the tape, `base`
and `out` are history. `read`, `readFull`, the discarding loop of `seekToByte` and the probe are
loops over three steps, which are actions: `DrainPeek`, `DrainBlock`, and a fill. The fill is either
a block (`FillBlock`, possibly with an error besides) or an error alone (`ReadFails`);
`PendingFails` is the error that came with a block now drained. The code's read returns the bytes it
has when an error comes and meets the error, or a new answer of the drive, at its next turn; in the
model the bytes are handed over by the steps before and the error ends the call at once. `op` names
the call the loop runs for and `need` what it still wants, so the guards and the effects of each are
those of its caller: only the probe leaves `abspos` alone, only a skip turns a failed seek into
reading (`Surface`). `Skip` has the three ways of `skipStreamData`; `SeekBlockFor` and `SeekPos` are
the two arithmetics of `seekToByte`, from the anchor and from the start of the medium. While a skip
is under way the tape may stand far from the place the skip has got to, so the position `ByteStream`
is given is then `Reached`: the target, less what is still to be passed. `Jump` is SeekToBlock.
`SwitchBetween` and `EndProbe` are the two places a medium is changed. Several filemarks in a row
and reads that return no bytes and no error are not modelled; a block length of 0 therefore does not
occur.

### ArchiveWalk, Reader

A medium is a sequence of cells: a descriptor header, a stream header, a unit
of stream data, or padding. A cell is what one read asks for, so headers are
never half read, and an FLB holds `W` cells. Stream headers are aligned to
`StreamAlign` cells, or follow the data at once: `HeaderAt` is the probe for the two
places, and `StreamHeader` consumes what the probe has read. What a cell means when it is read
as something else is modelled: padding read as a header is a header of unknown
type (its checksum is right), data read as a header is an error, a descriptor
block in the place of a stream header says that there are no streams. `MediaAssumption` is all that is
asked of a medium: whole FLBs, the first of which begins with a TAPE header.

`pc` is the point reached in the code, `mode` says whose call it is: `walk` (the
loop of Next), `next` (the current entry is being finished on behalf of Next)
and `read`. `Raise` is how an error leaves the call: Next turns it into io.EOF
after an ESET (endOrError), Read passes io.EOF on as its own.

| Action | Code |
|---|---|
| `CallNext`, `CallRead` | the heads of Next and Read |
| `ScanStart`, `Found...`, `Align`, `Yield` | scanStart, the switch of Next, scanNext, setBlock |
| `StreamStart`, `StreamRest`, `StreamHeader` | streamStart, streamNext |
| `StandardData`, `NoData`, `Capture...` | Next's search for the STAN stream, captureCatalog |
| `Probe`, `NoProbe`, `ReadChunk`, `SkipChunk`, `DataDone` | readStreamData, the discarding loop of finishEntry, probeEOTM |
| `Trail`, `TrailEnd`, `Finished` | finishEntry behind the data |
| `AtEOTM`, `Rejoin...`, `ContinuationFile` | advanceToContinuationStream, switchMedium, resyncContinuation, continuationFile |

`ArchiveWalk` is what a caller may rely on: the items in order, for each file a
growing prefix of its content, and the end after the last item. The blocks that a
continuation medium repeats are no items there. The code hands a repeated SSET to the caller
as another set; `Yield` has that step, and sets `again` in place of recording an item
(`Repeated`), so that what the code announces a second time is kept apart from what it
delivers (section 4).

### Recording

What "an archive that is in order" means, for the theorems about it: nothing of the
program, but of what its writer puts on the media, as far as a walk relies on it. A layout
is a set of stops, the places where the walk looks for a descriptor block, each
with its medium, its streams, the place of the next stop, and the context before and
behind it: how many items have been yielded, how many cells of an unfinished file are
still to come, and the volume, directory and catalog that items are named in.
`Recorded` says, stop by stop, that the cells of the media bear the layout out: streams follow
each other at the next aligned place (`NextTo`), the data of a file are its content, or the
rest of it, up to an EOTM (`Holding`), a terminal stream fills up its FLB (`Closing`), an EOTM
leads to the next medium with the same context (`Turning`), a block adds its item
(`Leads`). There is no recursion in it, so that it can be reasoned about. A writer that does not pad its
streams, as `reader.go:977-979` says Backup Exec does, is outside of it: the code does not
deliver such archives rightly (`x_unaligned_header`). SSET, volume and directory blocks that a
continuation medium repeats add no item, and an item has a catalog only if the streams of its
own ESET hold one (`HasCatalog`). `Walked` names the
ways of walking for which the promises are not made: files passed over with a callback from
physical blocks longer than a cell (`x_discard_step`); without a callback, files split so
far from their end that the code does not probe for it, or left unread although they are split;
and a set without a catalog behind one that has one (`x_stale_catalog`).
`MCReader` reads the layout of each of its archives off its media (`LayoutOf`) and TLC evaluates
`RecordedInOrder`, so every archive of `reader_walk` is one the theorems speak of.

### EntryContent, ReadCall, SparseRead, FrameDecoder, Lzs, FileRead

`Reader` treats the content of plain files over blocks and media; `FileRead` treats
the content of files of every kind, one after the other, where one entry's data
are a sequence that can be read in order or fail. What joins the kinds is the
Reader's fields: `sparse`, `inData`, `dec` and the place in a sparse file are set by
Next for each entry and used by Read, so a file that is given up half way meets
the next one's code. `ways` holds which of these fields are set.

`ReadCall` is the call both kinds share: `want` (free bytes of the caller's buffer),
how it ends (`res`, `readEnd`), and `Finish`, finishEntry. `SparseRead` is the loop of
readSparse, a round an action. `FrameDecoder` is decoder.Read and fill with
frameReader: bytes of the raw stream are cells, a frame's header is kept to what
is tested of it (kind, checksum, the two lengths). `Taken` is how io.ReadFull can end
over what the stream and the medium still have. Encryption is an invertible step
on a payload that may fail. `Lzs` has the bit reader, the codes, the ring and the
copying of matches, as recursive functions, with the widths of a byte and of the two
offsets as parameters.

| Action | Code |
|---|---|
| `NextFile`, `NextFails` | Next from one file to the next: finishEntry, the reset of the entry's fields, materializeStreams, finishSparse |
| `CallPlain` | Read, readStreamData of a plain file |
| `CallSparse`, `SparseHole`, `SparseData`, `SparseFull`, `SparseEnd` | readSparse |
| `CallDecoded`, `NoMoreFrames`, `FrameHeader`, `FramePayload` | decoder.Read, fill, frameReader.Read, parseFrameHeader |
| `ReadDone`, `Finish` | the head of Read, finishEntry |

`EntryContent` is what Read promises: portions of one content, in order, and io.EOF
with or behind the last byte. No extents, frames or codecs exist there.

### CatalogRecords, CatalogAccess

`CatalogRecords` has the walks over records: parseFDD, the set map with its volumes
nested in an entry (parseSetMapEntries) or behind it (besetmap.Parse), and
BuildTree. A payload is a sequence of cells; the fixed part of a record says how
long the record is, and may say so wrongly.

`CatalogAccess` has the two ways to a catalog. The medium is a sequence of physical
blocks, closed with an EOTM that has one of two addresses (`Ends`): that of the last ESET, as the
comment at `catalog.go:647-648` says, or of the block behind it, as the test of ReadSetMap writes
it. Every operation of the drive may fail. The search is ReadSetMapWithTape: `Prime`
(the first Next, for the block size), `LocateEOTM`, then `Backward`, a round of
probeSetMapBackward, with `Payload`, a round of readStreamPayload, or `Chain`, a round
of probeSetMapESETChain. The walk is `ReachSetEnd`, `CaptureStream` (a stream of
captureCatalog), `YieldSetEnd` (setBlock, which attaches the catalog), and `AskCatalog`
(Catalog or Family, called at any time between two calls of Next).

### BkfScan

main, the workers and the progress goroutine of bkfscan; a rendezvous on the
unbuffered channel is one action, so are the atomic increment and the store.
The result of scanning a file is the file's number. `Vanish` is the panic that
ends the program when a file is gone between the listing and the scan
(`main.go:83` drops the error of os.Stat).

## 3. Runs

Twelve configurations, one for each question: seven that pass, and five that show the findings of
section 4. Those that pass:

| Run | What varies | Bounds, and why they are enough |
|---|---|---|
| `block_seek` | reads of every length, headers, skips of every length by every way | Two media, of 3 blocks (the last one short) and 2 blocks; FLBs of 3 bytes that straddle blocks of 4; a filemark behind the first block, the place where MTF writers put one; skips from 2 bytes on seek. The second medium's last block is two bytes short, so that a seek past its end has no block to land in. The first tape answers TellBlock, the second does not, so both seek arithmetics run. Lengths to 6 reach from within a block into the block after the next |
| `block_span` | the same reads, probes at every boundary, SeekToBlock between any two calls, read errors at any fill | `MaxDrift` = 1 bounds the failed reads in a row, each of which raises the counted address by one; `SkipThreshold` = 99, no skips |
| `reader_walk` | the archives of `MCWalks`: one to three media, a file split at every boundary for every length of 2 to 9 cells, a medium without the file, media missing; physical blocks shorter and longer than an FLB; each file read in portions of 1 to 4 cells, in part, or not at all; the callback failing once, anywhere | FLBs of 4 cells, streams aligned to 2: the data of a file start in the last cell of the FLB of its header, so files of 2 to 9 cells cross one boundary or two and end before, at and behind one; metadata of 1 and 2 cells in front, so that alignment is needed and not |
| `reader_retry` | two transient errors anywhere, each followed by the failed call again | one medium: the interest is in the call and its repetition |
| `content` | 90 blocks of LZS, frames of every kind (stored, encrypted, both, empty, damaged in the header, cut off, longer than the stream), sparse files, plain files; each alone, and small ones of every kind in all pairs; portions of 1 to 4 bytes, changed between calls; files given up at any point; two read errors anywhere with the call repeated; header-only mode | A byte has 4 bits, a short offset 2 and a long one 3: the ring has 8 bytes, so matches of every length form, overlapping themselves, over the ring's end, and with the first and last offset of each code fit into files of up to 45 bytes. A frame header has 2 bytes, so it can be half read. Portions smaller and larger than extents, holes and frames |
| `catalog` | media with a set map from a block boundary (of one to several blocks) or on the last ESET or none, an EOTM with either address, an earlier set with another one, with and without a TAPE block, not closed; two failures of the drive; three sets with every combination of catalogs; all trees of three nodes, cycles among them | `Reach` = 4 blocks instead of 256: set maps lie within and beyond it. Fixed parts of 1 to 2 cells in blocks of 3, so records cross blocks and a failure cuts a payload within a record |
| `scan` | all interleavings | three workers and four files: one worker comes back for more while two others are claiming and storing; file 2 may vanish |

`block_seek` checks `PositionAccounted` (abspos, read-ahead and buffer offset add up to the tape's
place), `PBAExact` (counting the address loses nothing), `AnchorExact` (the anchor names a block
together with that block's position), `SkipLands` (a skip that reports success has moved exactly its
distance, also where the seek leads to no block and reading takes over) and the refinement
`ImplementsByteStream`. `block_span` checks the same refinement and `PeekExact` (what waits in the
read-ahead continues what was delivered) where probes, jumps, and errors mix. `reader_walk` checks
`InStep` (headers are only looked for at the start of an FLB), `BoundariesKnown` (`flbread` is the
distance from it), `CountersAgree` (`dataRem` and `streamDid`), `ReadEndsComplete` (io.EOF from Read
only at the end of the content, or flagged for want of a medium; of a Read behind an error of the
callback it only says that an io.EOF is flagged, not that there should be one), the refinement of
`ArchiveWalk`, which contains that what is delivered is the beginning of the content, and the
liveness property `WalkEnds`. `reader_retry` checks that what Read delivers is right even if calls
failed and were repeated: items may be lost by it, content may not be wrong.

`content` checks that what is handed over begins the content, for whatever file was open before
(`ContentExact`; of a compressed or encrypted file the decoded content, as docs/streams.md:78-98 and
the repository's README.md:18 promise, where comments in the source promise the stored bytes, see
section 4), that Header.Size is what Read delivers (`SizeDelivered`), that each byte of a sparse
file is that of its position (`SparseExact`), that the three fields of the place agree with what has
been handed over (`PlaceExact`), that the end of a sparse file is behind its last extent
(`SparseEndsComplete`), that what frames decode to is handed over or pending, once (`NothingLost`),
that between two calls the decoder stands at a frame's header (`AtFrame`), the refinement
`ImplementsContent`, and that an archive comes to its end (`FilesEnd`). `catalog` checks that a set
map found is the last set's (`FoundIsLast`), that none is reported only where no block-aligned one
is within reach and none is attached to an ESET that the EOTM names the block behind of
(`NoneOnlyIfAbsent`; for the other address see section 4), that it is parsed into what was recorded,
or a beginning of that where its payload was cut (`MapParsed`), that an ESET is given its own
catalog (`OwnCatalog`), that the directory tree is complete and free of cycles (`TreeComplete`), and
that a search ends (`SearchEnds`). `scan` checks that slots are owned (`SlotsOwned`), that files and
slots are accounted for at any moment (`Accounted`), that the report is complete, and that the scan
ends.

Where a run restricts the inputs it is because the code does otherwise than documented there;
section 4 has each. In `reader_walk` the streams are aligned (`x_unaligned_header`), no block names
the next one as its first event, split files are passed over only from physical blocks not longer
than a header (`x_discard_step`), reads do not fail, and without a callback only a file near its end
is walked; `reader_retry` has one medium, so it says nothing of errors while a medium is changed.
`block_seek` has no read errors (`x_skip_error`), no probes and no jumps, so it says nothing of an
anchor that a jump or a medium changed inside a file leaves behind, and `block_span` does not check
`PBAExact`, which jumps break. In `content` extents are in order (`ArchivesAssumption`), a recording
that is cut off is cut within a frame, blocks are encoded as the tests encode them and not by the
grammar in a comment, and an end behind a failed call is not taken for an end (`x_retry_end`). In
`catalog` `NoneOnlyIfAbsent` expects no attached set map to be found by the address of the ESET
itself, `FoundIsLast` exempts a search to which a failure hid a filemark, and `OwnCatalog` speaks of
sets that recorded a catalog (`x_stale_catalog`).

The configurations say CHECK_DEADLOCK FALSE because the programs do stop: a
caller at io.EOF or after an error it does not survive, a search that has its
result, main after its report.

Bounds by name: `MaxAsk` (bytes one call asks for), `MaxDrift` (failed reads in a
row), `MaxFaults` (errors in one behaviour), `MaxRead` (cells or bytes one Read asks
for), `Reach` (blocks a probe goes back; the code has 256).

### Fairness

`Reader`: WF of the whole next-state relation. The Reader runs in the thread of
its caller, so a call that has begun is continued, and the documented callers
loop over Next until io.EOF. Nothing is assumed of which call comes next;
`WalkEnds` holds for callers that read everything, in part or nothing.

`FileRead`: WF of the next-state relation, for the same reason. Weak fairness
evaluates ENABLED, and with it the decoding of a frame, in every state; the payload
of a frame is therefore left out of it and `[]<>(pc # "payload")` put in its place,
which says the same: at that point the payload is the only step, it is always
possible, and it leaves the point. A caller that goes on to the next file early is
allowed for; `FilesEnd` asks that the last one be finished. Errors are bounded by
`MaxFaults`: a drive that always fails lets no file end.

`CatalogAccess`: WF of the steps of the search. They are iterations of loops of one
call under way.

`BkfScan`: WF of main, of the rendezvous, and of each worker, which is what the
Go scheduler gives a goroutine that can run. Nothing is assumed of the progress
goroutine: `done` has a buffer, so main does not wait for it. The other
specifications have no fairness and no liveness properties.

## 4. Findings

Each has a run of its own that checks the one property the quoted line states,
and a counterexample by the code.

| Run | What the code does |
|---|---|
| `x_discard_step` | the fast path of a skip moves `blockOff` past bytes that wait in `peekBuf`; when a split file is passed over from physical blocks longer than an FLB, the stale read-ahead is read as the next header (docs/spanning.md:88-90 says that passing over is handled) |
| `x_retry_end` | decoder.Read sets `eof` on every error; the call repeated after a transient one returns io.EOF with content still to come |
| `x_skip_error` | when the seek of a skip succeeds and a read behind it fails, skipStreamData reads the whole distance from where the seek has led, returns no error and stands beyond the target (`reader.go:697`); the comment of seekToByte says that abspos ends equal to it |
| `x_unaligned_header` | streamNext reads up to the later of the two places a stream header may be at (`reader.go:992`); when the header is the earlier one, the up to three bytes behind it that came along are missing from the content. `reader.go:977-979` says that Backup Exec writes so; the test of this layout (`streams_test.go:166`) looks at the name and the size only |
| `x_stale_catalog` | nothing clears `catFDDraw` and `catSMPraw` between sets: a set without a catalog is given that of an earlier one, where mtf.go:331-332 says nil |

Further differences met while reading and modelling, without a run of their own: the runs above are
those in which wrong data, a failure or a wrong end reaches the caller of an archive in order.
In the block layer and the iterator:

- SeekToBlock sets `curBlockPBA` to the target and leaves `pbaInit` set, so the next
  fill counts once more and block addresses are one too high from then on
  (`reader.go:448`); a read repeated after a transient error counts twice as well;
- without a callback the data of a split file are only probed near their end, so
  the EOTM and what follows it is delivered as content;
- a block whose first event is the next block, as the format allows, swallows that
  block;
- an error of the continuation callback becomes io.EOF with TruncatedByEOTM, where
  docs/spanning.md:46 says that it propagates from Next or Read (`spanning.go:115`);
- the SSET repeated on a continuation medium is yielded as another KindSet, where
  docs/spanning.md:68-70 says that it is parsed silently and emits no entry (`reader.go:1073`);
- resyncContinuation takes the block size from the TAPE block of a medium that goes on with a
  split file and yields nothing (`spanning.go:175`), where the comment of Next (`reader.go:1030-1031`)
  and docs/spanning.md:102-104 say that each medium yields its KindMedia;
- scanStart turns any error before the first byte of a header into io.EOF (`reader.go:798`): a
  transient one ends the walk without an error and without a flag, where the comment of Next
  keeps io.EOF for an archive fully consumed (`reader.go:1032`);
- Continuation.Media is the descriptor of the last TAPE block Next has parsed
  (`spanning.go:110`); resynchronisation parses none, so a file over three media
  shows the first one's descriptor at the second change, where mtf.go:263-264 says
  "the descriptor of the exhausted medium, or nil";
- a stream header that is not aligned is only looked for if the stream it
  announces is no longer than 64 MiB (`reader.go:956`), so a longer one is not found;
- a filemark before the first block of a medium whose position is not told drives
  `curBlockPBA` to -1, after which it is unknown (`reader.go:466`); the theorem
  `PBACounted` needs the assumption that there is none;
- `physSize` is taken from the first block, which may be a shorter header
  block (`reader.go:459`);
- a split file passed over without a callback leaves TruncatedByEOTM unset
  (`reader.go:1288`);
- a recording cut off in a file's data ends Read with io.EOF (`reader.go:776`);
- `sawESET` is never cleared, so behind the first set any unexpected end is the
  end of the archive (`reader.go:1083`);
- a call repeated after an error may skip the step that failed (`reader.go:837`,
  `spanning.go:166`);
- a Next after a Read that was cut off for want of a medium may fail with an
  unexpected EOF instead of io.EOF; `WalkEnds` allows for it.

In the content of files:

- Read decodes and decrypts, as docs/streams.md:78-98, README.md:18 and the tests of the repository
  have it, where `reader.go:1329-1330` and mtf.go:144-151 say that the stored bytes are returned;
- Header.Size of a coded file is its displayable size, as docs/streams.md:100-101 has it, or 0 where
  none is recorded (`streams.go:87`), where mtf.go:133-135 says the stored byte count;
- readOffset adds 1 to a short offset and 127 to a long one and ends at an all-zero long code
  (`lzs.go:132`), as the tests encode; the grammar at `lzs.go:18-20` has offsets as they are and the end
  marker 110000000, which readOffset takes for a match. A block written by the grammar is decoded
  to other bytes;
- in header-only mode the SPAR streams are skipped (`streams.go:129`), so a sparse file has size 0,
  Census counts it as empty, and HasData is false for a volume with nothing but sparse content, where
  docs/streams.md:109-112 says that Size remains accurate;
- an error in an LZS block ends the block without an error, `errCorruptLZS` reaches no
  caller, and the length a frame declares is not compared with what was decoded;
- a frame that is both compressed and encrypted is always decompressed: the test
  for a block stored plain is made for unencrypted frames only (`compress.go:95`);
- a recording cut off between two frames ends Read with a clean io.EOF;
- readSparse takes extents as they come: one that begins before the end of an earlier one
  shifts the content behind it (`streams.go:215`), and Header.Size then differs
  from what is delivered;
- "STAN content is never delivered" in header-only mode (docs/streams.md:111-112,
  `reader.go:237-238`), but Read delivers it to a caller who asks;
- Census adds up Header.Size, for coded files the displayable size, where
  census.go:65-67 and docs/census.md:31 say that FileBytes is what is stored.

In the catalogs:

- a medium without an EOTM is an error (`catalog.go:708`), where catalog.go:658-661
  promises (nil, nil);
- probeSetMapESETChain starts one block before the address in the EOTM (`catalog.go:777`); if that
  is the ESET's own, as `catalog.go:647-648` says, the ESET is passed over and (nil, nil) returned
  although a set map is attached to it. The test stores the address plus one. The backward
  probe works for both;
- a filemark that cannot be read is passed over like any block, so the search can
  find the set map of an earlier set (`catalog.go:746-756`); `FoundIsLast` speaks of the other
  cases, by the history variable `hidden`;
- a read error on the block of the set map leads to (nil, nil), one in its payload to
  a short map without an error;
- the backward probe does not verify the checksum of the stream header;
- parseFDD goes on behind FEND (`catalog.go:325-326`);
- a set map of type SMP2 without a registered parser is parsed as if its volumes
  were nested;
- after an error in captureCatalog, Catalog may return the file catalog of one set
  with the set map of another;
- Catalog.RawFDD shares its bytes with the Reader;
- a stale catalog (`x_stale_catalog`) counts again in Census.CatalogBytes;
- BuildTree panics on a parent number that is out of range (`becatalog/tree.go`).

## 5. Proofs

Assumptions on constants are those named `...Assumption` in the modules; TLC
evaluates them in the runs. Where a theorem needs more, its hypothesis is a definition of
its own, named below with what it excludes and why.

`BlockLayer_proofs`, for every number and layout of media, every way of cutting
them into blocks, every probe size and threshold:

- `TypeCorrect`: `Spec => []TypeOK`, for all callers and tapes. Not inductive as
  it stands: `off` stays inside the buffered block only because a drain takes the
  lesser of two lengths and because the fast path tests the block's length, and
  the probe's `hdr` has to be a sequence whatever `op` is.
- `PBACounted`: `Spec /\ []Unfailed => []PBAExact` under `CountableTape`: no jumps and no filemark
  before the first block. `Unfailed` says that no read has failed; the property is one of states, so the
  theorem says that the count is exact in every behaviour up to its first failed read.
  `PBAExact` speaks of the moments
  between calls and is not inductive; `PBAInv` holds in every state: the buffered
  block is the one in front of the tape's head, its address is the counted one
  unless the end of the medium has been met (which counts once more and reads
  nothing), and once it has been met nothing but the rest of a failed seek may
  run, with all buffers drained. Jumps, such filemarks and failed reads each
  break the property: see the differences above.
- `ReadingAccounted`, `ReadingExact`, `ReadingImplements`: under `ReadsOnly`, that is
  without skips, the position is accounted for, the read-ahead is exact, and the
  block layer implements `ByteStream`, with probes, jumps, media changes and
  transient errors anywhere. The invariant `ReadInv` says that the read-ahead,
  the bytes the probe holds, and the rest of the block are one run of offsets
  from the Reader's position on; one lemma for each action shows that the run is
  continued, and the refinement follows because every step takes from its front.

`BlockLayer_proofs` further, where skips seek: `SeekingAccounted` (`PositionAccounted`),
`AnchorStaysExact` (`AnchorExact`), `SkipsLand` (`SkipLands`) and `SeekingImplements`,
the refinement, each up to the first failed read (`Unfailed`), behind which a skip need not land
(`x_skip_error`). `SeekingTape` adds two hypotheses to `CountableTape`. `EqualBlocks`: the
blocks of a medium have one size, the last one maybe less; seekToByte divides by
`physSize` and is wrong on any other medium. No probes, that is, no continuation callback: a
probe leaves read-ahead, past which the fast path of a skip moves (`x_discard_step`), and a
medium changed in the middle of a file keeps the anchor of the one before. The invariant
`SeekInv` joins the counting of addresses (`TapeInv`) with three parts: the position is exact, or
it is beyond the end of the medium, where a seek can lead before the reading that follows
fails (`PositionInv`); what a skip has still to pass leads from where the tape is to its
target, or from where it was if the seek was given up (`SkipInv`); and the anchor is a block's
number times the block size (`AnchorInv`). `SeekFor` is the arithmetic: the block that both
seek formulas choose is the one the target lies in.

`Reader_proofs`, for every archive in whole FLBs, whatever its headers, streams and data are and
say, for any number of media and faults, and for callers that mix Next and Read:

- `TypeCorrect`: `Spec => []TypeOK`, with damage, cut-off recordings and all errors.
- `WalkInStep` (`InStep`), `BoundariesStayKnown` (`BoundariesKnown`), `CountersStayAgreed`
  (`CountersAgree`), if "eio" is not among the faults. `InStep` speaks of one place in the code. The
  invariant `Place` says for each place what the position and `flbread` are: equal up to whole FLBs
  (`Counted`), and for `align` what the place it returns to demands (`Placed`); `Behalf`, `CurKnown`
  and `OpenRead` say on whose behalf a call can be at a place, so that a Read does not get into the
  walk, and `Fresh` that the first read of a medium finds its TAPE block. `WrapIs` is the lemma on
  wrapFlbread they share. With "eio" the three are false, and rightly so: an error behind the first
  cells of a header makes the caller's next call go on from there (section 4: a call repeated after
  an error may skip the step that failed), and `reader_retry` checks what is left of it, that no
  wrong content is delivered. `CountersStayAgreed` proves `readEnd \/ CountersAgree`: when a file
  was cut off because its EOTM got lost, Next may pass over the rest of a stream that is another
  one's by now; Read has returned io.EOF by then, so nobody is given any of it.

`Recording_proofs`, for every archive that is recorded in order, on any number of media, with any
blocks, streams at aligned places, data, splits and media without the file, for physical blocks of
any length, callers that mix Next and Read in portions of any size, media missing and a callback
that fails (hypotheses `Orderly`: every archive has a layout with `Recorded` and `Walked`; and
`NoEio`). What these exclude is what the code gets wrong: headers without padding, stale catalogs,
the passing over of some split files (section 2, `Recording`) and transient errors:

- `DeliveredExactly` (`ContentExact`): what Read has delivered of a file is its own content from
  the first cell on; `EndsWhenComplete` (`ReadEndsComplete`): it returns io.EOF only
  when that is all of it, or TruncatedByEOTM is set, for want of a medium or behind an error of the
  callback (`Stranded`).
- `FailsOnlyCutOff`: no call fails unless TruncatedByEOTM is set (`NoFailure \/ hitEOTM`).
- `WalkImplements` (`ImplementsWalk`): the walk implements `ArchiveWalk`, that is, yields every item
  once and in order, delivers its content, and ends behind the last one. A repeated SSET is no
  item: that it is announced once more (`again`) is a stutter here.

None of the four is inductive. `Course` says for each place in the code where in the layout
the walk is: before which stop (`Seeking`), in which stream of which block (`InStrand`), how far
in the data of which file (`InData`), or at the EOTM of the medium (`Turned`, `Lost`), and that the
context in the Reader's fields is that of the stop. `Probed` says that nothing but the
cell just probed waits in the read-ahead, which is what makes `Walked` necessary. `CutOff` takes the
place of both once a file was cut off for want of a medium: from there the walk meets nothing but
the padding behind the EOTM (`Void`), so it can lose what follows but not make something up. On top
of them, `Exact` counts what has been delivered of the open file against `dataRem` (`SoFar`), and
`InOrder` says that the items yielded are the first ones of the archive. `Place`, the
invariant of `Reader_proofs`, gives the rest: that the walk is in step with FLBs. The lemmas follow
the code: one for each action, which shows that the next stop, stream or cell is where the layout
has it (`ScanStep`, `AlignStep`, `StreamStartStep` and so on); `CutIsProbed`, that a medium that ends
inside a file is noticed there and no cell of its EOTM is taken for data; `CutStep`, that
a walk that was cut off stays so; then, for each group of actions, what it does to items and content.
TLC checked the same invariant on `MCReader` before it was proved. One demand of `Recorded` is on the
content itself: no cell of it is an EOTM header (`Holding`), which probeEOTM could not tell from
the end of the medium.

`BkfScan_proofs`, for any number of files and any finite set of workers: `TypesHold`,
`SlotsAlwaysOwned`, `PoolAccounted` and `ReportAlwaysComplete`. None of these is
inductive alone: that a slot about to be stored into is empty needs that
claims lie below the counter, that the slice is long enough needs that the
counter and the workers about to count add up to the files handed over
(`ri + |Counting| = sent <= N`), and the report needs that no worker is left with a
file. `IInv` is TypeOK, SlotsOwned and Accounted together; the report's
completeness follows from it because every file is in a slot when nobody holds
one, and no slot is empty because `ri = N`.

`FileRead_proofs`, for every archive whose extents are in order, every portion size,
any number of faults, and whatever files stand before and behind the sparse one:
`SparseExactHolds`, `PlaceExactHolds` and `SparseEndsCompleteHolds`. `SparseExact` alone says
nothing of the next byte; that follows from `PlaceExact`, which names the byte the
place stands at. This one in turn is not inductive: from the fields it must be known that
the cursor is not beyond byte `sparsePos` of its extent (`CursorBound`), that no other
kind of file runs the loop (`CallOK`), and, for the end, that a sparse file is
finished only behind its last extent unless a call on it failed (`DoneComplete`).
`InExtent` and `InHoleZero` say what `ByteAt` is at the place, and are where the
order of the extents is used (`ArchivesAssumption`); without it `SparseExact` is wrong.
`Grows` appends a portion; there is one lemma for each action.

The same module has two theorems about the LZS decoder, for every width of its codes. `WindowKept`:
whatever the bits of a block, its decoding is a run of tokens, after each of which the decoder is in
`Decoders`: the ring holds the end of the output, its last byte in front of the write position and
the others behind one another from there (`Window`), whatever offset and length a token names and
however often the ring has gone round. `MatchRepeats`: from any such decoder a match puts out
exactly as many bytes as it is long, each of them the one that stands its offset back in the output
(`Repeats`), those of the match itself included, or the output's whole length back where an offset
reaches further. The first is an induction over tokens, the second one over the bytes of a match
(`RepeatOne`); `PutIs` is the step of both, `SourceIs` the arithmetic of the ring. That the output
is a sequence of bytes (`DecodeIs`), which `Content_proofs` uses, follows. Which offset and length
the bits of a token name is what the run `content` checks.

`Recursion` is what these inductions rest on. The theorems of the library on induction and
recursion take operators as parameters, which the installed provers do not instantiate; here sets
and functions take their place. `NaturalInduction` and `MeasureInduction` are induction over the
set of arguments for which a claim holds; `Iteration`, `RecursionExists` and `CountingExists`
show that there is a function with the equation of a recursive definition, so that the CHOOSE
by which TLA+ defines it has that equation too.

`Content_proofs`, for plain, sparse and coded files in any order, any portions, errors anywhere
with the call repeated, and files given up at any point:

- `TypesHold` (`TypeOK`) and `NothingIsLost` (`NothingLost`) for every raw stream, well formed or
  not. They rest on the lemma `DecodeIs`.
- `ContentDelivered` (`ContentExact`), `FramesKept` (`AtFrame`), `SizeIsDelivered`
  (`SizeDelivered`) and `DeliveryImplements` (`ImplementsContent`) for archives that are
  `WellRecorded`: a sparse file's content is what its extents and holes stand for, and a
  coded file has a `Framing`: frames that follow one another as their headers
  say and decode, one by one, to the next bytes of the content. So the theorems separate
  two things that the run checks together: the delivery, proved, and the decoding of one
  block, which only TLC checks. Frames may be damaged, stored plain, encrypted without the key, or
  cut off; what the hypothesis asks of a cut is that where it falls on the first byte of a header or
  of a payload the content ends there too, because Read takes such an end for a clean one
  (section 4). Every archive of `MCFileRead` is well recorded.
  The invariant `ContentInv` joins that of `FileRead_proofs` with what each kind of file
  adds: for plain ones, delivered and remaining bytes are all of them; for coded ones, what is
  decoded is the content in front of the frame the decoder stands at, or whose header it has read
  (`FramePlace`), and nothing is pending while a frame is read (`Pending`); for sparse ones that the
  cursor is within the file (`CursorWithin`). `EndsFull` says that the end is reached with all of the
  content unless a call failed, and is where the hypothesis on cuts is used.

`CatalogAccess_proofs`, for every medium closed in order (`TapesAssumption`: an EOTM, if
there is one, names the last ESET or the block behind it), every reach and any number of failures:

- `TypeCorrect`, and `FoundIsLastHolds` (`FoundIsLast`). The invariant says that no filemark lies
  between the probe and the last ESET, unless a failure hid one (`Probed`); the two probes
  start at different distances, so it has a part for each. When a set map is found, that
  carries over to its place (`Placed`). The step back of a probe is the lemma `FurtherMark`.
- `NoneMeansAbsent` (`NoneOnlyIfAbsent`): a search without failures that finds no set map has
  looked at every block within reach from which one could start, for both addresses, and at the
  streams of the last ESET if the EOTM names the block behind it; with the ESET's own address it
  has not (section 4). `RuledOut` says what each probe has
  excluded so far, and what the first one excludes for the second.
- `OwnCatalogHolds` (`OwnCatalog`): every ESET with a catalog of its own is given that, whatever was
  parsed and cached before, by whichever of its callers. Hypothesis `WellEncoded`: the streams of
  an ESET are parsed, by themselves, into what was recorded. `Capturing` says which streams the raw
  fields hold half way through an ESET, and that the cache is dropped with the first of them.
- `ParsedShortened`, for every payload, whatever lengths and counts its records claim: cut off
  anywhere, a set map is parsed into the first of its entries, the last of them perhaps with
  fewer volumes. `VolumesIs`, `NestedEntriesIs` and `SeparateEntriesIs` are the equations of the
  parsers; `VolumesBegin` is the point of the argument: the parse of less ends in front of a
  record that is cut (`Cut`), and nothing at such a place is taken for an entry, because the
  fixed part of a volume is no longer than that of an entry (`RecordsAssumption`;
  36 and 91 bytes, `catalog.go:297` and `catalog.go:453`).
- `MapsAreParsed` (`MapParsed`): what the search returns is parsed into what was recorded, or, where a
  failure cut it, into the first of it. Hypotheses `WellEncoded` and `MapsWhole`: a set map
  from a block boundary on is on the medium in one piece, and parses into what was recorded. The
  invariant `MapRead` says that what is read so far are the cells of the blocks since the first
  (`Held`). `WholeMap` and `PartOfMap` are about enough of them and too few: short of a failure
  the reading does not end before it has them all.
- `TreeIsComplete`, for every list of nodes: BuildTree returns the nodes whose parents lead to a
  root, each under its parents, and no node of a cycle. `Lineages` are the ways from a root
  down; one without a node twice is no longer than the list (`LineageBound`), so the levels
  that are looked at are enough. `TreeStaysComplete` (`TreeComplete`) is this for the catalogs that a
  walk gives out. Hypothesis `TreesClosed`: a recorded tree names no parent outside
  of it; on one that does BuildTree panics (section 4).

`WellEncoded`, `MapsWhole` and `TreesClosed` say what the writer of a medium put on it.
`MCCatalog` assumes them of its media (`MediaAssumption`), so TLC evaluates them.

Only model-checked: the liveness properties `WalkEnds`, `FilesEnd`, `SearchEnds` and those of
`scan` (out of the prover's reach); `ContentExact` and `ReadEndsComplete` of `Reader` where reads
fail and calls are repeated (`reader_retry`): after an error in the middle of a header the walk is at
no place of the layout, and what it can take for a header there depends on every cell of the medium;
that the parsers and the LZS decoder return what an encoder put in, because the encoders are part
of `MCCatalog` and `MCFileRead` and not of the program.

## 6. Not modelled

The bytes of headers and their decoding: the field decoders (strings.go, datetime.go, header.go,
ntparse.go, ntmode.go) are stateless conversions of single fields and have table tests; checksums
are right or wrong. Widths of integers other than the codes of LZS. Ciphers. SkipUnnamedStreams and
SetSkipFunc, and the seeking skip policies inside `Reader` (they are in `BlockLayer`). Of catalog
records all fields but lengths, counts and types; the XML of a Backup Exec catalog, decoded by the
standard library. The sums of Census over what a header-only walk yields (`FileRead` has that mode).
Damaged archives in `reader_walk`. Device drivers (tape.go is modelled as the Reader sees it). The
printing of the commands; mtfwalk and bkfcensus are loops over Next, the caller in `Reader` and in
`FileRead`.

## 7. Plan

Order of work, the most important behaviour first. Done: 1 to 12 and 14.

1. `ByteStream`, `BlockLayer`: everything above reads through it.
2. `ArchiveWalk`, `Reader` with spanning and catalog capture.
3. `BkfScan`: the concurrent program.
4. Proofs of `BlockLayer` without skips and of `BkfScan`.
5. `SparseRead` on an abstract sparse file, and its proofs.
6. `FrameDecoder` with `Lzs`; `FileRead`, which joins them with plain files,
   against `EntryContent`.
7. `CatalogRecords`, `CatalogAccess`: record walks, the search for the set map, capture
   and cache; BuildTree.
8. Proofs of the search.
9. Theorems about `Reader`: types, `InStep`, `BoundariesKnown`, `CountersAgree`.
10. The seek regime of `BlockLayer` under equal blocks, and its refinement.
11. Proofs of the search's "none" and of the catalog cache; of files of every kind
    (`FileRead`), the decoding of a frame taken as recorded.
12. Proofs about the recursive functions (`Recursion`): the LZS decoder, the parsers of a set
    map and what a search finds, the tree of a catalog.
13. Damaged archives in `Reader`, for the flag `sawESET`, and the descriptor of the
    medium for Continuation.Media.
14. What archives are recorded in order (`Recording`), and for all of them the content, the
    order and the end of a walk, with the refinement of `ArchiveWalk`.

The runs are kept to one for each question: a module added later shares a run
where its question is already asked.
