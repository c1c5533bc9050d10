# Verification of ac3go

TLA+ models of ac3go, an AC-3 and E-AC-3 decoder in Go: specifications
translated from the source, TLC configurations that check them on small
instances, and proofs, checked by TLAPS, of what they promise for every
instance. References such as `framereader.go:189` are to `src/ac3/` unless a
directory is named.

Modelled are the way of a stream through the program - the demuxer, the reader
that cuts syncframes out of the bytes, the decoder over the access units it is
handed, the WebAssembly player that feeds it - and inside a frame the bit
reader, the header, what the audio blocks inherit from one another, and the
stages that turn their fields into a spectrum. The arithmetic on samples is not.

## The system

ac3go has no threads, files or clocks of its own. A program hands bytes in and
gets frames, and hands frames in and gets samples; a value of `FrameReader` or
`Decoder` is used by one goroutine at a time. What is hard is state that outlives
a call, and the order of calls and of the data in them.

| component | source | state it keeps | operations |
| --- | --- | --- | --- |
| frame reader | `framereader.go` | a buffer with two indices, end and error of the source, the header of the last frame, `skipped`, `frames` | `Next`, `NextAccessUnit`, `SetCRCMode`, `Header`, `Skipped`, `Frames` |
| header parsing | `header.go`, `header_eac3.go`, `duration.go` | none; fills a `Header` the caller reuses | `ParseSyncInfo`, `ParseHeader`, derived values |
| check words | `crc.go` | none | `CheckCRC`, `CheckCRC1` |
| bit reader | `bitstream/reader.go` | position, latched error | `Uint32`, `Bool`, `Skip`, `Align`, `SeekBit`, `Reset` |
| audio block reader | `audblk.go`, `audblk_eac3.go`, `audfrm_eac3.go`, `spx.go` | every field a block may leave out: coupling, extension, exponents, bit allocation parameters | one block at a time, inside `DecodeFrame` |
| pure algorithms | `exponents.go`, `bitalloc.go`, `mantissa.go`, `aht.go`, `decouple.go`, `remat.go`, `dynrng.go`, `spx.go` | scratch, and within a block the mantissa groups | from fields to coefficients |
| filter bank | `imdct.go`, `window.go` | `delay`: half a block per channel, across frames | `synthesize` |
| decoder lifecycle | `audblk.go`, `stats.go`, `errors.go` | all of the above, counters, flags of the last frame | `DecodeFrame`, `Reset`, `Samples`, `Block`, `Stats`, ... |
| 7.1 access units | `eac3_71.go` | a second decoder for the dependent substream | `decodeDependent71`, `spanSubstreams` |
| output options | `downmix.go`, `dialnorm.go` | what was asked for, coefficients and the key they are for | `SetDownmix`, `SetTargetLevel`, `SetDither` |
| CMAF demuxer | `cmaf/` | the audio track found | `Init`, `Segment`, `Elementary` |
| PCM planes | `pcm/` | a caller's planes | `Resize`, `Interleave` |
| `ac3info` | `cmd/ac3info` | counters | lists a stream |
| WebAssembly module | `cmd/ac3go-wasm` | none between calls | `probe`, `decode` |
| web wrappers | `web/` | none of the codec | |

How they interact. `FrameReader` reads an `io.Reader` the caller gave it, calls
`ParseHeader` and the check words on what it has in view, and returns slices of
its own buffer, valid until the next call. Callers pass them to
`Decoder.DecodeFrame` (or, like the WebAssembly module, pass the rest of the
stream and advance by `AccessUnitSize`). `DecodeFrame` parses the header into a
`Header` it keeps, resets what blocks inherit, and for each block reads the side
information, allocates bits, reads mantissas, rebuilds the coupled and extended
parts and runs the filter bank; after the blocks it mixes down if asked to, and
decodes a dependent substream behind the frame with a second `Decoder` when the
two make 7.1. A CMAF file goes through the demuxer first.

The behaviours that are hard to test, and what makes each component correct:

- *Frame reader.* A source may cut the stream anywhere, return nothing, or fail.
  The buffer is moved under a unit that is being gathered. A candidate may be
  damaged, be a coincidence, or not have arrived. It is correct when the frames
  it gives out are those of the stream whatever the cuts, when it gives out each
  once, when its byte accounts stay exact, and when each call returns.
- *Audio block reader.* A field a block leaves out is taken from whatever wrote
  it last: another block, another frame, a frame of the other syntax. Coupling,
  extension and the hybrid transform come and go block by block and decide which
  other fields are there at all. It is correct when nothing is used that this
  frame, or this spell of coupling or extension, did not provide, except where
  the format has it so.
- *Header parsing.* A header is filled in place, by two parsers; a field the last
  frame stated must not be taken for this one's.
- *Bit reader.* No bound may wrap and an error must stick.
- *Pure algorithms.* Tables and tiling must cover ranges exactly; indices must
  stay inside the arrays for all field values.
- *Decoder lifecycle, 7.1, options.* The carry over must be that of the frame
  before on the same channel; caches must be refilled when anything they depend
  on moves; every failure must count once.
- *Demuxer.* Every range must lie in the buffer, whatever the file states, and
  what a packager put in for the track must come out, and nothing else.
- *WebAssembly player.* It advances by what the decoder says it spanned and copies
  planes by the first unit's channel count; it must meet every unit once and end.

`PROJECT.json` lists the hazards, at their lines, with the properties that would
catch each one or the reason why none does yet.

## Modules

| module | what it is |
| --- | --- |
| `Syncframes` | what the bytes at each offset of a stream are to `ParseSyncInfo`, `ParseHeader` and the check words; what `tryFrameAt` answers |
| `Framing` | the abstract reader: a walk of the stream that takes every sound frame it meets and passes over nothing else that could be one |
| `FrameReader` | the reader of `framereader.go`, with its buffer |
| `FrameReaderProofs` | its theorems |
| `MCFrameReader` | the streams it is checked on |
| `AudioBlocks` | what the blocks of a frame, and frames, take from each other, for both syntaxes |
| `AudioBlocksProofs` | its theorems |
| `MCAudioBlocks` | two channels to check it on |
| `Decoder` | a decoder from one access unit to the next: carry over, planes, span, 7.1 merge, cached gains |
| `MCDecoder` | the access units it is checked on |
| `Player` | the decode loop of `cmd/ac3go-wasm` over `Decoder`, whose actions it takes |
| `DecoderProofs` | theorems about both |
| `MCPlayer` | the streams it is checked on, and any other caller of a decoder |
| `Demuxer` | the walk of `cmaf/` over boxes, the choice of the track, the ranges of its samples |
| `DemuxerProofs` | its theorems |
| `MCDemuxer` | what it is checked on: a small packager, and what it makes cut short and damaged |
| `BitReader` | `bitstream/reader.go` in an int of any width |
| `Headers` | which frame the optional fields of a header filled in place are of |
| `ParsingProofs` | theorems about both |
| `Allocation` | exponent groups, and the walk of the bit allocation over bands and bins |
| `Mantissas` | grouped mantissas over the channels of a block |
| `Hybrid` | the gains of a channel under the hybrid transform, read in one walk and used in another |
| `SpectrumProofs` | theorems about these three |
| `Extension` | the ranges and bands of the spectral extension and its copy |
| `ExtensionProofs` | its theorems |
| `Recursion` | lemmas the proofs share: induction over numbers, functions by recursion, counts |
| `MCCoding` | the demuxer, the bit reader, the header and the stages of a block in one run, with the code's own band tables |

### FrameReader

A stream is a sequence of cells. The cell at offset `p` is what the code sees of
the bytes beginning there: no syncword, the first byte of one by chance, the
syncword byte-swapped, an enhanced syncinfo stating a size below its own, or a
syncinfo with a size, a syntax, whether it advances time, whether its bit stream
information is whole, and which check words verify over that size. All the
reader decides, it decides from this and from how many bytes are in view.

The buffer holds stream offsets instead of bytes. `buf`, `start`, `end`,
`capacity`, `eof`, `readErr`, `empty`, `hdr`, `cand`, `frame`, `skipped` and
`frames` are the fields of the struct; `size` and `n` are locals of
`NextAccessUnit`; `pc` says where in a call the reader is; `taken` and `handed`
are history. A read may return any number of bytes up to the room there is,
none included, with no error, a failure, or `io.EOF` once all is read; bytes may
come together with either error. Growth of the buffer, which `append` decides,
is any of a set of amounts.

| action | code |
| --- | --- |
| `CallNext`, `CallNextAccessUnit`, `SetCRCMode` | the caller |
| `Fill`, `EndOfStream`, `DropTail` | `fill`, `end0`, and lines 138-147 of `Next` |
| `TakeFrame`, `ReportByteOrder`, `AwaitRest`, `Resync` | the loop of `Next`, in its order: accepted, byte order at the head, short, anything else |
| `DropOrphan`, `OpenUnit` | lines 213-230, what `Next` found opens no unit, or does |
| `GatherMore`, `GatherFrame`, `CloseUnit` | the loop of lines 230-262 |

`compact` followed by `readMore` is one operator, `CompactAndRead`, because no
code looks at the buffer in between.

### AudioBlocks

What a field's value is makes no difference to whether it is this frame's, so a
field is modelled by where its value came from. `stated` holds the parameters
this frame stated, took a default for or cleared; `cplco` and `spxco` the gains,
by channel; `exp` and `preMantissa` the part of the spectrum, by channel, whose
exponents and hybrid mantissas this frame read. A block that uses anything not
in there adds it to `inherited`. What decides which fields are present is
modelled in full: who couples and extends and over what range, which channels
are under the hybrid transform, and the `first...` flags of the enhanced syntax.
`spell` and `steady` are history.

The spectrum is cut in *sections*: section 0 is everything below the coupling
grid and section *n* the *n*-th sub-band of twelve bins. A channel that reaches
section *n* codes the sections 0 to *n*.

One block is six steps in the order of `decodeBlock` and `decodeEAC3Block`:
`ReadExtension`, `ReadCouplingStrategy`, `ReadCouplingCoords`, `ReadExponents`,
`ReadBitAllocInfo`, `ReadMantissas`; the last also stands for `computeBitAlloc`,
`decouple`, `rematrix` and `applySpx`, the uses. `BeginFrame` is `decodeFrame` up
to the first block, with `reset` and, for an enhanced frame,
`parseEAC3AudioFrame`. `Abandon` is an error at any of these points; a value the
code refuses is not offered to a step and so ends there.

Choices in the model to know about:

- A bit the stream may hold either way is a nondeterministic choice, so the
  model reads every frame the syntax allows, not those some encoder writes.
- The exponent and coupling strategies of an enhanced frame are read before its
  blocks. The model chooses them in the block that uses them, and asks of a
  channel under the hybrid transform there what `parseEAC3AHT` knew: no new
  exponents, and for the coupling channel no new strategy, after block 0.
- The low frequency channel is left out; it neither couples nor extends. Block
  switching, dither flags, dynamic range (which a block 0 always sets) and skip
  fields are left out too.
- A frame whose SNR offsets are all zero skips the model and uses less than what
  the specification counts.
- Coupling and extension ranges, which `reset` leaves, are cleared at
  `BeginFrame` to save states. No block uses one its frame did not state, since
  both are stated with the strategy that turns their technique on.

### Decoder

`DecodeFrame` is one action per way it ends; there is no point inside it where
anything else runs. A buffer is a sequence of frames, so `auSize` and every
length count frames, and only the last may be cut short. A frame carries what
the call decides by: its syncinfo, how much of its header is there, its layout
and levels, and how many of its blocks decode.

| action | code |
| --- | --- |
| `RefuseHeader` | `decodeFrame` up to the length check |
| `RefuseUnsupported` | the substream and reduced rate checks |
| `FailBlock` | a block that fails after others were synthesized, and the check of the frame's end |
| `DecodeAlone`, `StepOver`, `DecodeDependent71`, `FailDependent` | the core decodes, and `decodeDependent71` finds nothing, finds nothing to merge, merges (or finds the wrong number of channels), or fails; then `spanSubstreams` |
| `SetDownmix`, `SetTargetLevel`, `Reset` | the methods of that name |

Samples are abstracted to which call wrote them. A filter bank (`core`, and `dep`
for `d.dep`) holds for each channel whether its tail is the last call's, an older
one's or silence, and how many blocks of its plane the last call wrote. The
cached gains are the header fields they were computed from, the keys the tuples
they are packed from. `buffer`, `used`, `last` and `before` are history. `Samples`
is what the getter of that name would hand back.

The cached mix is compared with the unit's layout and levels. Its key lacks the
syntax, which decides what a level code means (`header.go:515`), so an AC-3 frame
and an enhanced one with equal codes share a mix; both can state the same codes
only when the surround code is 3, which AC-3 reserves.

Not in it: `SetDither`, counters that only add up outcomes, and what is inside
blocks, which is the matter of `AudioBlocks`. A header read half way is taken
whole, since nothing is asked of it before the next call.

### Player

`pc` is where `decode` is: the options, the loop's call, the copy of the planes,
the end. `AskDownmix` and `AskTarget` are `decodeOptions`; `Decode` is the loop's
`DecodeFrame` on the rest of the stream, by the actions of `Decoder`; `Copy` is
lines 189-213, `Panic` its index past the planes, `EndOfData` what the call
answers. `chunks` records for each unit where it began, its layout, and whether
all the planes copied were written by it.

### Demuxer

A buffer is its length and its boxes, each with the size it states and, for a
`moov` or `moof`, what the code reads inside it. The walk of `Elementary`,
`Init` and `Segment` is step by step, `off` the place in the buffer: `VisitMoov`,
`VisitMoof`, `VisitOther`, `StepOn`. A `moof` is walked in the same way, child by
child, `inner` the place in its body (`PassChild`, `SkipTraf`, `EnterTraf`), and a
traf sample by sample (`AddSample`, `RefuseRange`, `TakeRange`). Both walks stop
in silence at a box that does not fit (`EndOfBuffer`, `EndOfMoof`). What is handed
back is ranges of the buffer.

Fields are as wide as in the file and ints wrap (`Wrapped`): a base offset of 64
bits may become a negative int, and the sums of `readTraf` and of `walk` may come
round. `tfhd` and `trun` have as many words in their bodies as the file gives them
and flags that announce fields; `Parse` goes through these in the code's order and
ends in an error where the code looks before it takes one, in a panic where it does
not. So every way the demuxer panics is a step of the model:

| action | where the code slices, or allocates, unseen |
| --- | --- |
| `PanicInWalk` | `box.go:64`, a box whose end wraps passes the check at 61 |
| `PanicInTraf` | `cmaf.go:295-300` and `332-334`, fields a short body does not have; 336, a table for as many samples as are stated |
| `PanicInRange` | `cmaf.go:268`, the end of a run wraps and passes the check at 265 |
| `VisitMoov`, `InitSegment` | the same as the first, in a walk inside a moov |

A panic ends the call; the calls after it are those of a program that recovers. Of
the walks inside a moov, a trak or a traf, which only look for boxes by name, the
model has what they find and whether one of them comes to a box whose end wraps
(`bursts`). An int has 64 bits on the platforms ac3go is built for (amd64, arm64,
wasm); the model's width is a constant.

Only the first `tfhd` and `trun` of a traf count, as in the code. Observed while
modelling, and without a run: `Init` on a segment without an audio track answers
the codec of the track found before, and `Segment` never answers
`ErrNoAudioTrack`, though the comment at `cmaf.go:33-35` has both refuse.

### BitReader, Headers and the coding stages

`BitReader` keeps `pos` and `err` and adds in an int of any width, with the wrap.
`ideal` and `bitsAsWritten` follow a reader that cannot fail and compare what
`Uint32` puts together from bytes with the bits themselves.

`Headers` watches one optional field, any of them: `flag` is whether the header
shows it, `origin` whether the last parse found it stated, cleared it or passed
it by. A parse is one action, `ParseHeader`, or `FailHeader` when it ends early.
The parsers treat each field without regard to the others, so one at a time
loses nothing.

`Allocation` abstracts levels to whether this channel wrote them: `powered`,
`excited` and `masked` are the bands of the scratch that hold something of this
call, `from` and `coded` the bins its
exponents reach, sent now or reused (`DecodeExponents`, `ReuseExponents`). Its actions are the loops of
`bitalloc.go` in order: `StartWalk`, `Integrate`, `ExciteLow`, `ExciteMiddle`,
`Spread`, `Mask`, `Delta`, `Allocate`. `Mantissas` keeps what a codeword opened
by one channel still owes to the others, beside what its writer owes. `Hybrid`
is the two walks of `aht.go`, over gains and then over mantissas. `Extension` is
`readSpxStrategy`'s range and bands and `mapSpxCopy`, loop turn by loop turn.

## The runs

| run | asks | states |
| --- | --- | --- |
| `FrameReader` | Does the reader do what it promises on every short stream, under every way a source may answer and every order of calls? | 265,320 |
| `EnhancedBlocks` | Are gains, leak levels and exponents those of the current spell in an enhanced frame, with all three techniques at play? | 2,300,419 |
| `MixedBlocks` | What does block 0 guarantee, in both syntaxes and in a decoder that is fed both? | 4,017,375 |
| `Programs` | Does a decoder step over exactly a unit, and hand back that unit's samples with the right carry over and gains, whatever came before? Does the WebAssembly call meet every unit once, copy its own samples, and end? | 188,061 |
| `Coding` | Does what a packager put in come out of the demuxer, of a damaged segment the samples before the damage, and does it refuse what it looks at? Do the bit reader, the header and the stages of a block's spectrum agree with what was written? | 264,625 |
| `CutShort` | A comment in `framereader.go` on how a failure surfaces, which does not hold | |
| `AHTForAC3` | A comment in `audblk.go` on AC-3 frames, which does not hold | |
| `ResetDecoder` | What `audblk.go` says of `Reset`, which does not hold for 7.1 | |
| `WidenedCoupling` | What a comment in `audblk.go` says a refusal guarantees, which it does not when the range widens | |
| `ShortTfhd` | What the WebAssembly module says of malformed streams, which does not hold for a tfhd cut short | |
| `ForeignPlanes` | What the WebAssembly module says its result is, which does not hold when the layout changes | |
| `StaleFlags` | What `header.go` says of optional fields, which does not hold for enhanced frames | |

**FrameReader.** `WindowIsStream`, `EveryByteIsAccounted`, `SliceIsUnit`,
`HeaderIsOfAFrame`, `SwappedStreamIsReported` and `EndComesLast` are invariants.
`UnitIsMaximal` is an action property: no unit is closed while what follows it
extends it, has arrived, or still may. `FramingSpec` says the reader implements
`Framing`, with `pos <- source - (end - start)`, the offset of the first byte
not dealt with. `EveryCallReturns` is liveness.

*Bounds.* Sizes are scaled down but keep their order: a syncinfo is 2 or 3 bytes,
the largest frame 4, the buffer twice that at first, as in the code. Streams are
all sequences of at most two of nine kinds of segment (frames of both syntaxes,
extensions, a frame cut short by a splice, one that fails its checks, stray
bytes, a swapped syncword, syncinfos that cannot be whole), all triples of the
four whose order matters, and five longer ones that overfill the buffer and fill
a unit. The reader forgets everything of a frame once it is past it except for
the unit it gathers, so three in a row reach every pair it can hold in view with
one more behind; `MaxAccessUnitFrames` is 3 and `MaxEmptyReads` 2, each the
smallest that has a middle.

*Fairness.* `FairSpec` is weak fairness of the reader's own steps. A call runs on
its caller's goroutine and a step of it waits for nothing but `Read`, which is
taken to return. Nothing obliges the caller to call, or a source to make
progress: a source that returns nothing forever is within the model.

**Audio blocks.** `BlocksOwnWhatTheyUse` lists what no frame ever takes from an
earlier one; `FirstBlockStandsAlone` what an accepted AC-3 block 0 may take;
`SteadyFramesStandAlone` says that a frame whose block 0 states all that it uses
and whose later blocks leave the arrangement of channels alone is independent of
any other, whichever exponents and gains its later blocks reuse.
`CouplingIsOfThisSpell` and `ExtensionIsOfThisSpell` say what was read since
coupling came up, or a channel joined, however often it left.

*Bounds.* Two channels: the code treats channels alike and counts none, and two
have one coupled and one not, one extending and one not. Three blocks, which is
what a channel needs to leave and come back; `MixedBlocks` has one-block frames
beside them, without which hybrid transform is out. Sections are the code's
numbers: bandwidth code 0 reaches section 3 (bin 73), coupling begins
below it (0) or above (4), so that a channel may lose or gain bins when it
leaves. In `EnhancedBlocks` one coupling begin and one extension start are
enough, since its properties are about gains and not about ranges; ranges are the
matter of the other. Channels are symmetric in every mode but mono, which
names one of them, so symmetry is used except in `MixedBlocks`.

**Programs: the decoder.** The run takes the steps of either program: the
WebAssembly loop on a stream, or a caller that hands a decoder whatever it likes,
sets options and resets it in any order. `TypeOK` includes that a unit ends inside the buffer with its last
frame whole. `SpanIsTheUnit` sets the decoder's span against the unit the frame
reader would have cut from the same frames (but for its bound of 72 frames, which no
unit of these buffers comes near). `NoDependentGoesUnnoticed` says what
`DependentSkipped` counts, along all the ways a substream can be passed by.
`OverlapsTheFrameBefore` is about the carry over, `SamplesAreOfTheUnit` about the
planes, in both banks and through the downmix; the latter leaves out, as its
statement says, a merged substream of fewer blocks than its core, whose last
blocks the code does hand back from an earlier unit. `GainsAreOfTheHeader` is
about the caches.

*Bounds.* The buffers (`MCBuffers`) are the frames that differ in an outcome,
alone and followed by each kind of frame the call may find behind a core, and
three stretches with several substreams of a unit and the frame after it. Frames
have one block or two, so that one may fail half way and one be shorter than
another. Of the carry over the model knows this call, the one before, and
older; two calls after a third reach all of that. Two levels tell a stale gain
from a fresh one, and a target that is turned off and on again, or a mix, meets
every stale key.

**Programs: the player.** `PlaysEveryUnitOnce` sets the loop's walk against the units of the
stream, `OwnSamplesInSteadyLayout` is what the copied planes hold while the
layout is the first unit's, and `LoopEnds` is liveness: from the loop's first turn
on, the call ends.

*Bounds.* Every sequence of up to three frames of seven kinds, whole or cut in the
last: three hold a unit of two frames and one after it, or three units. *Fairness*:
`ProgramsSpec` is weak fairness of the loop's steps, and of nothing any other caller
does. The call runs on one goroutine to its
end, none of its steps waits for anything, and the decoder's are loops over
blocks and channels.

**Coding: the demuxer.** `SamplesOfTheTrack` says what a packager put in comes out, byte for
byte, wherever sizes and offsets are stated, and `SamplesBeforeTheDamage` what is
left of damaged segments: the track's samples up to one of the boxes, so that no
piece of a sample run is returned. Whether the call tells of the damage is another
matter: of a fragment whose moof breaks off in a child that does not fit, the runs
told of before that child are returned with no error, and the property says so.
`DemuxTypeOK` holds the ranges to the buffer. `RefusesInsteadOfPanicking` says that
panics are confined to the edges above: a buffer is `Clear` when no size or offset
comes near the end of the ints, every field the code takes unseen is there, and no
count asks for more memory than there is; on such a buffer, whatever else is wrong
with it, the call ends in an error or in samples. It fails if one end of a run is
not weighed. `CallsRunOut` says that whatever sizes the boxes state no step leaves
as much to do as there was; `LeftToDo` counts, the first that differs deciding, bytes to
walk over, bytes of a moof, and samples.

*Bounds.* One or two fragments of one or two tracks, samples of one to three units
of length, with each place a size may be stated at alone, the box order turned
round, a long size, an open end, every length a segment may be cut to, and one
fault of each kind: a tfhd or trun missing, or cut to every length below the one its
flags ask for, a count beyond its table or the memory, a size lost, a place before
the buffer, behind it, or at either end of the ints, a box too large, of no size, or
stating in 64 bits a size below its header's, none, or one whose end wraps, at the
top and inside a moof, and samples whose sizes add up beyond the ints. A header is
one unit of length, an int has ten bits (`IntLimit` 512), a field five
(`FieldLimit` 32), and eight sizes can be allocated (`Allocatable`): the buffers are
shorter than a field is wide, and so much shorter than an int, and 31 samples of the
largest size do not fit in one. Calls come in any order, so a segment may meet the
track of any earlier `Init`, also of one that panicked.

**Coding: the stages.** `TypeOK`, `PositionIsTheSum` and `ValuesAreTheBits` are the bit reader's. `AskedFieldsAreOfTheFrame` is that the decoder asks a header for
nothing an earlier frame left in it. `AllocTypeOK` are the array bounds of the
allocation, `OnlyOwnLevels` that its uncleared scratch is never read stale, and
that the exponents allocated with are of the set in force in every bin. A set may be
reused (`ReuseExponents`) from any earlier range of the channel; where the range was
widened since, the code does allocate past the end of the set, which the property
leaves out and the run `WidenedCoupling` shows.
`MantissasAreTheWriters`, `GainsAreTheBins`, `CopyFillsTheExtension` and
`BandsAreWhole` compare each stage with what was written or has to be filled.

*Bounds.* The stages share no state of these models, so one takes its steps while
the others rest and the run is their sum. An int has six bits and buffers up to
four bytes: three are what it can address, the fourth what it must refuse, and a
field of 17 bits spans all three. The allocation has the code's own tables, all
61 bandwidths, the ends coupling and extension leave a channel, and every
coupling range; delta segments are one that stays low, one that is long and one
that leaves the bands. Grouped mantissas have a quantizer of three values and
one of two. Hybrid channels have up to four bins, one more than a gain codeword
serves. Extensions have every band structure of up to eleven sub-bands, with
sources shorter and longer than a band. Headers have every mode, type and
metadata block; a header forgets all but the last parse.

In every run but `Programs`, where the WebAssembly call ends, a deadlock would be reported.

## What is proved

TLAPS checks these for every value of the constants their modules assume (the
named `ASSUME`s): any stream, sizes and source; any channels, number of blocks
and section numbers; any width of an int; any buffers and streams of frames; any file; any banding that tiles the
bins; any quantizers of two or three values; any pointers and gains; sub-bands of any
width.

*FrameReader.* The inductive invariant `IInv` joins `TypeOK` to `WindowIsStream`,
`InFlightIsHeld` (a unit lies in the buffer right before the unread bytes) and
`EveryByteIsAccounted`. The accounts need the window: `Here`, the cell a
candidate is judged by, is read through `buf[start]`, and only the window makes
its offset the reader's place. From it follow `IndicesStayInTheBuffer`,
`BufferLosesNothing`, `NoByteIsLostOrCountedTwice`, `TheEndComesLast`,
`AccessUnitsAreMaximal`, and, with a lemma that each step of the reader is a step
of `Framing` or none, `ReaderWalksTheStream`. The heart of that one is the scan of
`Resync`: what `IndexByte` leaps over holds no syncword, and the candidate it
starts from is hopeless for good, by its contents or because the stream ended.
`SliceIsTheUnit` adds two invariants: `LaidOut`, that the frames taken lie apart and
in order before the reader's place, and `HeldRuns`, that those held for the caller
begin with the one `Header` describes and go on end to end to that place, through
every move of the buffer. `HeaderIsAFrames` follows from the second.
`SwappedIsReported` needs `StaysAtHead`, whose hard case is a swapped stream too
short to tell, and `AnswersStand`, which ties the frame count to what the head of
the stream means. `CallsComeToAnEnd` is why calls return: a measure, `StepsLeft`,
that each step of a call makes less - two for a byte not dealt with, for a byte not
read enough to outweigh the empty reads that may follow it, and one for a source
that has not stopped. It needs `EmptyFew`, that fewer empty reads than
are borne have come in a row while the source has not stopped; that a read leaves
less to do is `ReadGetsOn`, and that a step over bytes does `ForwardGetsOn`, by the
two lemmas that make such a step one of `Framing`.

*AudioBlocks.* Strengthenings, each used for two theorems at most.
`ExtensionInv` and `CouplingInv` relate the `first...` flags to the history: a
channel not marked has had its gains, and while nobody couples everyone is
marked. This is what fails if leaving does not mark. `ExponentsInv` does the same
for `cplinuPrev`. They give `CouplingStaysInItsSpell` and
`ExtensionStaysInItsSpell`. `OwnInv` says what a frame has stated by the time its
first block has been read, and what of the hybrid coupling channel is held for
the blocks after; its last conjunct is the one about `usesAHT`, and holds because
no later block may restate the coupling range. It gives `FramesOwnWhatTheyUse`.
`FirstBlockInv` says that nothing has been inherited, and no spell has begun,
before the first block is whole, and gives `FirstBlocksStandAlone`.
`SteadyFramesDecodeAlone` rests on `Settled`: once block 0 is read, what each channel
codes lies within the exponents and the hybrid mantissas this frame read. A later
block may widen a channel that restates its exponents; what keeps the rest of it
true is that one under the hybrid transform restates none.
`BlockStateKeepsItsTypes` is the type invariant.

*Decoder.* All six of its properties. `Span` chooses the end of a unit, so
the proofs begin with `SpanIs`: among the places where the walk could stop there is
a least one, and it is what the walk reaches. `StepSplits` then says a step is a
call that failed, one that decoded (`Decoded`, what the three ways to decode have
in common) or no call, and each property is shown of the second. `TypeCorrect`,
`SpansUnits` and `DependentsAreNoticed` need no more. `OverlapsRight` needs
`CarryInv`, what the tails are by how the last call ended, and `SamplesFresh`
`SampleInv`, which bank a sample came from; `GainsRight` needs `KeyInv`: a key that
is set is the key of what it stands for, under the options in force. It is what
fails if a new target or width does not clear a key.

*Player.* `EveryUnitOnce`, `OwnSamples` and `LoopComesToAnEnd`. `LoopInv` carries what the decoder's
lemmas say of a unit to its place in the stream until it is copied; `UnitsInv` adds
that the loop always stands where a unit begins or at something that does not
decode, `CountInv` what the channel count is of. `LoopComesToAnEnd` has a
measure again, two for each frame left and one for the turn of the loop under way,
and rests on `LoopInv` alone: a unit to be copied is at least a frame long and ends in the stream.

*BitReader and Headers.* `NeverOutside`, `AskOnce` and `FirstErrorStays` (that
an error latched stays, the first, and every call after it returns zero). `TypeOK`
and `PositionIsTheSum` are inductive together, by one lemma: inside the buffer the
wrapping operations are the plain ones, because its length in bits is an int.
`ReadsTheBits` is that `Uint32`, which shifts the first byte, adds whole ones and
shifts the last away, returns the number the bits spell: both are functions by
recursion, one over the chunks taken from the bytes and one over the bits. A
chunk is the next bits of the buffer, by induction over its bits (`ChunkIsBits`), and
the chunks end to end are the field, by induction over the chunks
(`AssembledIsTheValue`). `NothingOldIsAsked` rests on one lemma, `AskedIsSet`: each
field the decoder asks for is stated or cleared by the parser, field by field and
syntax by syntax. With it the property is inductive as it stands, because a parse
forgets all parses before it.

*Demuxer.* `NothingOutside`, for any boxes, any fields, and ints of any width that
hold a 32-bit field and the sum of as many of them as one can count. The invariant
adds where the walks are (`WalkOK`) and that every sum is an int. What passes the
check of `readTraf` with its ends in order lies in the buffer, and where a sum has
wrapped so that they are not, Go's slice panics: nothing outside is handed back, and
the theorem says no more than that. What keeps a call from panicking is the matter of
`ClearBuffersDoNotPanic`: on a clear buffer no sum wraps (`ClearTotal` for those of
sizes, `ClearWalk` for the ends of boxes), so that a run that begins at or after 0 and ends in the buffer is in order.
`WhatGoesInComesOut` and `NothingBehindTheDamage` assume `PackagedAssumption` of a buffer.
Marked sound, it is as a packager leaves it: the boxes lie in it, a moov comes
before any samples, and each traf tells of the next run laid down (`TellsOf`), its
track, its place, and each sample's size in one of the three places. Not marked,
it may have been cut or damaged, so that a box, or a box in a moof, does not fit or
its end wraps; but of the boxes the walks reach each traf still tells of its run or
shows that it does not (`ShowsDamage`): a part is missing or too short for its flags,
the samples begin outside the buffer, or no size is left. A number changed into another that fits is not covered, since
nothing in the file would tell. `PackInv` then says that the bytes taken are those
of the runs passed so far that are the track's, that what was appended of a fragment
is all of it that the walk inside its moof comes to, that sums stand where the next sample begins, and, of a sound buffer,
that nothing is taken before the first moof, so that a moov may still change the
track. That a traf which shows damage is refused, panics, or is skipped as another
track's, is what makes the second hold of damaged buffers. `CallsComeToAnEnd` needs only that
no cursor has passed its end (`LeftInv`).

*Allocation.* `AInv` ties the cursors of each loop together (`CursorsMeet`) and
says which bands hold this call's power, excitation and mask at each stage. Its
hard case is the low frequency channel, whose compensation must stop one band
early. It gives `TheWalkStaysInside`, `AllocationIsTheChannels` and, of every
pointer a channel has in the end, `NoBinIsLeftOut`. The exponents are those of a set
that reaches the end of the range it was sent for, whatever the strategy rounds to
(`ExponentsReach`), and so of any range within it. The facts about the tables it rests on are assumptions of the
module, which TLC evaluates on the code's tables.

*Mantissas.* `MInv` says that what the reader keeps of an open codeword is, read
backwards, what the writer still owes: `MantissasGetTheirValues`. The lemmas are
about digits, that a codeword's quotients and remainders are what was packed.

*Hybrid.* `BinsGetTheirGains`. The first walk numbers the gains it reads, the second
consumes them in order, and a bin's gain is right when the two agree on how many
bins before it have one. `GInv` ties each cursor to that count (`GainsSoFar`,
`MantissasSoFar`), and to where in a codeword of three the first walk is.

*Extension.* `TheCopyIsComplete` and `NoBandIsCut`, with sub-bands of any width.
`SpxInv` says that the sections closed, and the one under way, come to exactly where
the walk over the bands is (`CopyInStep`), that each was closed where a band began or
at the end of the source, so that there is room for them in the array
(`SectionsAreFew`), and that of the bands passed those marked are
the ones at which a section begins, no section beginning inside one that fits in
the source (`WrapsAreStarts`). `BandsDivide`, that the bands a structure makes divide
the extension, is a count: the n-th band begins at the n-th sub-band that is not
joined to the one below it.

*Induction.* The library's induction theorems take a predicate, which the provers
cannot instantiate; `Recursion` proves induction for a set of numbers instead, from
well-foundedness, and from it that a function defined by recursion is there.
Sums, bytes put end to end and the places of boxes are such functions in the models,
and `RecursionExists` is what lets their equations be used.

A proof that failed found two things in the models, both put right: two cases of
`Headers` overlapped, so that which one held was left open for one layout, and
`Extension` did not say that the table of bands is as long as the grid is wide, on
which the end of an extension rests.

*Model-checked only.* `EveryCallReturns` and `LoopEnds`: liveness under fairness is
beyond the prover. The half of each that is safety is proved, as `CallsRunOut` and
`LoopRunsOut`, which no run repeats: a call has no more steps than its measure. What is left to TLC is
that a call which has not ended can always take one, which is `ENABLED`, and that
it does, which is fairness.

## What the runs found

Each is a run that TLC must find violated, with the comment it contradicts quoted
in `PROJECT.json`.

- `CutShort`: when the source fails with one to four bytes left over, `Next`
  returns `io.EOF`; the failure is lost on a caller that stops there
  (`framereader.go:143`).
- `AHTForAC3`: the hybrid transform flags of an enhanced frame stay set for an
  AC-3 frame decoded after it (`audblk.go:912`).
- `ResetDecoder`: `Reset` leaves the dependent decoder's carry over, so the first
  7.1 unit after it overlaps its side and back channels with what was played
  before (`audblk.go:265`).
- `ForeignPlanes`: the WebAssembly call copies every unit by the first one's channel
  count, so that a unit of fewer channels after a 5.1 one gives, in the planes it does
  not have, that unit's samples again (`cmd/ac3go-wasm/main.go:189`). The run's streams
  leave out a merged substream shorter than its core, which gives stale planes
  without any change of layout.
- `WidenedCoupling`: a block may restate coupling over a wider range and reuse the
  exponents, which the frame never wrote in the bins gained; the refusal that is said
  to guarantee the contrary asks only whether coupling was in use (`audblk.go:706`).
  `SteadyFramesStandAlone` says when it cannot happen.
- `ShortTfhd`: a tfhd that announces a sample description index and ends before it
  makes the demuxer panic, which the WebAssembly module is said to spare its caller
  (`cmaf/cmaf.go:296`). The actions in the table under *Demuxer* name the other places
  where a file can do the same: the default duration (`cmaf.go:298`), the first
  sample's flags (332), the table of sizes (336), a run of samples whose end wraps
  (265) and a box whose end does (`box.go:61`).
- `StaleFlags`: an enhanced frame leaves the flags of fields it does not come by -
  surround mode, production information, time codes - as an earlier frame set
  them, though a set flag is to say that the frame has the field
  (`header_eac3.go:163`). The decoder asks for none of them; `ac3info` prints them.

Seen on the way, and left without a run: an AC-3 block 0 may couple without leak
levels, which then are an earlier frame's (`audblk.go:822`; the format obliges the
encoder, and `FirstBlockStandsAlone` names the exception); a traf that does not fit
its moof ends the fragment without an error (`cmaf/box.go:61`); a
header too long for the frame it states makes the buffer grow until the stream
ends (`framereader.go:366`); the target level never reaches the dependent decoder,
so that side and back channels keep the level they were coded at
(`eac3_71.go:86`).

## Plan

Done: the frame reader, the audio blocks, the decoder and its player, the demuxer,
the bit reader, header reuse, the integer stages of a block, and the proofs above;
every safety property a passing run checks is proved. Open, for whoever goes on
from here:

1. The low frequency channel's fields and the skip fields in `AudioBlocks`.
2. The walks inside a moov and a traf box by box, as those over a buffer and a moof.

## Not modelled

- Sample arithmetic (`imdct.go`, `window.go`, `downmix.go`'s and `dynrng.go`'s
  gains): floating point, which neither tool reasons about.
- The logarithmic levels of the bit allocation, dither, dequantisation, the inverse
  hybrid transform, decoupling, rematrixing, and the noise and blending of the
  extension: arithmetic on values whose ranges and readers are modelled, with
  generated tables that are data of it.
- `crc.go`'s polynomial and `crcSplit`: functions of one frame. Which words are
  weighed in which mode is in `Syncframes`.
- `web/`, the JavaScript bindings of `cmd/ac3go-wasm`, the printing of
  `cmd/ac3info`: calls into other runtimes and formatting.
- `internal/e2e`: comparisons with external decoders, run by tests.
- `pcm`: pure copies and names; nothing in it depends on an earlier call but
  `Resize`, which keeps what fits.
