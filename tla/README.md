# node-yencode in TLA+

TLA+ models of node-yencode: the portable and the vector decoders and encoders, the
CRC-32 implementations and the arithmetic on top of them, and the JavaScript calls
around them; TLC runs that check them, and TLAPS proofs about what a byte means next to
the reference decoder of the tests, about the portable decoders and the portable encoder,
about `decodeChunk` and about `YEncoder`.

    tlc -workers 2 -config MCDecodeEnd.cfg MCDecodeEnd     # any run: config and module
    tlapm DecodeEndProofs.tla                              # any of the *Proofs modules

## 1. The system

yEnc maps a byte `c` to `c + 42`, or to `=` and `c + 42 + 64` if that would be a
critical byte, in lines that end in `\r\n`. NNTP doubles a dot that starts a
line, ends an article with `\r\n.\r\n`, and a yEnc control line starts with
`=y`. All calls are synchronous. The hard part is not concurrency between threads
but state cut in pieces: a stream that arrives in chunks, a chunk cut into
unaligned head, vector blocks and tail, and objects that outlive a call that threw.

| component | state | operations | what makes it correct | modelled by |
|---|---|---|---|---|
| scalar decoder, `src/decoder.cc` | `YencDecoderState` between calls | `do_decode_noend_scalar`, `do_decode_end_scalar` | cuts do not matter; no read past the chunk; in-place is safe; it returns | `DecodeEnd`, `DecodeNoEnd`, `YencStream`, `YencAutomaton`, `YencReference` |
| SIMD driver, `src/decoder_common.h`, x86 kernel `src/decoder_sse_base.h` | `escFirst`, `nextMask`, `lfCompare`/`minMask` between blocks | `_do_decode_simd`, `do_decode_sse` | as the scalar decoder, wherever alignment and blocks cut | `DecodeSimd`, `DecodeBlock`, `KernelSse`, `EqMask` |
| AVX2, VBMI2, NEON, RVV kernels, `src/decoder_*` | the same | `do_decode_avx2`, `do_decode_neon` (two), `do_decode_rvv` | the same, though each computes its masks in its own way | `KernelAvx2`, `KernelNeon`, `KernelNeon64`, `KernelRvv` |
| encoder, `src/encoder.cc` | column of the line | `do_encode_generic` | the lines of the reference encoder; decodes back; fits the space checked for | `YencLines`, `Encoder` |
| SIMD encoders, `src/encoder_common.h`, `src/encoder_*` | the same | `do_encode_simd`, four kernels | the same lines, though a block that passes the end of a line is undone in part; reads and stores in bounds | `EncodeSimd`, `EncodeBlock`, `EncodeSse`, `EncodeAvx2`, `EncodeNeon`, `EncodeRvv` |
| CRC32, `src/crc*` | none | `crc32`, `combine`, `zeros`, `unzero`, `multiply`, `shift`, `2pow`, `256pow` | every implementation computes the same remainder | `CrcField`, `CrcGeneric`, `CrcFolding`, `CrcArm`, `CrcRiscv`, `CrcCalls` |
| Node binding, `src/yencode.cc` | none | `Decode*`, `Encode*`, `CRC32*` | argument checks before the C calls; numbers keep their value | `NodeDecode` (decoding), `Encoder` (`EncodeTo`: column, space), `CrcCalls` |
| JavaScript API, `index.js` | none | `decodeChunk`, `decodeTo`, `decode`, `from_post` | the state survives being turned into text; a damaged post is noticed | `NodeDecode`, `FromPost` |
| `YEncoder`, `index.js` | `part`, `pos`, `crc`, `yInfo`, `encode` | `encode` | posts tile the file, also after a call that threw | `YEncoder` |
| platform detection and dispatch | function pointers, set once | `decoder_init`, ... | | not modelled |
| C# port, `csharp/` | | | | not modelled |
| crcutil, hedley | | | | third party |

`decodeChunk` calls `DecodeIncr`, which calls `decode_end`, a function pointer
to `do_decode_end_scalar<true>` or to `_do_decode_simd` with a kernel; the latter
calls the scalar decoder for head and tail. `YEncoder` calls `encodeTo`, `crc32` and
`crc32_combine`. PROJECT.json lists the hazards with their lines and the
properties aimed at them.

## 2. The modules

    YencAutomaton ── YencReference          what a byte means; the tests' reference
         │    │        └── YencReferenceProofs  that the two agree, proved
         │    └───── YencStream             the promise: a stream, however cut
         │             └── YencStreamProofs  a text may be cut anywhere, proved
         ├── DecodeEnd ── DecodeEndProofs   refines YencStream, proved
         ├── DecodeNoEnd ── DecodeNoEndProofs  refines YencStream, proved
         ├── DecodeBlock ── EqMask          what the decode kernels share
         │     ├── KernelSse, KernelAvx2, KernelNeon, KernelNeon64, KernelRvv
         │     └── DecodeSimd               the driver and any kernel, against YencStream
         ├── NodeDecode ── NodeDecodeProofs  uses YencStream; proved from its texts
         └── YencLines                      the reference encoder of the tests
                ├── Encoder                 against it, and decoded by YencStream
                │      └── EncoderProofs    proved: bounds, the text it writes, that it decodes, its lines
                └── EncodeBlock             what the encode kernels share
                       ├── EncodeSse, EncodeAvx2, EncodeNeon, EncodeRvv
                       └── EncodeSimd       the driver and any kernel, against YencLines
    CrcField ── CrcGeneric, CrcFolding, CrcArm, CrcRiscv
         └───── CrcCalls                    crc.h over any of them; the calls of the binding
    FromPost ── YEncoder ── YEncoderProofs  from_post, and the posts it is given, proved
    DataInduction                           induction and recursion over numbers and texts, for the proofs

**YencAutomaton** defines, for each mode, the three tables every decoder of the
repository is a way of computing: the context after a byte (`Goto`, `RawGoto`,
`UnstuffedGoto`), the byte decoded (`Emit`, ...) and whether the data ends
(`Verdict`). The contexts are the values of `YencDecoderState`. Bytes are
abstracted to `\r`, `\n`, `.`, `=`, `y` and the others; a decoded byte is the
pair of the source byte and of what is subtracted from it (42 or 106), so an
escape forgotten, or a byte dropped, doubled or taken from another place, shows.

**YencStream** is the abstract specification. A call is delivered a chunk,
consumes it, one to three bytes at a time, up to its end or the end of the
data, and the context alone goes on to the next call. `After` is the same as a
function of a text.

**YencReference** is the reference decoder of `test/testdec.js`: it undoes
dot-stuffing on the whole text and then unescapes, in two recursive functions. It is independent of the tables.
Next to it run the streams of the three modes the tests use (`"nntp-end"`, `"nntp"`, `"plain"`), each begun anew or resumed in any
context: `start` remembers that context, `Before[start]` is a text that leads to it without output, and `Text` is that and
what has been consumed since.

**DecodeEnd** is `do_decode_end_scalar<true>`. `pos` is `len + i`, so `es[i]` is
`chunk[pos + 1]` and `i < -2` is `Rem > 2`. `pc` is the label the code is at: the
entries of the switch over the state (fall-throughs are jumps from one to the
next), the head of the loop, the three nested tests in the loop, the test for the
last byte. `out` is what has been written from `*dest`, `read` by how much `*src`
has moved. `ctx` and `taken` are history variables for the refinement.

**DecodeNoEnd** is `do_decode_noend_scalar` and its caller. `isRaw` is the template
parameter, chosen initially; `given` says whether a state pointer is passed, which
changes both the entry and the second last byte; `got` is the value returned, by
which the caller advances `*dest`, and so may differ from what was written.

**DecodeSimd** is `_do_decode_simd`, for the three instances `decoder_set_*_funcs` make. A
step is a call of the scalar decoder (through what the two modules above establish about
it, the byte it miscounts included), the switch over the state before the first block, or
one block. `kill` stands for what a block leaves for the next to drop (`lfCompare`, `minMask`,
`nextMaskMix`). `Width` is the size of a block. Each block may be taken by
any of the eleven kernels: what a kernel leaves to the next block is the same for all, so
a call is a call of one kernel, and of any mixture, which is more than the code
does and puts every kernel in every state another leaves.

**DecodeBlock** is what the kernels work on. A vector is the set of the lanes
where a comparison holds; the two to four vectors of a block are joined, so a shift that
carries a byte from one into the next is a sum of offsets. `Compact` moves the kept bytes
together through the table `decoder_init_lut` builds, half a vector at a time, each store over
the excess of the last; `CompressStore` is the one of VBMI2.

**KernelSse**, **KernelAvx2**, **KernelNeon**, **KernelNeon64** and **KernelRvv** are the masks of the
five kernels, by the names in the code, with the branches of the instruction-set levels as
an argument `isa`. They differ in what they compare at which offset, in which tests they join,
and in how the dots to drop reach the next block. In the AVX3 code, `-0xff` for `0xff00`
leaves the lowest bit of a byte that should be cleared: a terminator may be
seen where there is none. The kernel then stops early and the scalar decoder takes over, so it
costs time and no correctness; `DecodesChunk` holds with it. In the RVV code `Word` is the
64 bits of an addition; see section 4 for masks of more.

**EqMask** is `fix_eqMask`, with `Starts` as its definition: the `=` at `k` starts an
escape if it is not escaped itself.

**NodeDecode** is `decodeChunk` on top of `DecodeIncr`, and `DecodeTo`. A step is a
whole call. The caller feeds back the state it got, resumes with a text of its own, or
starts a new article; it passes an output or none, in the order of the code or in
the order of README.md. `result.threw` is the error of a call that threw.

**YencLines** is the reference encoder of `test/testenc.js`: each byte written as
soon as it comes, a newline as soon as the line is full. A byte of the data is named by the
character it is written as (its value plus 42); `Shifted` gives the one 64 further.

**Encoder** is `do_encode_generic`, a step per block of the code: the first character,
the unrolled runs (each `DO_THING` a step of its own), the undoing of the last run if it
overshot, the rest of the line, its last column, the start of the next line, the
end. `i` counts from the start of the data, `p - dest` is `Len(dest)`, `top` is how far the
output has ever been written (undone runs, and the word of four bytes that starts a line).
`Run` is the length of a run, 8 in the code. `Call` makes of the column what the callers in
`yencode.cc` do.

**EncodeSimd** is `do_encode_simd`: what a kernel does before its first block, its blocks, the end of
its lines, and the scalar loop over what it leaves. As with the decoder, each block may be
taken by any kernel. `Over` is by how many bytes the block's output passes the
last column but one; `Cuts` of a kernel gives the output it keeps and the data it goes back to,
computed as the code does from the lengths of the shuffled quarters and the bits of the escapes.
**EncodeBlock** has the tables and the two ways output is made, by expansion and, for at
most one escape, by insertion; **EncodeSse**, **EncodeAvx2**, **EncodeNeon** and **EncodeRvv** have the
cuts, and NEON its `encode_eol_handle_pre`. `X` is the size of a vector. For `line_size < 12`, `do_encode_simd` calls
`do_encode_generic`, which is the module before; as the vectors are scaled, so is this
limit, down to 4, which the comment in the code gives as the least a kernel can take.

**CrcField** is the arithmetic. A register, a constant or data is the set of the bits that are
set; `Steps(c, n)` multiplies by x^n and `Crc32` is the remainder of long division, the
definition everything is compared with. A `uint32_t` has `Reg` = 8 bits and a byte 2, a 64-bit
number 16, a vector of 16 bytes 32; the polynomial x^8+x^4+x^3+x^2+1 is
primitive, so the powers of x have the period 2^8-1 as those of the real one
2^32-1, and exponents wrap the same way (`FieldAssumption`). A literal of the code is modelled by
the power of x it is, with w = `Reg` (where not said otherwise reflected, and shifted by one as the
reflected products need it):

| literal | is | literal | is |
|---|---|---|---|
| `0xb66b1fa6` | x^-w | `0x140d44a2e` | x^4w |
| `0x15a546366` | x^7w | `0x1751997d0` | x^5w |
| `0xf1da05aa` | x^9w | `0xccaa009e` | x^3w |
| `0x1c6e41596` | x^15w | `0x163cd6124` | x^2w |
| `0x154442bd4` | x^17w | `0x1db710640` | x^w |
| `0xdfded7ec` | x^-15w | `0xf7011641` | the quotient, for Barrett reduction |
| `0x490d678d` | x^2w, not reflected | `0x104d101df` | the quotient, not reflected |
| `0xf200aa66` | x^3w, not reflected | | |

These were found by evaluating the literals outside the model; that each computes a CRC where it is
used is what the run then checks.

**CrcGeneric** is slicing by four over four chains, their merging, and the portable multiplication;
**CrcFolding** the x86 code on 128-bit and on 256-bit registers, with what lies in memory after
the data, and its reductions; **CrcArm** the CRC instructions with the pieces that align, and
PMULL; **CrcRiscv** the four accumulators of 4 or 8 bytes. **CrcCalls** is `crc.h` over any
of them (`Isa`), and a caller. `crc32_bytepow` has a second form for compilers other than GCC, Clang and MSVC, whose last
addition drops a carry for lengths of some 2^61 bytes; it is kept as the mutant `crc32_bytepowPortable`. The
caller, of the binding, takes a CRC forward through a buffer, and then once with the CRC
of other data, with zeroes, or back. An `int` is `Int32`.

**FromPost** is `from_post` on an article of lines. A line is its tag and properties, or content; a
value is a number, a CRC, another text or none. The order of errors and of warnings is
that of the code. **YEncoder** writes its posts as such lines (`Written`).

**YEncoder** is the object `multi_post` returns. Each throw is an action with the
assignments made before it. A post is what its header lines say; a CRC is modelled by
the data it is the CRC of, so `crc32_combine` is concatenation.

MC modules only give constants: `MCChunks` builds the chunks fed to the decoders, all
short ones and longer ones made of the sequences the decoders know (`\r\n`,
`\r\n.`, `\r`, `\n`, `=`, `y`, `.` and an ordinary byte), so that one special
sequence follows right after another. `MCAlgorithms` runs the streams next to the
reference decoder, and a caller of the CRC functions; `MCIndexJs` puts a decoding and a posting caller
side by side. Definitions named `...Fault` are the mutated forms used to
show that each property can fail; no specification uses them.

## 3. The runs

| run | asks | bounds |
|---|---|---|
| `algorithms` | Three things checked against definitions of their own. Do the tables say what the tests' reference decoder says, resumed in any context (`AgreesWithReference`), with the end right after the first terminator (`EndsAtFirstTerminator`)? Does the carry trick find exactly the `=` that start an escape (`FixesEq`)? Is every CRC held that of its text, by whichever implementations it was made (`HoldsItsCrc`), and every power the power it says (`PowersAgree`)? | chunks: all of up to 4 bytes, and up to 4 tokens; every mask of 8 bits; two memories of 130 bytes, read in pieces of 0 to 130 on nine implementations, exponents and lengths of both signs, one of 33023 bytes whose bits wrap; 340 000 states |
| `decode_end` | Does the incremental decoder implement the stream (`ImplementsStream`), read in bounds (`NoOverread`), never overtake its input (`OutputNeverOvertakes`), get on with every step whatever its branches step back (`EveryStepGetsOn`) and return (`CallReturns`)? | the same chunks, any number of calls |
| `decode_noend` | The same of the decoder that looks for no end, both instances, with and without a state; and is `return 0` wrong only for `\r` or `\r\n` after an `=` (`CountsButEscapedCr`)? | the same |
| `decode_simd` | Have the masks of every kernel computed what the stream computes after every block (`BlocksTrackStream`), does the whole call (`DecodesChunk`), are the bytes looked at after a block in the chunk (`LooksWithinChunk`)? | blocks of 4 bytes, up to 3 tokens followed by padding and up to 2 after it, every alignment, three modes, eleven kernels; 688 000 states |
| `index_js` | Does an article fed piece by piece through `decodeChunk`, with its state as text, decode as in one piece (`ContinuesStream`), and is the state what was read (`StateIsWhatWasRead`)? Do the posts tile the file (`PostsTileFile`), has the last one the CRC of all of them (`CrcIsOfWholeFile`), and is the header there while it is needed (`HeaderOutlivesParts`), whatever calls threw? Does `from_post` take these posts without a warning (`OwnPostsParse`), and no damaged one (`DamageIsNoticed`)? | articles of up to 4 bytes after any of 15 texts resumed with; files of 0 to 4 bytes, 0 to 3 parts, 4 calls with up to 2 bytes each; posts with lines lost or repeated, spliced with another, or with one property changed; 67 000 states |
| `encoder` | Does the encoder write what the tests' reference encoder does, from any column (`EncodesAsReference`), read in bounds (`NoOverread`), stay in the space `YENC_MAX_SIZE` gives without its padding (`FitsMaxSize`), decode back and never to an end of data (`DecodesBack`), keep the line rules (`LaidOutInLines`), say where the next call goes on (`ReturnsColumn`), get on with every step whatever runs are undone (`EveryStepGetsOn`) and return (`CallReturns`)? | lines of 1, 2, 3, 6 and 9, every column, runs of 3, up to 9 bytes |
| `encode_simd` | Does the vector encoder write what the reference encoder does after every block and at the end (`EncodesAsReference`), is the kernel's column that of its line (`KnowsColumn`), do reads ahead, reads behind and wide stores stay in the buffers (`StaysInBuffers`), and is nothing a block has left taken back (`GetsOn`)? | vectors of 2 bytes, lines of 4 and 8, every pattern of escapes over 3, 9 and 10 bytes; vectors of 4, lines of 6 and 16, 18 bytes with up to 3 special ones; every column; 1 288 000 states |

`index_js` puts two callers side by side who share no state: one decodes, one posts. So does
`algorithms` with three. Only the run is shared.

Why these bounds are enough: the longest sequence a decoder knows is five bytes
(`\r\n.\r\n`), the decoders look at most four bytes ahead, and a resumed call behaves
by the state it finds, so chunks of four bytes in any state already reach every cut of
every sequence; the tokens then put two or three whole sequences in one chunk. The
stream has seven contexts, all reached. A block of four bytes is shorter than a
terminator, so terminators lie in one block and across two; chunks have up to 18
bytes, which gives up to three blocks between head and tail. The compaction table of
half a vector has then 2 lanes, whose last is left out of the index as the 16th is in the code. Four calls to an encoder of three parts leave
room for a call that throws before, between and after the parts.

Runs of 3 are the shortest in which a blank can fall into the last column of the line
after escapes have moved it there, which is what undoing is for; a line of 9 has room for two
runs, of which only the second is undone, and one of 1 or 2 leaves out the middle of the code.

A vector of 2 bytes gives every kernel of the encoder a quarter of 1 byte to look up and one of 4 a
quarter of 2, so that an escape may lie before, at and after each of the places a line
can end in; a line of 4 is shorter than two vectors of 2 and one of 16 takes two blocks. The data of
the CRC run has 130 bytes, which is twice the largest unit (64 bytes) and a rest of two; reading on
from where the last piece ended gives every alignment.

Deadlock is checked in every run but `index_js` and `yencoder_sequential`: `MaxCalls` bounds the
calls of `YEncoder` and `MaxFed` an article in `NodeDecode`, after which the caller may stop.

## 4. What the code does against its documentation

Five runs expect a violation; PROJECT.json quotes the lines.

- `decode_simd_one_shot`: `decode(data, true)` drops a byte if the data ends in
  `=\r\n` and the `=` is the last byte of a block. The scalar decoder, used for the
  tail `\r\n`, writes the byte and returns 0. The reference decoder of the tests
  decodes it, and the C# port returns the right count. Confirmed by compiling and
  running the C++ code (66 aligned bytes, SSE2).
- `node_decode_states`: feeding `decodeChunk` the state it returned with the end of the
  data throws a ReferenceError: the loop that looks for a known suffix counts `i`,
  which does not exist, and the file is strict.
- `yencoder_sequential`: a call of `encode` that throws has used up a part number.
- `crc_shift`: README.md makes `crc32_combine` of `crc32_shift(len2*8, crc1)`, but the number of bits is
  taken as an `int`: from 256 MiB on the result is another CRC. `crc32_zeroes` has the same limit at
  2 GiB. In the run a register has 8 bits, so 64 bytes of 2 bits are enough.
- `rvv_wide`: on RISC-V vectors of 512 bits and more the escapes of blocks with `==` are looked
  for with one addition of 64 bits, although the mask takes several words. In the run a word is 2 bits, the mask 4; the words that are not
  computed are arbitrary.

Four more, which no run has as its subject:

- `decodeTo` with too short an output returns 0 and throws nothing (`yencode.cc:284`), although
  README.md promises an error (action `DecodeTo`).
- `decodeChunk(data, state, output)`, the order README.md gives, ignores `output`: a second argument
  that is not a Buffer is the state, and the third is dropped (action `FeedAsDocumented`).
- The column `do_encode_generic` returns without `doEnd` is that of the last character, and not of
  the next, if the data ends in the last column: `LastChar` does not count it. `ReturnsColumn` is stated
  with this exception.
- A column equal to the line size, which is returned when an escape fills the line,
  is taken for 0 by the next call (action `Call`), and the newline is not written.
  Both concern `EncodeIncr`, which `index.js` does not export.

## 5. Fairness and liveness

`CallReturns` of `decode_end`, `decode_noend` and `encoder` is checked under weak fairness of
`Decode` (`Encode`), the disjunction of the steps of a call in progress: a call is
straight-line sequential code that nobody can interrupt, so it goes on as long as
some step is possible. No fairness is assumed of the caller.

`decode_end` and `encoder`, whose code steps back, also have `EveryStepGetsOn`: in every step of a call
a measure falls. In `DecodeEnd` it is the bytes left (`Rem`) and, where a step passes none of them,
the tests on the way (`Stage`). A branch that steps back (`i--`, `i -= (c == '\r')`) leaves a nested test, to whose
label `pos` came without passing the byte, for the head of the loop: no byte is passed, but a test is. One
that stepped back further, or went on to the test it came from, breaks it. In `Encoder` the bytes of a run that may still be undone do not count as read (`Settled`), so taking
them back loses nothing, and what the run has done is a `Stage` of the turn. As a step is always possible until
the call has returned (TLC looks for deadlocks), a measure that falls bounds the number of steps.

The blocks of `DecodeSimd` are taken in a loop that counts up to an end computed before it and that a
terminator leaves by `break`: nothing there could keep it from ending. `EncodeSimd` has `GetsOn`: the position never goes back
from one block to the next, and each end of a line takes a byte.

## 6. What is proved

The theorems hold for every value of the constants. What is assumed of those is what the modules
assume: `OtherChar` has none of the five special bytes, chunks and data are finite sequences of
bytes, sizes are numbers, and the alphabet has the characters escapes are written with (`WireAssumption`).

| theorem | states |
|---|---|
| `DecodeEndProofs`: `TypeCorrect`, `ReadsInBounds`, `WritesInBounds`, `EveryCallEnds` | `TypeOK`, `NoOverread`, `OutputNeverOvertakes`, `EveryStepGetsOn` |
| `DecodeEndProofs`: `Refinement` | `ImplementsStream`: `DecodeEnd` implements `YencStream` |
| `DecodeNoEndProofs`: `TypeCorrect`, `ReadsInBounds`, `WritesInBounds`, `ReturnsWhatItWrote` | `TypeOK`, `NoOverread`, `OutputNeverOvertakes`, `CountsButEscapedCr` |
| `DecodeNoEndProofs`: `Refinement` | `ImplementsStream`, for both instances, with a state given |
| `YencReferenceProofs`: `DecodesAsReference`, `EndsAtFirst` | `AgreesWithReference`, `EndsAtFirstTerminator` |
| `NodeDecodeProofs`: `ArticleIsContinued`, `StateTextIsWhatWasRead` | `ContinuesStream`, `StateIsWhatWasRead` |
| `EncoderProofs`: `TypeCorrect`, `ReadsInBounds`, `WithinMaxSize` | `TypeOK`, `NoOverread`, `FitsMaxSize` |
| `EncoderProofs`: `WritesWhatTheReferenceWrites`, `DecodesToTheData` | `EncodesAsReference`, `DecodesBack` |
| `EncoderProofs`: `LinesAreFull`, `ReturnsWhereItStands`, `EveryCallEnds` | `LaidOutInLines`, `ReturnsColumn`, `EveryStepGetsOn` |
| `YEncoderProofs`: `PostsCoverTheFile`, `CrcCoversTheFile`, `HeaderIsThereWhenRead` | `PostsTileFile`, `CrcIsOfWholeFile`, `HeaderOutlivesParts` |
| `YEncoderProofs`: `PostsAreReadBack`, `DamagedPostsAreNoticed` | `OwnPostsParse`, `DamageIsNoticed` |

**DecodeEnd.** That `es[i + 1]` exists at a nested test
depends on how the label was reached, and the output stays behind the input only because
the steps back (`i -= 2` after an `=` that turned out not to be a terminator) never go
behind what was written. The inductive invariant therefore says for each
label how many bytes are left, how far `taken` (the bytes the abstract stream has
consumed) is ahead of `pos`, and what the context `ctx` is there: at the head
of the loop, for example, the bytes taken but not yet passed are such that the loop's
view of the next bytes and the stream's agree. Each action then consumes 0 to 3
abstract bytes, which is where `Consume1` to `Consume3` of `YencStream` come from, and the
proof of each is the evaluation of the tables on them. `Collect` needs that the
stored `*state` is `ctx` when the call returns. The invariant is split into conjuncts
proved by one lemma per action, and the temporal steps combine them.

**DecodeNoEnd.** The same plan for a loop that never looks for an end and forgets its context at
its head: `AtHead` says when that makes no difference. Either the next byte does not go on with
what the context began (`Harmless`), or it is an escaped `\r` that has been written and is looked at
once more as the beginning of a line end (`Redo`), the one place where the stream is ahead of the code. Without a
state a `\n` may be left for the last byte, since nobody asks what follows it; this is why the
refinement is stated of calls with a state, and the other invariants of all. The instance
for unstuffed data has no context but the `=` (`isRaw` is a case of each lemma).

**Texts.** `YencStream!After` reads a text by a function defined by recursion on its length.
`YencStreamProofs` shows for any automaton (`Decodes`) that it reads a text byte by byte (`AfterByte`), that nothing
after an end counts, and that a text may be cut anywhere (`AfterConcat`): reading `s \o t` is reading `s`, and
`t` from the context `s` left. It rests on `DataInduction`. The induction theorems of the library take an
operator as a parameter, which the provers here cannot instantiate; but what
they say of a *set* of numbers follows from the least-element property of a
well-founded relation (`Induction`: a set with 0 and all successors has all numbers; `TextInduction`
for sequences; `Recursion`: the function a recursive definition asks for exists; `TextRecursion`: so does one on texts whose
body asks for shorter texts only).

**Reference decoder.** The reference looks ahead in the whole text, in two passes; the streams look at one byte and remember a context. What relates them is
what a context stands for: `Pending(ctx, t)` is the text the reference would still have to look at when `t` follows and the bytes that led to `ctx` have
not been decided. For each context and byte a lemma (`StepNone` to `StepCrLfEq`, and `StepsRaw`, `StepsUnstuffed` for the other modes) says that what the reference makes
of that text is what the table emits, and then what it makes of the pending text of the next context, or nothing after an end. They unfold the two functions, which exist
by `TextRecursion`, at the first bytes only; the rest of the text stays a variable. By induction over texts a stream then decodes like the reference
(`EndDecodes`, `RawDecodes`, `UnstuffedDecodes`). The invariant `StreamInv` (theorem `StreamInvariance`) says that the stream has come to where the automaton is after the bytes
consumed, and `BeforeIsSilent` puts the text of the context it was resumed in before them.

**Ends.** The context tells what the last bytes were (`Tells`: `CRLFDTCR` that they are `\r\n.\r`, and so on, and conversely), which each byte keeps (`TellsOn`), so
the verdict on a byte is true exactly if the text now ends in a terminator. `EndInv` adds that no shorter text did since the chunk was begun (`NoneIn`): the stream stops at an end, so the first is the only one.

**NodeDecode.** A call turns the state into text and the next one the text into a state, so the invariant has to say
what the text means where nothing is known of what came before it. `Tells` relates, for every text, the context it leads to, the
table `decodePrev` and what the text ends in; it is proved by induction over texts (`TellsWhole`). `decodePrevMeans`: a text of the
table stands for its context. `MeaningOfEnd`: what a text that has not ended means depends on its last four bytes only, which is what
`slice(-4)` relies on; with `NormalisedMeans` for the dot of `\r\n.=`. `AcceptedMeans`: if `decodePrev.indexOf` finds
the text or its last three bytes, the state it gives is the one the text stands for; the loop that cannot count never runs
into a wrong state, it throws. `StuckStays`: after an end the text
held makes every further call throw or read nothing. With `AfterConcat` a call then continues the article.
Both theorems assume `Texts`: the texts a caller resumes with have not run past an end, and are at most four bytes, the number README.md speaks of,
or are longer ones that `decodeChunk` accepts. TLC evaluates it for its instance (`TextsAssumption`).

**Encoder, bounds.** `YENC_MAX_SIZE` allows two bytes for each byte of the data, and a newline
for each `line_size` of those, plus one. That it is enough depends on how many newlines have been written and on what each of them ended. The
inductive invariant `Inv` says that there is a number `q` of newlines (`SizeInv`, never a variable of
the code) such that the output without them has at most two columns for a byte read and at
least `q` full lines, the column of the first counted (`Layout(q)`). To keep it, an action needs to
know what the current column has to do with the output, also while a run has written
what the column does not count yet, and that an undone run takes back as much data as
output (`RunInv`). `Finish` turns one byte into two: it fits because a blank that ends the output was
one byte of the data written as one (`EndsBlank`). The rest is arithmetic
(`LinesInColumns`). Reading in bounds follows from `ReadInv`.

**Encoder, text.** The reference encoder of the tests is a turn for each byte (`Turns`, a recursive function); the code writes
in runs, undoes a run, and writes a newline with the character after it. `Reached(k, c, text)` says that the code
is at column `c` with `text` where the reference is after `k` turns, but for a newline the reference
has already written when the line is full. `TextInv` says where it holds: also
for the beginning of the current run (`Before`, `Started`), because a run that reached the last column but one may have
treated its last characters wrongly, and all that counts then is what it goes back to. `NextByte`
does a turn in each of the four ways the code has.

**Encoder, decoding.** `TurnsDecode`, by induction over the turns: what the reference has written decodes, with and without NNTP, to the data so far and
leaves the decoder at the start of a line exactly if the column is 0. A turn is a plain byte (`PlainGoesOn`: not critical, and no dot at the start of a line,
so never taken for stuffing or an end), an escape (`EscapeGoesOn`) and perhaps a newline, which decodes to nothing (`NewLineEnds`). `TextDecodes` takes back
the last newline and escapes a final blank. `EncodesAsReference` then carries it to the code.

**Encoder, lines.** `Laid(t, offset, size, c)` says what a text `t` written from the column `offset` looks like, cut at its newlines (`IsLine`): a
line has at most `size` columns, one more only if it ends in an escape; a line with a newline after it is full and does not end in
a blank; none begins with a character that has to be escaped there; and `c` is the column of the last one. Three steps keep it: characters
that go on in a line that is not full (`LaidMore`), a newline after one that is (`LaidNewLine`), and taking back the last character
(`LaidFront`), which is how `EndLaid` gets from the text of the turns to the one whose final blank is escaped. `TurnsLaid` is the induction over the turns. `LineOfStart`
relates `IsLine` to the lines `LaidOutInLines` looks at, which it finds by their starts.

**Encoder, column.** `ColumnInv` says that the column is the one to which the last line of the output is filled (`Fills`), during a run
counting what the run has written, and also for the beginning of the run, which `Undo` returns to. The exception is `LastChar`,
which leaves the column at `line_size - 1`: the invariant has to allow for it until the call ends, and `ReturnsColumn` with it (section 4).

**Ending.** `EveryCallEnds` in both modules goes through the steps one by one. In `DecodeEnd` it needs only that the
position stays in the chunk. In `Encoder` it also needs that a run that has just been done is one that can be undone (`RunInv`), so that its bytes
do not count yet, and that a run takes `Run` steps at most. A call of the decoder takes at most three steps for each byte and two more, one of the encoder
`Run + 8` for each byte and as many again.

**YEncoder.** Between two calls the position is where the last post ended, and as long as there can be a further part the CRC is that of the
data of the posts (`Between`). A call that throws may have counted a part, and may have put its data
into the CRC when the last part is too short; then `part` has reached `parts` and no further post
comes (`SizeMismatchInv`), which is why the invariant says so only for `part < parts`. `FlattenSeq` of the community modules is recursive over the posts; `FlattenAppend`
is its equation for one more.

**Posts read back.** That `from_post` accepts a post depends on all the properties of its lines at once, so the proof follows it through:
`ReadOfLines` finds where the header lines end and which line is the last `=yend` when data of any length lies between; `LineRead` is what one
line adds to the properties if no name occurs twice; `PartRead` and `SingleRead` put the lines of the two kinds of post together; `PartIsClean` and
`SingleIsClean` go through the checks. Their hypotheses on the numbers (`WellMade`) are an invariant of the encoder: that a part begins at 1 or later,
ends within the file and spans its data is `PostsTileFile`; that it is not numbered past the total, and has the size of its data, is `PostsMade`. A part of no bytes is
the exception the property makes: it ends before it begins, which `from_post` warns of.

**Damage noticed.** A damaged text is read like any other, so the first question is what a text *without* an error or a warning says (`CleanRead`): its header lines
and one `=yend` line say of the properties what was read (`Takes`), wherever the damage has put them. For texts spliced of two posts, the same one or another, the lines before the seam say what
the one says and those after it what the other says (`SplicedAt`, `TextOf`), the header being that of the first. If the `=yend` line is the first one's too, nothing has been spliced in
that is read; if it is the other's, `from_post` compares the part numbers and the posts are the same (`SamePart`), because
`Numbered`, an inductive invariant of the encoder beside `PostsMade`, has the numbers of the posts grow, and a single post alone; the data then has the CRC of that post (`ReadFromOne`).
The range comes from the `=ypart` line, which is the post's own (`RangeFrom`). A text that has lost its beginning has no `=ybegin` line and is an error (`NoBegin`).
For a property replaced, the lines are still where they were (`WholeText`: from the data of the post being read, which no property changes). Only the `=ypart` line
matters, and what is left is arithmetic (`RangeFits`): of `begin` and `end` one is changed, the size of the data is not, and `from_post` compares it with the range, so no other range goes with the size read.
As everywhere in `FromPost`, a CRC stands for the data it is of: different data of the same CRC, which the code cannot tell apart, do not occur in the model.

TLC checks the same formulas on the instances of section 3.

## 7. What is only model-checked

- Liveness (`CallReturns`), which needs fairness and ENABLED. The safety part of it is proved for `DecodeEnd` and `Encoder`: every step makes a bounded measure
  fall (`EveryStepGetsOn`), so there cannot be endlessly many. That there is a step until the call has returned is what TLC's search for deadlocks shows.
  `DecodeNoEnd`, whose loop does not step back, has `CallReturns` alone.
- `DecodeSimd`, `EncodeSimd`, their kernels and `EqMask`: a proof needs, for each of the kernels, what its masks compute as sets of lanes of any width. The runs try every pattern of a small vector.
- The CRC modules are checked over one field. That a literal is the power the table in section 2 gives was
  computed for the real polynomial; that the algorithm is right for these powers over the
  real one is not shown, but it uses nothing of the polynomial but its degree.

## 8. What is not modelled, and the plan

- `EncodeIncr` of `yencode.cc`, which `index.js` does not export. It computes the space it needs before it has read the
  line size, and takes a column as long as the line for 0.
- CPU detection and dispatch (`platform.cc`, `*_init`): questions to the processor asked once when
  the module is loaded. Which kernel runs is any of them in the models.
- Instructions: a shuffle, a shift or a comparison is what it does to lanes; that an
  intrinsic is the right one is not shown. `StaysInBuffers` takes the stores of the blocks of the SSE, AVX2
  and RISC-V kernels and the reads ahead of all; the stores of the NEON kernel, and the vector any kernel stores with a newline, are
  in it only as far as their bytes are kept. Prefetching and the choice of unaligned loads are left out.
- The text of header lines (`FromPost`), V8 handles and memory accounting.
- The C# port, a translation of the modelled code; crcutil and hedley, third-party code.

Proofs worth adding, in this order:

1. `DecodeSimd`: `LooksWithinChunk`, which does not depend on what the masks compute.
2. `EncodeSimd`: `KnowsColumn` and the bounds of `StaysInBuffers` from facts about the cuts.
3. `EqMask`: `fix_eqMask` for masks of any width.
