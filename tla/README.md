# Formal model of maelys-json

maelys-json is a strict JSON library in C: a parser that turns bytes into an
immutable document, a writer that builds a tree and serializes it once, and
helpers around both. The library is sequential: a call runs to its end in its
caller's thread, keeps no global state, takes no lock and persists nothing. What
is hard in it is therefore not interleaving but long sequences of legal calls,
arrays that are sized once and never checked again, failures halfway through a
construction, tables whose indices go stale, and machine words at their ends.
These modules are about those.

Paths below are relative to the repository (`src/parser.c` is the library's
parser); in `PROJECT.json` they carry one more leading `src/`.

## 1. Inventory

| Component | State it keeps | Operations | What makes it correct |
|---|---|---|---|
| Parser (`src/parser.c`, `src/internal.h`) | the document under construction (bytes, tokens, arena, children), the recursion, the key set, the offset, the error | `document_parse`, `document_parse_allocation_bound` | publishes what the grammar says the input means; reports the first error and where it is; never overruns what it sized from the input's length; stays under the bound it publishes; leaks nothing on any failure |
| Document readers (`src/document.c`) | none: a published document does not change | root, type, object and array traversal, lookup, integer, string and boolean readers, release | lookup and traversal agree; integers are exact or refused; fractions and exponents are refused |
| Key set (`src/keyset.c`) | a table of indices, open-addressed, at most half full | init, contains, insert, insert_last, grow, release | behaves as a map from (parent, bytes) to an index; every probe ends |
| Writer (`src/writer.c`) | nodes, stack of open containers, pending key, key set, `finished`, sticky `failure` | create, begin/end, key, string, numbers, boolean, null, copy of a value, copy with exclusions, finish, release | the tree is what the accepted calls said; no repeated key; errors are sticky; no text leaks |
| Number syntax (`src/common.c`) | none | `number_syntax` | accepts the numbers of RFC 8259 |
| Limits and error positions (`src/common.c`) | none | `limits_resolve`, `error_set`, `error_format` | accepted limits keep every size exact; an error has the right place |
| Serializer (`src/serialize.c`) | output buffer, sorting arrays of the open objects | `serialize` | the output is JSON for the tree, in UTF-16 key order; LIMIT exactly beyond `maximum_bytes`; nothing leaks |
| Canonical check (`src/canonical.c`) | none | `document_is_canonical` | says yes exactly for what the serializer writes |
| Error pointer (`src/pointer.c`) | a stack of frames, an emitter | `error_pointer` | names the value the parser was at; never writes past the buffer |
| UTF-8 and escapes (`src/utf8.c`) | none | validation, `decode_string`, UTF-16 order | the text a literal denotes, or the first bad place; output fits the claim of its caller |
| Streams (`src/stdio.c`) | a stream and a read buffer | `document_parse_file`, `writer_finish_file` | the parser gets the whole file or none of it; everything is released |
| Convenience getters (`src/helpers.c`) | none | typed `object_get_*` | composition of two readers |
| `maelys-json-canon` (`tools/canon.c`) | input buffer, document, writer | read stdin, parse, check or write | exit status 0 means what the usage says; everything is freed |
| Bench, tests, build | | | not library behaviour |

How they interact. The parser owns a key set for the time of a call and hands it
a callback (`token_key`) that reads the token array it is still extending; the
writer does the same with `node_key`. Both link their arrays with the same
`maelys_json_links_*` functions. The parser calls the decoder for every string
and writes its output into an arena that was sized before the first byte was
read. The writer reads documents through the public readers when it copies a
value, makes the same calls a client would make, and calls the serializer in
`finish`. The canonical check walks the bytes of a published document and must agree
with what the serializer would write, though no code calls both; the error pointer
scans the input of a failed parse again and must agree with where the parser stood.
`parse_file` resolves the limits, reads, and calls the parser, which resolves them once
more. There are no messages; every interaction is a call.

`PROJECT.json` lists the hazards at the line where each bites, with the properties
that would catch it.

## 2. Modules

| Module | Models |
|---|---|
| `Links` | the tree links shared by tokens and nodes, `attach`, `chain`, `WellLinked` |
| `Parser` | one call of `document_parse`, allocation by allocation and lexeme by lexeme |
| `Document` | the readers that traverse a published document |
| `JsonGrammar` | reference: the grammar over lexemes as a set of derivations |
| `ParserMC` | what the two instances of the parser share: sample lexemes, and what a document means |
| `ParserProofs` | theorems about `Parser`: its arrays and its memory |
| `KeySet`, `KeyMap`, `KeySetMC`, `KeySetProofs` | the hash table; the map it implements; its instance; theorems |
| `Writer`, `Builder`, `WriterHistory`, `WriterMC`, `WriterProofs` | the tree builder; the contract it implements; the writer with a history of the calls; its instances; theorems |
| `Numbers`, `NumbersMC`, `NumbersProofs` | number syntax, integer readers and number copy on machine words; references; theorems |
| `Utf8` | validation, decoding and encoding of UTF-8, escapes, UTF-16 order, as operators on bytes |
| `Decoder`, `DecoderMC`, `DecoderProofs` | `decode_string`, one turn of its loop a step; sample literals; theorems |
| `TextReference` | reference: literals and UTF-8 as code points, UTF-16 order |
| `Layout` | the calls `serialize_node` makes for a node: appends, descents, releases |
| `Serializer`, `SerializerMC`, `SerializerProofs` | `serialize` running those calls into its buffer; trees, and a reader of the output; theorems |
| `Canonical`, `CanonicalMC` | `document_is_canonical`; the instance of successful parses, composed with `Document` and `Layout` |
| `Pointer`, `PointerMC` | `error_pointer`, line and column; the instance of failing parses |
| `Spelled` | lexemes that come with their bytes |
| `Limits` | `limits_resolve` |
| `Streams`, `StreamsMC`, `StreamsProofs` | `parse_file`; its instance; theorems |
| `Canon`, `CanonMC`, `CanonProofs` | `maelys-json-canon` and `finish_file`; its instances; theorems |

### Parser

The input is a sequence of lexemes, revealed one at a time: a `Scan(l)` step reads
any lexeme of `Lexemes` that can stand at this offset of an input of the declared
size (`Readable`). A lexeme carries its leading blanks, its width in bytes and what
the byte loops find in it: whether a string is closed, the position of its first
control byte and of its first escape or non-ASCII byte, what decoding answers and
where, the decoded size. So offsets, byte counts and positions are those of the
code, while the bytes are spelled only by the instances (`Spelled`). `stack` is the recursion of
`parse_value`, `pc` the place in the innermost frame; `fail` unwinds all of it at
once, as the chain of returns does.

`heap` has one entry for each block the call can hold, in bytes; every allocation
may fail. After the scan come `compact_walk` (twice: it measures, then copies; its
recursion is the sequence `walk`) and `build_children`, one child a step. `Release`
stands for the client, who may then call again. The resolved limits are constants:
a call passes one set of limits. A boolean or null token is a `"literal"`.

The key set is abstracted to the indices it holds, its count and its capacity
(`keys`, `key_count`, `slots`); `KeySet` shows that the table really is that map.

### Key set

`owner[i]` is the callback `key_of(context, i)`. Hashes are an arbitrary function
of the keys. `keyset_init` is one step for each round of its sizing loop
(`DoubleCapacity`) and one for the allocation; that `expected` is at most a quarter of
`SIZE_MAX`, which it asserts, is an assumption. `grow` is one step for each slot it
moves, and the insertion that caused it completes in `StoreGrown`. `Offer` counts the owner's elements, bounded by
`MaxElements`. `find_slot` is the smallest probe distance at which its loop leaves,
and `ProbeEnds` is the claim that there is one. `KeyMap` is seen through `map`, the
key of each entry with its index; an element whose insertion is still growing the table
has not been offered yet.

### Writer

A text is a record of what the writer asks of its bytes: its size, whether it is
UTF-8, ASCII, a number. Each public call is an action with all its early returns;
`Refuse` is a return that leaves the writer alone, `Fail` one that records a sticky
error. `texts` counts live heap copies of keys, strings and lexemes, `reachable`
those `release` will free. A copy (`writer_value`, `object_begin_except`) sets a
`job` and then runs as `CopyStep`s, each of which is one of the calls a client could
have made; a step that fails becomes `copy_failed`. The client has no turn until the
copy returns (`Idle`). Values of numbers, booleans and nulls are abstracted to the
type of their node: the writer never looks at them. The serializer is its outcome.

`DocumentAssumption` says what a published document is to a copy: the values of a
container come after it, members have keys, strings and numbers have a text. The
contract `Builder` is seen through `open_containers`: the types of the containers on
the stack, each with the keys the key set holds for it. It says which calls are accepted
and that the first error is final; it has no answers, so which error a call gets is said
by the actions of `Writer` alone. DUPLICATE_KEY needs an object that expects a key and
has one already, and only a MEMORY error takes a pending key back.

`WriterHistory` adds two history variables: the accepted calls (`events`) and what the
copy under way was asked for (`copied`). They only record. `DocumentIsFinite` adds to
`DocumentAssumption` that a document is finite and that elements have no keys.

### Numbers

Words have `UnsignedMax + 1` values and wrap. A lexeme is a sequence of byte codes;
`read_magnitude` takes one digit a step. `copy_number` is the case analysis of the
writer, including its two calls of the readers. `ReadsExactly` fixes the answer to every
lexeme; for a fraction or an exponent it is the code's answer, which is RANGE, not the
NOT_INTEGER of `json.h:279`, when the digits before it are beyond the reader's magnitudes.

### UTF-8 and the decoder

Bytes are numbers; the masks and shifts of the code are quotients and remainders.
`Decoder` makes one step of each turn of the loop of `decode_string`: a byte of the
ASCII profile, a run of raw bytes, an escape, or the end. `Utf8` has the helpers, among
them the UTF-16 units that `utf16_compare` streams. `TextReference` says the same from
the other side: which code points a byte sequence or a literal denotes, if any.

### Serializer

`Layout!serialize_node` is the sequence of calls the code makes for one node, the
sorting of its members included; `Serializer` executes it. `todo` holds the calls still
to make in all open frames. `reserve` is spelled out: the limit test, the start at 128
bytes (`InitialCapacity`), one `Double` for each turn of the loop, the reallocation and
its failure. After a failure `unwind` leaves only the releases the open frames make on
their way out. Nodes are those of `Writer`, with bytes.
`IsTree` says which node arrays there are: one linked tree with the root first, whose
strings and keys are UTF-8. `finish` accepts nothing else, and that the writer's nodes
are linked so is `WriterProofs!WriterOKHolds`.

### Canonical check

The parser's lexemes carry their spelling here (`Spelled`), so `document_bytes` is what
was parsed, and `expect` compares with it as the C cursor does. `CanonicalMC` copies the
published document into writer nodes as `writer_value` would, and asks `Layout` what
the serializer writes for them. `Parser` has one kind of literal, so the instance uses
one spelling, `null`. `value_u64` and `value_i64` are the exact readers that
`NumbersMC!ReadsExactly` shows them to be, on 5-bit words.

### Error pointer

`scan` takes one `turn` per lexeme; a lexeme counts when it begins before the error's
offset, which is the loop's test. The emitter writes byte by byte into a buffer of a
given capacity. A missing frame array and a key that cannot be decoded are arguments of
`emitted`. `PointerMC` compares the result with the parser's own stack in the step in
which the parse fails. `error_position` counts lines and columns as `error_set` does.

### Streams and limits

`Streams` follows `parse_file` call by call. A byte of a file is its position in it, so
that a byte lost, repeated or cut off would be seen in what `document_parse` gets.
`fread` (external) delivers what is asked for, or less together with one of the stream's
two flags, as ISO C has it. `Limits` keeps machine arithmetic in `capacity`, which would
wrap if the ceilings let it.

### maelys-json-canon

An input is its size, the set of its prefixes that are (canonical) documents, and the
kind of numbers in it: everything `main` depends on. The library's calls are outcomes;
`finish_file` is spelled out, with short writes and a failing flush. `fread` may stop
early at a read error, which `read_stdin` does not look for.

## 3. Runs

Passing runs:

| Run | Question |
|---|---|
| `parser_documents` | lexeme sequences over every delimiter, two keys and a number, repeated keys in nested objects, keys whose UTF-16 order is not that of their bytes, and several spellings of one value, with every allocation free to fail: does the published document denote the input (`DocumentDenotesInput`, against `JsonGrammar`), does lookup find what traversal shows (`LookupAgreesWithTraversal`), does `is_canonical` say yes exactly for what the serializer would write (`CanonicalIsWhatIsWritten`), does memory stay under the published bound (`HeapWithinBound`), does nothing leak (`NothingLeaks`), is the key set large enough from the start (`KeysetNeverGrows`)? |
| `parser_errors` | unusual lexemes (blanks, escapes, control bytes, decoding errors, cut strings, junk) under every profile, inputs too long and small limits: the arena (`ArenaFits`), what LIMIT means (`LimitMeansLimit`), the first syntax error (`SyntaxErrorIsTheFirst`), offset, line and column of every error (`ErrorIsPlaced`), the second scan against the parser's own stack (`PointerNamesValue`), buffers of capacity 0, 1, 3, the exact length and more (`PointerTruncates`), and every call returns (`CallReturns`) |
| `keyset` | colliding keys around the end of the table, growth and failing growth: probes end (`ProbeEnds`); the table is half empty, finds every stored key, and the assertions of `grow` and `insert` hold (`TableOK`); it refines `KeyMap` |
| `writer_calls` | every order of calls, valid or not, with failing allocations: array bounds and links (`WriterOK`), leaks (`NoTextLost`), the tree against the history (`TreeDenotesCalls`), refinement of `Builder`: the accepted calls are the events of one value, no object gets a key twice, nothing is accepted after the first error |
| `writer_copies` | copies of `{"a": {"b": 1.5}, "b": 1}`, of arrays and of single values between client calls, with exclusions, some of which meet text the profile cannot carry, text too long, an integer out of range or a limit: a copy that succeeds adds exactly the value (`CopyIsFaithful`), keys stay unique (`UniqueKeys`), a copy that stops midway leaves the writer failed (`FailedCopyIsSticky`), copies return (`CopyReturns`) |
| `numbers` | every byte sequence of up to 5 bytes over eight bytes, 5-bit words: syntax against the RFC's grammar, both readers exact on integers and their answer to each fraction and exponent (`ReadsExactly`), copies keep the number, nothing wraps |
| `decoder` | literals of up to three fragments (whole, cut, overlong, surrogates, escapes) under every profile: does the output fit (`OutputFits`), is it the text the literal denotes (`DecodesLiteral`), is the reported offset the first bad place (`BadOffsetIsFirst`)? |
| `serializer` | an awkward nested tree, scalars, objects of up to three keys and of five in all their orders, all flags, four limits, failing allocations: the buffer and its limit (`BufferFits`), releases (`NothingLeaks`), `LimitIsExact`, a reference reader of the output that knows UTF-16 order (`OutputReadsBack`), and every call returns (`SerializeReturns`) |
| `streams` | files of sizes around every limit and every failure on the way: the parser gets the whole file or none (`ParsesWholeFile`), releases (`NothingHeld`), the buffer, the second resolution and the sizes at the ceilings (`LimitsHold`) |
| `canon` | inputs below and at the input limit, every call free to fail: everything is freed and status 0 means delivered (`CleanExit`) |

Runs that show where the code does not do what its documentation says (each has one
finding in `PROJECT.json`, with the quoted lines):

| Run | What it shows |
|---|---|
| `numbers_fraction_copy` | a fraction whose digits before the point exceed the integer range (on 64 bits, `18446744073709551616.5`) is answered RANGE by `read_magnitude` before it has seen the point, so a copy refuses a number the header says can always be written again |
| `canon_whole_input` | the program succeeds when the part of stdin it got is a document, although stdin is not one; the trace shows a second `fread` that meets a read error and returns 0, and an input longer than `INPUT_LIMIT`, which is cut there, has the same effect |

Other disagreements of code and documentation met while modelling; the models follow the
code:

* A copy that meets text the profile cannot carry answers ARGUMENT after `copy_failed`
  has marked the writer failed (`src/writer.c:526`). `json.h:320` says
  "MAELYS_JSON_ERR_ARGUMENT never modifies the writer", `json.h:403`, of the same call,
  "Any failure marks the writer failed".
* A copied number lexeme longer than `maximum_bytes` is answered ARGUMENT
  (`src/writer.c:365`, called with that maximum at `src/writer.c:439`); the LIMIT test
  behind it cannot be reached by a copy. `json.h:402-403` gives ARGUMENT only for a "bad
  handle, or text the writer profile cannot carry".
* `finish_file` answers IO and leaves the writer's status OK (`src/stdio.c:83`).
  `json.h:320-321` says "Any other error marks the writer as failed".
* `maelys-json-canon` writes a document with a fraction and exits with 0; its comment
  (`tools/canon.c:9`) says "3 not canonicalizable (non-integer number)".
* `writer_create` clears `*out_writer` before it answers ARGUMENT for bad limits.

### Bounds, and why they are enough

* `parser_documents`: a call says which lexemes its input is made of and how long it is.
  12 bytes hold two members under the same or different keys, or an object in an object;
  21 bytes, over the alphabet for nesting, hold an object with a repeated key inside a
  value that is itself dropped by a repeated key; 19 bytes hold an object of the two
  keys in either order and a final newline. The limits are out of reach here.
* `parser_errors`: `MaxDepth = 2` and `MaxTokens = 4` are reached and passed; sizes 21 and
  22 sit at `SizeMax` of the allocation bound and past `MaxBytes`; 14 bytes hold an
  element in a member's object and a second member; `MaximumDepth = MaxDepth`, so the
  scan reaches the end of its frame array. In both runs structure sizes (88, 96, 8) are
  those of a 64-bit build, and `MinimumCapacity = 2` makes the sizing loop work for
  small inputs.
* Key set: hashes 3, 4, 7 collide in tables of 2 and 4 slots, chain through each
  other and wrap around the end; `MaxElements = 5` makes a table grow twice, and
  `SizeMax = 64` makes the size test of `grow` refuse the doubling a fifth key needs.
* Writer: `InitialNodes = 1` and `InitialSlots = 2` make the node array and the
  table grow at once; `MaxTokens = 3` is not a power of two, so the cap matters;
  `MaxDepth = 2` is reached. Copies get four nodes, the size of the largest value.
* Numbers: `UnsignedMax = 31` has two decimal digits, so the boundary, its
  neighbours and a third digit fit in five bytes with a sign or a fraction; the
  guard's arithmetic does not depend on the width (and is proved for every width).

* Decoder: the fragments sit on both sides of every boundary of the encoding (U+007F,
  U+07FF, U+D7FF, U+E000, U+FFFF, U+10FFFF) and of every escape; pairs and triples put a
  half surrogate before anything and a cut at any place. Quotes and bytes below 0x20 are
  left out: `scan_string_body` keeps them from the decoder.
* Serializer: `InitialCapacity = 2` makes the buffer double several times; limit 1
  lies below it, 11 and 50 are between lengths of the outputs and no power of two times
  it, 300 is above them all. Five keys make an odd merge at two levels.
* Streams: `SizeMax = 515` puts the byte ceiling at 257 and the token ceiling at 2;
  requests and files lie on it and on both sides of it.
* Canon: `FirstCapacity = 2` and `InputLimit = 8` make the buffer grow twice and stop.

`Numbers`, `Decoder`, `Serializer` and `Canon` model one call or one run of a program
and stop after it, so their configurations do not check deadlock; the other runs do.

### Fairness

`CallReturns` assumes weak fairness of the steps of a parse, `CopyReturns` of the
steps of a copy, `SerializeReturns` of the steps of the serializer. All of it is
sequential code that waits for nobody, so once entered it runs on. Nothing is assumed of
the client, who may never call again. The other specifications state no fairness.

### Mutants

Next to some definitions stands a variant marked *Mutant*: the same definition with
a plausible slip (a dropped guard, an uncapped doubling, a stale slot). Each property
of each passing run is violated when one of them takes the place of the original;
`PROJECT.json` pairs them.

## 4. Proofs

Proved for all values of the constants, from the assumptions named in the modules.

### What is proved

| Theorem | States |
|---|---|
| `ParserProofs!TypeCorrect` | the fields of a parse keep their types |
| `ParserProofs!ArenaAlwaysFits` | the assertion in `arena_claim` never fails: the arena is sized as `size + token_capacity + 1` |
| `ParserProofs!LimitIsALimit` | LIMIT means one of the caller's limits (or the size of the address space); the array derived from the input's length never runs out |
| `ParserProofs!KeysetCapacitySuffices` | the key set never grows in a parse |
| `ParserProofs!BoundIsUpper` | `parse_allocation_bound` is an upper bound of what a call ever holds at once |
| `ParserProofs!NothingIsLeaked` | a call that fails holds nothing, nor does a released document |
| `ParserProofs!PackedIsNeverLarger` | compaction never needs more tokens or text than the document it replaces |
| `KeySetProofs!ProbeEndsHolds` | every lookup ends, in the table in use and in the one being filled |
| `KeySetProofs!TableOKHolds` | the table is half empty, every stored index is found under its key, the assertions of `grow` and `insert` hold |
| `KeySetProofs!Refinement` | the table implements the map `KeyMap` |
| `WriterProofs!WriterOKHolds` | types, arrays and links of the tree |
| `WriterProofs!NoTextIsLost` | live copies of texts are those `release` frees |
| `WriterProofs!KeysAreUnique` | no object has two members of one key, and the assertion of `attach_node` |
| `WriterProofs!FailedCopySticks` | a copy that stops midway leaves the writer failed |
| `WriterProofs!Refinement` | the writer implements the contract `Builder`: which calls are accepted, unique keys, and a first error that is final |
| `WriterProofs!TreeDenotes` | the tree of a writer that has not failed is exactly the calls it accepted, in their order |
| `WriterProofs!CopiesAreFaithful` | a copy that succeeds adds the calls that write its value, excluded members of the outer object aside, and nothing else |
| `NumbersProofs!NumbersTyped`, `NoWrap` | for words of every width the magnitude stays within its maximum and no digit step wraps |
| `NumbersProofs!SyntaxIsTheGrammar` | `number_syntax` accepts exactly the numbers of RFC 8259, for every sequence of bytes |
| `NumbersProofs!ReadersAreExact`, `CopyIsExact` | both integer readers return the number an integer denotes, or RANGE exactly when it does not fit, and answer a fraction or exponent NOT_INTEGER or RANGE by the digits before it; a copied number is the one that was read; for words of every width |
| `SerializerProofs!SerializerInvariant` | what is written and what the calls to come write are together the text of the tree |
| `SerializerProofs!BufferAlwaysFits` | no append leaves its buffer, which stays within `maximum_bytes` or its first capacity |
| `SerializerProofs!NeverLeaks` | sorting arrays and buffer are released whichever call fails |
| `SerializerProofs!LimitExact` | success hands over the whole text, LIMIT means the text is longer than `maximum_bytes` |
| `DecoderProofs!DecodedFits` | `decode_string` has never written more than it has read |
| `DecoderProofs!DecodesText` | it writes the UTF-8 of the one text a literal denotes and refuses only literals that denote none, for every sequence of bytes and every profile |
| `DecoderProofs!RefusalIsPlaced` | the offset of a refusal is that of the first character or escape that cannot be read |
| `StreamsProofs!WholeFile`, `AllReleased`, `LimitsAlwaysHold` | what `parse_file` promises, for every file, request and width of `size_t` |
| `CanonProofs!ExitsCleanly` | `maelys-json-canon` frees everything, and 0 means delivered |

Assumptions used of the parser: every lexeme but the end has a width
(`LexemesAssumption`), a decoded text is no longer than the bytes between its quotes
(same), limits and sizes are positive. The decoded-size assumption is what
`DecodedFits` proves of the decoder. None of the invariants is inductive alone; what
follows is what each needs, and why.

### Parser: arrays

`Inv` of `ParserProofs` adds:

* `Fresh`: before the key set is ready nothing has been read;
* `Counting`, the heart: every token has consumed a byte (`Len(tokens) <= offset`),
  the text kept is at most a byte for each byte read and a NUL for each token
  (`arena_used <= offset + Len(tokens)`), and all keys but the pending one have the
  token of their value (`2 * key_count + 1 <= Len(tokens) + Pending`), which against
  `2 * expected_keys <= slots` is why the table never grows;
* `Outcome`: a call that goes on has not failed;
* `Naming`: the stack and the key set name tokens;
* `Linking` and `Walking`: links, frames of `compact_walk` and of `build_children`
  stay within their arrays, which types the compacted document.

Each action has a lemma that it preserves `Inv`; `NextStep` combines them.

### Parser: memory

The bound is computed before the parse from the capacities, and counts the packed copy
of a document with repeated keys as no larger than the document itself. `compact_walk`
allocates what it measures, so the bound holds only if the walk meets no token twice.
That is a fact about the tree, and is carried through the parse:

* `Ordering`: tokens are in preorder (links lead forward, and what follows the next
  sibling of a token is not in its subtree), and the open containers are those no later
  sibling has closed, which is what `attach` needs to keep it so;
* `Texts`: there is a function of running sums of the tokens' texts below `arena_used`
  (a witness in the invariant, in the place of a sum by induction);
* `Visiting`: every frame of the walk stands at a token behind the ones counted, an outer
  frame behind the whole subtree of an inner one, and the text counted is below the
  running sum at every frame;
* `Sizes`, `Held`: which arrays and blocks there are in each phase, and how large;
* `Bounded`: the bound was taken for some capacity out of `Doublings`, the set the sizing
  loop runs through, and the loop that sizes the real table, run again, stops no later.

### Key set

`Inv` says of the table in use that it is well placed: the lookup of the key of every
entry ends at that entry. Storing at the slot where a lookup of a new key ended disturbs
no other lookup, since it fills only an empty slot at which no stored key's lookup
stopped. `Growing` says of the table being filled that it is well placed too, holds
exactly the indices of the slots already moved, as many of them, and that the element
being inserted is in neither table; this is why the rehash meets no duplicate and
`StoreGrown` ends at an empty slot. Half of the table is free by the count, so an empty
slot exists and every probe sequence, which runs through all slots, ends. The
refinement has one lemma for each action: sizing and rehashing leave the map alone.

### Writer

`TreeInv` has, besides `ArraysFit`, `TreeWellLinked`, `UniqueKeys` and `NoTextLost`:

* `Rising`: the stack goes up, so the parent a node is attached to is the last one open
  and the new node, the last of the array, is its last child. The lemma `AttachLinked`
  shows from this that `attach` keeps the links what they should be;
* `KeysHeld`: until a call has failed the key set holds exactly the nodes with keys, so
  a key it does not know is in no node. A failure may leave a node counted with its key
  and not in the set; nothing is attached after that.

`JobInv` says of a copy that it works on a writer that has not failed, and of one whose
call failed that the writer has failed too, unless the call only refused its argument;
`copy_failed` then makes that sticky. Each call is shown to keep the invariant and, in
the same lemma, to be a step of the contract (`Good`).

### Writer: the calls a tree stands for

`tree_events` is recursive: the calls of a node are its begin, those of its members, each
after its key, and its end unless it is still open. A node that joins changes the calls of
every open container, so the invariant has them all. `Record(nodes, stack, K, E)` says
that `K[i]` is the chain of the members of node i, `E[i]` the calls that follow from those
of its members, and that the stack is a spine: every open container is the last member of
the one outside it. `HistInv` is that such a record exists and that `E[1]`, followed by
the pending key, is `events`. Then

* only the last member of a node can be open, and only outside the innermost container
  (`OpenMember`), so what is said next is added to the end of the calls of every node on
  the spine and to no other (`Grown`, `PartsGrown`, `NodeGrown`);
* `attach` makes the new node the last of the chain of its container and leaves all other
  chains as they are (`ChainLonger`, `ChainKept`);
* each call is one of a few effects (`Effect`): it is refused, breaks the writer, gains a
  node (`RecordGets`, `RecordRoot`), ends a container (`RecordEnds`) or keeps a key, and
  exactly the accepted ones are recorded (`EventsAfter`).

`RecordIsTree` shows that the record is what `tree_events` computes: chains and calls are
the only solutions of their equations, since members come after their container.

### Writer: copies

`CopyInv` says of a copy under way that `events` is A followed by W, where A is what had
been recorded when it began, and that W followed by what is still to say is the target,
`document_events` (`Progress`). What is still to say (`Pending`) is the value in `todo`,
then frame after frame, the innermost first, what the members it has not visited give and
its end (`Left`); the outer frame of `object_begin_except` gives no end and its excluded
members give nothing. Each step of the copy takes the next call from the front (`Says`) or
leaves the sequence as it is (`Quiet`: an excluded member, an array element). With no
frame left to run nothing is still to say (`NothingLeft`), so W is the target.

### Serializer

The calls for a tree are a recursive function of it, and the text of the whole is again
one. `SerializerInv` has:

* `Told`, the heart: the content of the buffer, followed by what the calls of `todo` will
  say, is the whole text. What a call says is its bytes, and for a descent the text of
  its node, which exists for every tree since children come after their parent
  (`TextExists`). A descent replaces its text by that of the calls of its node, an append
  moves bytes from one side to the other. At the end nothing is left to be said;
* `Counted`: two arrays are held for every release in `todo`, since the calls for an
  object with members contain one release of their own (`NodeShape`), and `unwind` keeps
  exactly the releases (`Unwound`);
* `Fits`: a capacity is looked for only on behalf of an append within the maximum, so
  doubling ends within it, and needs no more than the size of that append;
* `Started`: until there is a buffer the next thing written is not empty, so that a
  successful call has one to hand over.

`NodeShape` rests on lemmas on what `serialize_string`, the decimal digits of an integer
and the merge sort return: sequences of appends, and a permutation of the members'
positions.

### Decoder

The invariant behind `DecodedFits` is `OutputFits` with the types of the variables; its
core are lemmas on what an escape costs and yields: an escape below the supplementary
planes is six bytes for at most three, a pair twelve for four.

What a literal denotes is a recursive function in `TextReference`: the texts of the first
j bytes are those of the first i with the code point of the item from i to j, for every i
where such an item begins. `Means` says of a decoder at work that

* the bytes consumed make exactly one text, and no item that begins before reaches past
  them (`Reached`), so every longer literal goes on from here;
* the output spells that text (`Spells`): cut into UTF-8 forms in the only way there is,
  it gives its code points;
* a refusal stands where no item begins (`Halted`), from which no longer prefix of the
  literal makes a text (`ChainsGap`).

`ChainsStep` carries it over one item, given that no other item begins at the same byte
(`Only`). That there is at most one, and that it is what the code reads, is shown for raw
characters (`RawAt`, from `FormAt`: `sequence_size` finds exactly the shortest forms of
scalar values), for letters (`LetterAt`) and for `\u` escapes and pairs (`PointAt`); that
`encode_utf8` writes the form of a code point is `EncodeSpells`. A raw run is many items
in one step: `RunRead` follows `utf8_valid_prefix` through it, and `SizeInRun` shows that
the run, which ends before a backslash, cuts no character. In `CONTRACT_ASCII` (`Copying`)
the output is the input.

### Induction and recursion

The prover cannot use induction theorems that are parametrised by an operator. Where a
proof needs one, it goes through sets: a non-empty set of naturals has a least element
(`LeastNumber`), so a set that contains a number whenever it contains all smaller ones
contains them all (`NumbersInduction`, `MeasureInduction`); the set is then the set of
numbers for which the statement holds. `RecursionExists` and `RecursionUnique` give, for
a recursive function whose argument goes down in some measure, that the equation which
defines it has exactly one solution, so that the CHOOSE behind the definition has its
values.

### The others

`NoWrap` rests on `GuardSuffices`: the test `magnitude > (maximum - digit) / 10` passes
only if `10 * magnitude + digit` fits. `ReadersAreExact` needs the converse too
(`GuardNecessary`), and that the value of the digits read so far never decreases
(`PrefixesGrow`), so that a number refused at one digit is out of range as a whole;
in a number with a fraction or an exponent the digits stop there (`IntPart`), and the
same two facts decide which of its two answers it gets. `ReadInv` says that the magnitude is the value of the prefix already read.
`SyntaxIsTheGrammar` shows that each run of digits the code skips is the one the
grammar's split has (`RunEndsOnce`), in both directions.

The invariant of `Streams` says at each place of the call what is open and allocated
(`Places`), that the buffer is the part of the file already read, that a call past its
argument check works with limits that were accepted, and what the stream's flags tell:
the end-of-file flag is set only with the whole file read. `LimitsAlwaysHold` rests
on accepted limits having no zero field, so that they resolve to themselves, and on the
ceilings of `limits_resolve`.
The invariant of `Canon` says what is held at each place of `main`, and that status 0
past the writer means delivery.

### Only model-checked

* Liveness (`CallReturns`, `CopyReturns`, `SerializeReturns`): fairness and ENABLED are
  outside the prover's reach.
* What is stated against a reference or against a recursive operator of the whole
  system: `DocumentDenotesInput`, `SyntaxErrorIsTheFirst`, `CanonicalIsWhatIsWritten`
  and `OutputReadsBack` (whose references or models are RECURSIVE operators, which the
  prover's SMT backend does not survive), `LookupAgreesWithTraversal`, `ErrorIsPlaced`,
  `PointerNamesValue`, `PointerTruncates`.

## 5. Not modelled, and why

* `error_format`, `result_string`, what the tools print to stderr: wording.
* `value_boolean`, `is_null` and the typed getters other than `object_get_string`: they
  hand out one field of a token, whose value `Parser` abstracts. The integer readers are
  modelled on lexemes in `Numbers`.
* `maelys-json-bench`: a timing loop; its results are measurements.
* The hash function itself, allocator behaviour beyond success and failure, tests,
  fuzzers, build and packaging files.

Where one component appears inside another it is the outcome its own module has: the
decoder in `Parser` (the lexeme says what decoding answers), the key set in `Parser` and
`Writer`, the serializer in `Writer`, the parser in `Streams` and the library in
`Canon`. `Canonical` and `Pointer` are composed with the parser itself.

## 6. Plan

Done, in this order: `Links`, `Parser`, `Document`, `JsonGrammar` and their proofs;
`KeySet` against `KeyMap`; `Writer` against `Builder`; `Numbers` and its proofs; `Utf8`,
`Decoder`; `Layout`, `Serializer`; `Canonical` and `Pointer` on the parser;
`Limits`, `Streams` and `Canon` with their proofs; the proofs about `KeySet`, about the
memory of `Parser` and about `Writer`; the correctness of `Numbers`, the proofs about
`Serializer` and the correctness of `Decoder`; the record of the calls of `Writer` and its
copies.

Left to prove: of `Parser`, the part of `LookupAgreesWithTraversal` that is about one
container (the slice of the children array that `build_children` gives it lists exactly the
tokens linked to it, in order, and no two of its keys are equal).

## 7. Running

    tlc -config ParserErrors.cfg PointerMC       # and so for every run
    tlapm ParserProofs.tla                       # and so for every *Proofs module
