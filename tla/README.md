# jsonlite in TLA+

jsonlite converts between JSON and R. Its core is C: the yajl library (a lexer,
a push parser, a tree builder and a generator, changed in places for this
package) and the functions that join it to R. The R code above streams records,
simplifies lists and writes JSON. These modules model the part of it that has
state, that is fed in pieces, or that may fail half way.

Paths below are those of the repository; `yajl/` is short for `src/src/yajl/`.

## The system

| Component | State | Operations | Works with |
|---|---|---|---|
| lexer, `yajl/yajl_lex.c` | `buf`, `bufOff`, `bufInUse`: the beginning of a token held back from earlier chunks; the position in the chunk; `error` | `yajl_lex_lex` | called by the parser, once per token |
| parser, `yajl/yajl_parser.c`, `yajl_bytestack.h`, `yajl.c` | the state stack, `parseError`, `flags`, `bytesConsumed` | `yajl_parse`, `yajl_complete_parse`, `yajl_config` | asks the lexer for tokens, calls back the client, which may cancel |
| tree builder, `yajl/yajl_tree.c` | `context_t`: open containers with their keys, the root | nine callbacks, `yajl_tree_parse`, `yajl_tree_free` | a client of the parser |
| push parser, `src/push_parser.c` | a handle per call; one **global** context, `mem_ctx` | `R_parse_connection`, `push_parser_new`, `push_parser_get` | `readBin` (R code) for chunks, the tree builder as client |
| generator, `yajl/yajl_gen.c` | depth, a state per level (128 of them), the text written | `yajl_gen_*` | called by the callbacks of prettify |
| prettify/minify, `src/prettify.c` | the generator and a handle | `R_reformat` | parser and generator joined by callbacks |
| validate, `src/validate.c` | a handle | `R_validate` | parser without a client |
| streaming, `R/stream.R`, `R/apply_by_pages.R` | a connection, the pages read so far, `count`, `on.exit` | `stream_out`, `stream_in` | `asJSON`, `parseJSON`, the user's handler |
| strings, `src/escape_chars.c`, `yajl/yajl_encode.c` | a loop over the text, the memory counted or grown, a cursor that writes | `C_escape_chars_one`, `yajl_string_encode`, `yajl_string_decode` | toJSON, prettify, the lexer's string tokens |
| buffers, `yajl/yajl_buf.c` | capacity and length | `yajl_buf_append` | lexer, generator, decoder |
| joiners, `src/collapse_array.c`, `collapse_object.c`, `collapse_pretty.c` | the same | `C_collapse_*` | toJSON |
| base64, `src/base64.c`, `R/base64.R` | the same | `base64_encode`, `base64_decode`, `base64url_enc`, `base64url_dec` | raw vectors in toJSON |
| numbers, `yajl_parse_integer`, `src/modp_numtoa.c`, `src/num_to_char.c` | an accumulator in `long long`, or the digits written backwards | `yajl_parse_integer`, `modp_itoa10`, `modp_dtoa2` | tree builder; toJSON |
| error texts, `yajl_render_error_string` | an array of 72 bytes on the stack | `yajl_render_error_string` | the parser's offset and the caller's chunk |
| values, `src/parse.c` | none | `ParseValue` | the tree |
| simplification, `R/simplify*.R`, `src/transpose_list.c`, ... | none | `simplify`, `flatten`, `rbind_pages` | R lists |
| writing, `R/asJSON.*.R` | none | `toJSON` | R objects |
| serialisation, `R/pack.R` | none | `serializeJSON` | R objects |

What is hard in it:

* **Text comes in chunks.** A chunk may end inside any token: in a number (is
  `1` complete?), in `\u00`, in a UTF-8 sequence, in a comment. `unreadChar`
  has to guess whether the last character came from the chunk or from `buf`.
* **Several stacks move together**: the parser's states, the builder's open
  containers, the generator's levels. They agree by convention only; the
  assertions that say so are compiled out of a release build.
* **Anything may fail half way**: an allocation in a callback, a callback that
  cancels, an R error in `readBin`, in a handler or in a record.
* **R code runs in the middle**: between two chunks `readBin` may run any R
  code, also `fromJSON` on another connection, while the context is global.
* **Boundaries**: the depth of the generator, the last page of a data frame, the
  end of the text with the beginning of a token held back, the limits of
  `long long`, of `int` and of the integers that a double holds.
* **Memory is counted in one loop and written in another**, or computed by a
  formula: quotes, separators that are taken back, line feeds, padding and the
  NUL all have to be in the count.
* **Writers and readers are different code**: `C_escape_chars_one` and
  `yajl_string_encode` write what `yajl_string_decode` reads, `modp_itoa10` what
  `yajl_parse_integer` reads, `base64url_enc` drops what `base64url_dec` restores.
* **Lines arrive late**: `stream_in` takes a short page for the end of the file.

There are no threads and nothing is persisted. The interleavings are those of
chunks, callbacks and nested calls.

## Modules

`YajlLexer` — one step reads one character. `scan.at` names the place in the C
code: `top` is the switch of `yajl_lex_lex`, `string`, `escape`, `hex`, `utf8`
are places of `yajl_lex_string` and `yajl_lex_utf8_char`, `number`, `minus`,
`zero`, `int`, `point`, `frac`, `exp`, `expsign`, `expdigits` of
`yajl_lex_number`, and `slash`, `line`, `block`, `star` of `yajl_lex_comment`.
Every place is one where the code checks for the end of the chunk, so a chunk
may end at each. `readChar` and `unreadChar` are the two macros; `Lexed` is the
label `lexed`, where a beginning is saved or a token completed. Characters are
abstracted to those the code tells apart: `tab` stands for `\t` and `\r`, `vtab`
for `\v` and `\f`, which the lexer skips although JSON does not allow them, and
`ctrl` for the control characters that it refuses. `LexGrammar` is the reference: what
the words of JSON are and what the beginning of one is, with no notion of a
chunk. It is written on positions in a word, and the body of a string is a chain
of units from one position to the next (`Reached`, a recursive function), so that
theorems can be about it. `LexerWords` states in its terms what the tokens, the
errors and the text held back have to be.

`YajlParser` — one step is one turn of the loop `around_again` of
`yajl_do_parse`. The lexer is abstracted to the tokens it may deliver and to
whether it holds one `unfinished`; the client is abstracted to whether a
callback returns "go on". `Parse` and `CompleteParse` enter the loop, `EndChunk`,
`Finish`, `Refuse` and the errors leave it. A handle may be called again after
it has failed. The reference is the JSON grammar on tokens, written twice and
compared by TLC (the `ASSUME`s of `MCYajlParser` and `MCTreeParser`).
`JsonTexts` generates: a table of the phrases of each rule by their number of
tokens, each with its text and the values it lists; it is a recursive function,
so the theorems are about it. `JsonGrammar` recognises, with `RECURSIVE`
operators, and is what `MCHandle` asks. `ParserTexts` states what the parser
accepts and rejects in terms of `JsonTexts`.

`YajlTree` — the callbacks of the tree builder as operators from a context to
the context they leave and what they return. A context counts the blocks that
are allocated.

`TreeParser` — `YajlParser` with `YajlTree` as client: `yajl_tree_parse`. `mem`
says which allocation of the callback fails: the first, the one that attaches what
the first has made, or the second of the two arrays of an object. `TreeFree` adds what
`yajl_tree_free` gives back, and `TreeTexts` compares the tree with the value of
the text. The C function frees the values of a container by calling itself;
`TreeFree` counts blocks by levels instead: `BlocksByLevels[n]` is defined on the
trees of at most n levels, from `BlocksByLevels[n - 1]` for their values, and
every level of a tree takes a token.

`PushReader` — `R_parse_connection` on top of `TreeParser`: a handle for each
call, one context for all, chunks from `readBin`, R errors. `suspended` holds
the handles of calls in whose `readBin` the current one runs. `ReaderTexts`
compares what a call returns with the text it has read.

`YajlGen` — the generator as operators. `Reformat` joins it to `YajlParser`:
`R_reformat`, with one action per callback.

`Handle` — lexer and parser together, on characters, as `R_validate` uses them.
It is an `INSTANCE` of both; `unfinished` and `consumed` of the parser are
defined from the lexer's `buf` and tokens. It implements `YajlParser`.
`bytesConsumed` is the lexer's offset, but for the one error after which the
parser goes back by the length of the token.

`Streaming` — `stream_out` and then `stream_in` on one file, page by page, with
an error possible at any page, and `on.exit`. `open` may fail, which ends the
function before its `on.exit` is registered. Lines of the file arrive one by one
(`Arrive`, the external side of the connection). `readLines` of a connection that
blocks returns when it has a page or the whole file (`Returns`); one that does
not block returns what has arrived, and a short page ends the loop.

`Conversion` — what the functions that turn one text into another share: the
loop over `input` at `cur`, the count so far (`counts`, one entry per element
seen, so that the writing loop can be compared with the counting one), the memory
reserved (`size`), the memory written (`out`) and the number carried along
(`acc`). A step is one turn of a loop. Each of the following modules extends it:

* `EscapeChars`: `C_escape_chars_one`, with its two loops and `</` written `<\/`.
* `YajlEncode`: `yajl_string_encode` and `yajl_string_decode`, which copy in
  stretches between escapes; `\u` pairs; `?` for a high surrogate alone.
* `YajlBuf`: `yajl_buf_ensure_available`, with `size_t` of any even width, so
  that sums, differences and doublings wrap where the code's do, and `abort()`.
  `BufFits` asks that the capacity stays above the length *while it grows*: a
  doubling that wraps to 0, after which the loop never ends, breaks it.
* `Base64`: encoder, decoder, and the two `chartr`/`sub` of base64url.
* `Collapse`: the five joiners, which differ in what they reserve for an element
  and besides, how they open, and how they take the last separator back.
* `Numbers`: `modp_itoa10`, `modp_dtoa2` with `R_num_to_char` around it,
  `yajl_parse_integer`, and what `handle_number` and `ParseValue` make of the
  result. A double is a whole number of `Parts`, a power of two, so its
  arithmetic is exact and ties are ties.
* `ErrorText`: `yajl_render_error_string`.

`Conversions` has them call each other as the package does (`HandOver`): what
toJSON has written is read by fromJSON, a string possibly after any number of
turns through prettify, a raw vector through a string, and `abort()` or an R
error ends the call. `origin` is the value that went in. `Meanings` says what digits
denote, and which type holds a number, for the properties about numbers.

The `MC...` modules are the small instances. Operators with a comment that
begins with "Slip" are plausible mistakes in the definition that follows them:
each property of a passing run is violated when one of them takes the
definition's place (the list `mutants` of `PROJECT.json`). No module uses them.

## Runs

| Run | Question | Bounds |
|---|---|---|
| `parser_grammar` | Does the state machine accept the JSON texts and no others, cut anywhere, with callbacks that cancel and calls on a failed handle? | 8 tokens: `{ } [ ] , :`, a string, a number, a lexical error; no option, and allow_multiple_values |
| `tree_text` | Is the tree the value of the text? Can everything be freed, unless an allocation has failed? | 9 tokens, so two pairs in an object or three levels; two strings, a number; any allocation fails |
| `lexer_chunks` | Are the tokens the longest words of the text, wherever it is cut, and the errors justified? | texts of 4 fragments for numbers, 3 for strings and for the rest, with and without comments, every kind of space among them; every way to cut them |
| `handle` | Is a valid text ever rejected? Is what is accepted valid? Does the parser with this lexer behave as `YajlParser` says? | texts of 3 fragments of up to 5 characters, tab and `\v` among them, cut anywhere |
| `reformat` | Is the output of prettify the text? When is a text refused? | 8 tokens, a generator of 4 levels |
| `reader` | Does a call return what it read, whatever the call before it left? | 7 tokens in all calls' texts, two calls one after the other, any allocation and `readBin` may fail |
| `stream` | Is every row written and read once and in order? Is the connection left as it was? Is a file read to its end, however late its lines arrive? | 5 rows, pages of 1, 2, 3 and 7, up to 3 lines in the file before |
| `conversions` | Does every function stay in its memory? Is what is written read as the same value? Are escapes, integers, decimals and joined texts what they should be? | strings of 4 of 7 characters, escapes of 3 items, raw vectors up to 13 bytes, decoder texts of 4 and 7, `long long` of 8 bits, `int` of 6, exact doubles to 64, doubles in sixteenths, 3 elements, 3 pieces in a `size_t` of 64, a window of 3 in a line of 10 |

`handle_tail`, `handle_offset`, `reader_leak` and `reader_nested` end in a
violation; see Findings. The texts of `handle_tail` and `handle_offset` have no
space but the blank, so that what they show is not the matter of `\v`.

The bounds reach every action, and the interesting combinations: an object with
two pairs needs nine tokens, a stack of three levels six, a generator of four
levels is full at the fourth, 5 rows in pages of 2 leave a shorter last page and
in pages of 1 an exact multiple; a `\u` escape is cut at each of its digits.
In `conversions` the machine's limits are small constants: numbers of four
digits pass both ends of an 8-bit `long long` and every digit at the end is
tried; raw vectors of 13 bytes are broken over lines of 8 characters twice, with
every kind of padding; pieces of 0 to 63 bytes make a `size_t` of 64 wrap in the
sum and stop in the doubling; every offset of texts shorter and longer than the
window is shown; strings of four hold every pair of `<`, `/`, quote, backslash and
control character.
Deadlock is checked where the system never stops (a parser can always be called
again) and not where it does: a text that has been read, a call that has
returned.

Fairness is weak fairness of the steps of one call (`YajlLexer`) and of the
program (`Streaming`): one thread runs until it returns. Nothing is assumed of
the client, who may stop calling at any time; `Ends` assumes that the file has an
end and that its lines arrive (weak fairness of `Arrive`): a `readLines` that
blocks on a connection that never delivers does wait for ever.

## Findings

* `handle_tail`: `validate('1"')` is `TRUE`. After the value, `yajl_do_parse`
  accepts the end of the text also when the lexer holds the beginning of a
  token, and the single space of `yajl_do_finish` does not end a string. There is a
  second way to be accepted wrongly: `validate("1\v")` is `TRUE`, because
  `yajl_lex_lex` skips `\v` and `\f` (`yajl_lex.c:539`), which are no space of JSON.
  The run `handle` shows that there is no third: what is accepted is JSON, but for
  `\v` or `\f` between its tokens and a string after it that never ends, alone or
  together (`AcceptsOnlyNearlyJson`).
* `handle_offset`: an error found at the end of the text has an offset in the
  space that `yajl_do_finish` feeds, 0 or 1, not in the text.
* `reader_leak`: on an error `R_parse_connection` frees the handle only; the
  values built so far stay allocated. `yajl_tree_parse` frees them.
* `reader_nested`: a call of `fromJSON` on a connection, made by R code that
  runs inside `readBin` of another such call, shares its context. The
  assertion `ctx->root == NULL` of `yajl_tree.c:239` fails; a release build has no
  assertions and goes on. The run ends there.

One more thing the code does is stated by no property: a callback that fails for
lack of memory gives up what it holds, a container for which there is no
`stack_elem_t`, a value, or a value and its key for which an array cannot grow. The
cleanup of `yajl_tree_parse` (`yajl_tree.c:464`) frees the stack and the root, which
do not reach these. `NothingLost` therefore asks less after such a failure, and since
it counts blocks, one given up could hide one that has two owners there.

## Proofs

TLAPS proves what follows for every set of tokens, length and depth of text,
options and allocation failures, and for every set of texts and every way to cut
them. The bounds of the runs (`MaxTokens`, `MaxCalls`, `MaxRows`, ...) are
constants of any value here.

`Induction` holds what several proofs need and the library states in a form the
provers cannot use: induction on natural numbers for a *set* of numbers, and the
existence and typing of functions that are defined by recursion on them. It rests
on the order of the natural numbers being well founded.

**Parser** (`YajlParserProofs`). `TypeCorrect`, `StackMirrorsNesting` and
`ErrorsAreFinal` have the inductive invariant `TypeOK /\ StackShape`, with the
flags fixed. Every step does one of four things to the stack (lemma on
`StackEffect`): leave it, set its top, advance the top and push a level, or pop
the top of an inner level. Each preserves `WellFormed`: a pop uncovers a level
that was advanced when its child was opened.

`OnlyJsonIsAccepted` and `EveryJsonIsAccepted` say that the state machine decides
the JSON grammar. The invariant `TextInv` says that the stack tells exactly which
texts complete the one that was read: a continuation r makes JSON of
`consumed \o r` if and only if r is a text of `Rest` of the innermost state, then
one of `Rest` of the state below it, and so on (`Expects`). `After(t, A)` is what
may follow the token t in a text of A; the step that reads t leaves a stack whose
rests are `After(t, ...)` of those before. Where `After` is empty the parser
fails, which gives both directions. That the rules of the table say what the
grammar says for texts of any length is an induction on the number of tokens.
`AcceptsOnlyJson` is about clients that do not set `allow_partial_values`, which
is there to accept less than a text.

**Tree** (`TreeProofs`). `TreeParserIsAParser`: the parser with the builder
as client implements the parser with any client, so the theorems above carry
over. `StacksMoveTogether` has the inductive invariant `TreeInv`: the parser's
invariant, the two stacks in step, no error but lack of memory, and a root after
success. Being in step is what makes the handlers' errors about the order of
callbacks unreachable (`BuilderNeverBlamesParser`) and is needed for
`SuccessYieldsRoot` and `RootIsAssignedOnce`.

`TreeIsTheTextHolds`: the tree is the value of the text. The invariant
`TreeTextInv` adds to `TreeInv` and `TextInv` that the text that was read can be
cut into one piece for each open container (`Spells`). The piece of an outer
container, with the keys and values that it holds, is a phrase that waits for the
value of its last key or for its next element (`Waiting`); that of the innermost
is a phrase that the parser's state tells (`Begun`). A token extends the last
piece, opens one, or closes one, which makes a value that the piece before then
lists.

**Blocks and connections** (`TreeProofs`). `NothingIsLost`: unless an
allocation has failed, the blocks allocated are those reachable from the stack
and the root; after one they are at least as many. The invariant `BlocksInv` keeps the levels of the trees as well:
after n tokens the i-th open container has at most n - i + 1 levels (`Levelled`),
so the table of blocks by levels has them all; a tree has the same count at every
depth of the table (`LevelsContained`), and adding a value to a container adds
the blocks of that value, with those of the arrays when it is the first. After a
failed allocation it says `Reachable(ctx) <= ctx.blocks` (`Spared`): a failing
handler never frees or gives to two owners what is still on the stack or under the
root. `KeyDropped` is the one case where the stack changes as well.

`ResultIsTheTextHolds`, `RootIsThereHolds`, `SuccessFreesAllHolds` and
`RootIsFreeHolds` are about any number of calls of `R_parse_connection`, one
after the other, ended by a result, by an error of JSON or of memory, or by an R
error in `readBin`, which leaves the global context as it is. Their assumption
`MaxNested = 1` says that `readBin` does not itself call `fromJSON` on a
connection; where it does all four may fail, as `reader_nested` shows. The
invariant `ReaderInv` says that while a call runs the handle and the context are
those of a `TreeParser`, for which `TreeTextInv` and `BlocksInv` hold: a new
handle and a context filled with zeros are its initial state, and every step of a
call is one of its steps.

**Lexer** (`YajlLexerProofs`). `UnreadIsExact` and `PiecesFit`. The invariant
`LexInv` says where the positions can be: the chunk is not touched before `buf`
has been read to its end, so `*offset > 0` and "the last character came from the
chunk" are the same thing wherever a character is given back.

`TokensFollowTheText`, `ErrorsAreTrue` and `BeginningsAreHeldBack` say that the
lexer decides the grammar of words, for every text and every way to cut it:
tokens are the longest words, in order, with only space and comments between
them; an error is reported only where no word goes on; `buf` keeps the beginning
of the next one. Their invariant, `WordsInv` on top of `LexInv`, is about three
places in the text: where the last token ended, where the current one begins
(`TokenStart`), and the cursor, which is in `buf` or in the chunk. Space and
comments lie between the first two, and what lies between the last two, `Read`,
is what the place in the code says (`Begun`): at `frac`, an integer, a point and
at least one digit; at `hex`, a string up to an escape with so many digits; at
`star`, a comment up to a star. `buf` by itself is the beginning of a word and not
yet a whole one (`Unfinished`): reading it again in the next chunk comes to its end
and goes on from there.

The step lemmas join that to the grammar. One more character keeps `Begun` or
completes a word; where the code gives a character back, the word with it begins
nothing (`NumberIsStuck`, `StringIsStuck` and so on, one for each kind of
beginning), hence the token is the longest; and every beginning has a completion
among a few words (`BegunIsUnfinished`). Units of a string cannot overlap, so
where a chain of them ends is determined by the characters alone, and a word is
at most one kind of beginning, told by its first character.

**Handle** (`HandleProofs`). `HandleIsALexer` and `HandleIsAParser`: lexer and
parser together implement each of the two alone, for every set of texts without
comments and every way to cut them. What ties the two is small (`ScanInv`): the
lexer delivers nothing, says `eof` or names a token, and a step that delivers
nothing leaves alone what the parser sees, `buf` and the tokens. So what is
proved of the parser with any lexer holds with this one: `HandleAcceptsOnlyJson`
and `HandleAcceptsEveryJson` say it of `validate()`, where "the text" is the
sequence of tokens that the lexer read. `HandleTokensAreTheText`,
`HandleHoldsABeginningBack` and `HandleUnreadIsExact` carry over what is proved of
the lexer: the tokens are the words of the characters, and what is left in `buf`
at the end is the beginning of one. The parser forgets that last part when a value
is complete, see `handle_tail`.

**Prettify** (`ReformatProofs`). `ReformatIsAParser`: the parser with the
callbacks of prettify implements the parser with any client. `ReformatInv` adds to
the parser's invariant that the generator is typed, that its states and the
parser's agree level by level (`Synced`), that the output is the tokens read
so far but for the separator a value still has to write (`Calls`), and what a
cancelled or finished call has left. Agreement is what makes "keys must be
strings" and "in error state" unreachable in the generator, so that depth is
all that is refused (`OnlyDepthIsRefusedHolds`); with the output it gives
`OutputIsInputHolds`. `YAJL_MAX_DEPTH` is any positive number.

**Streaming** (`StreamingProofs`). `WrittenInPagesHolds`, from the invariant that
the file is what was there and the rows of the pages written, with the arithmetic
of division into pages (`PageExtends` and the lemmas after it);
`StopsAtTheEndHolds`, from what a short page says of the lines that have arrived;
`ConnectionAsFoundHolds`, from `on.exit` being registered exactly where the
function has opened the connection, and the connection being closed where it could
not. `DeliveredInOrderHolds` needs that leaving
out blank lines page by page leaves out those of the file (`FilterJoins`, an
induction on the length of the page), and that the pages bound together are the
lines read so far (`Bound`), whether a handler takes them or they are kept.

**Numbers and memory** (`ConversionsProofs`). `ParsesExactlyHolds`: the invariant
says that the accumulator is the value of the digits read, that the digits denote
a value in `long long`, and what has been seen where the function gives up. The
tests before the multiplication and before the addition are what keeps it
inductive, for each sign with its own limit. `FitsHolds`, for every length of text,
size of buffer, line length, window and indentation: each function that reserves
memory has an invariant of its own, void while another runs: the count at the
cursor plus what is written besides (`EscapeInv`, `DecodeInv`, `JoinInv` with the
`Gap` that an element takes beyond its count), lines against characters
(`EncodeInv`), the length below the capacity (`BufInv`), the columns of the line
(`RenderInv`). The solver's theory of sequences gives `Len` a natural value for
any argument, so `input` and `out` are typed only where their elements matter.

**Values** (`ConversionsProofs`). `TypesHoldValues`: the invariant `NumberInv` says
that `modp_itoa10` has written the digits of the quotients by ten that it has taken
(`Divides`), so that backwards and with the sign they denote the integer, and that
`yajl_parse_integer` has seen the number that the characters up to the cursor denote
(`Amount`). `TypeIsChosen` does the rest by cases of the three widths.

`ValuesReadBack` is `ReadBack` for every string, raw vector and integer. For strings
the invariants `EscapeText`, `EncodeText` and `DecodeText` have one idea in common: a
text spells a string (`Spells`) if there are positions that cut it into pieces, one
for each character, and each piece stands for its character (`Stands`): itself, a
letter or a solidus behind a backslash, or `\u00` and two digits of either case. The
writers, each with its own choice of pieces, append one piece for a character; what
they still have to copy since the last escape is added (`Copied`). The reader is
always at the position of some n-th piece and has the first n characters. Nothing is
asked of who has written the text, so prettify, which writes the same string with
other pieces, and the reader can take turns. `SafeText` follows from the pieces: none
begins with a quote or a control character, and a slash behind `<` has a backslash.

For base64 (`Base64Text`, `Base64Bytes`) the j-th letter of the text is the j-th
`Symbol` of the bytes, whatever stands between the letters (`Counted`): a sextet of
its block, or padding where the block has no such byte. The encoder adds four of them
and perhaps a line feed; the decoder, at letter 4 * b + i, has 3 * b bytes and i
sextets, since four sextets are three bytes again (`SextetsOfBytes`). What it cuts off
is told by the last two letters (`DecodedIsOrigin`). `UrlIsEncoded`: base64url takes
away up to two letters of padding, `fix_padding` drops the lines and puts as many back
as a multiple of four lacks, and the two `chartr` undo each other because `-` and `_`
are no letters of base64. `TextInv` joins these with the calls in between.

The assumptions are the named `ASSUME`s of the modules, which TLC evaluates on
the instances: the options are sets of known options, lexemes are tokens, and the
constructors of the tree builder set no option that the parser reads.

Model-checked only:

* liveness (`CallsReturn`, `Ends`), and `NeverStuck`, which is about `ENABLED`;
* the invariants of `Handle` that compare characters with a JSON text directly
  (`RejectsOnlyNonJson`, `AcceptsOnlyNearlyJson`): they ask `JsonGrammar`, which
  is `RECURSIVE`. The theorems about handle, lexer and parser say the same in two
  steps, by way of the tokens, with the lexer's notion of space, but for the end of
  the text that `yajl_do_finish` adds;
* what the escapes of somebody else mean, how a double is rounded, and that what is
  joined is JSON (`DecodedAsSpelled`, `NearestDecimal`, `CollapsedIsJson`): their
  references are the texts of the instance or `RECURSIVE`.

## What is not modelled

* Simplification, the `asJSON` methods and `pack` rest on R itself: S4 dispatch,
  attributes, `deparse`, coercion. `row_collapse.c` calls a joiner per row.
* `snprintf`, `strtod` and the formats that `R_num_to_char` leaves to them
  (numbers beyond 1e15, significant digits); doubles whose arithmetic rounds:
  `modp_dtoa2` multiplies in double arithmetic, so that 0.295, which is a little less
  than its name, is written 0.3 with two digits. `NearestDecimal` is about the
  numbers of parts, for which the product is exact, and does not hold beyond them.
* The width of `int` in `matches` of `C_escape_chars_one` and in
  `len * (ni + spaces + 2)` of `C_collapse_array_pretty_outer`: lengths of 2^31.
* Bytes before the first token: a byte-order mark, also one that the first chunk
  of `R_parse_connection` cuts, and the record separator.
* A string that holds `\u0000`, which `mkCharCE` refuses or cuts; tabs for
  indentation, which are written as spaces here.
* `yajl_string_validate_utf8`, which prettify turns off (the lexer's own check is
  in `YajlLexer`); the wording of messages; locale, encodings, the garbage
  collector; what has no caller in the package (`yajl_lex_peek`,
  `yajl_tree_get`, `yajl_gen_reset`, `modp_uitoa10`, ...).

## Plan

Done: lexer, parser, tree builder, their composition, push parser, prettify,
validate, streaming with late lines; strings, buffers, numbers, base64, joiners,
error lines and what they write for each other; proofs about parser, tree
builder, calls on a connection, lexer and its words, handle, prettify, streaming,
memory, integers, and that strings and raw vectors are read as they were written.

Left, in this order:

1. Proofs of `NearestDecimal`, and of `CollapsedIsJson` by the tokens that are joined.
2. Transposition of records to columns, and `simplify`'s choice between vector,
   matrix and data frame.
3. The first chunk of `R_parse_connection` with its byte-order mark.
