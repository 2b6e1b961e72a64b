# TLA+ models of the Latino front end

This directory holds TLA+ models of the three parts of the repository that
have real logic:
- the raw lexer, `src/lib/Lex/Lexer.cpp`, and its client
  `GetBeginningOfToken`;
- the expression dependence engine, `src/lib/AST/ComputeDependence.cpp`, as
  used by the node constructors of `src/include/latino/AST/ExprOpenMP.h`;
- the constant interpreter's fixed-width integers,
  `src/lib/AST/Interp/Integral.h`.

It also has the TLC configurations that check the models. `PROJECT.json`
lists the components, runs, mutants, findings and hazards. It also maps every
model definition to the source lines it translates.

## 1. The system

### Components and how they interact

| Part | Source | State | Operations |
|---|---|---|---|
| Lexer | `src/lib/Lex/Lexer.cpp` | `BufferStart/BufferPtr/BufferEnd` over a NUL-terminated buffer; the line flags `IsAtStartOfLine`, `IsAtPhysicalStartOfLine`, `HasLeadingSpace`, `HasLeadingEmptyMacro`; the `Token` being filled (kind, location, length, flags) | `InitLexer`, `Lex` → `LexTokenInternal` (a `switch` plus the goto loops `LexNextToken`, `SkipHorizontalWhitespace`, `SkipIgnoreUnits`), and the scanners it calls (`LexIdentifier`, `LexNumericConstant`, `LexCharConstant`, `LexStringLiteral`, `SkipLineComment`, `SkipBlockComment`). The escaped-newline helpers are `getEscapedNewLineSize`, `getCharAndSizeSlow` and `getCharAndSizeSlowNoWarn`. The spelling and location helpers are `getSpelling`, `getSpellingSlow`, `isNewLineEscaped`, `findBeginningOfLine`, `getBeginningOfFileToken` and `SetByteOffset`. |
| Dependence engine | `src/lib/AST/ComputeDependence.cpp` | none of its own: each overload is a pure function of a node's children's cached `ExprDependence` and of facts about types and declarations | 68 `computeDependence` overloads, one per expression kind, plus `getDependenceInExpr` |
| Expression nodes (OpenMP) | `src/include/latino/AST/ExprOpenMP.h` | `SubExprs[BASE, LOWER_BOUND, LENGTH, STRIDE]` and the cached dependence bits | the constructor, which ends with `setDependence(computeDependence(this))`, the child setters, and the `EmptyShell` constructors |
| Interpreter integers | `src/lib/AST/Interp/Integral.h` | one `T V` of 8 to 64 bits, signed or not | arithmetic with overflow checks, `truncate`, conversions and comparisons |
| The rest | `Version.cpp/.h`, `Targets/ARC.cpp`, `Arch/Sparc.h`, `Diagnostic*.h`, `MultiplexConsumer.h`, `BuiltinCheckerRegistration.h`, `SelectorExtras.h`, `RefactoringResultConsumer.h`, `Transformer/Parsing.h` | tables, enumerations, declarations and forwarding | none with logic of their own in the repository |

The lexer and the dependence engine do not call each other. spec.md §2 says
a parser drives the lexer and builds nodes bottom-up. A node's constructor
caches its dependence once, computed from children that are already built.
Everything is single-threaded (spec.md §6). The hard behaviours are therefore
sequential ones:
- the lexer's goto loops and their flags;
- reads at the NUL sentinel;
- escaped newlines that span several bytes;
- loops that must end;
- the dependence rules' masks and early returns.

### Correctness properties, per component

**Lexer**
- Tokens lie in order inside the buffer.
- Every token except eof advances the cursor.
- eof is the empty token at `BufferEnd`, and it comes once and last.
- `NeedsCleaning` is set exactly on tokens that contain an escaped newline.
- `StartOfLine` is set exactly on the first token after a real newline.
- A client loop reaches eof (the comment skippers aside), and
  `GetBeginningOfToken` returns.
- Each byte of the buffer is either whitespace, part of a comment, or in a
  token.
- `getSpelling` of a token is its bytes with the line continuations folded
  away, and `getSpellingSlow`'s assertion `Length < Tok.getLength()` holds.
- For a location inside a token, `findBeginningOfLine` finds a relex start
  at or before the token, and `GetBeginningOfToken` returns the start of
  the token that lexing the whole file puts the location in.

**Dependence engine** (spec.md §3, §4.2, §5)
- A child's Error bit always reaches the parent.
- No rule invents Error or UnexpandedPack.
- The result is monotone in the children's and the types' dependences.

**Integral**
- Arithmetic agrees with mathematical integers modulo 2^Bits, and the
  overflow flag is set exactly when they differ.
- `truncate` keeps the low bits and sign-extends.
- `inRange(x)` answers exactly whether `from(x)` keeps `x`.
- Every conversion (to another `Integral`, to and from `APSInt`) keeps a
  value exactly when the target can hold it.
- No operation evaluates a C++ expression with undefined behaviour.

## 2. Modules

| Module | Models | Notes |
|---|---|---|
| `Lexer.tla` | one `Lexer` object scanning one buffer, and a client that calls `Lex` until eof (the loop of `getBeginningOfFileToken`) | state as in the code; one action per arm of `LexTokenInternal` |
| `MCLexer.tla` | alphabets and bounds for TLC | |
| `GetBeginningOfToken.tla` | `Lexer::GetBeginningOfToken`: a lexing of the whole file, then the raw `Lexer` that `getBeginningOfFileToken` constructs at the line start, and its do-while loop | extends `Lexer` and runs its actions twice over one buffer |
| `MCGetBeginningOfToken.tla` | the alphabet and initial condition for TLC | |
| `ExprDependence.tla` | every `computeDependence` overload, as a pure operator with the overload's name | |
| `DependenceEngine.tla` | constructing one node of any kind and caching its dependence | composes `ExprDependence` |
| `MCDependenceEngine.tla` | the dependence classes and kind sets for TLC | |
| `Integral.tla` | `Integral<Bits, Signed>` and its operations, with C++ promotion, modular conversion and undefined behaviour | |
| `MCIntegral.tla` | scaled widths for TLC | |

### Lexer.tla

**Data.** Bytes are names from a small alphabet:
- letters `a e x` and digits `0 1`;
- whitespace `sp tab ff vt nl cr`;
- `bs`, a backslash;
- the quotes `sq` and `dq`;
- `nul`, an embedded NUL;
- UTF-8 bytes `xC2 xEF xA0 xBB xBF`;
- punctuators, written as themselves.

Positions are offsets from `BufferStart`. `Byte(End)` is the sentinel NUL that
`InitLexer` asserts.

**State.** The state variables are the lexer's own:
- `buf`, `BufferPtr`;
- `IsAtStartOfLine`, `IsAtPhysicalStartOfLine`, `HasLeadingSpace`,
  `HasLeadingEmptyMacro`;
- the `tok` being filled.

Two variables are added for the model:
- `pc` says where inside `LexTokenInternal` the call is;
- `out` holds the tokens the client has received.

**Actions.**
- `Lex` is `Lexer::Lex`: it moves the pending flags onto the token and enters
  `LexNextToken`.
- Each pass through the label `LexNextToken` is one step. It clears
  `NeedsCleaning`, skips blanks and reads one character with
  `getAndAdvancedChar` (`Read`).
- The step then takes the switch arm for that character:
  - `LexEndOfFile`;
  - `LexSkipNulOrNewline` (case 0 before the end, `\r`, `\n`);
  - `LexHorizontalWhitespace`;
  - `LexNumber`;
  - `LexIdentifierStep`;
  - `LexLiteral`;
  - `LexPeriod`;
  - `LexPunctuator`;
  - `LexSlashComment`;
  - `LexOtherASCII`;
  - `LexNonASCII`.
- `SkipIgnoreUnits` is the label of that name.
- `SkipLineCommentSpin` is the endless loop inside `SkipLineComment`.

**Helpers.** The scanners whose loops always end are operators, evaluated
inside the step that calls them:
- `EscapedNewLineSize`, `CharAndSize`, `CharAndSizeNoWarn`;
- `LexNumericConstant` (RECURSIVE, as in the code, after `e+`);
- `LexQuoted`, `LexIdentifier`, `SkipWhitespace`.

**What clients ask of a token.** Three more operators model the functions
that read a token after it is lexed. They are evaluated on the tokens in `out`:
- `GetSpelling(t)` is `getSpelling` with `getSpellingSlow`: the raw bytes, or
  the characters `getCharAndSizeNoWarn` reads while the pointer is below
  `BufEnd`, including the string-literal first phase and its raw copy. It
  also returns where the last read ended.
- `IsNewLineEscaped(s)` is the backward test: step over a CR LF or LF CR
  pair, then over horizontal whitespace, and look for a backslash.
- `FindBeginningOfLine(off)` is the backward scan that
  `getBeginningOfFileToken` relexes from.

Loops that walk over bytes are written as recursive *functions*, so that TLC
evaluates their arguments once when liveness is checked.

**Faithfulness points.**
- Undefined behaviour is a choice over what the build can do.
  - `HasLeadingEmptyMacro`, which `InitLexer` never assigns, starts TRUE or
    FALSE.
  - The local `Kind` that the `&`, `~` and `|` arms leave unassigned may be
    any token kind (`PunctKinds`).
- `SkipWhitespace`, `FormTokenWithChars` and `convertUTF8Sequence` are not in
  the repository. They are modelled from spec.md and marked `spec_modelled` in
  the map.

### GetBeginningOfToken.tla

It composes the lexer with its one client in the file,
`getBeginningOfFileToken` (Lexer.cpp:483-516).
- **Phase "lexing".** This is the whole-file lexer of the
  `Lexer(FileID, ...)` constructor. `LexFile` is a call of `Lex`, and
  `LexerStep` is a step inside a call. Once eof is out, `Search` keeps the
  tokens in `fileTokens`. These are the reference answer.
- **`Search`.** It picks any `Loc` in `0 .. Len(buf)` and evaluates
  `findBeginningOfLine`. On nullptr, or on `Loc` itself, it returns `Loc`.
  Otherwise `InitLexerAt` is the raw-lexer constructor: `InitLexer` with
  `BufferPtr` at the line start, a BOM skipped only at `BufferStart`, and
  `HasLeadingEmptyMacro` left as storage held it.
- **Phase "relex".** `Relex` is `LexFromRawLexer(TheTok)`. `Inspect` is the
  rest of the loop body, with the tests in the code's order:
  - past `StrData`: return the token's location if the token began at or
    before it, else `Loc`;
  - at eof: return `Loc`;
  - otherwise: lex again.
- **The two lexings.** They reuse the same lexer variables one after the
  other, so the relex is the very `Lex` and `LexTokenInternal` that
  `Lexer.tla` models, with no copy of the code.
- **`BeginningOfTokenFound`.** It compares the result with the start of the
  `fileTokens` token that holds `Loc`.
- **`ScansDisagree` (MCGetBeginningOfToken).** The run's initial states
  leave out buffers where `getEscapedNewLineSize` swallows a newline that
  `isNewLineEscaped` calls real. On those, the two scans disagree, and
  that is the `relex` finding. The exclusion is stated with the model's own
  `SpliceAt` and `IsNewLineEscaped`, so it follows the code and is not a
  fixed list of byte patterns.

### ExprDependence.tla

**Representation.**
- An `ExprDependence` is the set of its bits: `Type`, `Value`,
  `Instantiation`, `UnexpandedPack`, `Error`.
- A type, qualifier or template-argument dependence is a set over
  `Dependent`, `Instantiation`, `UnexpandedPack`, `VariablyModified`, `Error`.
- An absent child is the model value `Null`. A list of children is a sequence.
- `toExprDependence` and `turnTypeToValueDependence` live in a header that is
  not in the repository. They are modelled from their use and spec.md §4.2.

**Rules.**
- Every overload keeps its masks, its early returns and their order.
- `DeclRefExpr` keeps its five short-circuits (spec.md §4.2 (a)–(e)).
- The `alignof` rule returns early once the operand is value- and
  instantiation-dependent.
- `ConceptSpecializationExpr` leaves its loop once both interesting bits are
  found.

### DependenceEngine.tla

**The node.** A node is a record with four fields:
- `kind`;
- `kids`, the dependences of its children (`Null` when absent);
- `tys`, the dependences of the types, qualifiers and template arguments the
  overload reads;
- `flags`, the declaration and caller facts that hold.

`Shape(kind)` says which kids, tys and flags each kind has. `WellFormed`
rules out combinations the AST cannot hold. Examples: a `sizeof` has either an
expression operand or a type operand, and a name refers to one kind of
declaration.

**Actions.**
- `Init` picks any such node with `dep = Null`.
- `Construct` is the constructor's `setDependence(computeDependence(this))`.
  `ComputeDependence` dispatches to the overload for the node's kind.

The engine's only state change is this single write. Once it is done the
system stops, so the dependence runs say `CHECK_DEADLOCK FALSE`.

### Integral.tla

**Types and widths.** A type is a record `[bits, signed]`. The widths are
constants, so that the relations the code depends on survive at widths TLC
can enumerate. `MCIntegral` sets `int` to 6 bits and `int64_t` to 8. The
instances are 2, 3, 6 and 8 bits wide, signed and unsigned. That keeps the
three cases C++ treats differently:
- narrower than `int` (8 and 16 bits), which promote to `int`;
- as wide as `int` (32 bits);
- wider than `unsigned` (64 bits).

**Arithmetic.** It is modelled as the compiler does it:
- `Promote`: an operand narrower than `int` computes in `int`;
- `Conv`: storing into a type is reduction modulo 2^bits;
- `Unchecked`: a built-in operator whose promoted type is signed, and whose
  exact result does not fit, is undefined behaviour (`ub`);
- `Overflow`: `llvm::AddOverflow`, `SubOverflow` and `MulOverflow` by their
  contract (the reduced result, and whether the exact one fits).

`Truncate` returns a *set* of outcomes. For `TruncBits = 0` the shift amount
`TruncBits - 1` is `2^32 - 1`, which leaves the result open. The model then
takes every value of the promoted type.

**State and actions.** The state is the instance's type `ty`, its value `V`,
and `out`, the outcome of the one operation applied. The operations are
`Integral` values, not mutations, so one step applies one operation and the
system stops. That is why the runs say `CHECK_DEADLOCK FALSE`. There is one
action per operation:
- `Add`, `Sub`, `Mul`, `Increment`, `Decrement`;
- `NegateOp`, `ComplementOp`, `TruncateOp`;
- `Convert` (the conversion operator, `from(Integral)`, `toUnsigned`);
- `ToAPSIntOp`, `FromAPSIntOp`, `From`, `InRange`;
- `GreaterThan`, which is `operator>(unsigned)`.

**Operands.** The value `V` ranges over every value of its type. Operands
also take every value for types no wider than `int`. For the wider types,
and for `int64_t` arguments, they come from `Samples`: the edges of every
type in play (Min, Max and their neighbours), plus -1, 0 and 1.

## 3. Runs

### Passing runs

| Run | Properties | What it shows |
|---|---|---|
| `safety` (MCLexer: every buffer of up to 3 bytes over 18 byte classes, and every 4-byte buffer over `1 bs nl sp`) | TypeOK, TokenSpansOrdered, NeedsCleaningExact, StartOfLineExact, SpellingShorterThanToken | It covers 80,673 states, with every arm of `LexTokenInternal`. Tokens stay ordered, every non-eof token advances the cursor, and eof is the empty token at `BufferEnd`. `NeedsCleaning` is set exactly on tokens that contain a whole escaped newline. This requires `LexNextToken` to clear the flag on every restart and the look-ahead reads not to set it. `StartOfLine` is set exactly on the first token after a newline that is not part of a splice. `getSpellingSlow`'s assertion holds: re-reading every `NeedsCleaning` token gives fewer characters than it has bytes. |
| `beginning_of_token` (MCGetBeginningOfToken: every buffer of up to 3 bytes over `1 bs nl cr sp dq nul`, and every 4-byte buffer over `1 bs nl cr sp`; WF) | BeginningOfTokenFound, SearchReturns | It covers 57,123 states: every such buffer and every location in it. The file's lexing reaches eof, every `Lex` call of both lexings returns, and `GetBeginningOfToken` returns. It returns the start of the file's token holding `Loc`, or `Loc` in whitespace. The buffers left out are those where the forward and backward scans disagree on a newline (`ScansDisagree`): `getEscapedNewLineSize` swallows it, and `isNewLineEscaped` calls it real. That is the `relex` finding, and it breaks this property too. Examples are `\ CR ␠ LF 1` and `\ CR LF CR 1`. On all other buffers, relexing from the line start that `findBeginningOfLine` picks reproduces the file's tokens, and the loop's tests pick the right one. |
| `integral` (MCIntegral) | ArithmeticExact, TruncateExact, InRangeExact, ConversionsExact | It covers 184,744 states. For every value of every instance, add, sub, mul, increment and decrement leave the reduced exact result and report overflow exactly when T is signed and the result does not fit. `truncate(n)` for `n >= 1` yields V read in the n-bit type. `inRange` agrees with `from`, including negative values against `uint64_t`. Every conversion keeps exactly the representable values. |
| `rules` (MCDependenceEngine, all kinds but `MSPropertySubscript`, no stride, no error-dependent alignment) | ErrorPropagates, NoInventedBits, Monotone | This is 38,580 nodes. For each overload and every combination of four child classes (none; Error; type-dependent; pack) and five type classes, the cached dependence satisfies all three properties. ErrorPropagates: it keeps any child's Error. NoInventedBits: it has Error or UnexpandedPack only from a child, a type, a caller or declaration fact, or a RecoveryExpr. Monotone: it never shrinks when a child or type gains a bit. |

### Violation runs

Each violation run checks one property and backs the findings listed for
it. Where two findings share a property, TLC reports one counterexample, and
the row says how to see the other.

| Run | Property | What TLC finds |
|---|---|---|
| `no_eof` (`a 1 / *`, MaxLen 3, no `//`) | EventuallyEOF | For `a`, `LexIdentifier` returns false with no token and no progress, and the client calls `Lex` forever. With `{"/", "*", "1"}` as the alphabet TLC shows the other case: `/*` followed by text, where `SkipBlockComment` leaves `BufferPtr` on the `/` and `LexNextToken` reads it again forever. |
| `spelling` (`1 bs sp nl dq`, MaxLen 4) | SpellingIsFolded | For `\␠1`, the backslash and space are skipped as an escaped newline, and the spelling is `1`. With `{"dq", "bs", "nl"}` TLC shows the other case: `"\⏎` at the end of the buffer is an unknown token of 3 bytes, spelled as a quote and the NUL sentinel that follows it. |
| `relex` (`1 bs sp cr nl`, MaxLen 6) | RelexStartsBeforeToken | In `\ CR ␠ LF 1` the forward scan makes one numeric token of all five bytes. `isNewLineEscaped` calls the LF a real newline, so `findBeginningOfLine(3)` is 4, inside the token. |
| `amp` (`& 1`, MaxLen 2) | EOFOnceAndLast | A lone `&` forms a token with the uninitialised kind, which can be eof in the middle of the buffer. |
| `invalid_utf8` (`xC2 xA0 1`, MaxLen 2) | NonASCIIInTokens | An ill-formed UTF-8 byte vanishes from the token stream. |
| `dropped_child` (`MSPropertySubscript` and `OMPArraySection` with a stride) | ErrorPropagates | `MSPropertySubscriptExpr` reads only its index, so an Error in the base is lost. The array-section rule never reads the `STRIDE` child, so an Error in the stride is lost too. TLC reports the shorter of the two, the subscript; with `Kinds` set to `{"OMPArraySection"}` it reports the stride. |
| `alignof` | Monotone | With an error-dependent `alignas`, the operand `{UnexpandedPack, Instantiation}` gives Error. Once the operand is also value-dependent, the early return drops it. |
| `integral_ub` (MCIntegral, truncate and mul) | NoUndefinedBehaviour | `truncate(0)` on an 8-bit T shifts `T(1)` by `(unsigned)-1`. The other reachable case is `mul` on the 16-bit unsigned instance, where 7 * 7 overflows the 6-bit `int` it is promoted to. |

### Mutants

Every property of every passing run has a mutant in `PROJECT.json`. A mutant
is a plausible bug in the mapped code that TLC catches under that run's
configuration:
- eof at `CurPtr`, or eof spanning the sentinel;
- `NeedsCleaning` not cleared;
- `getCharAndSizeNoWarn` answering from its fast path alone;
- `Lex` not resetting `IsAtStartOfLine`;
- the NUL arm not advancing (caught by `SearchReturns`);
- the relex loop returning the first token past `Loc` without testing
  that the token began at or before it;
- `ChooseExpr` dropping the inactive branch;
- a caller's pack flag read inverted;
- the `alignof` early return on either bit;
- an unsigned subtraction with its operands swapped;
- `truncate` sign-extending an unsigned T;
- the unsigned range check without `V >= 0`;
- `toAPSInt(NumBits)` with sign and zero extension swapped.

The mutant operators sit just before the definitions they replace.

## 4. Bounds and why they are enough

**Lexer.**
- The safety run takes every buffer of up to 3 bytes over 18 byte classes.
  It adds every 4-byte buffer over `1 bs nl sp`, because one case needs four
  bytes: a splice, then whitespace that restarts `LexNextToken`, then a
  token (it is what shows `NeedsCleaning` cleared on restart).
- The `beginning_of_token` run takes every location in every buffer of
  up to 3 bytes over its seven classes. It adds every 4-byte buffer over
  digit, backslash, LF, CR and space. Four bytes allow a token before and
  after a splice, and a splice with a blank before its newline, at a
  location on a newline that is or is not escaped. Quotes and NULs appear
  in the 3-byte buffers. With `MaxLen = 5`, `BeginningOfTokenFound` alone
  also holds, over 448,400 states. That covers every 5-byte buffer over
  digit, backslash, LF, CR and space, and every 4-byte buffer over all
  seven classes. It was checked without coverage or liveness, because with
  both the run takes over five minutes. Most violation runs use 3 bytes
  (2 in some).
  The client collects at most MaxLen + 1 tokens.
- Every arm needs at most three bytes to show its interesting case. Examples:
  `1e+`, `\␠\n`, `..x`, a splice before the sentinel, `'\` unterminated, a
  two-byte UTF-8 sequence.
- Four bytes also allow one token before and one after such a case.
- The `beginning_of_token` alphabet leaves out the bytes that hang the
  lexer or give a token an arbitrary kind (letters, `/`, `#`, `&`; see the
  findings). The other alphabets each isolate one finding, or the two that
  share a property.
- The relex run takes 6 bytes over 5 classes. That holds a token before and
  after an escaped newline made of a backslash, a CR LF pair and a space, in
  either order, so both directions of the forward/backward disagreement are
  there. Only one direction breaks `RelexStartsBeforeToken`. In the other,
  `\ ␠ CR LF`, the forward scan ends the escaped newline after the CR, and the
  LF starts a new line. `findBeginningOfLine` then relexes from further back
  than it needs to, which is harmless.

**Dependence engine.**
- Kid classes are the four that the rules treat differently: none, Error,
  `Type|Value|Instantiation`, and `UnexpandedPack|Instantiation`.
- Type classes are five: none, instantiation-only, dependent,
  dependent-with-pack, and Error.
- `Monotone` also tries every single-bit increase of every child and type,
  including bits outside those classes.
- Lists have the length 1–2 that the loops need in order to union.

**Integral.**
- The widths are scaled: `int` has 6 bits and `int64_t` 8; the instances
  have 2, 3, 6 and 8 bits. The properties depend only on how a width relates
  to `int`'s width, so the scaled widths keep every distinction the code
  draws.
- At these widths every value of every instance is checked. Operands are
  exhaustive up to `int`'s width and take the edges of every type above it.

## 5. Fairness

The program is sequential and nothing in it waits. A caller that called `Lex`
keeps running until the call returns. The client loop of
`getBeginningOfFileToken` calls again until eof. So weak fairness on the
whole next-state relation is exactly the scheduling the code has. That is
`WF_vars(Next)`, or `WF_allVars(SearchNext)` for the composition. The
dependence and integer runs check only invariants and need no fairness.

## 6. Findings

Each finding is backed by a violation run above.

**Lexer**
- **`LexIdentifier` (Lexer.cpp:170).** It forms a token only before a
  non-ASCII byte. For `a1 `, `Lex` returns false with no progress. The
  `FinishIdentifier` path exists, but nothing jumps to it for ASCII
  terminators.
- **`SkipBlockComment` (Lexer.cpp:289).** It returns without skipping, so a
  block comment hangs the lexer.
  - spec.md §9 names only the line comment (Lexer.cpp:269) as a known defect.
  - The line comment hangs as well. `Lexer.tla` models it as
    `SkipLineCommentSpin`, and the runs that check termination exclude `//`.
- **`getEscapedNewLineSize` (Lexer.cpp:296).** The loop test checks
  `Ptr[Size]` for `\r` where the previous byte is meant, and returns the
  whitespace count at a non-whitespace byte. This has two consequences:
  - It accepts whitespace that no newline follows, and `getSpelling` drops
    the `\␠` (run `spelling`).
  - It does not stop at a CR that is followed by whitespace. The backward
    `isNewLineEscaped` does stop there, so the two scans disagree, and
    `GetBeginningOfToken` relexes from inside the token (run `relex`).
- **Unterminated literals (Lexer.cpp:192, 214).** They end at
  `CurPtr - 1`, which for a terminator read through an escaped newline lies
  inside that read. `getSpellingSlow` re-reads the whole escaped newline and
  appends the byte after the token.
- **The punctuator `switch` (Lexer.cpp:625).** It reads the local `Kind`
  uninitialised after `&`, `~` and `|`.
- **The `default` arm (Lexer.cpp:916).** It drops ill-formed UTF-8 bytes, while
  spec.md §4.1 says they become unknown tokens.

**Dependence engine**
- **MSPropertySubscript (ComputeDependence.cpp:249) and OMPArraySection
  stride (ComputeDependence.cpp:370).** These children do not contribute to
  the dependence.
- **`alignof(decl)` (ComputeDependence.cpp:61).** Its Error is not monotone in
  the operand's dependence.

**Integral**
- **`truncate(0)` (Integral.h:144).** `TruncBits - 1` is unsigned, so
  `T(1) << (TruncBits - 1)` shifts by 2^32 - 1 bits, which is undefined.
- **`mul` on `uint16_t` (Integral.h:242).** `A * B` is computed in the
  promoted `int`, so 65535 * 65535 overflows, which is undefined.

**Seen by the model, but without a run of their own**
- `CheckUnicodeWhitespace` always answers false, so U+00A0 is returned as an
  unknown token.
- `InitLexer` never clears `HasLeadingEmptyMacro`, which `Lex` copies onto the
  first token. Every run explores both initial values.
- `Integral::operator-()` on the minimum `int32_t`/`int64_t` has undefined
  behaviour, and `Negate` marks it `ub`.
  - The `integral_ub` run leaves negate out. The callers of `operator-`, which
    may test `isMin` first, are not in the repository.

## 7. Not modelled, and the plan

**Not modelled in `Lexer.cpp`**
- The source-manager calls of `getBeginningOfFileToken`
  (`getDecomposedLoc`, `getBufferData` and their invalid-result returns) are
  not modelled. The `SourceManager` is not in the repository, and the model
  starts with the buffer and the offset already in hand.
- The delegating constructor `Lexer(FileID, FromFile, SM, langOpts)`
  (Lexer.cpp:96-99) has no caller in the file.

**Not modelled in `Integral.h`**
- The comparison operators, `compare`, `isZero`, `isMin`, `isNegative` and
  `countLeadingZeros` are built-in operations on `V` with no state change.
- `from(Integral<0, SrcSign>)` needs an `Integral<0>`, which has no `Repr` in
  the file.

**Not stated**
- `Integral`, `ExprDependence` and `DependenceEngine` have no type
  invariant. The C++ types already guarantee what one would say: a fixed
  width, a flag set of five bits.

**Out of scope, and why**
- `ExprOpenMP.h`'s child setters and `EmptyShell` constructors serve AST
  deserialisation, which is not in the repository.
- `SetByteOffset` and `getSourceLocation` translate offsets through the
  `SourceManager`, which is not in the repository.
- Version strings, target tables, diagnostics and the tooling headers have no
  logic that a property could tell apart. spec.md §1 puts them out of scope.
- `DiagnosticError.h` wraps a `PartialDiagnosticAt` in an `llvm::ErrorInfo`.
  It has no state machine. As written it declares two non-const
  `getDiagnostic()` overloads, and `take` assigns to the type name `Error`,
  so it has no behaviour to translate.
- `Integral::operator>(unsigned)` (Integral.h:91) compares a 64-bit V only by
  its low 32 bits. `GreaterThan` models that. Nothing in the repository says
  what it should answer, so no run states an intent.
