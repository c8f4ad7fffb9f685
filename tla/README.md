# TLA+ models of the HILTI compiler middle end

These modules model the three stages of the HILTI middle end under
`src/hilti/python/hilti/`, which spec.md describes, the HILTI lexer that
feeds it, and the BinPAC++ lexer under `src/bp++/`. TLC checks them.

- **Resolver** (`parser/resolver.py`) binds identifiers, appends default call
  arguments and infers integer widths.
- **Checker** (`checker/module.py`) accumulates diagnostics.
- **Struct code generator** (`codegen/struct.py`) lowers struct instructions
  onto a record with a presence bitmask.

All three run as handlers of one tree visitor. The visitor is not under
`src/`; spec 4.1 describes it. On one tree, the Resolver mutates operands in
place, the Checker reads the result, and code generation runs only when the
Checker reported nothing. The Struct model takes over at that point. It
describes the code generator's output as the compiled program executes it.

## Components and modules

| Component | Source | Modules | Status |
|---|---|---|---|
| Tree dispatch | not under src/ (spec 4.1) | inside Resolver, Checker | modelled from the spec as an event sequence |
| Resolver | parser/resolver.py | Resolver, MC_Resolver, MC_FrontEnd | modelled |
| Checker | checker/module.py | Checker, CheckerTrees, MC_Checker, MC_FrontEnd | modelled |
| Struct codegen | codegen/struct.py | Struct, StructAbstract, StructTypeInfo, MC_Struct | modelled |
| Operator dispatch | codegen/operators.py | none | not modelled: one call into a registry outside src/, plus an assert |
| Instruction table | instructions/debug.py | Resolver (`MsgSig`, `Message`), MC_Resolver | modelled: no state of its own; `debug.msg` instructions built as `message()` builds them are inputs of the frontend run |
| HILTI lexer | parser/lexer.py | HiltiLexer, PlyLexer, PyRegex, Inet, MC_Lexers | modelled (token values left out) |
| BinPAC++ lexer | bp++/binpac/lexer.py | BinpacLexer, PlyLexer, PyRegex, MC_Lexers | modelled (token values left out) |

### Resolver.tla

**State.**
- `prog` holds the functions: parameters with type and default operand,
  result type, locals, and the instruction body.
- `opnd` is the operand store, from operand identity to
  `[k, t, n, es]`: kind, type, ID name and tuple elements.
- `module` and `function` are the handler cursors.
- `errors` is `self._errors`.
- `pc` is the position in the visit and the run number.
- `counts` and `first` hold what each `resolveOperands` call returned and
  left behind.
- `crashed` records an uncaught exception.

The store keeps operands as objects because the code relies on identity:
`applyDefaultParams` appends the parameter's default operand object itself,
and `_setIntWidth` changes an operand in place. A tuple's type is a cached
field. Only `TupleOperand.setTuple` refreshes it, as the code's
"# update types" comments indicate.

**Inputs.** Programs are built from operand shapes (`Lit`, `LitW`, `StrLit`,
`Ref`, `Tup`) and instructions (`Instr`). `Message(args)` is the `debug.msg`
instruction that `message()` in `instructions/debug.py` builds: two string
constants and a tuple of the arguments, under `MsgSig`, whose operand slots
are constraints and which has no target.

**Actions.** There is one action per registered handler: `PreModule`,
`PostModule`, `PreFunction`, `PostFunction` and `Instruction`. Two more cover
the ends of `resolveOperands()`: `ResolveOperands` (the reset) and `Return`
(the result; with `Runs = 2` it starts the second resolve).

`Instruction` is the whole handler in the code's order:
1. `resolveInstrOperands`;
2. for a call with a known callee, `applyDefaultParams` then `adaptIntParams`;
3. for a return, `adaptIntReturn`;
4. `adaptIntConsts`.

The exceptions the code catches end the loop that catches them (see
`AdaptSingle`). In `AdaptSingle`, a parameter of width 0 leaves the constant
without a width, and the fallback at lines 192-193 gives it 64. The
exceptions nobody catches set `crashed`. These are:
- `CallCrash` (line 396): a call whose op1 is not an ID;
- `RetCrash` (line 219): a non-empty tuple returned under a result type
  that is not a tuple;
- `ConstsCrash` (line 297).

### Checker.tla

**Input.** A visit order of handler events: pre/post module, ID nodes,
pre/post function, and instructions. Types are abstracted to the kinds the
checks tell apart. `Signature.matchWithInstruction` is not under `src/`, so
each instruction carries its verdict.

**State.** `haveModule`, `haveOthers`, `module` and `function` are the
checker's fields. `errors` is the diagnostics as `[at, msg]`, and `crashed`
records an uncaught exception.

**Actions.** There is one action per handler. The loops over globals,
parameters and locals stop at their first violation, as the code's `break`s
do. An instruction before any module header calls `self.error(f, ...)` with
`f` unbound, which raises a NameError and ends the pass.

**CheckerTrees** holds the visit orders the runs give the checker, and
**MC_Checker** runs the checker over one set of them.

**MC_FrontEnd** runs either pass, as MC_Lexers runs either lexer: `part` is
fixed in the initial state, the other pass's variables stay at one of its
initial states (`ResolverIdle`, `CheckerIdle`), and each step is a step of
one pass (`ResolverStep`, `CheckerStep`). It extends MC_Resolver and takes
the Checker as an instance whose cursor variables are renamed (`ckPc`,
`ckModule`, ...), since both classes keep `_module`, `_function` and errors.

### Struct.tla and StructAbstract.tla

**Struct.** A struct object is the LLVM record `{i32 mask, field_0, ...}`.
`mem[r]` holds `alloc`, the `mask` and the `slot`s by GEP index, and `last`
is the last instruction with the value it stored into its target.
- TLC integers are 32-bit signed, so the mask is a vector of 32 bits.
- The Python integers the code turns into constants, `1<<idx` and
  `~(1<<idx)`, are kept as their two's-complement bits plus sign extension.
- `llvmConstInt(v, 32)` keeps the low 32 bits, so the truncation of
  `~(1<<31)` is modelled by what it does.

The actions `New`, `Get`, `Set`, `Unset` and `IsSet` are each the whole
instruction sequence the corresponding handler emits.

**StructAbstract** is the promise of spec 4.4: a set of present fields and
their values, with `get` raising on an absent field.

**Refinement.** `Struct` instantiates `StructAbstract` with this mapping:
- present = the accessed fields whose mask bit is one;
- val = the slot.

The run then checks `Abs!Spec` as the property `Implements`.

### The lexers: PyRegex, Inet, PlyLexer, HiltiLexer, BinpacLexer

`parser/lexer.py` is a PLY lexer: rule functions whose docstrings are their
regular expressions, a literal set, an ignore set and an inclusive state
`nolines` that the parser enters and leaves with `lexer.begin()`. What a
text lexes to depends on three pieces of library code, each of which is
modelled by what it does:

- **PyRegex** is Python's `re.match`. The engine backtracks and returns the
  first match it finds, not the longest, so a regex denotes the ordered
  sequence of end positions it can reach (`Ends`); `MatchEnd` is its head.
  Ordered alternation, greedy and lazy repetition, `{m,n}` and negative
  lookbehind are the constructs the lexers use.
- **Inet** is glibc's `inet_pton4` and `inet_pton6`, which `t_ADDR4` and
  `t_ADDR6` call: leading zeros and octets above 255 are refused, and `::`
  and an embedded dotted quad are handled the way glibc scans them.
- **PlyLexer** is one iteration of PLY's `token()` loop: skip an ignored
  character, else run the first rule of the state whose regex matches (an
  inclusive state tries its own rules before INITIAL's), else return a
  literal, else call `t_error` and raise `LexError` when it did not move.
  A rule that returns a token whose type is not in `tokens` or `literals`
  also makes PLY raise `LexError` (status `badtype`).
  `between` is true when control is back with the parser, the only time
  `begin()` can switch the state.

**HiltiLexer** instantiates PlyLexer with the rule order of the source and
has one action per rule function. `T_ADDR4` raises on a quad inet_pton
refuses (no `try`), `T_ADDR6` reports and drops, `T_IDENT` looks the word up
in instructions, types and keywords in that order, the newline rules count
lines and only `t_INITIAL_newline` returns `NL`, and `T_error` reports and
lets PLY raise. A token is its type, its line and the span it covers.

**BinpacLexer** does the same for `bp++/binpac/lexer.py`, which has no
states: fixed-type rules (`T_Plain`), `T_newline`, `T_comment`, `T_IDENT`
(`&` and `%` prefixes, type keywords, keywords upper-cased) and `T_error`.

**MC_Lexers** runs either lexer: `lexer` is fixed in the initial state, and
each step is a step of that lexer's instance (`HiltiStep`, `BinpacStep`).

### StructTypeInfo.tla

`typeInfo(Struct)` emits the offset table that `hlt::struct_to_string` uses.
- **Computation.** The code computes `null.gep([0, i+1]).ptrtoint(int16)`
  over the LLVM type `{i32, field_0, ...}`. `OffsetTable` models that
  computation.
- **Layout.** `ElementOffsets` is LLVM's struct layout rule, taken from the
  ABI in spec 6.
- **Lowered sizes.** `Lowered` gives the sizes of the lowered field types on
  a 64-bit target.
- **Field limit.** `Init` keeps only the types that `_llvmStructType`'s
  32-field assert accepts.
- **Check.** `OffsetsMatchLayout` states the ABI layout without computing
  it. Each field starts past the mask and past the field before it, at an
  aligned offset, with less padding than its alignment.

**MC_Struct** composes the two struct modules the way MC_Lexers composes the
lexers: `part` is fixed in the initial state, the other half's variables stay
at their initial values, and each step is a step of one instance (`OpsStep`,
`InfoStep`).

## Runs

Runs expected to pass:

| Run | What it checks |
|---|---|
| frontend | Either pass, chosen in the initial state. Resolver: Single instructions from a family built from literals (with and without width), an int32 global, an unknown ID, tuples, targets and a signature that pins op2 to int8, and every well-typed call of a function with one or two parameters (int8, int16, tuple<int16> or any, with or without defaults) plus a return, and `debug.msg` instructions (no arguments, a literal beside an int32 global, an unknown ID beside literals); each program is resolved twice. `CountsUnresolved`: the count returned equals the unknown IDs. `WidthsAssigned`: no constant keeps width 0. `InferredWidths`: every literal gets the width spec 4.2's rules give, computed by the reference operator `Expected`. Checker: 4416 visit orders: an optional stray declaration or function before the module, `main` or another module, four global lists (run missing, run not a function, bad globals), functions with every combination of calling convention, parameter and local kinds, a struct declared inside a function, outside any, or after a function body, instructions with failing signatures or expression targets, and an optional second module. `ValidIffClean`: when the pass ends, no diagnostic was reported exactly when the tree satisfies the rules of spec 4.3. The rules are stated over the whole visit order. `DiagnosticsJustified`: every order-dependent diagnostic (two modules, header not first, no module, struct in a function, signature, target) is attached to a node that breaks its rule, judged from the visit order up to that node, and an instruction gets at most one diagnostic. `CheckerTypeOK` is the Checker's type invariant. |
| struct | Either half of the struct codegen, chosen in the initial state. Instructions: two objects of a 32-field struct with defaults on fields 2 and 32, under any sequence of instructions on field 1 (no default, as in spec 5's example) and field 32 (default, bit 31 of the mask, where `~(1<<31)` must truncate correctly); `Implements` checks them against StructAbstract. Type information: every struct type of up to three fields over int8/16/32/64, bool, double and reference fields, a 32-field type, and a 33-field type that the assert refuses; `OffsetsMatchLayout` checks the emitted table. |
| lexers | Each lexer over texts of one or two of its fragments with nothing, a blank, one or two newlines between them (3248 texts in all, among them a string with an escaped quote). The fragments reach every rule function and both outcomes of `t_ADDR4` and `t_ADDR6`; the parser may switch the HILTI lexer's state between any two tokens. `LinesCounted`, `BinpacLinesCounted`: every token and diagnostic carries one more than the newlines before it. `NewlineTokens`: a HILTI step over newlines returns one `NL` in INITIAL and nothing in nolines. `QuadsAreAddresses`: a valid dotted quad at a token's start is one ADDR token. `DeclaredTypes`: no HILTI rule returns an undeclared token type. |

Runs expected to find a violation (see the findings in PROJECT.json):

| Run | What TLC finds |
|---|---|
| resolver_id_in_tuple | `op (b), (1)` with `b: int8` gives the literal 64, because the tuple's cached type is stale. |
| resolver_rerun | Resolving `f()` twice, where `f(x: int8, y: int16 = d)`, appends the default twice. |
| resolver_alias | After `f()`, the shared default object carries int8 into `f(1)`'s int16 position. |
| resolver_tuple_first | After a tuple argument, later arguments get 64, not the prototype's width. |
| resolver_tuple_any | A tuple passed to an `any` parameter keeps width-0 literals. |
| resolver_return_tuple | Returning `(1, 2)` from a function with an int16 result raises, uncaught. |
| checker_early_instr | An instruction before the module header raises NameError. |
| lexers_addr4_crash | `01.0.0.0` makes `t_ADDR4` raise `socket.error` out of `token()` with no diagnostic. |
| lexers_escaped_quote | `"a\"b"` lexes as the string `"a\"`, then `b`, then an unterminated quote, in both lexers. |

Every property of every passing run has a mutant in PROJECT.json: a plausible
bug in the mapped definition that TLC must catch. Examples:
- `_setIntWidth` without its guard;
- `resolveOp` not descending into tuples;
- the signature pin ignored;
- the calling-convention test inverted;
- `new` using the GEP index as the bit index.

## Bounds

- **Resolver.** Two functions, `f` (the callee) and `g`, with at most two
  parameters and two instructions. Tuples nest one level deep. This is enough
  to reach every early return and exception path of `_adaptSingle`,
  `adaptIntReturn` and the zip of `adaptIntConsts`. `Runs = 2` exposes
  repeated resolution.
- **Checker.** One function per module, one instruction, and up to two
  modules. Each check in `checker/module.py` has a case that passes it and
  one that fails it, including the fail-first and fail-second orders of the
  short-circuiting loops.
- **Lexers.** Pairs of fragments are enough for the rule-order questions:
  each conflict between two rules (ADDR4 and DOUBLE, ADDR6 and IDENT, TRUE
  and IDENT, the two newline rules, CONST_INT and `-`, CONST_REGEXP and `/`) is decided at one position, and the pairs
  put every fragment after every separator and every state switch.
- **Struct.** Two values, two objects and two of the 32 fields. The rest
  behave like field 1 except through the mask bits that `new` sets.

All passing runs end. The visit is finite and every handler is deterministic,
so they use `CHECK_DEADLOCK FALSE`: the end of the traversal is a final state.
The lexer run stops the same way, when `token()` returns None or raises.
The struct run's instruction half has no terminal state; its type-information
half ends after `typeInfo`.

No liveness property is claimed, and no fairness is assumed. Every stage is
one sequential pass in one thread. Whether it reaches its end is decided
by code outside `src/`: the visitor's loop over the tree, and PLY's
`token()` loop, which advances past each match and raises `LexError` when
`t_error` does not. No change to a handler under `src/` can make a pass stop
part-way without an exception, and the models record every exception
(`crashed`, `status`). A property such as "the pass eventually ends" would
therefore hold for every mutant of the code, and says nothing about it.
What the code can get wrong at the end of a pass is stated as safety
instead. `NoCrash` and `AbortsReported` say that a pass ends without an
uncaught exception. `ValidIffClean` and `CountsUnresolved` say what holds
when it ends.

## Not modelled

- `Struct` assumes at most 32 fields. `StructTypeInfo` models the assert
  that refuses a 33rd.
- Field types that lower to an inline aggregate are not modelled, because
  their lowering is outside `src/`.
- Operator dispatch and the instruction table are listed above with the
  reasons.
- Lexer token values (`int()`, `float()`, string slicing) are left out: no
  property is about them.
- Logging (`_debugInstruction`) and message texts are left out. Diagnostics
  are kinds.

### What the lexer model shows about the code

Two behaviours of the lexers break what the code itself says, and each
has a violation run.

- `t_ADDR4` calls `inet_pton` without the `try` that `t_ADDR6` has, so a
  quad like `01.0.0.0` or `999.0.0.1` makes `socket.error` escape from
  `token()`. Every other way the HILTI lexer stops early reports a
  diagnostic where it stopped first (`t_error` before PLY's `LexError`,
  `t_ADDR6` for a bad IPv6 text). `lexers_addr4_crash` checks
  `AbortsReported`, and TLC finds it violated by this path alone: with
  the crash excluded, the property holds on every HILTI text of the run.
- In `"a\"b"` the string ends at the escaped quote, in both lexers:
  `[^\n"]` is tried before `\\"` and matches the backslash, and Python's
  alternation takes the first alternative that lets the whole regex match.
  The `\\"` alternative (and, in BinPAC++, `expand_escapes` on the text)
  shows that the quote was meant to belong to the literal, so
  `lexers_escaped_quote` checks `EscapedQuotes`, and TLC finds it violated
  in one step.

TLC reaches these other behaviours in `lexers`. They are recorded as hazards
in PROJECT.json; no run states the intended token grammar, which spec.md
does not give.
- `foo::bar` and `a:b` are taken by `t_ADDR6` (defined before `t_IDENT`),
  reported as bad IPv6 addresses and dropped.
- `Trueness` lexes as `BOOL` then `IDENT`.
- BinPAC++: `int8` and `uint16` make PLY raise `LexError`, since `t_INT`
  and `t_UINT` return types that `tokens` does not list (unless the parser,
  not under `src/`, adds them); `x -1` lexes as `IDENT CONSTANT(-1)`; and
  `a / b / c` lexes with `/ b /` as a regexp constant.

## Plan for later sittings

1. Compose Resolver and Checker on one tree: the Checker should report every
   call that the Resolver left short (spec 4.2).
2. Add a pipeline module that gates code generation on a clean Checker.
