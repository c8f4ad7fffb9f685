----------------------------- MODULE HiltiLexer -----------------------------
(***************************************************************************)
(* The HILTI lexer, parser/lexer.py: the token rules PLY's token() tries,  *)
(* in the order of their definition, and what each rule function does     *)
(* with its match.  Token values (the int(), float() and slicing of the    *)
(* matched text) are left out: a token is its type, the line PLY stamps on *)
(* it, and the span of input it covers.                                    *)
(***************************************************************************)
EXTENDS Integers, Sequences, SequencesExt, PyRegex, Inet

CONSTANTS
  Instructions,  \* instruction.getInstructions().keys()
  Types,         \* type.getHiltiTypeNames()
  Inputs         \* the texts the lexer is given

VARIABLES input, pos, lexstate, lineno, toks, errs, status, between

vars == <<input, pos, lexstate, lineno, toks, errs, status, between>>

(***************************************************************************)
(* The rules' regular expressions, as written in the functions' docstrings.*)
(***************************************************************************)
Octet == Rep(Cls(Digit), 1, 3)
V6Head == Digit \cup Lower \cup {".", ":"}
V6Tail == Digit \cup Lower \cup {"."}
\* "([^\n"]|\\")*", the docstring being a plain string: \n is a newline.
Quoted == Cat(<<Chr("\""), Star(Alt(<<NotCls({NL, "\""}), Word(<<"\\", "\"">>)>>)), Chr("\"")>>)
IdentStart == Letter \cup {"_"}
IdentChar == Letter \cup Digit \cup {".", "_"}

HiltiRe ==
  [ADDR4 |-> Cat(<<Octet, Chr("."), Octet, Chr("."), Octet, Chr("."), Octet>>),
   ADDR6 |-> Alt(<<Cat(<<Plus(Cls(V6Head)), Chr(":"), Opt(Chr(":")), Plus(Cls(V6Tail))>>),
                  Cat(<<Chr(":"), Plus(Cls(V6Head))>>)>>),
   DOUBLE |-> Cat(<<Opt(Chr("-")), Plus(Cls(Digit)), Chr("."), Plus(Cls(Digit))>>),
   INTEGER |-> Cat(<<Opt(Chr("-")), Plus(Cls(Digit))>>),
   TRUE |-> Word(<<"T", "r", "u", "e">>),
   FALSE |-> Word(<<"F", "a", "l", "s", "e">>),
   STRING |-> Quoted,
   BYTES |-> Cat(<<Chr("b"), Quoted>>),
   LABEL |-> Cat(<<Chr("@"), Cls(IdentStart), Star(Cls(IdentChar)), Chr(":")>>),
   IDENT |-> Cat(<<Opt(Chr("@")), Cls(IdentStart),
                  Star(Alt(<<Cls(IdentChar), Word(<<":", ":">>)>>))>>),
   nolines_newline |-> Plus(Chr(NL)),
   INITIAL_newline |-> Plus(Chr(NL)),
   comment |-> Cat(<<Chr("#"), Star(NotCls({NL}))>>)]

\* The rule functions of INITIAL in definition order; the inclusive state
\* nolines tries its own t_nolines_newline first.
\* mutant: t_DOUBLE defined above t_ADDR4
InitialRulesDoubleFirst ==
  <<"DOUBLE", "ADDR4", "ADDR6", "INTEGER", "TRUE", "FALSE", "STRING", "BYTES",
    "LABEL", "IDENT", "INITIAL_newline", "comment">>
InitialRules ==
  <<"ADDR4", "ADDR6", "DOUBLE", "INTEGER", "TRUE", "FALSE", "STRING", "BYTES",
    "LABEL", "IDENT", "INITIAL_newline", "comment">>
HiltiRules == [INITIAL |-> InitialRules, nolines |-> <<"nolines_newline">> \o InitialRules]

HiltiLiterals == {"(", ")", "{", "}", "<", ">", "=", ",", ":", "*"}

HiltiTokens ==
  {"LOCAL", "GLOBAL", "DECLARE", "EXPORT", "IDENT", "IMPORT", "INSTRUCTION", "LABEL",
   "MODULE", "NL", "INTEGER", "DOUBLE", "BOOL", "STRING", "BYTES", "STRUCT", "TYPE",
   "VOID", "ANY", "METATYPE", "NULL", "ENUM", "ADDR", "ATTR_DEFAULT"}

INSTANCE PlyLexer WITH
  Rules <- HiltiRules, RuleRe <- HiltiRe,
  IgnoreChars <- {" ", "\t"}, LiteralChars <- HiltiLiterals, Tokens <- HiltiTokens

(***************************************************************************)
(* The rule functions.                                                     *)
(***************************************************************************)
\* t_ADDR4: inet_pton raises socket.error on an octet above 255 or with a
\* leading zero, and nothing catches it.
T_ADDR4 ==
  /\ Matching /\ Rule = "ADDR4"
  /\ IF Inet4Valid(MChars)
       THEN Return("ADDR") /\ UNCHANGED <<lineno, errs>>
       ELSE Raise

\* mutant: the except branch without "return None": PLY returns the token
\* with the rule's name as its type.
T_ADDR6NoReturn ==
  /\ Matching /\ Rule = "ADDR6"
  /\ IF Inet6Valid(MChars)
       THEN Return("ADDR") /\ UNCHANGED <<lineno, errs>>
       ELSE Report /\ Return("ADDR6") /\ UNCHANGED lineno

\* mutant: the except branch skips the text it reports, as well as
\* returning None, so the position moves past the match twice.
T_ADDR6SkipTwice ==
  /\ Matching /\ Rule = "ADDR6"
  /\ IF Inet6Valid(MChars)
       THEN Return("ADDR") /\ UNCHANGED <<lineno, errs>>
       ELSE /\ Report
            /\ pos' = MEnd + Len(MChars)
            /\ between' = FALSE
            /\ UNCHANGED <<input, lexstate, lineno, toks, status>>

\* t_ADDR6: a text inet_pton refuses is reported and dropped.
T_ADDR6 ==
  /\ Matching /\ Rule = "ADDR6"
  /\ IF Inet6Valid(MChars)
       THEN Return("ADDR") /\ UNCHANGED <<lineno, errs>>
       ELSE Report /\ Drop /\ UNCHANGED lineno

\* The rules whose function converts the value and returns the token with
\* a fixed type.  float() and int() cannot fail on what the regexes match.
PlainType ==
  [DOUBLE |-> "DOUBLE", INTEGER |-> "INTEGER", TRUE |-> "BOOL", FALSE |-> "BOOL",
   STRING |-> "STRING", BYTES |-> "BYTES", LABEL |-> "LABEL"]

T_Plain(r) ==
  /\ Matching /\ Rule = r
  /\ Return(PlainType[r])
  /\ UNCHANGED <<lineno, errs>>

Keywords ==
  [import |-> "IMPORT", declare |-> "DECLARE", export |-> "EXPORT", local |-> "LOCAL",
   global |-> "GLOBAL", module |-> "MODULE", struct |-> "STRUCT", void |-> "VOID",
   any |-> "ANY", type |-> "METATYPE", enum |-> "ENUM", Null |-> "NULL",
   default |-> "ATTR_DEFAULT"]

\* t_IDENT: an instruction name first, then a type name, then a keyword.
IdentType(w) ==
  CASE w \in Instructions -> "INSTRUCTION"
    [] w \in Types -> "TYPE"
    [] w \in DOMAIN Keywords -> Keywords[w]
    [] OTHER -> "IDENT"

T_IDENT ==
  /\ Matching /\ Rule = "IDENT"
  /\ Return(IdentType(Text(input, pos, MEnd)))
  /\ UNCHANGED <<lineno, errs>>

\* mutant: the lines of a newline run in nolines not counted
T_nolines_newlineUncounted ==
  /\ Matching /\ Rule = "nolines_newline"
  /\ Drop /\ UNCHANGED <<lineno, errs>>

\* mutant: t_nolines_newline returning its token, as t_INITIAL_newline does
T_nolines_newlineReturns ==
  /\ Matching /\ Rule = "nolines_newline"
  /\ lineno' = lineno + Len(MChars)
  /\ Return("NL") /\ UNCHANGED errs

T_nolines_newline ==
  /\ Matching /\ Rule = "nolines_newline"
  /\ lineno' = lineno + Len(MChars)
  /\ Drop /\ UNCHANGED errs

T_INITIAL_newline ==
  /\ Matching /\ Rule = "INITIAL_newline"
  /\ lineno' = lineno + Len(MChars)
  /\ Return("NL") /\ UNCHANGED errs

T_comment ==
  /\ Matching /\ Rule = "comment"
  /\ Drop /\ UNCHANGED <<lineno, errs>>

\* t_error reports and does not skip the character, so PLY raises LexError.
T_error ==
  /\ NoRule /\ input[pos] \notin HiltiLiterals
  /\ Report
  /\ AfterError

Init == LexInit(Inputs)

Next ==
  \/ Ignore \/ Literal \/ Eof \/ Begin("nolines") \/ Begin("INITIAL")
  \/ T_ADDR4 \/ T_ADDR6 \/ \E r \in DOMAIN PlainType : T_Plain(r)
  \/ T_IDENT \/ T_nolines_newline \/ T_INITIAL_newline \/ T_comment \/ T_error

Spec == Init /\ [][Next]_vars

-----------------------------------------------------------------------------
(***************************************************************************)
(* Properties.                                                             *)
(***************************************************************************)
\* token() only moves forward through the input and returns known token
\* types, each covering a non-empty span the lexer has passed.
TypeOK ==
  /\ pos \in 1..Len(input) + 1
  /\ lexstate \in {"INITIAL", "nolines"}
  /\ status \in {"lexing", "eof", "lexerror", "badtype", "crash"}
  /\ \A k \in DOMAIN toks :
       /\ toks[k].type \in HiltiTokens \cup HiltiLiterals
       /\ toks[k].at < toks[k].end /\ toks[k].end <= pos

\* PLY stamps each token, and t_ADDR6 and t_error stamp each diagnostic, with
\* lexer.lineno, which only the two newline rules advance: in either lexer
\* state, whatever the comments, strings and state switches in between, the
\* line is one more than the newlines before the token's first character.
LinesCounted ==
  /\ \A k \in DOMAIN toks : toks[k].lineno = 1 + Newlines(SubSeq(input, 1, toks[k].at - 1))
  /\ \A k \in DOMAIN errs : errs[k].lineno = 1 + Newlines(SubSeq(input, 1, errs[k].at - 1))

\* The comment on the states: "In nolines mode, newlines are ignored.  Per
\* default, they are passed on as token NL."  A step of token() that
\* consumes a newline returns one NL token for the whole run of newlines
\* in INITIAL, and nothing in nolines, although nolines also has
\* t_INITIAL_newline among the rules it tries.
NewlineStep ==
  pos' # pos /\ input[pos] = NL =>
     IF lexstate = "INITIAL"
       THEN toks' = Append(toks, [type |-> "NL", lineno |-> lineno, at |-> pos, end |-> pos'])
       ELSE toks' = toks
NewlineTokens == [][NewlineStep]_vars

\* The comments "must come before DOUBLE" on t_ADDR4 and t_ADDR6: where a
\* token starts with a dotted quad inet_pton accepts, the token is one ADDR
\* covering the whole quad, never a DOUBLE or INTEGER that splits it.
QuadsAreAddresses ==
  \A k \in DOMAIN toks :
     LET e == MatchEnd(HiltiRe.ADDR4, input, toks[k].at)
     IN (e # 0 /\ Inet4Valid(SubSeq(input, toks[k].at, e - 1)))
          => toks[k].type = "ADDR" /\ toks[k].end = e

\* Every type a rule function gives its token (the fixed types, the
\* keyword table's values, INSTRUCTION and TYPE) is declared in tokens, so
\* PLY never raises LexError for an unknown token type on any input.
DeclaredTypes == status # "badtype"

\* Lexing stops short of the input's end only after a diagnostic at the
\* position where it stopped: t_error reports through parser.error before
\* PLY raises LexError, and t_ADDR6 catches socket.error from inet_pton and
\* reports the text.  So no exception of a rule function (t_ADDR4's
\* inet_pton included) ends token() without telling the user where.
AbortsReported ==
  status \notin {"lexing", "eof"} => \E k \in DOMAIN errs : errs[k].at = pos

\* The string rules' alternative \\" (a backslash, then a quote) says a
\* quote after a backslash is part of the literal, not its end.  So no
\* STRING or BYTES token closes on a quote with a backslash before it: the
\* literal "a\"b" is one token, never "a\" followed by b and an open quote.
StringsWhole ==
  \A k \in DOMAIN toks :
     toks[k].type \in {"STRING", "BYTES"} => input[toks[k].end - 2] # "\\"
=============================================================================
