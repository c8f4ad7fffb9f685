------------------------------ MODULE MC_Lexers ------------------------------
(***************************************************************************)
(* Both lexers of the repository, each over texts of one or two of its     *)
(* fragments joined by nothing, a blank, a newline or two newlines.  The   *)
(* fragments reach every rule function of the lexer and both outcomes of   *)
(* each rule that has two.  lexer says which lexer a behaviour runs; the   *)
(* two share PLY's variables and never interleave.                         *)
(***************************************************************************)
EXTENDS Sequences, PyRegex

VARIABLES input, pos, lexstate, lineno, toks, errs, status, between, lexer

vars == <<input, pos, lexstate, lineno, toks, errs, status, between, lexer>>

Q == "\""
Separators == {<<>>, <<" ">>, <<NL>>, <<NL, NL>>}
Texts(F) == F \cup {f \o s \o g : f \in F, s \in Separators, g \in F}

HiltiFragments ==
  { <<"1", ".", "0", ".", "0", ".", "1">>,        \* ADDR4, a valid address
    <<"0", "1", ".", "0", ".", "0", ".", "0">>,   \* ADDR4, a leading zero
    <<":", ":", "1">>,                            \* ADDR6, valid
    <<"a", ":", "b">>,                            \* ADDR6, refused
    <<"1", ".", "5">>, <<"-", "1">>,              \* DOUBLE, INTEGER
    <<"T", "r", "u", "e">>, <<"F", "a", "l", "s", "e">>,
    <<Q, "a", Q>>, <<"b", Q, Q>>,                 \* STRING, BYTES
    <<Q, "a", "\\", Q, "b", Q>>,                  \* an escaped quote
    <<"@", "a", ":">>,                            \* LABEL
    <<"x">>, <<"a", "n", "y">>, <<"X", ":", ":", "y">>, <<"c", "a", "l", "l">>,
    <<"#", "c">>, <<"(">>, <<"$">> }

BinpacFragments ==
  { <<"=", "=">>, <<"!", "=">>,                   \* EQUAL, UNEQUAL
    <<"i", "n", "t", "8">>, <<"u", "i", "n", "t", "1", "6">>,
    <<"#", "c">>, <<"-", "1">>, <<"7">>,          \* comment, CONST_INT, CONST_UINT
    <<Q, "a", Q>>, <<"/", "r", "/">>, <<"T", "r", "u", "e">>, <<"b", Q, Q>>,
    <<"x">>, <<"&", "x">>, <<"%", "x">>,          \* IDENT, ATTRIBUTE, PROPERTY
    <<"b", "o", "o", "l">>, <<"v", "a", "r">>,    \* PACTYPE, a keyword
    <<"$", "$">>, <<"-">>, <<"/">>, <<"@">>,
    <<Q, "a", "\\", Q, "b", Q>> }                 \* an escaped quote

H == INSTANCE HiltiLexer WITH
       Instructions <- {"call"}, Types <- {"bool"}, Inputs <- Texts(HiltiFragments)
B == INSTANCE BinpacLexer WITH Inputs <- Texts(BinpacFragments)

Init ==
  \/ lexer = "hilti" /\ H!Init
  \/ lexer = "binpac" /\ B!Init

\* A step of the lexer the behaviour runs.
HiltiStep(A) == lexer = "hilti" /\ A /\ UNCHANGED lexer
BinpacStep(A) == lexer = "binpac" /\ A /\ UNCHANGED lexer

Next ==
  \/ HiltiStep(H!Ignore) \/ HiltiStep(H!Literal) \/ HiltiStep(H!Eof)
  \/ HiltiStep(H!Begin("nolines")) \/ HiltiStep(H!Begin("INITIAL"))
  \/ HiltiStep(H!T_ADDR4) \/ HiltiStep(H!T_ADDR6)
  \/ \E r \in DOMAIN H!PlainType : HiltiStep(H!T_Plain(r))
  \/ HiltiStep(H!T_IDENT) \/ HiltiStep(H!T_nolines_newline)
  \/ HiltiStep(H!T_INITIAL_newline) \/ HiltiStep(H!T_comment) \/ HiltiStep(H!T_error)
  \/ BinpacStep(B!Ignore) \/ BinpacStep(B!Literal) \/ BinpacStep(B!Eof)
  \/ \E r \in DOMAIN B!PlainType : BinpacStep(B!T_Plain(r))
  \/ BinpacStep(B!T_newline) \/ BinpacStep(B!T_comment) \/ BinpacStep(B!T_IDENT)
  \/ BinpacStep(B!T_error)

Spec == Init /\ [][Next]_vars

-----------------------------------------------------------------------------
\* Each lexer's type invariant: token() moves forward, returns declared
\* token types, and each token covers a span the lexer has passed.
TypeOK ==
  /\ lexer \in {"hilti", "binpac"}
  /\ IF lexer = "hilti" THEN H!TypeOK ELSE B!TypeOK

\* HILTI: every token and diagnostic carries the line of its first
\* character, whatever the state switches in between (HiltiLexer).
LinesCounted == lexer = "hilti" => H!LinesCounted

\* BinPAC++: every token and diagnostic carries the line of its first
\* character, whatever comments, strings and regexps come first.
BinpacLinesCounted == lexer = "binpac" => B!LinesCounted

\* HILTI: a valid dotted quad at a token's start is one ADDR token.
QuadsAreAddresses == lexer = "hilti" => H!QuadsAreAddresses

\* HILTI: newlines give one NL token per run in INITIAL, none in nolines.
NewlineTokens == [][lexer = "hilti" => H!NewlineStep]_vars

\* HILTI: no rule function returns a type missing from tokens, so PLY
\* never raises LexError for one.
DeclaredTypes == lexer = "hilti" => H!DeclaredTypes

\* HILTI: token() never stops early without a diagnostic where it stopped
\* (HiltiLexer!AbortsReported).
AbortsReported == lexer = "hilti" => H!AbortsReported

\* Both lexers: a string or bytes literal never ends at a quote escaped by
\* a backslash (StringsWhole of each lexer).
EscapedQuotes == IF lexer = "hilti" THEN H!StringsWhole ELSE B!StringsWhole
=============================================================================
