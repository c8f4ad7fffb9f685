----------------------------- MODULE BinpacLexer ----------------------------
(***************************************************************************)
(* The BinPAC++ lexer, bp++/binpac/lexer.py: its token rules in the order  *)
(* PLY tries them (the order of their definition), and what each rule      *)
(* function does with its match.  The constant objects the rules build     *)
(* (binpac.constant, binpac.type) are left out: a token is its type, the   *)
(* line PLY stamps on it and the span of input it covers.  The lexer has   *)
(* no states of its own.                                                   *)
(***************************************************************************)
EXTENDS Integers, Sequences, SequencesExt, PyRegex

CONSTANT Inputs   \* the texts the lexer is given

VARIABLES input, pos, lexstate, lineno, toks, errs, status, between

vars == <<input, pos, lexstate, lineno, toks, errs, status, between>>

BinpacKeywords ==
  {"module", "type", "export", "unit", "print", "list", "global", "const", "if", "else", "var"}

\* k.upper() on the keywords.
KeywordToken ==
  "module" :> "MODULE" @@ "type" :> "TYPE" @@ "export" :> "EXPORT" @@ "unit" :> "UNIT"
  @@ "print" :> "PRINT" @@ "list" :> "LIST" @@ "global" :> "GLOBAL" @@ "const" :> "CONST"
  @@ "if" :> "IF" @@ "else" :> "ELSE" @@ "var" :> "VAR"

\* The simple type keywords; t_IDENT turns them into PACTYPE tokens.
BinpacTypes == {"bytes", "regexp", "string", "bool"}

BinpacLiterals ==
  {"(", ")", "{", "}", "[", "]", "<", ">", "=", ",", ":", "*", ";", "+", "-", "/",
   "|", ".", "!"}

BinpacTokens ==
  {"IDENT", "CONSTANT", "BYTES", "PACTYPE", "ATTRIBUTE", "PROPERTY", "EQUAL", "UNEQUAL"}
  \cup {KeywordToken[k] : k \in BinpacKeywords}

(***************************************************************************)
(* The rules' regular expressions, as written in the functions' docstrings.*)
(***************************************************************************)
Width == Alt(<<Chr("8"), Word(<<"1", "6">>), Word(<<"3", "2">>), Word(<<"6", "4">>)>>)
\* "([^\n"]|\\")*", the docstring being a plain string: \n is a newline.
Quoted == Cat(<<Chr("\""), Star(Alt(<<NotCls({NL, "\""}), Word(<<"\\", "\"">>)>>)), Chr("\"")>>)
\* mutant: \#.*\n? , the comment taking its line end with it
CommentReWithNL == Cat(<<Chr("#"), Star(NotCls({NL})), Opt(Chr(NL))>>)
CommentRe == Cat(<<Chr("#"), Star(NotCls({NL}))>>)

BinpacRe ==
  [EQUAL |-> Word(<<"=", "=">>),
   UNEQUAL |-> Word(<<"!", "=">>),
   INT |-> Cat(<<Word(<<"i", "n", "t">>), Width>>),
   UINT |-> Cat(<<Word(<<"u", "i", "n", "t">>), Width>>),
   newline |-> Plus(Chr(NL)),
   comment |-> CommentRe,
   CONST_INT |-> Cat(<<Cls({"+", "-"}), Plus(Cls(Digit))>>),
   CONST_UINT |-> Plus(Cls(Digit)),
   CONST_STRING |-> Quoted,
   CONST_REGEXP |-> Cat(<<Chr("/"), LazyStar(NotCls({NL})), NotAfter({"\\"}), Chr("/")>>),
   CONST_BOOL |-> Alt(<<Word(<<"T", "r", "u", "e">>), Word(<<"F", "a", "l", "s", "e">>)>>),
   CTOR_BYTES |-> Cat(<<Chr("b"), Quoted>>),
   IDENT |-> Cat(<<Opt(Cls({"%", "&"})), Cls(Letter \cup {"_"}),
                  Star(Alt(<<Cls(Letter \cup Digit \cup {"_"}), Word(<<":", ":">>)>>))>>),
   DOLLARDOLLAR |-> Word(<<"$", "$">>)]

BinpacRules ==
  [INITIAL |-> <<"EQUAL", "UNEQUAL", "INT", "UINT", "newline", "comment", "CONST_INT",
                 "CONST_UINT", "CONST_STRING", "CONST_REGEXP", "CONST_BOOL", "CTOR_BYTES",
                 "IDENT", "DOLLARDOLLAR">>]

INSTANCE PlyLexer WITH
  Rules <- BinpacRules, RuleRe <- BinpacRe,
  IgnoreChars <- {" ", "\t"}, LiteralChars <- BinpacLiterals, Tokens <- BinpacTokens

(***************************************************************************)
(* The rule functions.                                                     *)
(***************************************************************************)
\* The rules whose function returns the token with a fixed type.  int()
\* cannot fail on what the integer regexes match, so the except branches
\* of t_CONST_INT and t_CONST_UINT never run.
PlainType ==
  [EQUAL |-> "EQUAL", UNEQUAL |-> "UNEQUAL", INT |-> "INT", UINT |-> "UINT",
   CONST_INT |-> "CONSTANT", CONST_UINT |-> "CONSTANT", CONST_STRING |-> "CONSTANT",
   CONST_REGEXP |-> "CONSTANT", CONST_BOOL |-> "CONSTANT", CTOR_BYTES |-> "BYTES",
   DOLLARDOLLAR |-> "IDENT"]

T_Plain(r) ==
  /\ Matching /\ Rule = r
  /\ Return(PlainType[r])
  /\ UNCHANGED <<lineno, errs>>

T_newline ==
  /\ Matching /\ Rule = "newline"
  /\ lineno' = lineno + Len(MChars)
  /\ Drop /\ UNCHANGED errs

T_comment ==
  /\ Matching /\ Rule = "comment"
  /\ Drop /\ UNCHANGED <<lineno, errs>>

\* t_IDENT: '&' and '%' prefixes first, then the type keywords, then the
\* keywords.  Its assert that the upper-cased keyword is a token holds,
\* since tokens is built from the keywords.
IdentType(w) ==
  CASE w[1] = "&" -> "ATTRIBUTE"
    [] w[1] = "%" -> "PROPERTY"
    [] Text(w, 1, Len(w) + 1) \in BinpacTypes -> "PACTYPE"
    [] Text(w, 1, Len(w) + 1) \in BinpacKeywords -> KeywordToken[Text(w, 1, Len(w) + 1)]
    [] OTHER -> "IDENT"

T_IDENT ==
  /\ Matching /\ Rule = "IDENT"
  /\ Return(IdentType(MChars))
  /\ UNCHANGED <<lineno, errs>>

\* t_error reports through util.parser_error and does not skip the
\* character, so PLY raises LexError.
T_error ==
  /\ NoRule /\ input[pos] \notin BinpacLiterals
  /\ Report
  /\ AfterError

Init == LexInit(Inputs)

Next ==
  \/ Ignore \/ Literal \/ Eof
  \/ \E r \in DOMAIN PlainType : T_Plain(r)
  \/ T_newline \/ T_comment \/ T_IDENT \/ T_error

Spec == Init /\ [][Next]_vars

-----------------------------------------------------------------------------
\* token() only moves forward through the input and returns tokens of
\* declared types, each covering a non-empty span the lexer has passed.
TypeOK ==
  /\ pos \in 1..Len(input) + 1
  /\ lexstate = "INITIAL"
  /\ status \in {"lexing", "eof", "lexerror", "badtype", "crash"}
  /\ \A k \in DOMAIN toks :
       /\ toks[k].type \in BinpacTokens \cup BinpacLiterals
       /\ toks[k].at < toks[k].end /\ toks[k].end <= pos

\* PLY stamps each token, and t_error its diagnostic, with lexer.lineno,
\* which only t_newline advances: the line is one more than the newlines
\* before the token's first character, whatever comments, strings and
\* regular expressions come before it.
LinesCounted ==
  /\ \A k \in DOMAIN toks : toks[k].lineno = 1 + Newlines(SubSeq(input, 1, toks[k].at - 1))
  /\ \A k \in DOMAIN errs : errs[k].lineno = 1 + Newlines(SubSeq(input, 1, errs[k].at - 1))

\* t_CONST_STRING's alternative \\" and its expand_escapes of the text say
\* a quote after a backslash is part of the literal (as the lookbehind of
\* t_CONST_REGEXP does for an escaped slash).  So no string or bytes
\* constant closes on a quote with a backslash before it.
StringsWhole ==
  \A k \in DOMAIN toks :
     (input[toks[k].at] = "\"" \/ toks[k].type = "BYTES")
        => input[toks[k].end - 2] # "\\"
=============================================================================
