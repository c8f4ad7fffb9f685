------------------------------ MODULE PlyLexer ------------------------------
(***************************************************************************)
(* The scanning loop of PLY's lexer (ply.lex.Lexer.token), which both      *)
(* lexers of the repository run.  At each position token():               *)
(*   1. skips a character of t_ignore;                                     *)
(*   2. else matches the master regex of the current lexer state at the   *)
(*      position.  The master regex is the alternation of the state's     *)
(*      rule functions in the order of their definition in the source;    *)
(*      an inclusive state tries its own rules first, then INITIAL's.     *)
(*      Python's alternation is ordered, so the FIRST rule that matches   *)
(*      wins, however short its match.  The rule function then runs; if   *)
(*      it returns nothing the match is dropped and scanning goes on;     *)
(*   3. else returns the character as a token if it is a literal;         *)
(*   4. else calls t_error, and raises LexError when t_error left the     *)
(*      position where it was.                                            *)
(* A rule function that returns a token whose type is not declared in     *)
(* tokens (or literals) makes token() raise LexError as well.             *)
(* The parser calls token() for one token at a time and may switch the    *)
(* lexer state with lexer.begin() between calls.  Each step below is one  *)
(* iteration of token()'s loop; the rule functions are the actions of the *)
(* lexer modules that instantiate this one.                               *)
(***************************************************************************)
EXTENDS Integers, Sequences, SequencesExt, PyRegex

CONSTANTS
  Rules,         \* lexer state -> the names of the rules it tries, in order
  RuleRe,        \* rule name -> its regular expression
  IgnoreChars,   \* t_ignore
  LiteralChars,  \* literals
  Tokens         \* tokens: the declared token types

VARIABLES
  input,     \* lexer.input(): the text, a sequence of one-character strings
  pos,       \* lexer.lexpos
  lexstate,  \* lexer.lexstate, switched by lexer.begin()
  lineno,    \* lexer.lineno
  toks,      \* the tokens token() returned so far: [type, lineno, at, end]
  errs,      \* the diagnostics the rules reported: [lineno, at]
  status,    \* "lexing", "eof" (token() returned None), "lexerror"
             \* (PLY raised LexError after t_error), "badtype" (PLY
             \* raised LexError on an undeclared type) or "crash" (a
             \* rule raised)
  between    \* control is with the parser, between two token() calls

lexvars == <<input, pos, lexstate, lineno, toks, errs, status, between>>

Scanning == status = "lexing" /\ pos <= Len(input)

\* A rule can run: the character is not ignored and the state's master
\* regex matches here with this rule as the first alternative that does.
RuleIdx == SelectInSeq(Rules[lexstate], LAMBDA n : Ends(RuleRe[n], input, pos) # <<>>)
Matching == Scanning /\ input[pos] \notin IgnoreChars /\ RuleIdx # 0
Rule == Rules[lexstate][RuleIdx]
MEnd == MatchEnd(RuleRe[Rule], input, pos)
\* The matched text as characters.
MChars == SubSeq(input, pos, MEnd - 1)
\* No rule matches: a literal or t_error.
NoRule == Scanning /\ input[pos] \notin IgnoreChars /\ RuleIdx = 0

Newlines(cs) == Len(SelectSeq(cs, LAMBDA c : c = NL))

(***************************************************************************)
(* What a rule function's outcome does to the lexer.                       *)
(***************************************************************************)
\* The function returned the token with this type: token() returns it if
\* the type is declared and raises LexError if not.  Each rule function
\* says what it does to lineno and to the diagnostics.
Return(type) ==
  /\ pos' = MEnd
  /\ between' = TRUE
  /\ IF type \in Tokens \cup LiteralChars
       THEN /\ toks' = Append(toks, [type |-> type, lineno |-> lineno, at |-> pos, end |-> MEnd])
            /\ UNCHANGED status
       ELSE /\ status' = "badtype"
            /\ UNCHANGED toks
  /\ UNCHANGED <<input, lexstate>>

\* The function returned None: the match is dropped, token() goes on.
Drop ==
  /\ pos' = MEnd
  /\ between' = FALSE
  /\ UNCHANGED <<input, lexstate, toks, status>>

\* An exception left the function and token().
Raise ==
  /\ status' = "crash"
  /\ between' = TRUE
  /\ UNCHANGED <<input, pos, lexstate, lineno, toks, errs>>

\* The diagnostic a rule reports through the parser's error function.
Report == errs' = Append(errs, [lineno |-> lineno, at |-> pos])

(***************************************************************************)
(* The steps of token() that run no rule function.                         *)
(***************************************************************************)
Ignore ==
  /\ Scanning /\ input[pos] \in IgnoreChars
  /\ pos' = pos + 1
  /\ between' = FALSE
  /\ UNCHANGED <<input, lexstate, lineno, toks, errs, status>>

Literal ==
  /\ NoRule /\ input[pos] \in LiteralChars
  /\ toks' = Append(toks, [type |-> input[pos], lineno |-> lineno, at |-> pos, end |-> pos + 1])
  /\ pos' = pos + 1
  /\ between' = TRUE
  /\ UNCHANGED <<input, lexstate, lineno, errs, status>>

\* t_error returned without moving lexpos: PLY raises LexError.
AfterError ==
  /\ status' = "lexerror"
  /\ between' = TRUE
  /\ UNCHANGED <<input, pos, lexstate, lineno, toks>>

\* The end of the input: token() returns None.
Eof ==
  /\ status = "lexing" /\ pos > Len(input)
  /\ status' = "eof"
  /\ between' = TRUE
  /\ UNCHANGED <<input, pos, lexstate, lineno, toks, errs>>

\* The parser switches the lexer state between two tokens.
Begin(st) ==
  /\ status = "lexing" /\ between
  /\ st \in DOMAIN Rules /\ st # lexstate
  /\ lexstate' = st
  /\ UNCHANGED <<input, pos, lineno, toks, errs, status, between>>

LexInit(Inputs) ==
  /\ input \in Inputs
  /\ pos = 1
  /\ lexstate = "INITIAL"
  /\ lineno = 1
  /\ toks = <<>>
  /\ errs = <<>>
  /\ status = "lexing"
  /\ between = TRUE
=============================================================================
