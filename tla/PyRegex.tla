------------------------------ MODULE PyRegex ------------------------------
(***************************************************************************)
(* Python's re.match on the small regular expressions the lexers use.     *)
(* Python's engine is a backtracking one: it explores the ways to match   *)
(* depth first, alternatives left to right, greedy repeats trying one     *)
(* more iteration before fewer, lazy ones fewer before more, and returns  *)
(* the FIRST way that matches the whole pattern, not the longest.  So a   *)
(* regex is given by the ordered sequence of end positions it can reach   *)
(* from a start position; re.match takes the head of that sequence.      *)
(*                                                                         *)
(* A subject is a sequence of one-character strings; a position p is the  *)
(* index of the next character, so a match from p to e consumed           *)
(* s[p..e-1].                                                              *)
(***************************************************************************)
EXTENDS Integers, Sequences, SequencesExt

\* The regular expression constructors.
Cls(S)        == [k |-> "cls", s |-> S]           \* [...]: one character in S
NotCls(S)     == [k |-> "not", s |-> S]           \* [^...]: one character not in S
Cat(rs)       == [k |-> "cat", rs |-> rs]         \* r1 r2 ... rn
Alt(rs)       == [k |-> "alt", rs |-> rs]         \* r1 | r2 | ... | rn
Star(r)       == [k |-> "star", r |-> r]          \* r*
LazyStar(r)   == [k |-> "lazy", r |-> r]          \* r*?
Rep(r, m, n)  == [k |-> "rep", r |-> r, m |-> m, n |-> n]   \* r{m,n}
NotAfter(S)   == [k |-> "nlb", s |-> S]           \* (?<![S])
Plus(r)       == Cat(<<r, Star(r)>>)              \* r+
Opt(r)        == Alt(<<r, Cat(<<>>)>>)            \* r?
Chr(c)        == Cls({c})
\* A literal word, given as its characters.
Word(cs)      == Cat([i \in DOMAIN cs |-> Chr(cs[i])])

Digit == {"0", "1", "2", "3", "4", "5", "6", "7", "8", "9"}
Lower == {"a", "b", "c", "d", "e", "f", "g", "h", "i", "j", "k", "l", "m",
          "n", "o", "p", "q", "r", "s", "t", "u", "v", "w", "x", "y", "z"}
Upper == {"A", "B", "C", "D", "E", "F", "G", "H", "I", "J", "K", "L", "M",
          "N", "O", "P", "Q", "R", "S", "T", "U", "V", "W", "X", "Y", "Z"}
Letter == Lower \cup Upper
NL == "\n"

(***************************************************************************)
(* Ends(r, s, p): the end positions of the matches of r at p, in the      *)
(* order the engine tries them.                                           *)
(***************************************************************************)
RECURSIVE Ends(_, _, _), AltEnds(_, _, _), CatEnds(_, _, _), CatEach(_, _, _),
          StarEnds(_, _, _), StarEach(_, _, _, _), LazyEnds(_, _, _),
          LazyEach(_, _, _, _), RepEnds(_, _, _, _, _), RepEach(_, _, _, _, _)

Ends(r, s, p) ==
  CASE r.k = "cls" -> IF p <= Len(s) /\ s[p] \in r.s THEN <<p + 1>> ELSE <<>>
    [] r.k = "not" -> IF p <= Len(s) /\ s[p] \notin r.s THEN <<p + 1>> ELSE <<>>
    [] r.k = "cat" -> CatEnds(r.rs, s, p)
    [] r.k = "alt" -> AltEnds(r.rs, s, p)
    [] r.k = "star" -> StarEnds(r.r, s, p)
    [] r.k = "lazy" -> LazyEnds(r.r, s, p)
    [] r.k = "rep" -> RepEnds(r.r, r.m, r.n, s, p)
    [] r.k = "nlb" -> IF p > 1 /\ s[p - 1] \in r.s THEN <<>> ELSE <<p>>

\* The alternatives left to right.
AltEnds(rs, s, p) ==
  IF rs = <<>> THEN <<>> ELSE Ends(Head(rs), s, p) \o AltEnds(Tail(rs), s, p)

\* Every way to match the rest of a concatenation after each way of the first.
CatEnds(rs, s, p) ==
  IF rs = <<>> THEN <<p>> ELSE CatEach(Tail(rs), s, Ends(Head(rs), s, p))
CatEach(rs, s, es) ==
  IF es = <<>> THEN <<>> ELSE CatEnds(rs, s, Head(es)) \o CatEach(rs, s, Tail(es))

\* Greedy: one more iteration first; an iteration that consumed nothing
\* ends the repetition, as in sre.
StarEnds(r, s, p) == StarEach(r, s, Ends(r, s, p), p) \o <<p>>
StarEach(r, s, es, p) ==
  IF es = <<>> THEN <<>>
  ELSE (IF Head(es) > p THEN StarEnds(r, s, Head(es)) ELSE <<>>) \o StarEach(r, s, Tail(es), p)

\* Lazy: fewer iterations first.
LazyEnds(r, s, p) == <<p>> \o LazyEach(r, s, Ends(r, s, p), p)
LazyEach(r, s, es, p) ==
  IF es = <<>> THEN <<>>
  ELSE (IF Head(es) > p THEN LazyEnds(r, s, Head(es)) ELSE <<>>) \o LazyEach(r, s, Tail(es), p)

\* r{m,n}, greedy.
RepEnds(r, m, n, s, p) ==
  IF n = 0 THEN <<p>>
  ELSE RepEach(r, m, n, s, Ends(r, s, p)) \o (IF m <= 0 THEN <<p>> ELSE <<>>)
RepEach(r, m, n, s, es) ==
  IF es = <<>> THEN <<>>
  ELSE RepEnds(r, m - 1, n - 1, s, Head(es)) \o RepEach(r, m, n, s, Tail(es))

\* re.match(r, s, p): the end of the first match, or 0 when there is none.
MatchEnd(r, s, p) == LET es == Ends(r, s, p) IN IF es = <<>> THEN 0 ELSE Head(es)

\* The characters s[p..e-1] as one string.
Text(s, p, e) == FoldLeft(LAMBDA acc, c : acc \o c, "", SubSeq(s, p, e - 1))
=============================================================================
