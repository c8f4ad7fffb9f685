-------------------------------- MODULE Inet --------------------------------
(***************************************************************************)
(* socket.inet_pton, which t_ADDR4 and t_ADDR6 call: the C library's      *)
(* inet_pton4 and inet_pton6 (glibc), as predicates on the text, a        *)
(* sequence of one-character strings: TRUE when the call returns the      *)
(* address, FALSE when it raises socket.error.                            *)
(***************************************************************************)
EXTENDS Integers, Sequences, SequencesExt, PyRegex

DigitValue == "0" :> 0 @@ "1" :> 1 @@ "2" :> 2 @@ "3" :> 3 @@ "4" :> 4
              @@ "5" :> 5 @@ "6" :> 6 @@ "7" :> 7 @@ "8" :> 8 @@ "9" :> 9
Hex == Digit \cup {"a", "b", "c", "d", "e", "f", "A", "B", "C", "D", "E", "F"}

RECURSIVE SplitAt(_, _)
\* The pieces of cs between the occurrences of c.
SplitAt(cs, c) ==
  LET i == SelectInSeq(cs, LAMBDA x : x = c)
  IN IF i = 0 THEN <<cs>>
     ELSE <<SubSeq(cs, 1, i - 1)>> \o SplitAt(SubSeq(cs, i + 1, Len(cs)), c)

Decimal(cs) == FoldLeft(LAMBDA a, d : 10 * a + DigitValue[d], 0, cs)

\* inet_pton4: four dot-separated decimal octets, each at most 255, with no
\* leading zero ("saw_digit && *tp == 0").
Inet4Valid(cs) ==
  LET ps == SplitAt(cs, ".")
  IN /\ Len(ps) = 4
     /\ \A i \in 1..4 :
          /\ ps[i] # <<>> /\ Len(ps[i]) <= 3
          /\ \A j \in DOMAIN ps[i] : ps[i][j] \in Digit
          /\ Len(ps[i]) > 1 => ps[i][1] # "0"
          /\ Decimal(ps[i]) <= 255

(***************************************************************************)
(* inet_pton6 scans the text once.  st.tp counts the bytes written (16 in  *)
(* all), st.colon records a "::", st.nx the hex digits of the current     *)
(* group, st.cur where the current group starts (for an embedded IPv4     *)
(* tail).                                                                 *)
(***************************************************************************)
RECURSIVE Scan6(_, _, _)
Scan6(s, i, st) ==
  IF i > Len(s)
    THEN LET tp == IF st.nx > 0 THEN st.tp + 2 ELSE st.tp
         IN /\ tp <= 16
            /\ IF st.colon THEN tp # 16 ELSE tp = 16
    ELSE CASE s[i] \in Hex ->
                /\ st.nx < 4
                /\ Scan6(s, i + 1, [st EXCEPT !.nx = @ + 1])
           [] s[i] = ":" /\ st.nx = 0 ->
                /\ ~st.colon
                /\ Scan6(s, i + 1, [st EXCEPT !.colon = TRUE, !.cur = i + 1])
           [] s[i] = ":" /\ st.nx > 0 ->
                /\ i < Len(s)
                /\ st.tp + 2 <= 16
                /\ Scan6(s, i + 1, [st EXCEPT !.tp = @ + 2, !.nx = 0, !.cur = i + 1])
           [] s[i] = "." ->
                LET tp == st.tp + 4
                IN /\ tp <= 16
                   /\ Inet4Valid(SubSeq(s, st.cur, Len(s)))
                   /\ IF st.colon THEN tp # 16 ELSE tp = 16
           [] OTHER -> FALSE

\* A leading ':' must be the first of "::".
Inet6Valid(cs) ==
  LET start == IF cs # <<>> /\ cs[1] = ":" THEN 2 ELSE 1
  IN /\ start = 2 => (Len(cs) >= 2 /\ cs[2] = ":")
     /\ Scan6(cs, start, [tp |-> 0, colon |-> FALSE, nx |-> 0, cur |-> start])
=============================================================================
