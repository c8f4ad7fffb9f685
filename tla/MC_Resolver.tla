---------------------------- MODULE MC_Resolver ----------------------------
(***************************************************************************)
(* Resolver over two families of programs.  Single generic instructions  *)
(* in g: every combination of a few operand shapes, an optional target,   *)
(* and a signature that pins op2 to int8 or constrains nothing.  Calls:   *)
(* f has one or two parameters x and y, each of a few types, each with or *)
(* without a default; g calls f twice; f returns a literal or a tuple.    *)
(* The sets below are the inputs of the different runs.                   *)
(***************************************************************************)
EXTENDS Resolver, TLC

MCGlobals == ("f" :> FuncT) @@ ("g" :> FuncT) @@ ("a" :> IntT(32))
MCFLocals == [n \in {} |-> VoidT]
MCGLocals == ("b" :> IntT(8)) @@ ("t" :> TupleT(<<IntT(16), IntT(32)>>))

Opnds == {Lit, LitW(16), Ref("a"), Ref("zz"), Tup(<<Lit, Ref("b")>>)}
Targets == {None, Ref("b"), Ref("t")}
Sigs == {NoSig, [NoSig EXCEPT !["op2"] = IntT(8)]}
MCPrograms == {[params |-> <<>>, result |-> IntT(16),
                fbody |-> <<Instr("return", Lit, None, None, None, NoSig)>>,
                gbody |-> <<Instr("op", o1, o2, None, tg, sig)>>] :
                o1 \in Opnds, o2 \in Opnds, tg \in Targets, sig \in Sigs}

\* An instruction with two tuple operands, an identifier of g (b: int8) in
\* one and a literal at the same position in the other: op (b), (1).
IdInTuple ==
  {[params |-> <<>>, result |-> IntT(16),
    fbody |-> <<Instr("return", Lit, None, None, None, NoSig)>>,
    gbody |-> <<Instr("op", Tup(<<Ref("b")>>), Tup(<<Lit>>), None, None, NoSig)>>]}

Param(n, t, d) == [n |-> n, t |-> t, d |-> d]
Call(args) == Instr("call", Ref("f"), Tup(args), None, None, NoSig)
Ret(r) == Instr("return", r, None, None, None, NoSig)

\* Well-typed calls: scalar parameters get literals or identifiers, a tuple
\* parameter a tuple, which comes last; required arguments are given.
ScalarParams == {Param(n, t, d) : n \in {"x"}, t \in {IntT(8), AnyT}, d \in BOOLEAN}
TupleParams == {Param("y", TupleT(<<IntT(16)>>), d) : d \in BOOLEAN}
             \cup {Param("y", t, d) : t \in {IntT(16), AnyT}, d \in BOOLEAN}
WellTypedParamSets == {<<p1, p2>> : p1 \in ScalarParams, p2 \in TupleParams}
ArgsFor(ps) ==
  LET scalar == {Lit, LitW(32), Ref("b")}
      second == IF ps[2].t.k = "tuple" THEN {Tup(<<Lit>>), Tup(<<Ref("b")>>)} ELSE scalar
  IN {<<a1, a2>> : a1 \in scalar, a2 \in second}
     \cup (IF ps[2].d THEN {<<a1>> : a1 \in scalar} ELSE {})
     \cup (IF ps[1].d /\ ps[2].d THEN {<<>>} ELSE {})
Prog(ps, gb) == [params |-> ps, result |-> IntT(16), fbody |-> <<Ret(Lit)>>, gbody |-> gb]
WellTyped ==
  UNION {{Prog(ps, <<Call(a1), Call(a2)>>) : a1 \in ArgsFor(ps), a2 \in ArgsFor(ps)} :
           ps \in WellTypedParamSets}

\* f(x: int8, y: int16 = 10) called as f(): x lacks a default.
DefaultAfterGap == <<Param("x", IntT(8), FALSE), Param("y", IntT(16), TRUE)>>
ShortCall == {Prog(DefaultAfterGap, <<Call(<<>>)>>)}
\* ... and then, well-typed, as f(1).
ShortThenFullCall == {Prog(DefaultAfterGap, <<Call(<<>>), Call(<<Lit>>)>>)}
\* f(x: tuple<int16>, y: int8) called as f((1), 2).
TupleFirstCall ==
  {Prog(<<Param("x", TupleT(<<IntT(16)>>), FALSE), Param("y", IntT(8), FALSE)>>,
        <<Call(<<Tup(<<Lit>>), Lit>>)>>)}
\* f(x: any) called as f((1)).
TupleToAnyCall == {Prog(<<Param("x", AnyT, FALSE)>>, <<Call(<<Tup(<<Lit>>)>>)>>)}
\* f(): int16 { return.result (1, 2) }.
TupleReturn ==
  {[params |-> <<>>, result |-> IntT(16), fbody |-> <<Ret(Tup(<<Lit, Lit>>))>>, gbody |-> <<>>]}

\* g logs through debug.msg: no arguments (message's default), a literal
\* beside an int32 global, an unknown ID beside a literal with a width.
DebugMsgs ==
  {[params |-> <<>>, result |-> IntT(16), fbody |-> <<Ret(Lit)>>, gbody |-> <<Message(a)>>] :
     a \in {<<>>, <<Lit, Ref("a")>>, <<Ref("zz"), LitW(16), Lit>>}}

\* The passing run: all three families.
AllPrograms == MCPrograms \cup WellTyped \cup DebugMsgs
=============================================================================
