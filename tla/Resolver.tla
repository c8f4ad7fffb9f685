------------------------------ MODULE Resolver ------------------------------
(***************************************************************************)
(* The HILTI Resolver, src/hilti/python/hilti/parser/resolver.py: a pass   *)
(* over a module that binds IDOperands to the declared type of their ID,   *)
(* appends default arguments to short calls and gives every integer        *)
(* constant without a width one.                                           *)
(*                                                                         *)
(* The module holds two functions, f (index 1) and g (index 2), visited    *)
(* in that order.  Operands are objects: opnd maps an operand's identity   *)
(* (its path in the input tree) to its current record.  An operand that    *)
(* sits in two places, a parameter default appended to a call's argument  *)
(* tuple, is therefore one object, as in the Python code.                  *)
(***************************************************************************)
EXTENDS Integers, Sequences, SequencesExt, FiniteSets

CONSTANTS
  None,        \* Python's None: no operand, no default, no cursor, no signature.
  Globals,     \* module scope: a function from names to types.
  FLocals,     \* local scope of f: a function from names to types.
  GLocals,     \* local scope of g: a function from names to types.
  Programs,    \* input programs [params, result, fbody, gbody]: the parameters
               \* [n, t, d] of f, its result type, and the instruction shapes
               \* of the bodies of f and g
  Runs         \* how often resolveOperands() is called on the same tree.

ASSUME Runs \in 1..2

(***************************************************************************)
(* Types.  Every type is a record [k, w, ts]: the kind, an integer width   *)
(* (0: not set yet) and the element types of a tuple.                      *)
(***************************************************************************)
IntT(w)     == [k |-> "int", w |-> w, ts |-> <<>>]
TupleT(ts)  == [k |-> "tuple", w |-> 0, ts |-> ts]
AnyT        == [k |-> "any", w |-> 0, ts |-> <<>>]
BoolT       == [k |-> "bool", w |-> 0, ts |-> <<>>]
StringT     == [k |-> "string", w |-> 0, ts |-> <<>>]
VoidT       == [k |-> "void", w |-> 0, ts |-> <<>>]
FuncT       == [k |-> "func", w |-> 0, ts |-> <<>>]
UnknownT    == [k |-> "unknown", w |-> 0, ts |-> <<>>]
\* A signature slot that is a constraint function rather than a Type.
Constraint  == [k |-> "constraint", w |-> 0, ts |-> <<>>]
IsType(sig) == sig # None /\ sig.k # "constraint"
IsInt(t)    == t # None /\ t.k = "int"

(***************************************************************************)
(* Input shapes, from which Init builds the tree: an integer literal with  *)
(* or without a width, a bool or string literal, a reference to a name,   *)
(* a tuple.                                                                *)
(***************************************************************************)
Lit         == [k |-> "lit", w |-> 0, n |-> "", es |-> <<>>]
LitW(w)     == [k |-> "lit", w |-> w, n |-> "", es |-> <<>>]
BoolLit     == [k |-> "bool", w |-> 0, n |-> "", es |-> <<>>]
StrLit      == [k |-> "str", w |-> 0, n |-> "", es |-> <<>>]
Ref(n)      == [k |-> "id", w |-> 0, n |-> n, es |-> <<>>]
Tup(es)     == [k |-> "tup", w |-> 0, n |-> "", es |-> es]
Slots       == <<"op1", "op2", "op3", "target">>
NoSig       == [s \in ToSet(Slots) |-> Constraint]
Instr(kind, o1, o2, o3, tg, sig) ==
  [kind |-> kind, op1 |-> o1, op2 |-> o2, op3 |-> o3, target |-> tg, sig |-> sig]

\* instructions/debug.py: debug.msg has the constraints string, string and
\* tuple for its operands and no target.  message(stream, fmt, args) builds
\* one from two string constants and a TupleOperand of the arguments.
MsgSig == [NoSig EXCEPT !.target = None]
Message(args) == Instr("debug.msg", StrLit, StrLit, Tup(args), None, MsgSig)

RECURSIVE ShapeType(_)
ShapeType(sh) ==
  CASE sh.k = "lit"  -> IntT(sh.w)
    [] sh.k = "bool" -> BoolT
    [] sh.k = "str"  -> StringT
    [] sh.k = "id"   -> UnknownT
    [] sh.k = "tup"  -> TupleT([j \in DOMAIN sh.es |-> ShapeType(sh.es[j])])

RECURSIVE SubPaths(_)
SubPaths(sh) ==
  {<<>>} \cup UNION {{<<j>> \o q : q \in SubPaths(sh.es[j])} : j \in DOMAIN sh.es}

RECURSIVE ShapeAt(_, _)
ShapeAt(sh, q) == IF q = <<>> THEN sh ELSE ShapeAt(sh.es[Head(q)], Tail(q))

\* The operand object at path o built from shape sh; IDOperands start Unknown.
Node(sh, o) ==
  [k  |-> CASE sh.k \in {"lit", "bool", "str"} -> "const"
            [] sh.k = "id" -> "id"
            [] sh.k = "tup" -> "tuple",
   t  |-> ShapeType(sh),
   n  |-> sh.n,
   es |-> [j \in DOMAIN sh.es |-> Append(o, j)]]

\* The operand store for a set of roots <<path, shape>>.
StoreOf(roots) ==
  LET P == UNION {{<<r[1] \o q, r[2], q>> : q \in SubPaths(r[2])} : r \in roots}
  IN [o \in {x[1] : x \in P} |->
        LET x == CHOOSE x \in P : x[1] = o IN Node(ShapeAt(x[2], x[3]), o)]

VARIABLES
  prog,      \* the functions: [params, result, locals, body]; fixed after Init
  opnd,      \* operand identity -> [k, t, n, es], mutated in place
  pc,        \* [run, at]: the traversal position (an index into Events)
  module,    \* Resolver._module: TRUE while inside the module
  function,  \* Resolver._function: index of the current function or None
  errors,    \* Resolver._errors
  counts,    \* the values resolveOperands() returned, in order
  first,     \* the tree as the first run left it (history)
  crashed,   \* an exception escaped the pass
  orig       \* the tree before the first run (history)

vars == <<prog, opnd, pc, module, function, errors, counts, first, crashed, orig>>

FnName == <<"f", "g">>

-----------------------------------------------------------------------------
(***************************************************************************)
(* The traversal.  The visitor (hilti.core.visitor, not in this tree)      *)
(* calls pre(Module), then for each function pre(Function), the handler    *)
(* of each instruction in order, post(Function), and finally post(Module). *)
(***************************************************************************)
Ev(e, f, j) == [e |-> e, f |-> f, j |-> j]
FnEvents(i) ==
  <<Ev("preFunction", i, 0)>>
    \o [j \in 1..Len(prog[i].body) |-> Ev("instr", i, j)]
    \o <<Ev("postFunction", i, 0)>>
Events ==
  <<Ev("resolve", 0, 0), Ev("preModule", 0, 0)>>
    \o FnEvents(1) \o FnEvents(2)
    \o <<Ev("postModule", 0, 0), Ev("return", 0, 0)>>
At == Events[pc.at]
Running == ~crashed /\ pc.at <= Len(Events)
Step == pc' = [pc EXCEPT !.at = @ + 1]

-----------------------------------------------------------------------------
(***************************************************************************)
(* Helpers of resolver.py.                                                 *)
(***************************************************************************)
Present(I) == SelectSeq(Slots, LAMBDA s : I[s] # None)

\* An operand and, for a tuple, every operand inside it.
RECURSIVE Reach(_, _)
Reach(o, st) == {o} \cup UNION {Reach(e, st) : e \in ToSet(st[o].es)}

\* Resolver.resolveID: function locals, then parameters, then the module.
ResolveID(n, i) ==
  LET ps == {p \in DOMAIN prog[i].params : prog[i].params[p].n = n}
  IN IF n \in DOMAIN prog[i].locals THEN prog[i].locals[n]
     ELSE IF ps # {} THEN prog[i].params[Min(ps)].t
     ELSE IF n \in DOMAIN Globals THEN Globals[n]
     ELSE None

\* Mutant of Unbound: resolveOp does not descend into tuples.
UnboundTop(I, st) ==
  {o \in {I[s] : s \in ToSet(Present(I))} : st[o].k = "id" /\ st[o].t = UnknownT}

\* IDOperands of instruction I that resolveInstrOperands looks up.
Unbound(I, st) ==
  {o \in UNION {Reach(I[s], st) : s \in ToSet(Present(I))} :
      st[o].k = "id" /\ st[o].t = UnknownT}

\* Resolver.resolveInstrOperands: setID on every ID found; the others stay.
ResolveInstrOperands(i, I, st) ==
  [o \in DOMAIN st |->
     IF o \in Unbound(I, st) /\ ResolveID(st[o].n, i) # None
     THEN [st[o] EXCEPT !.t = ResolveID(st[o].n, i)]
     ELSE st[o]]

\* The error() calls resolveInstrOperands makes.
UnknownIDs(i, I, st) == Cardinality({o \in Unbound(I, st) : ResolveID(st[o].n, i) = None})

\* TupleOperand.setTuple: the tuple's type is recomputed from its elements.
SetTuple(o, st) ==
  [st EXCEPT ![o].t = TupleT([j \in DOMAIN st[o].es |-> st[st[o].es[j]].t])]

\* Mutant of SetIntWidth: a width in bytes taken as bits.
SetIntWidthScaled(o, w, st) ==
  IF st[o].t.w > 0 THEN st ELSE [st EXCEPT ![o].t = IntT(w * 8)]

\* Resolver._setIntWidth: a width already set is never changed.
SetIntWidth(o, w, st) ==
  IF st[o].t.w > 0 THEN st ELSE [st EXCEPT ![o].t = IntT(w)]

\* Resolver.applyDefaultParams.
ApplyDefaultParams(c, o, st) ==
  LET args == st[o].es
      defaults == [p \in DOMAIN prog[c].params |-> prog[c].params[p].d]
  IN IF st[o].k # "tuple" \/ Len(args) >= Len(defaults) THEN st
     ELSE SetTuple(o, [st EXCEPT ![o].es =
            args \o SelectSeq(SubSeq(defaults, Len(args) + 1, Len(defaults)),
                              LAMBDA d : d # None)])

(***************************************************************************)
(* Resolver.adaptIntParams, its loop _adaptSingle from position i.  An     *)
(* IndexError or AttributeError ends the loop of the frame that catches   *)
(* it; a tuple argument is recursed into and then ends the loop.           *)
(***************************************************************************)
RECURSIVE AdaptSingle(_, _, _, _)
AdaptSingle(tup, i, types, st) ==
  LET args == st[tup].es
      a == args[i]
  IN IF i > Len(args) THEN st
     ELSE IF st[a].k = "tuple"
       THEN IF i > Len(types) \/ types[i].k # "tuple" THEN st
            ELSE SetTuple(tup, AdaptSingle(a, 1, types[i].ts, st))
     ELSE IF st[a].k # "const" \/ ~IsInt(st[a].t) \/ st[a].t.w # 0
       THEN AdaptSingle(tup, i + 1, types, st)
     ELSE IF types # <<>> /\ i > Len(types) THEN st
     ELSE LET w == IF types # <<>> /\ IsInt(types[i]) /\ types[i].w > 0 THEN types[i].w ELSE 64
          IN AdaptSingle(tup, i + 1, types, SetTuple(tup, SetIntWidth(a, w, st)))

\* Mutant of AdaptIntParams: the prototype's types are not consulted.
AdaptIntParamsNoProto(c, o, st) ==
  IF st[o].k # "tuple" THEN st ELSE AdaptSingle(o, 1, <<>>, st)

AdaptIntParams(c, o, st) ==
  IF st[o].k # "tuple" THEN st
  ELSE AdaptSingle(o, 1, [p \in DOMAIN prog[c].params |-> prog[c].params[p].t], st)

(***************************************************************************)
(* Resolver.adaptIntReturn.  rt.types() on a non-tuple result type and an  *)
(* index past its end raise, and nothing catches them: RetCrash.           *)
(***************************************************************************)
RECURSIVE RetSingle(_, _, _)
RetSingle(o, rt, st) ==
  IF st[o].k = "tuple"
  THEN FoldLeft(LAMBDA s, j : RetSingle(st[o].es[j], rt.ts[j], s), st, [j \in DOMAIN st[o].es |-> j])
  ELSE IF st[o].k # "const" \/ ~IsInt(st[o].t) \/ st[o].t.w > 0 \/ ~IsInt(rt) THEN st
  ELSE SetIntWidth(o, rt.w, st)

RECURSIVE RetCrash(_, _, _)
RetCrash(o, rt, st) ==
  /\ st[o].k = "tuple" /\ st[o].es # <<>>
  /\ \/ rt.k # "tuple"
     \/ Len(rt.ts) < Len(st[o].es)
     \/ \E j \in DOMAIN st[o].es : RetCrash(st[o].es[j], rt.ts[j], st)

AdaptIntReturn(i, o, st) == RetSingle(o, prog[i].result, st)

(***************************************************************************)
(* Resolver._adaptIntValues over a sequence of [o, ty, sig] (o may be      *)
(* None): constants get the signature's pinned width, else the widest      *)
(* integer among the entries, else 64.                                     *)
(***************************************************************************)
AdaptIntValues(ops, st) ==
  LET widths == {ops[x].ty.w : x \in {x \in DOMAIN ops : IsInt(ops[x].ty)}}
      maxw == IF widths = {} \/ Max(widths) = 0 THEN 64 ELSE Max(widths)
      Adapt(s, x) ==
        IF ops[x].o = None \/ s[ops[x].o].k # "const" \/ ~IsInt(ops[x].ty) THEN s
        ELSE SetIntWidth(ops[x].o,
               IF IsInt(ops[x].sig) /\ ops[x].sig.w > 0 THEN ops[x].sig.w ELSE maxw, s)
  IN FoldLeft(Adapt, st, [x \in DOMAIN ops |-> x])

\* The operand entries adaptIntConsts collects: op1, op2, op3, target.
AllOps(I, st) == [x \in DOMAIN Present(I) |->
                    LET s == Present(I)[x] IN [o |-> I[s], ty |-> st[I[s]].t, sig |-> I.sig[s]]]

\* The column adaptIntConsts builds for a tuple operand or tuple-typed ID.
Column(e, st) ==
  LET types == e.ty.ts
      vals == IF st[e.o].k = "tuple" THEN st[e.o].es ELSE [j \in DOMAIN types |-> None]
      sigs == IF IsType(e.sig) THEN e.sig.ts ELSE [j \in DOMAIN types |-> None]
      len == Min({Len(vals), Len(types), Len(sigs)})
  IN [j \in 1..len |-> [o |-> vals[j], ty |-> types[j], sig |-> sigs[j]]]

HasColumn(e, st) == st[e.o].k = "tuple" \/ (st[e.o].k = "id" /\ e.ty.k = "tuple")

\* sig.types() on a signature Type that is not a tuple raises, uncaught.
ConstsCrash(I, st) ==
  \E x \in DOMAIN AllOps(I, st) :
     LET e == AllOps(I, st)[x] IN HasColumn(e, st) /\ IsType(e.sig) /\ e.sig.k # "tuple"

\* Mutant of AdaptIntConsts: the zip over the tuple columns starts at the
\* second position, as range(1, n) would.
AdaptIntConstsSkipFirst(I, st) ==
  LET ops == AllOps(I, st)
      cols == [x \in DOMAIN SelectSeq(ops, LAMBDA e : HasColumn(e, st)) |->
                 Column(SelectSeq(ops, LAMBDA e : HasColumn(e, st))[x], st)]
      len == IF cols = <<>> THEN 0 ELSE Min({Len(cols[c]) : c \in DOMAIN cols})
      st1 == AdaptIntValues(ops, st)
      st2 == FoldLeft(LAMBDA s, p : AdaptIntValues([c \in DOMAIN cols |-> cols[c][p]], s),
                      st1, [p \in 1..len - 1 |-> p + 1])
      tups == {ops[x].o : x \in {x \in DOMAIN ops : st[ops[x].o].k = "tuple"}}
  IN [o \in DOMAIN st2 |-> IF o \in tups THEN SetTuple(o, st2)[o] ELSE st2[o]]

\* Resolver.adaptIntConsts: direct operands, then tuple positions (zip
\* truncates to the shortest column), then setTuple on tuple operands.
AdaptIntConsts(I, st) ==
  LET ops == AllOps(I, st)
      cols == [x \in DOMAIN SelectSeq(ops, LAMBDA e : HasColumn(e, st)) |->
                 Column(SelectSeq(ops, LAMBDA e : HasColumn(e, st))[x], st)]
      len == IF cols = <<>> THEN 0 ELSE Min({Len(cols[c]) : c \in DOMAIN cols})
      st1 == AdaptIntValues(ops, st)
      st2 == FoldLeft(LAMBDA s, p : AdaptIntValues([c \in DOMAIN cols |-> cols[c][p]], s),
                      st1, [p \in 1..len |-> p])
      tups == {ops[x].o : x \in {x \in DOMAIN ops : st[ops[x].o].k = "tuple"}}
  IN [o \in DOMAIN st2 |-> IF o \in tups THEN SetTuple(o, st2)[o] ELSE st2[o]]

\* Module.lookupIDVal(op1.name): the called function, or 0.  An op1 that
\* is not an ID has no name(): the AttributeError is caught nowhere.
CallCrash(I, st) == I.kind = "call" /\ st[I.op1].k # "id"
Callee(I, st) ==
  IF \E c \in 1..2 : FnName[c] = st[I.op1].n
  THEN CHOOSE c \in 1..2 : FnName[c] = st[I.op1].n ELSE 0

-----------------------------------------------------------------------------
(***************************************************************************)
(* Actions: one per handler the resolver registers, and the two ends of    *)
(* resolveOperands().                                                       *)
(***************************************************************************)

\* resolveOperands(): reset() and start the visit.
ResolveOperands ==
  /\ Running /\ At.e = "resolve"
  /\ errors' = 0
  /\ Step
  /\ UNCHANGED <<prog, opnd, module, function, counts, first, crashed, orig>>

PreModule ==
  /\ Running /\ At.e = "preModule"
  /\ module' = TRUE
  /\ Step
  /\ UNCHANGED <<prog, opnd, function, errors, counts, first, crashed, orig>>

PostModule ==
  /\ Running /\ At.e = "postModule"
  /\ module' = FALSE
  /\ Step
  /\ UNCHANGED <<prog, opnd, function, errors, counts, first, crashed, orig>>

PreFunction ==
  /\ Running /\ At.e = "preFunction"
  /\ function' = At.f
  /\ Step
  /\ UNCHANGED <<prog, opnd, module, errors, counts, first, crashed, orig>>

PostFunction ==
  /\ Running /\ At.e = "postFunction"
  /\ function' = None
  /\ Step
  /\ UNCHANGED <<prog, opnd, module, errors, counts, first, crashed, orig>>

\* The when(Instruction) handler, whole: resolveInstrOperands, for a call
\* applyDefaultParams and adaptIntParams, for a return adaptIntReturn,
\* then adaptIntConsts.
Instruction ==
  /\ Running /\ At.e = "instr"
  /\ LET I   == prog[At.f].body[At.j]
         st1 == ResolveInstrOperands(function, I, opnd)
         ncr == CallCrash(I, st1)
         c   == IF I.kind = "call" /\ ~ncr THEN Callee(I, st1) ELSE 0
         st2 == IF c # 0 THEN AdaptIntParams(c, I.op2, ApplyDefaultParams(c, I.op2, st1))
                ELSE st1
         rcr == I.kind = "return" /\ RetCrash(I.op1, prog[function].result, st2)
         st3 == IF I.kind = "return" /\ ~rcr THEN AdaptIntReturn(function, I.op1, st2)
                ELSE st2
         ccr == ~rcr /\ ConstsCrash(I, st3)
     IN /\ errors' = errors + UnknownIDs(function, I, opnd)
        /\ crashed' = (ncr \/ rcr \/ ccr)
        /\ opnd' = IF ncr THEN st1 ELSE IF rcr \/ ccr THEN st3 ELSE AdaptIntConsts(I, st3)
  /\ Step
  /\ UNCHANGED <<prog, module, function, counts, first, orig>>

\* resolveOperands() returns the error count; Runs > 1 calls it again.
Return ==
  /\ Running /\ At.e = "return"
  /\ counts' = Append(counts, errors)
  /\ first' = IF pc.run = 1 THEN opnd ELSE first
  /\ pc' = IF pc.run < Runs THEN [run |-> pc.run + 1, at |-> 1]
           ELSE [pc EXCEPT !.at = Len(Events) + 1]
  /\ UNCHANGED <<prog, opnd, module, function, errors, crashed, orig>>

Done == ~Running

-----------------------------------------------------------------------------
DefaultOid(p) == <<1, 0, p>>
SlotOid(i, j, s) == <<i, j, s>>

\* The functions with operands replaced by their identities.
ProgOf(ps, rt, fb, gb) ==
  LET Oids(i, b) == [j \in DOMAIN b |->
        [b[j] EXCEPT !.op1 = IF @ = None THEN None ELSE SlotOid(i, j, "op1"),
                     !.op2 = IF @ = None THEN None ELSE SlotOid(i, j, "op2"),
                     !.op3 = IF @ = None THEN None ELSE SlotOid(i, j, "op3"),
                     !.target = IF @ = None THEN None ELSE SlotOid(i, j, "target")]]
  IN <<[params |-> [p \in DOMAIN ps |-> [n |-> ps[p].n, t |-> ps[p].t,
                                         d |-> IF ps[p].d THEN DefaultOid(p) ELSE None]],
        result |-> rt, locals |-> FLocals, body |-> Oids(1, fb)],
       [params |-> <<>>, result |-> VoidT, locals |-> GLocals, body |-> Oids(2, gb)]>>

\* Every operand of the input: instruction slots and parameter defaults,
\* which the parser leaves as integer literals without a width.
RootsOf(ps, fb, gb) ==
  {<<DefaultOid(p), Lit>> : p \in {p \in DOMAIN ps : ps[p].d}}
    \cup UNION {{<<SlotOid(1, j, s), fb[j][s]>> : s \in ToSet(Present(fb[j]))} : j \in DOMAIN fb}
    \cup UNION {{<<SlotOid(2, j, s), gb[j][s]>> : s \in ToSet(Present(gb[j]))} : j \in DOMAIN gb}

\* The state before the first resolveOperands() on the tree of program in.
InitFrom(in) ==
  /\ prog = ProgOf(in.params, in.result, in.fbody, in.gbody)
  /\ opnd = StoreOf(RootsOf(in.params, in.fbody, in.gbody))
  /\ pc = [run |-> 1, at |-> 1]
  /\ module = FALSE
  /\ function = None
  /\ errors = 0
  /\ counts = <<>>
  /\ first = opnd
  /\ crashed = FALSE
  /\ orig = opnd

Init == \E in \in Programs : InitFrom(in)

Next ==
  \/ ResolveOperands
  \/ PreModule
  \/ PostModule
  \/ PreFunction
  \/ PostFunction
  \/ Instruction
  \/ Return

Spec == Init /\ [][Next]_vars

-----------------------------------------------------------------------------
(***************************************************************************)
(* Properties.                                                             *)
(***************************************************************************)
Scalars == {IntT(w) : w \in {0, 8, 16, 32, 64}} \cup {AnyT, BoolT, StringT, VoidT, FuncT, UnknownT}
RECURSIVE IsTypeValue(_)
IsTypeValue(t) ==
  \/ t \in Scalars
  \/ t.k = "tuple" /\ t.w = 0 /\ \A j \in DOMAIN t.ts : IsTypeValue(t.ts[j])

\* Every operand keeps a well-formed HILTI type through all the in-place
\* changes the handlers make, and the visit stays inside the event list.
TypeOK ==
  /\ \A o \in DOMAIN opnd :
        /\ opnd[o].k \in {"const", "id", "tuple"}
        /\ IsTypeValue(opnd[o].t)
        /\ ToSet(opnd[o].es) \subseteq DOMAIN opnd
  /\ pc.run \in 1..Runs /\ pc.at \in 1..Len(Events) + 1
  /\ module \in BOOLEAN
  /\ function \in {None, 1, 2}
  /\ errors \in Nat
  /\ counts \in Seq(Nat) /\ Len(counts) <= Runs
  /\ crashed \in BOOLEAN

\* Every operand reachable from an instruction of the tree.
TreeOids ==
  UNION {UNION {UNION {Reach(prog[i].body[j][s], opnd) : s \in ToSet(Present(prog[i].body[j]))} :
                   j \in DOMAIN prog[i].body} : i \in 1..2}

\* The identifiers left with type Unknown.
Unresolved == {o \in TreeOids : opnd[o].k = "id" /\ opnd[o].t = UnknownT}


(***************************************************************************)
(* Reference: the widths spec section 4.2 gives to integer constants, from *)
(* the tree before the pass and the declared types of identifiers.         *)
(*   1. a call argument: the callee's parameter type at that position      *)
(*      (64 for an unconstrained one), position-wise into tuples;          *)
(*   2. a return operand: the function's result type, likewise;            *)
(*   3. otherwise the widest typed integer among target and op1-op3,       *)
(*      position-wise into tuples, a width the signature pins winning;     *)
(*   4. else 64.                                                           *)
(***************************************************************************)
NoWidths == [o \in {} |-> 0]
Unset(o) == orig[o].k = "const" /\ IsInt(orig[o].t) /\ orig[o].t.w = 0

RECURSIVE DeclType(_, _)
DeclType(o, i) ==
  CASE orig[o].k = "id" -> IF ResolveID(orig[o].n, i) = None THEN UnknownT
                           ELSE ResolveID(orig[o].n, i)
    [] orig[o].k = "tuple" -> TupleT([j \in DOMAIN orig[o].es |-> DeclType(orig[o].es[j], i)])
    [] OTHER -> orig[o].t

\* Rules 1 and 2: operand o placed against the declared type t.
RECURSIVE Against(_, _)
Against(o, t) ==
  IF orig[o].k = "tuple"
  THEN FoldLeft(LAMBDA m, j : m @@ Against(orig[o].es[j],
                  IF t.k = "tuple" /\ j <= Len(t.ts) THEN t.ts[j] ELSE AnyT),
                NoWidths, [j \in DOMAIN orig[o].es |-> j])
  ELSE IF Unset(o) THEN o :> (IF IsInt(t) /\ t.w > 0 THEN t.w ELSE 64)
  ELSE NoWidths

\* Rule 3 over entries [o, t, sig] standing at one position.
Scan(ents) ==
  LET ws == {ents[x].t.w : x \in {x \in DOMAIN ents : IsInt(ents[x].t) /\ ents[x].t.w > 0}}
      maxw == IF ws = {} THEN 64 ELSE Max(ws)
  IN FoldLeft(LAMBDA m, x :
        IF ents[x].o # None /\ Unset(ents[x].o)
        THEN m @@ (ents[x].o :> (IF IsInt(ents[x].sig) /\ ents[x].sig.w > 0
                                 THEN ents[x].sig.w ELSE maxw))
        ELSE m, NoWidths, [x \in DOMAIN ents |-> x])

Generic(I, i) ==
  LET ents == [x \in DOMAIN Present(I) |->
                 LET s == Present(I)[x] IN [o |-> I[s], t |-> DeclType(I[s], i), sig |-> I.sig[s]]]
      tup == SelectSeq(ents, LAMBDA e : e.t.k = "tuple")
      At_(e, p) == [o   |-> IF orig[e.o].k = "tuple" THEN orig[e.o].es[p] ELSE None,
                    t   |-> e.t.ts[p],
                    sig |-> IF IsType(e.sig) /\ p <= Len(e.sig.ts) THEN e.sig.ts[p] ELSE None]
      len == IF tup = <<>> THEN 0 ELSE Max({Len(tup[x].t.ts) : x \in DOMAIN tup})
  IN FoldLeft(LAMBDA m, p :
        m @@ Scan(SelectSeq([x \in DOMAIN tup |-> IF p <= Len(tup[x].t.ts) THEN At_(tup[x], p) ELSE None],
                            LAMBDA e : e # None)),
        Scan(ents), [p \in 1..len |-> p])

\* The width each constant the pass must type should end with.
Expected(i, I) ==
  CASE I.kind = "call" /\ Callee(I, orig) # 0 ->
         LET c == Callee(I, orig)
             ps == prog[c].params
             missing == Len(orig[I.op2].es) + 1 .. Len(ps)
         IN Against(I.op2, TupleT([p \in DOMAIN ps |-> ps[p].t]))
            @@ (IF \A p \in missing : ps[p].d # None
                THEN FoldLeft(LAMBDA m, p : m @@ Against(ps[p].d, ps[p].t),
                              NoWidths, [x \in 1..Cardinality(missing) |-> Len(orig[I.op2].es) + x])
                ELSE NoWidths)
    [] I.kind = "return" -> Against(I.op1, prog[i].result)
    [] OTHER -> Generic(I, i)

(***************************************************************************)
(* resolveOperands() returns the number of identifiers it could not        *)
(* resolve: when a run returns, the error count equals the number of       *)
(* IDOperands in the tree, tuples included, still of type Unknown, on the  *)
(* first run and on a second one over the same tree.                       *)
(***************************************************************************)
CountsUnresolved ==
  (Running /\ At.e = "return") => errors = Cardinality(Unresolved)

(***************************************************************************)
(* Width inference agrees with the rules of spec section 4.2 (the          *)
(* reference above): after the pass, every integer constant that had no    *)
(* width, in every instruction, has the width those rules give it.         *)
(***************************************************************************)
InferredWidths ==
  (Done /\ ~crashed) =>
     \A i \in 1..2 : \A j \in DOMAIN prog[i].body :
        LET E == Expected(i, prog[i].body[j])
        IN \A o \in DOMAIN E : opnd[o].t.w = E[o]

(***************************************************************************)
(* After the resolver, every integer constant of the tree has a nonzero    *)
(* width (spec section 3: "every integer Constant has nonzero width after  *)
(* Resolver runs"), tuple elements and appended defaults included.         *)
(***************************************************************************)
WidthsAssigned ==
  (Done /\ ~crashed) =>
     \A o \in TreeOids : (opnd[o].k = "const" /\ IsInt(opnd[o].t)) => opnd[o].t.w > 0

(***************************************************************************)
(* Running the resolver on a tree it has already resolved changes nothing  *)
(* (spec section 8): the second run leaves every operand as the first left *)
(* it and reports the same number of unresolved identifiers.               *)
(***************************************************************************)
Idempotent ==
  (Done /\ ~crashed /\ Len(counts) = 2) => (opnd = first /\ counts[1] = counts[2])

(***************************************************************************)
(* The resolver never aborts: an ill-formed tree is reported or left for   *)
(* the Checker, never met with an uncaught exception (spec 4.2, 7).         *)
(***************************************************************************)
NoCrash == ~crashed

=============================================================================
