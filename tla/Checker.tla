------------------------------ MODULE Checker ------------------------------
(***************************************************************************)
(* The module-level and instruction checks of checker/module.py.  The      *)
(* tree dispatch (spec 4.1) visits the tree depth first and calls one      *)
(* handler per node; the input here is that visit order, a sequence of    *)
(* handler events:                                                         *)
(*   [ev "preModule", name, ids]  ids: <<[name, role, kind]>>             *)
(*   [ev "postModule"]                                                     *)
(*   [ev "id", kind]              an ID node of type StructDecl or value   *)
(*   [ev "preFunction", cc, args, locals]   args, locals: <<kind>>        *)
(*   [ev "postFunction"]                                                   *)
(*   [ev "instr", sigok, target]  sigok: the Signature's verdict           *)
(* A type is abstracted to its kind: "value", "wildvalue" (a value type    *)
(* with wildcardType()), "int0" (an integer of width 0), "function",       *)
(* "typedecl", "label", "any", "other".  Diagnostics are kept as the       *)
(* sequence of [at, msg] the error sink receives.                          *)
(***************************************************************************)
EXTENDS Integers, Sequences, SequencesExt, FiniteSets

CONSTANTS
  Trees,  \* the visit orders of the trees the front end can produce
  None

VARIABLES
  tree,        \* the visit order being checked
  pc,          \* index of the next event
  haveModule,  \* self._have_module  (moduleSeen())
  haveOthers,  \* self._have_others  (declSeen())
  module,      \* self._module
  function,    \* self._function     (currentFunction())
  errors,      \* the diagnostics reported, in order
  crashed      \* an uncaught Python exception ended the pass

vars == <<tree, pc, haveModule, haveOthers, module, function, errors, crashed>>

Running == ~crashed /\ pc <= Len(tree)
E == tree[pc]
\* mutant: the diagnostic attached to the node visited before
ReportPrev(msgs) == errors' = errors \o [k \in 1..Len(msgs) |-> [at |-> pc - 1, msg |-> msgs[k]]]
Report(msgs) == errors' = errors \o [k \in 1..Len(msgs) |-> [at |-> pc, msg |-> msgs[k]]]
Opt(c, msg) == IF c THEN <<msg>> ELSE <<>>
Advance == pc' = pc + 1

(***************************************************************************)
(* pre(Module).  The loop over the globals stops at the first bad one.    *)
(***************************************************************************)
\* m.lookupID("run"), and the two checks on it when m is "main"
EntryErrors(m) ==
  LET p == SelectInSeq(m.ids, LAMBDA i : i.name = "run")
  IN IF m.name # "main" THEN <<>>
     ELSE IF p = 0 THEN <<"norun">>
     ELSE Opt(m.ids[p].kind # "function", "runnotfunction")

BadGlobal(i) == i.role = "global" /\ i.kind \in {"other", "wildvalue"}
GlobalErrors(m) ==
  LET p == SelectInSeq(m.ids, BadGlobal)
  IN IF p = 0 THEN <<>>
     ELSE IF m.ids[p].kind = "other" THEN <<"illegalglobal">> ELSE <<"wildglobal">>

PreModule ==
  /\ Running /\ E.ev = "preModule"
  /\ Report(Opt(haveModule, "twomodules") \o Opt(haveOthers, "notfirst")
            \o EntryErrors(E) \o GlobalErrors(E))
  /\ haveModule' = TRUE
  /\ module' = E.name
  /\ Advance
  /\ UNCHANGED <<tree, haveOthers, function, crashed>>

PostModule ==
  /\ Running /\ E.ev = "postModule"
  /\ module' = None
  /\ Advance
  /\ UNCHANGED <<tree, haveModule, haveOthers, function, errors, crashed>>

(***************************************************************************)
(* The ID handlers: a StructDecl inside a function is an error; both mark  *)
(* a declaration as seen.                                                  *)
(***************************************************************************)
StructDeclID ==
  /\ Running /\ E.ev = "id" /\ E.kind = "struct"
  /\ Report(Opt(function # None, "structinfunction"))
  /\ haveOthers' = TRUE
  /\ Advance
  /\ UNCHANGED <<tree, haveModule, module, function, crashed>>

ValueTypeID ==
  /\ Running /\ E.ev = "id" /\ E.kind = "value"
  /\ haveOthers' = TRUE
  /\ Advance
  /\ UNCHANGED <<tree, haveModule, module, function, errors, crashed>>

(***************************************************************************)
(* pre(Function): the parameter loop and the locals loop each stop at      *)
(* their first violation.                                                  *)
(***************************************************************************)
ParamErrors(f) ==
  LET bad(a) == a \in {"any", "wildvalue"} /\ f.cc # "C_HILTI"
      p == SelectInSeq(f.args, bad)
  IN IF p = 0 THEN <<>>
     ELSE IF f.args[p] = "any" THEN <<"anyparam">> ELSE <<"wildparam">>

LocalMsg == [other |-> "localnotstorage", wildvalue |-> "wildlocal", int0 |-> "zerowidthlocal"]
LocalErrors(f) ==
  LET p == SelectInSeq(f.locals, LAMBDA k : k \in DOMAIN LocalMsg)
  IN IF p = 0 THEN <<>> ELSE <<LocalMsg[f.locals[p]]>>

\* mutant: the calling-convention test inverted
PreFunctionCcInverted ==
  /\ Running /\ E.ev = "preFunction"
  /\ Report(Opt(~haveModule, "nomodule")
            \o ParamErrors([E EXCEPT !.cc = IF @ = "C_HILTI" THEN "HILTI" ELSE "C_HILTI"])
            \o LocalErrors(E))
  /\ haveOthers' = TRUE
  /\ function' = pc
  /\ Advance
  /\ UNCHANGED <<tree, haveModule, module, crashed>>

PreFunction ==
  /\ Running /\ E.ev = "preFunction"
  /\ Report(Opt(~haveModule, "nomodule") \o ParamErrors(E) \o LocalErrors(E))
  /\ haveOthers' = TRUE
  /\ function' = pc
  /\ Advance
  /\ UNCHANGED <<tree, haveModule, module, crashed>>

\* mutant: post(Function) does not clear the current function
PostFunctionKeeps ==
  /\ Running /\ E.ev = "postFunction"
  /\ Advance
  /\ UNCHANGED <<tree, haveModule, haveOthers, module, function, errors, crashed>>

PostFunction ==
  /\ Running /\ E.ev = "postFunction"
  /\ function' = None
  /\ Advance
  /\ UNCHANGED <<tree, haveModule, haveOthers, module, errors, crashed>>

(***************************************************************************)
(* The Instruction handler.  Before any module header it calls            *)
(* self.error(f, ...) with f unbound: the NameError ends the pass.  A     *)
(* failed signature match is reported and returns before the target test. *)
(***************************************************************************)
Instruction ==
  /\ Running /\ E.ev = "instr"
  /\ IF ~haveModule
       THEN /\ crashed' = TRUE
            /\ UNCHANGED <<haveOthers, errors, pc>>
       ELSE /\ Report(IF ~E.sigok THEN <<"signature">>
                      ELSE Opt(E.target = "expr", "targetnotid"))
            /\ haveOthers' = TRUE
            /\ Advance
            /\ UNCHANGED crashed
  /\ UNCHANGED <<tree, haveModule, module, function>>

Init ==
  /\ tree \in Trees
  /\ pc = 1
  /\ haveModule = FALSE
  /\ haveOthers = FALSE
  /\ module = None
  /\ function = None
  /\ errors = <<>>
  /\ crashed = FALSE

Next ==
  \/ PreModule \/ PostModule
  \/ StructDeclID \/ ValueTypeID
  \/ PreFunction \/ PostFunction
  \/ Instruction

Spec == Init /\ [][Next]_vars

Done == ~Running
-----------------------------------------------------------------------------
(***************************************************************************)
(* Properties.                                                             *)
(***************************************************************************)
Msgs == {"twomodules", "notfirst", "norun", "runnotfunction", "illegalglobal",
         "wildglobal", "structinfunction", "nomodule", "anyparam", "wildparam",
         "localnotstorage", "wildlocal", "zerowidthlocal", "signature", "targetnotid"}

\* The handlers keep the cursors within the tree and report only known
\* diagnostics, each attached to an event of the visit.
TypeOK ==
  /\ pc \in 1..Len(tree) + 1
  /\ haveModule \in BOOLEAN /\ haveOthers \in BOOLEAN /\ crashed \in BOOLEAN
  /\ function \in {None} \cup 1..Len(tree)
  /\ \A k \in 1..Len(errors) : errors[k].at \in 1..Len(tree) /\ errors[k].msg \in Msgs

(***************************************************************************)
(* The rules of spec 4.3, stated over the whole visit order rather than    *)
(* handler by handler.                                                     *)
(***************************************************************************)
Positions(ev) == {p \in 1..Len(tree) : tree[p].ev = ev}
Decls == Positions("id") \cup Positions("preFunction") \cup Positions("instr")
InFunction(p) ==
  Cardinality({q \in Positions("preFunction") : q < p})
    > Cardinality({q \in Positions("postFunction") : q < p})

ValidTree ==
  /\ Cardinality(Positions("preModule")) <= 1
  /\ \A p \in Positions("preModule") : \A q \in Decls : q > p
  /\ \A p \in Positions("preModule") :
       LET ids == tree[p].ids
       IN /\ tree[p].name = "main" =>
               \E k \in 1..Len(ids) : /\ ids[k].name = "run" /\ ids[k].kind = "function"
                                    /\ \A j \in 1..k-1 : ids[j].name # "run"
          /\ \A k \in 1..Len(ids) :
               ids[k].role = "global" => ids[k].kind \in {"value", "function", "typedecl"}
  /\ \A p \in Positions("id") : tree[p].kind = "struct" => ~InFunction(p)
  /\ \A p \in Positions("preFunction") :
       /\ tree[p].cc # "C_HILTI" => \A k \in 1..Len(tree[p].args) : tree[p].args[k] = "value"
       /\ \A k \in 1..Len(tree[p].locals) : tree[p].locals[k] \in {"value", "label"}
  /\ \A p \in Positions("instr") : tree[p].sigok /\ tree[p].target # "expr"

\* Codegen runs only when the checker reported nothing, and assumes a tree
\* that satisfies every rule of spec 4.3: when the checker's pass over the
\* handlers of checker/module.py ends without crashing, it has reported no
\* diagnostic exactly when the tree obeys the rules, whatever the order of
\* modules, declarations and functions and however the loops short-circuit.
ValidIffClean == (Done /\ ~crashed) => (errors = <<>> <=> ValidTree)

(***************************************************************************)
(* The diagnostics that depend on the order of the visit, and the one      *)
(* diagnostic an instruction gets: each is attached to a node that breaks  *)
(* the rule it names, judged from the visit order up to that node.         *)
(***************************************************************************)
Before(ev, p) == \E q \in Positions(ev) : q < p

Breaks(m, p) ==
  CASE m = "twomodules"       -> Before("preModule", p)
    [] m = "notfirst"         -> \E q \in Decls : q < p
    [] m = "nomodule"         -> ~Before("preModule", p)
    [] m = "structinfunction" -> InFunction(p)
    [] m = "signature"        -> ~tree[p].sigok
    [] m = "targetnotid"      -> tree[p].sigok /\ tree[p].target = "expr"
    [] OTHER                  -> TRUE

\* The handlers judge order through flags (_have_module, _have_others) and
\* the current function, which post(Function) must clear: a struct
\* declared after a function body is not "inside a function", a header
\* after a declaration is "not first".  Every diagnostic the checker
\* reports names a rule the node it is attached to really breaks, and an
\* instruction gets at most one diagnostic (the handler returns after a
\* failed signature match, before the target test).
DiagnosticsJustified ==
  /\ \A k \in 1..Len(errors) : Breaks(errors[k].msg, errors[k].at)
  /\ \A p \in Positions("instr") :
       Cardinality({k \in 1..Len(errors) : errors[k].at = p}) <= 1

\* Spec 4.2/4.3 and 7: the checker reports and continues, it never aborts;
\* an instruction before any module header is reported per occurrence.
NoCrash == ~crashed
=============================================================================
