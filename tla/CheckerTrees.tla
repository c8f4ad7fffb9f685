---------------------------- MODULE CheckerTrees ----------------------------
(***************************************************************************)
(* Visit orders for checking the checker: a module with a few globals, a   *)
(* function with parameters, locals, a struct declaration and one         *)
(* instruction, or a function followed by a struct declaration, optionally *)
(* preceded by a stray declaration or function and followed by a second   *)
(* module.  An event is what the visitor hands the checker's pre, when or *)
(* post handler, with the attributes it reads.                             *)
(***************************************************************************)
EXTENDS Sequences

Mod(n, ids) == [ev |-> "preModule", name |-> n, ids |-> ids]
EndMod == [ev |-> "postModule"]
Fn(cc, args, locals) == [ev |-> "preFunction", cc |-> cc, args |-> args, locals |-> locals]
EndFn == [ev |-> "postFunction"]
IdEv(k) == [ev |-> "id", kind |-> k]
In(ok, tg) == [ev |-> "instr", sigok |-> ok, target |-> tg]
G(n, role, k) == [name |-> n, role |-> role, kind |-> k]

IdLists == {<<G("run", "global", "function")>>,
            <<>>,
            <<G("run", "global", "value"), G("x", "local", "other")>>,
            <<G("x", "global", "wildvalue"), G("y", "global", "other"),
              G("run", "global", "function")>>}
ArgLists == {<<>>, <<"any">>, <<"value", "wildvalue">>}
LocalLists == {<<>>, <<"label", "int0">>, <<"wildvalue", "other">>}
Instrs == {In(TRUE, "none"), In(TRUE, "id"), In(TRUE, "expr"), In(FALSE, "expr")}
Leads == {<<>>, <<IdEv("value")>>, <<Fn("HILTI", <<>>, <<>>), EndFn>>}
Trails == {<<>>, <<Mod("other", <<>>), EndMod>>}

Bodies ==
  { <<Fn(cc, a, l)>> \o inner \o <<EndFn>> :
      cc \in {"HILTI", "C_HILTI"}, a \in ArgLists, l \in LocalLists,
      inner \in {<<i>> : i \in Instrs} \cup {<<IdEv("struct"), In(TRUE, "none")>>} }
  \cup { <<IdEv("struct")>>,
        <<Fn("HILTI", <<>>, <<>>), In(TRUE, "none"), EndFn, IdEv("struct")>> }

MCTrees ==
  { lead \o <<Mod(n, ids)>> \o body \o <<EndMod>> \o trail :
      lead \in Leads, n \in {"main", "other"}, ids \in IdLists,
      body \in Bodies, trail \in Trails }

\* An instruction ahead of the module header.
EarlyInstr == { <<In(TRUE, "none"), Mod("main", <<G("run", "global", "function")>>), EndMod>> }
=============================================================================
