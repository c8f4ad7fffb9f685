----------------------------- MODULE MC_FrontEnd -----------------------------
(***************************************************************************)
(* The two passes over the tree, each over its own family of inputs: the   *)
(* Resolver over the programs of MC_Resolver, the Checker over the visit   *)
(* orders of CheckerTrees.  part says which pass a behaviour checks; the   *)
(* other pass's variables stay at one of its initial states, so the two    *)
(* never interleave.  The Checker's cursor variables are renamed, since    *)
(* both classes keep _module, _function and an error count.               *)
(***************************************************************************)
EXTENDS MC_Resolver

VARIABLES tree, ckPc, haveModule, haveOthers, ckModule, ckFunction, ckErrors,
          ckCrashed, part

ckVars == <<tree, ckPc, haveModule, haveOthers, ckModule, ckFunction, ckErrors, ckCrashed>>
allVars == <<vars, ckVars, part>>

CT == INSTANCE CheckerTrees

C == INSTANCE Checker WITH
       Trees <- CT!MCTrees, pc <- ckPc, module <- ckModule, function <- ckFunction,
       errors <- ckErrors, crashed <- ckCrashed

\* The resting state of the pass a behaviour does not check.
ResolverIdle == InitFrom(CHOOSE in \in Programs : TRUE)
CheckerIdle == C!Init /\ tree = CHOOSE t \in CT!MCTrees : TRUE

FrontInit ==
  \/ part = "resolver" /\ Init /\ CheckerIdle
  \/ part = "checker" /\ ResolverIdle /\ C!Init

\* A step of the pass the behaviour checks.
ResolverStep(A) == part = "resolver" /\ A /\ UNCHANGED <<ckVars, part>>
CheckerStep(A) == part = "checker" /\ A /\ UNCHANGED <<vars, part>>

FrontNext ==
  \/ ResolverStep(ResolveOperands) \/ ResolverStep(PreModule)
  \/ ResolverStep(PostModule) \/ ResolverStep(PreFunction)
  \/ ResolverStep(PostFunction) \/ ResolverStep(Instruction) \/ ResolverStep(Return)
  \/ CheckerStep(C!PreModule) \/ CheckerStep(C!PostModule)
  \/ CheckerStep(C!StructDeclID) \/ CheckerStep(C!ValueTypeID)
  \/ CheckerStep(C!PreFunction) \/ CheckerStep(C!PostFunction)
  \/ CheckerStep(C!Instruction)

FrontSpec == FrontInit /\ [][FrontNext]_allVars

-----------------------------------------------------------------------------
\* The Checker's type invariant (Checker!TypeOK): the cursor stays inside
\* the visit order and every diagnostic is one of the handlers' kinds.
CheckerTypeOK == part \in {"resolver", "checker"} /\ C!TypeOK

\* When the Checker's pass ends without an exception, it has reported no
\* diagnostic exactly when the tree satisfies the rules of spec 4.3
\* (Checker!ValidIffClean).
ValidIffClean == C!ValidIffClean

\* Every diagnostic of checker/module.py's handlers is attached to a node
\* that breaks the order rule it names (header first, one module, struct
\* outside functions, functions after the header), and an instruction gets
\* at most one diagnostic (Checker!DiagnosticsJustified).
DiagnosticsJustified == C!DiagnosticsJustified
=============================================================================
