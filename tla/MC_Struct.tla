------------------------------ MODULE MC_Struct ------------------------------
(***************************************************************************)
(* The struct codegen of codegen/struct.py, both halves: the instructions  *)
(* a program runs on struct objects (Struct) and the type information      *)
(* emitted for a struct type (StructTypeInfo).  part says which half a     *)
(* behaviour checks; the other half's variables stay at their initial      *)
(* values, so the two never interleave.                                    *)
(***************************************************************************)
EXTENDS Sequences, SequencesExt

CONSTANTS v1, v2, r1, r2, None, Junk, Undefined

VARIABLES mem, last, ftypes, offsets, part

vars == <<mem, last, ftypes, offsets, part>>

\* The widest struct the type allows, with defaults on the second and the
\* last field.  The program uses field 1 (no default) and field 32 (default,
\* bit 31 of the mask): the example of spec section 5 at the top bit.
\* Field names are the integers 1..32.
WideDecl == [k \in 1..32 |-> [name |-> k,
                              default |-> IF k \in {2, 32} THEN v1 ELSE None]]
WideAccessed == {1, 32}

S == INSTANCE Struct WITH
       Decl <- WideDecl, Accessed <- WideAccessed, Refs <- {r1, r2}, Values <- {v1, v2}

\* Every struct type of up to three fields over the lowered field types,
\* the widest struct (32 fields alternating bool and int64), and one field
\* more, which _llvmStructType's assert must refuse.
Widest == [k \in 1..32 |-> IF k % 2 = 1 THEN "bool" ELSE "int64"]
TooWide == Widest \o <<"int8">>
MCStructTypes == SeqOf({"int8", "int16", "int32", "int64", "bool", "double", "ref"}, 3)
                 \cup {Widest, TooWide}

T == INSTANCE StructTypeInfo WITH StructTypes <- MCStructTypes

Init ==
  \/ part = "ops" /\ S!Init /\ ftypes = <<>> /\ offsets = None
  \/ part = "typeinfo" /\ T!Init /\ S!Init

\* A step of the half the behaviour checks.
OpsStep(A) == part = "ops" /\ A /\ UNCHANGED <<ftypes, offsets, part>>
InfoStep(A) == part = "typeinfo" /\ A /\ UNCHANGED <<mem, last, part>>

Next ==
  \/ \E r \in {r1, r2} :
       \/ OpsStep(S!New(r))
       \/ \E n \in WideAccessed :
            OpsStep(S!Get(r, n)) \/ OpsStep(S!Unset(r, n)) \/ OpsStep(S!IsSet(r, n))
       \/ \E n \in WideAccessed, v \in {v1, v2} : OpsStep(S!Set(r, n, v))
  \/ InfoStep(T!TypeInfo)

Spec == Init /\ [][Next]_vars

-----------------------------------------------------------------------------
\* The mask stays a 32-bit word of single bits through new, set and unset;
\* type information exists only for types _llvmStructType accepts, with
\* every offset fitting the int16 the table is emitted as.
TypeOK ==
  /\ part \in {"ops", "typeinfo"}
  /\ S!TypeOK
  /\ part = "typeinfo" => T!TypeOK

\* The struct instructions implement the presence semantics of spec 4.4
\* (Struct!Implements): get raises exactly on unset fields, across every
\* field index up to the mask's top bit 31.
Implements == S!Implements

\* Once typeInfo has run, the offset table it emitted is the ABI layout
\* { bitmask: u32, field_0, ... } that hlt::struct_to_string reads fields
\* through (StructTypeInfo!OffsetsMatchLayout).
OffsetsMatchLayout == T!OffsetsMatchLayout
=============================================================================
