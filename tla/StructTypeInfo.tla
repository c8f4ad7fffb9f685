--------------------------- MODULE StructTypeInfo ---------------------------
(***************************************************************************)
(* The type information codegen/struct.py emits for a struct type: the     *)
(* field types and the table of byte offsets that hlt::struct_to_string   *)
(* uses to find each field.  The code computes offset i as                 *)
(*   null.gep([0, i+1]).ptrtoint(int16)                                    *)
(* on the LLVM type {i32, field_0, ..., field_{n-1}}: GEP index i+1 skips  *)
(* the mask, and the result is truncated to 16 bits.                       *)
(***************************************************************************)
EXTENDS Integers, Sequences, SequencesExt

CONSTANTS
  StructTypes,  \* the struct types, as sequences of HILTI field types
  None

VARIABLES
  ftypes,   \* the struct type whose type information is generated
  offsets   \* the emitted offset table, None before typeInfo ran

vars == <<ftypes, offsets>>

(***************************************************************************)
(* codegen.llvmTypeConvert for field types, as size and ABI alignment in   *)
(* bytes on a 64-bit target: integers by width, bool as i1, references,    *)
(* strings and bytes as pointers.                                          *)
(***************************************************************************)
Lowered ==
  [int8 |-> [size |-> 1, align |-> 1], int16 |-> [size |-> 2, align |-> 2],
   int32 |-> [size |-> 4, align |-> 4], int64 |-> [size |-> 8, align |-> 8],
   bool |-> [size |-> 1, align |-> 1], double |-> [size |-> 8, align |-> 8],
   ref |-> [size |-> 8, align |-> 8]]
Mask == [size |-> 4, align |-> 4]

\* _llvmStructType: the i32 mask, then the converted fields in order.
LlvmStructType(ts) == <<Mask>> \o [k \in DOMAIN ts |-> Lowered[ts[k]]]

AlignUp(x, a) == ((x + a - 1) \div a) * a

\* The offset of each element of an LLVM struct type: every element at the
\* first offset past the previous one that its alignment allows.
ElementOffsets(ls) ==
  FoldLeft(LAMBDA acc, k :
             Append(acc, IF k = 1 THEN 0
                         ELSE AlignUp(acc[k - 1] + ls[k - 1].size, ls[k].align)),
           <<>>, [k \in DOMAIN ls |-> k])

\* null.gep([zero, idx]).ptrtoint(int16): the element's offset, low 16 bits.
GepOffset16(ls, idx) == ElementOffsets(ls)[idx + 1] % 2^16

\* mutant: the mask not skipped, GEP index i
OffsetTableNoSkip(ts) ==
  [i \in 1..Len(ts) |-> GepOffset16(LlvmStructType(ts), i - 1)]

\* The loop of the typeInfo handler: offset i at GEP index i+1.
OffsetTable(ts) ==
  [i \in 1..Len(ts) |-> GepOffset16(LlvmStructType(ts), i)]

TypeInfo ==
  /\ offsets = None
  /\ offsets' = OffsetTable(ftypes)
  /\ UNCHANGED ftypes

\* _llvmStructType asserts at most 32 fields: a wider type aborts the
\* compiler before any type information exists.
Init ==
  /\ ftypes \in {ts \in StructTypes : Len(ts) <= 32}
  /\ offsets = None

Next == TypeInfo

Spec == Init /\ [][Next]_vars

-----------------------------------------------------------------------------
\* Type information exists only for types _llvmStructType accepts, and
\* every offset fits the int16 the table is emitted as.
TypeOK ==
  /\ ftypes \in StructTypes /\ Len(ftypes) <= 32
  /\ offsets = None \/ offsets \in [1..Len(ftypes) -> 0..2^16 - 1]

(***************************************************************************)
(* The ABI layout of spec 6, { bitmask: u32, field_0, ..., field_{n-1} },  *)
(* said without computing it: a field starts past the mask and past the    *)
(* field before it, at an offset its alignment allows, and with less       *)
(* padding before it than its alignment.                                   *)
(***************************************************************************)
FieldEnd(ts, offs, i) ==
  IF i = 0 THEN Mask.size ELSE offs[i] + Lowered[ts[i]].size

IsAbiLayout(ts, offs) ==
  \A i \in 1..Len(ts) :
     LET a == Lowered[ts[i]].align
         prev == FieldEnd(ts, offs, i - 1)
     IN /\ offs[i] % a = 0
        /\ prev <= offs[i]
        /\ offs[i] - prev < a

\* hlt::struct_to_string reads field i at offsets[i]: once typeInfo has run,
\* the table the handler emitted is the ABI layout of the struct with the
\* mask in slot 0 and no field overlapping it or another field.
OffsetsMatchLayout == offsets # None => IsAbiLayout(ftypes, offsets)
=============================================================================
