------------------------------- MODULE Struct -------------------------------
(***************************************************************************)
(* The code codegen/struct.py generates for HILTI structs, as the program  *)
(* it compiles to executes it.  A struct object is the LLVM record         *)
(* { i32 mask, field_0, ..., field_{n-1} }: GEP index 0 is the presence    *)
(* bitmask, GEP index j+1 the slot of the j-th declared field.  Each       *)
(* action is the whole instruction sequence one struct instruction         *)
(* lowers to: new, get, set, unset, isset.                                 *)
(*                                                                         *)
(* TLC's integers are 32-bit signed, so the i32 mask is a vector of 32     *)
(* bits, and the Python integers the code turns into LLVM constants        *)
(* (1<<idx and ~(1<<idx)) are kept as their two's-complement bits 0..31    *)
(* plus the sign extension that stands for all higher bits.                *)
(***************************************************************************)
EXTENDS Integers, Sequences, SequencesExt

CONSTANTS
  Decl,       \* the struct type: a sequence of [name, default], declaration order
  Accessed,   \* the field names the program's get/set/unset/isset name
  Refs,       \* struct objects the program can allocate
  Values,     \* values the program stores in fields
  None,       \* no default expression
  Junk,       \* the content of memory malloc returned and nobody wrote
  Undefined   \* outcome of get on an unset field: hlt_exception_undefined_value

\* _llvmStructType: "Currently, we support only up to 32 fields."
ASSUME Len(Decl) <= 32

VARIABLES
  mem,    \* ref -> [alloc, mask: i32 as bits, slot: GEP index -> content]
  last    \* the last instruction executed and what it stored into its target

vars == <<mem, last>>

Bits == 0..31
NF == Len(Decl)
Result(op, r, f, out) == [op |-> op, r |-> r, f |-> f, out |-> out]

(***************************************************************************)
(* Python integers as two's-complement bits, and the LLVM operations.      *)
(***************************************************************************)
PyZero == [bits |-> [i \in Bits |-> 0], ext |-> 0]
\* 1 << idx, for 0 <= idx <= 31
PyShl1(idx) == [bits |-> [i \in Bits |-> IF i = idx THEN 1 ELSE 0], ext |-> 0]
\* Python's ~x = -x-1 flips every bit, the infinite sign extension included
PyInvert(x) == [bits |-> [i \in Bits |-> 1 - x.bits[i]], ext |-> 1 - x.ext]
PyOr(x, y) == [bits |-> [i \in Bits |-> IF x.bits[i] + y.bits[i] > 0 THEN 1 ELSE 0],
               ext |-> IF x.ext + y.ext > 0 THEN 1 ELSE 0]
\* codegen.llvmConstInt(v, 32): the constant keeps the low 32 bits of v
LlvmConstInt32(x) == x.bits
\* builder.and_ / builder.or_ on i32 values
LlvmAnd(a, b) == [i \in Bits |-> a[i] * b[i]]
\* mutant: the bit combined with builder.add instead of builder.or_
LlvmAdd(a, b) == [i \in Bits |-> a[i] + b[i]]
LlvmOr(a, b) == [i \in Bits |-> IF a[i] + b[i] > 0 THEN 1 ELSE 0]
\* icmp IPRED_NE against llvmConstInt(0, 32)
NotZero(a) == \E i \in Bits : a[i] = 1

(***************************************************************************)
(* _getIndex: the first declared field of that name, -1 if there is none. *)
(***************************************************************************)
GetIndex(n) == SelectInSeq(Decl, LAMBDA d : d.name = n) - 1

(***************************************************************************)
(* new: the mask has bit j for each field with a default, whose slot gets  *)
(* the lowered default; the other slots keep what malloc returned.         *)
(***************************************************************************)
\* mutant: the bit index taken from the GEP index j+1
NewMaskGep ==
  FoldLeft(LAMBDA m, j : IF Decl[j + 1].default # None THEN PyOr(m, PyShl1(j + 1)) ELSE m,
           PyZero, [k \in 1..NF |-> k - 1])

NewMask ==
  FoldLeft(LAMBDA m, j : IF Decl[j + 1].default # None THEN PyOr(m, PyShl1(j)) ELSE m,
           PyZero, [k \in 1..NF |-> k - 1])

NewRecord ==
  [alloc |-> TRUE,
   mask  |-> LlvmConstInt32(NewMask),
   slot  |-> [k \in 1..NF |-> IF Decl[k].default # None THEN Decl[k].default ELSE Junk]]

New(r) ==
  /\ ~mem[r].alloc
  /\ mem' = [mem EXCEPT ![r] = NewRecord]
  /\ last' = Result("new", r, None, None)

(***************************************************************************)
(* get: load the mask, test the field's bit, raise or load the slot.       *)
(***************************************************************************)
Get(r, n) ==
  LET idx   == GetIndex(n)
      isset == LlvmAnd(LlvmConstInt32(PyShl1(idx)), mem[r].mask)
  IN /\ mem[r].alloc
     /\ idx >= 0
     /\ last' = Result("get", r, n,
                       IF NotZero(isset) THEN mem[r].slot[idx + 1] ELSE Undefined)
     /\ UNCHANGED mem

(***************************************************************************)
(* set: or the field's bit into the mask, then store the value.            *)
(***************************************************************************)
Set(r, n, v) ==
  LET idx == GetIndex(n)
  IN /\ mem[r].alloc
     /\ idx >= 0
     /\ mem' = [mem EXCEPT ![r].mask = LlvmOr(LlvmConstInt32(PyShl1(idx)), @),
                           ![r].slot[idx + 1] = v]
     /\ last' = Result("set", r, n, v)

(***************************************************************************)
(* unset: and the mask with ~(1<<idx); the slot is left as it is.          *)
(***************************************************************************)
Unset(r, n) ==
  LET idx == GetIndex(n)
  IN /\ mem[r].alloc
     /\ idx >= 0
     /\ mem' = [mem EXCEPT ![r].mask = LlvmAnd(LlvmConstInt32(PyInvert(PyShl1(idx))), @)]
     /\ last' = Result("unset", r, n, None)

(***************************************************************************)
(* isset: the field's bit of the mask, no side effect.                     *)
(***************************************************************************)
IsSet(r, n) ==
  LET idx == GetIndex(n)
  IN /\ mem[r].alloc
     /\ idx >= 0
     /\ last' = Result("isset", r, n,
                       NotZero(LlvmAnd(LlvmConstInt32(PyShl1(idx)), mem[r].mask)))
     /\ UNCHANGED mem

Init ==
  /\ mem = [r \in Refs |-> [alloc |-> FALSE, mask |-> [i \in Bits |-> 0],
                            slot |-> [k \in 1..NF |-> Junk]]]
  /\ last = Result("none", None, None, None)

Next ==
  \E r \in Refs :
     \/ New(r)
     \/ \E n \in Accessed : Get(r, n) \/ Unset(r, n) \/ IsSet(r, n)
     \/ \E n \in Accessed, v \in Values : Set(r, n, v)

Spec == Init /\ [][Next]_vars

-----------------------------------------------------------------------------
(***************************************************************************)
(* Properties.                                                             *)
(***************************************************************************)
\* The mask stays a 32-bit word of single bits through new, set and unset,
\* and every slot holds a stored value or the untouched malloc content.
TypeOK ==
  /\ \A r \in Refs :
       /\ mem[r].alloc \in BOOLEAN
       /\ mem[r].mask \in [Bits -> {0, 1}]
       /\ mem[r].slot \in [1..NF -> Values \cup {Junk}]
  /\ last.op \in {"none", "new", "get", "set", "unset", "isset"}
  /\ last.out \in Values \cup BOOLEAN \cup {None, Junk, Undefined}

(***************************************************************************)
(* The refinement: a field is set exactly when its bit is one, and its     *)
(* value is its slot.  Fields of the abstract struct are the accessed      *)
(* names, its defaults the declared ones among them.                       *)
(***************************************************************************)
AbsIdx == [n \in Accessed |-> GetIndex(n)]

AbsDefaults ==
  [n \in {a \in Accessed : Decl[AbsIdx[a] + 1].default # None} |->
     Decl[AbsIdx[n] + 1].default]

AbsHeap ==
  [r \in Refs |->
     [alloc   |-> mem[r].alloc,
      present |-> {n \in Accessed : mem[r].mask[AbsIdx[n]] = 1},
      val     |-> [n \in Accessed |-> mem[r].slot[AbsIdx[n] + 1]]]]

Abs == INSTANCE StructAbstract WITH
         heap <- AbsHeap, Fields <- Accessed, Defaults <- AbsDefaults

\* Every sequence of struct instructions the generated code executes is one
\* the presence semantics of spec section 4.4 allows, with the same results:
\* get raises exactly on unset fields and otherwise returns the last value
\* set (or the default), isset answers the bit, unset leaves other fields
\* alone, across every field index up to the mask's top bit 31.
Implements == Abs!Spec
=============================================================================
