--------------------------- MODULE StructAbstract ---------------------------
(***************************************************************************)
(* What a HILTI struct promises (spec section 4.4): a heap object whose    *)
(* fields are each either set, holding a value, or unset.  new sets the    *)
(* fields that have a default; get of an unset field raises the            *)
(* "undefined value" exception; set makes a field set; unset makes it      *)
(* unset and leaves its old value unreachable; isset tells which.          *)
(***************************************************************************)
EXTENDS Integers, FiniteSets

CONSTANTS
  Refs,       \* struct objects the program can allocate
  Fields,     \* the fields the program accesses
  Defaults,   \* field -> default value, for the fields that have one
  Values,     \* values a field can be set to
  None,       \* no field, no value: the unused parts of a result
  Junk,       \* the content of memory nobody wrote
  Undefined   \* the outcome of get on an unset field: the exception

VARIABLES
  heap,   \* ref -> [alloc, present: SUBSET Fields, val: [Fields -> Values \cup {Junk}]]
  last    \* the last operation and what it returned

Result(op, r, f, out) == [op |-> op, r |-> r, f |-> f, out |-> out]

Init ==
  /\ heap = [r \in Refs |-> [alloc |-> FALSE, present |-> {}, val |-> [f \in Fields |-> Junk]]]
  /\ last = Result("none", None, None, None)

New(r) ==
  /\ ~heap[r].alloc
  /\ heap' = [heap EXCEPT ![r] =
       [alloc |-> TRUE, present |-> DOMAIN Defaults,
        val |-> [f \in Fields |-> IF f \in DOMAIN Defaults THEN Defaults[f] ELSE Junk]]]
  /\ last' = Result("new", r, None, None)

Get(r, f) ==
  /\ heap[r].alloc
  /\ last' = Result("get", r, f, IF f \in heap[r].present THEN heap[r].val[f] ELSE Undefined)
  /\ UNCHANGED heap

Set(r, f, v) ==
  /\ heap[r].alloc
  /\ heap' = [heap EXCEPT ![r].present = @ \cup {f}, ![r].val[f] = v]
  /\ last' = Result("set", r, f, v)

Unset(r, f) ==
  /\ heap[r].alloc
  /\ heap' = [heap EXCEPT ![r].present = @ \ {f}]
  /\ last' = Result("unset", r, f, None)

IsSet(r, f) ==
  /\ heap[r].alloc
  /\ last' = Result("isset", r, f, f \in heap[r].present)
  /\ UNCHANGED heap

Next ==
  \E r \in Refs :
     \/ New(r)
     \/ \E f \in Fields : Get(r, f) \/ Unset(r, f) \/ IsSet(r, f)
     \/ \E f \in Fields, v \in Values : Set(r, f, v)

Spec == Init /\ [][Next]_<<heap, last>>
=============================================================================
