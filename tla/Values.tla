------------------------------- MODULE Values -------------------------------
(***************************************************************************)
(* Tagged values of nscheme (include/nscheme/values.h).                    *)
(*                                                                         *)
(* A scm_value_t is a machine word whose low bits carry a type tag.  Here  *)
(* a value is a record whose field t is the tag; the payload fields have   *)
(* a different name for every tag, so values of different types are just   *)
(* different records.                                                      *)
(*                                                                         *)
(* Pairs are immutable in this program (there is no set-car!), so a chain  *)
(* of pairs is represented by its spine: the sequence of the cars and the  *)
(* value, not a pair, in the last cdr.  Every chain has exactly one spine. *)
(* The addresses of pairs are abstracted away; where one is observable     *)
(* (eq?, <) the operation chooses between the possible outcomes.           *)
(***************************************************************************)
EXTENDS Integers, Sequences

CONSTANT IntMod   \* fixnums are integers modulo IntMod: 2^62 in the build

ASSUME IntModAssumption == IntMod \in Nat /\ IntMod > 1

(* The enum runtime_types members is_special_form accepts.                 *)
SpecialForms == {"lambda", "define", "define-syntax", "set!", "if", "begin",
                 "quote", "syntax-rules"}

(* tag_integer shifts the integer left by two, losing its two top bits.    *)
tag_integer(n)    == [t |-> "integer", int |-> n % IntMod]
tag_symbol(s)     == [t |-> "symbol", sym |-> s]
tag_boolean(b)    == [t |-> "boolean", bool |-> b]
tag_character(c)  == [t |-> "character", char |-> c]
tag_run_type(r)   == [t |-> "run_type", run |-> r]
tag_parse_val(p)  == [t |-> "parse_val", parse |-> p]
tag_closure(id)   == [t |-> "closure", id |-> id]
tag_syntax_rules(keywords, patterns) ==
    [t |-> "syntax_rules", keywords |-> keywords, patterns |-> patterns]

(* A closure that vm_init or vm_ops.c builds around one C function.        *)
tag_primitive(p)  == [t |-> "primitive", prim |-> p]

SCM_TYPE_NULL     == [t |-> "null"]

SET_PTR == tag_run_type("set-ptr")
EOF_VAL == tag_parse_val("eof")

is_integer(v)      == v.t = "integer"
is_symbol(v)       == v.t = "symbol"
is_pair(v)         == v.t = "pair"
is_null(v)         == v.t = "null"
is_closure(v)      == v.t \in {"closure", "primitive"}
is_syntax_rules(v) == v.t = "syntax_rules"
is_special_form(v) == v.t = "run_type" /\ v.run \in SpecialForms
is_eof(v)          == v = EOF_VAL

(* The elements of a list, up to the first cdr that is not a pair.         *)
Items(v) == IF is_pair(v) THEN v.items ELSE <<>>

(* The chain of pairs with the elements of items; last ends it.            *)
Chain(items, last) ==
    IF items = <<>> THEN last ELSE [t |-> "pair", items |-> items, last |-> last]

List(items) == Chain(items, SCM_TYPE_NULL)

construct_pair(a, d) ==
    IF is_pair(d) THEN Chain(<<a>> \o d.items, d.last) ELSE Chain(<<a>>, d)

scm_car(v) == IF is_pair(v) THEN Head(v.items) ELSE SCM_TYPE_NULL
scm_cdr(v) == IF is_pair(v) THEN Chain(Tail(v.items), v.last) ELSE SCM_TYPE_NULL

(* The unsigned word of a fixnum, the form `/' computes on.                *)
word(v) == 4 * v.int

(* The outcomes of comparing two words: fixnums compare as unsigned        *)
(* integers, every other order depends on addresses and tags.              *)
WordLess(a, b) ==
    IF is_integer(a) /\ is_integer(b) THEN {a.int < b.int} ELSE BOOLEAN

(* Equality of words is identity: two pairs (or two syntax-rules objects)  *)
(* with the same contents may or may not be the same object.               *)
WordEqual(a, b) ==
    IF a.t \in {"pair", "syntax_rules"} /\ a = b
      THEN BOOLEAN ELSE {a = b}
=============================================================================
