---------------------------- MODULE OwnedValues ----------------------------
(***************************************************************************)
(* The values of the script language and who owns them: the boxed values   *)
(* of virtual_machine_object.h and the ownership tokens of                 *)
(* virtual_machine_object.c.                                               *)
(*                                                                         *)
(* A value is a pair of a tag and a payload.  The heap is a record m:      *)
(*   m.obj    the heap objects that were not freed: what they hold and     *)
(*            the key that signed them (NoKey: nobody)                     *)
(*   m.sym    the symbols (variables), each with its key                   *)
(*   m.next, m.keys   the next fresh object and key                        *)
(*   m.fault  what went wrong with the memory so far                       *)
(* Every function of the source that changes the heap is an operator from  *)
(* heap to heap; one that also returns a value gives a record [m, v].      *)
(* A freed object is never allocated again, so that any later access of it *)
(* is seen.                                                                *)
(***************************************************************************)
EXTENDS LongFolds, FiniteSets, SequencesExt, TLC

NoKey == 0
Junk == 1000000          \* the bits of a pointer read as a number
NullNumber == -2000000   \* the bits of NAN_BOX_Null read as a number

-----------------------------------------------------------------------------
(* Boxed values.                                                           *)

NAN_BOX_Null == <<"null", 0>>
make_own_value_number(n) == IF n = NullNumber THEN NAN_BOX_Null ELSE <<"num", n>>
make_own_value_bool(b) == <<"bool", b>>
make_own_value_address(a) == <<"addr", a>>
make_own_value_string(t) == <<"text", t>>   \* an address whose target is a text

get_own_value_type(v) == IF v[1] = "text" THEN "addr" ELSE v[1]

get_own_value_number(v) ==
    CASE v[1] = "num" -> v[2]
      [] v[1] = "bool" -> IF v[2] THEN 1 ELSE 0
      [] OTHER -> Junk

IsSymbol(v) == v[1] = "sym"
IsBoxed(v) == v[1] \in {"obj", "str"}

get_own_value_object(m, v) ==
    IF v[2] \in DOMAIN m.obj THEN m.obj[v[2]] ELSE [val |-> NAN_BOX_Null, owner |-> NoKey]

get_own_value_object_symbol(m, v) == m.sym[v[2]]

get_own_value_object_string(m, v) ==
    LET inner == get_own_value_object(m, v).val
    IN  IF inner[1] = "text" THEN inner[2] ELSE ""

Fault(m, what) == [m EXCEPT !.fault = @ \cup {what}]

(* Reading a boxed value's object, which may be freed.                     *)
Touch(m, v) ==
    IF IsBoxed(v) /\ v[2] \notin DOMAIN m.obj THEN Fault(m, "use after free") ELSE m

NewObject(m, tag, val, owner) ==
    [m |-> [m EXCEPT !.obj = (m.next :> [val |-> val, owner |-> owner]) @@ @, !.next = @ + 1],
     v |-> <<tag, m.next>>]

make_own_value_object_string(m, t) == NewObject(m, "str", make_own_value_string(t), NoKey)

make_own_value_object(m, val) == NewObject(m, "obj", val, NoKey)

EmptySymbol(key) ==
    [type |-> "var", val |-> make_own_value_number(0), elems |-> <<>>, pairs |-> <<>>,
     there |-> FALSE, key |-> key]

make_own_value_object_symbol(m) ==
    LET s == Cardinality(DOMAIN m.sym) + 1
    IN  [m |-> [m EXCEPT !.sym = (s :> EmptySymbol(m.keys)) @@ @, !.keys = @ + 1],
         v |-> <<"sym", s>>]

EmptyHeap == [obj |-> <<>>, sym |-> <<>>, next |-> 1, keys |-> 2, fault |-> {}]

-----------------------------------------------------------------------------
(* Ownership tokens: an object is signed with the key of one symbol.       *)

create_ownership_signature(m, s, v) ==
    IF v[2] \in DOMAIN m.obj /\ m.obj[v[2]].owner = NoKey
    THEN [m EXCEPT !.obj[v[2]].owner = m.sym[s].key]
    ELSE m

MaySign(m, v) == get_own_value_object(m, v).owner = NoKey

verify_ownership_signature(m, s, v) ==
    LET owner == get_own_value_object(m, v).owner
    IN  owner # NoKey /\ owner = m.sym[s].key

check_support_own_value_type(v) == ~IsSymbol(v)

Release(m, v) ==
    IF v[2] \in DOMAIN m.obj
    THEN [m EXCEPT !.obj = [i \in DOMAIN @ \ {v[2]} |-> @[i]]]
    ELSE Fault(m, "double free")

(* Both keys move to the copy, the old symbol gets new ones.               *)
move_ownership_object_symbol_pub_pri_key(m, from, to) ==
    [m EXCEPT !.sym[to].key = m.sym[from].key, !.sym[from].key = m.keys, !.keys = @ + 1]

copy_ownership_object(m, from) ==
    LET new == make_own_value_object_symbol(m)
    IN  [m |-> move_ownership_object_symbol_pub_pri_key(new.m, from, new.v[2]), v |-> new.v]

move_VAR_with_var_type(m, from, to) ==
    [m EXCEPT !.sym[from].val = NAN_BOX_Null, !.sym[from].type = "var",
              !.sym[to].val = m.sym[from].val, !.sym[to].type = "var"]

move_VAR_with_array_type(m, from, to) ==
    [m EXCEPT !.sym[to].type = "array", !.sym[to].elems = m.sym[from].elems,
              !.sym[to].there = m.sym[from].there,
              !.sym[from].elems = <<>>, !.sym[from].there = FALSE]

move_VAR_with_tuple_type(m, from, to) ==
    [m EXCEPT !.sym[to].type = "tuple", !.sym[to].elems = m.sym[from].elems,
              !.sym[to].there = TRUE,
              !.sym[from].elems = <<>>, !.sym[from].there = FALSE]

move_VAR_with_hash_type(m, from, to) ==
    [m EXCEPT !.sym[to].type = "hash", !.sym[to].pairs = m.sym[from].pairs,
              !.sym[to].there = m.sym[from].there,
              !.sym[from].pairs = <<>>, !.sym[from].there = FALSE]

(* Fault: the copy keeps the signature of what it was copied from.         *)
Faulty_duplicate_ownership_value(m, s, v) ==
    NewObject(Touch(m, v), v[1], get_own_value_object(m, v).val, get_own_value_object(m, v).owner)

(* A copy of own_item that belongs to symbol s; what a symbol holds is     *)
(* moved to the copy, not copied.                                          *)
duplicate_ownership_value(m, s, v) ==
    CASE v[1] = "obj" ->
            LET inner == get_own_value_object(m, v).val
            IN  NewObject(Touch(m, v), "obj",
                          IF IsBoxed(inner) \/ IsSymbol(inner) THEN NAN_BOX_Null ELSE inner,
                          m.sym[s].key)
      [] v[1] = "str" ->
            NewObject(Touch(m, v), "str", get_own_value_object(m, v).val, m.sym[s].key)
      [] v[1] = "sym" ->
            LET new == copy_ownership_object(m, v[2])
                to == new.v[2]
                type == m.sym[v[2]].type
            IN  [m |-> CASE type = "var" -> move_VAR_with_var_type(new.m, v[2], to)
                         [] type = "array" -> move_VAR_with_array_type(new.m, v[2], to)
                         [] type = "tuple" -> move_VAR_with_tuple_type(new.m, v[2], to)
                         [] type = "hash" -> move_VAR_with_hash_type(new.m, v[2], to),
                 v |-> new.v]
      [] OTHER -> [m |-> m, v |-> NAN_BOX_Null]

(* How a variable takes a value over: a string nobody owns yet is signed,  *)
(* one that has an owner is copied, a symbol is moved on request.          *)
TakeOver(m, s, v, copy) ==
    CASE v[1] = "str" /\ (copy \/ ~MaySign(m, v)) -> duplicate_ownership_value(m, s, v)
      [] v[1] = "str" /\ ~copy /\ MaySign(m, v) ->
            [m |-> create_ownership_signature(Touch(m, v), s, v), v |-> v]
      [] IsSymbol(v) /\ copy -> duplicate_ownership_value(m, s, v)
      [] OTHER -> [m |-> m, v |-> v]

get_own_value_type_string(m, v) ==
    CASE v[1] = "num" -> "OWN_TYPE_NUMBER"
      [] v[1] = "null" -> "OWN_TYPE_NULL"
      [] v[1] = "bool" -> "OWN_TYPE_BOOL"
      [] v[1] \in {"addr", "text"} -> "OWN_TYPE_ADDRESS"
      [] v[1] = "obj" -> "OWN_TYPE_OBJECT"
      [] v[1] = "str" -> "OWN_TYPE_STRING"
      [] IsSymbol(v) ->
            CASE m.sym[v[2]].type = "var" -> "VAR_TYPE"
              [] m.sym[v[2]].type = "array" -> "ARRAY_TYPE"
              [] m.sym[v[2]].type = "tuple" -> "TUPLE_TYPE"
              [] m.sym[v[2]].type = "hash" -> "HASH_TYPE"

get_VAR_total_with_var_type(m, s) ==
    IF m.sym[s].val[1] = "str" THEN Len(get_own_value_object_string(m, m.sym[s].val)) ELSE 0

get_VAR_total_with_array_type(m, s) == IF m.sym[s].there THEN Len(m.sym[s].elems) ELSE 0

get_VAR_total_with_tuple_type(m, s) == IF m.sym[s].there THEN Len(m.sym[s].elems) ELSE 0

=============================================================================
