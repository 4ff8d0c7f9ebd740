------------------------------ MODULE Variables ------------------------------
(***************************************************************************)
(* The variables of the script language: the four kinds (var, array,       *)
(* tuple, hash) behind set_VAR, get_VAR and del_VAR of                     *)
(* virtual_machine_safe_var.c, and what they do with the values they hold. *)
(*                                                                         *)
(* Two hashes of texts are taken to collide never; the order of the hashes *)
(* is the constant KeyBefore.                                              *)
(***************************************************************************)
EXTENDS OwnedValues

CONSTANT KeyBefore(_, _)  \* the order of the XXH64 hashes of two texts

MaxHops == 10            \* loop_max of get_VAR

-----------------------------------------------------------------------------
(* What a value is printed as, which is also its key in tuples and hashes. *)

RECURSIVE ValueAt(_, _, _, _, _)
RECURSIVE print_own_value_to_buf(_, _, _)

get_VAR(m, root, index) == ValueAt(m, root, index, FALSE, 1)

print_own_value_to_buf(m, v, reenter) ==
    CASE v[1] = "null" -> "null"
      [] v[1] = "num" -> ToString(v[2])
      [] v[1] = "bool" -> IF v[2] THEN "true" ELSE "false"
      [] v[1] \in {"addr", "text"} -> "0x" \o ToString(v[2])
      [] v[1] = "str" -> get_own_value_object_string(m, v)
      [] v[1] = "obj" ->
            IF reenter THEN "" ELSE print_own_value_to_buf(m, get_own_value_object(m, v).val, TRUE)
      [] IsSymbol(v) ->
            IF reenter THEN "" ELSE print_own_value_to_buf(m, get_VAR(m, v, NAN_BOX_Null), TRUE)

build_u64key_with_value(m, v) == print_own_value_to_buf(m, v, FALSE)

RECURSIVE print_own_value(_, _)
print_own_value(m, v) ==
    LET w == IF IsSymbol(v) THEN get_VAR(m, v, NAN_BOX_Null) ELSE v
    IN  CASE w[1] = "obj" -> print_own_value(m, get_own_value_object(m, w).val)
          [] IsSymbol(w) -> get_own_value_type_string(m, w)
          [] OTHER -> print_own_value_to_buf(m, w, FALSE)

(* Strings are compared up to the length of the first one.                 *)
is_own_value_equal(m, x, y) ==
    \/ x = y
    \/ /\ x[1] = "str" /\ y[1] = "str"
       /\ LET tx == get_own_value_object_string(m, x)
              ty == get_own_value_object_string(m, y)
          IN  Len(tx) <= Len(ty) /\ SubSeq(ty, 1, Len(tx)) = tx

-----------------------------------------------------------------------------
(* Reading a variable.                                                     *)

Resolved(m, index) == IF IsSymbol(index) THEN get_VAR(m, index, NAN_BOX_Null) ELSE index

get_VAR_with_array_type(m, s, i) ==
    IF m.sym[s].there /\ i \in 0 .. Len(m.sym[s].elems) - 1
    THEN m.sym[s].elems[i + 1] ELSE NAN_BOX_Null

get_VAR_with_tuple_type(m, s, i) ==
    IF i \in 0 .. Len(m.sym[s].elems) - 1 THEN m.sym[s].elems[i + 1] ELSE NAN_BOX_Null

(* The node is found by its key; whatever it is, it comes back as a boxed  *)
(* object.                                                                 *)
TupleNodes(m, s, key) ==
    {i \in DOMAIN m.sym[s].elems : build_u64key_with_value(m, m.sym[s].elems[i]) = key}

find_VAR_with_tuple_type(m, s, key) ==
    LET nodes == TupleNodes(m, s, build_u64key_with_value(m, key))
    IN  IF key = NAN_BOX_Null \/ nodes = {} THEN NAN_BOX_Null
        ELSE <<"obj", m.sym[s].elems[CHOOSE i \in nodes : TRUE][2]>>

(* A number 0 that is stored in a hash is a NULL pointer and reads as null. *)
find_VAR_with_hash_type(m, s, key) ==
    LET text == print_own_value_to_buf(m, key, FALSE)
    IN  IF /\ key # NAN_BOX_Null
           /\ text \in DOMAIN m.sym[s].pairs
           /\ m.sym[s].pairs[text] # make_own_value_number(0)
        THEN m.sym[s].pairs[text] ELSE NAN_BOX_Null

(* One element of the container root.                                      *)
ElementAt(m, root, index) ==
    LET s == root[2]
        i == Resolved(m, index)
    IN  CASE m.sym[s].type = "array" -> get_VAR_with_array_type(m, s, get_own_value_number(i))
          [] m.sym[s].type = "tuple" /\ (IsSymbol(index) \/ index[1] = "num") ->
                get_VAR_with_tuple_type(m, s, get_own_value_number(i))
          [] m.sym[s].type = "tuple" /\ ~IsSymbol(index) /\ index[1] # "num" ->
                find_VAR_with_tuple_type(m, s, index)
          [] m.sym[s].type = "hash" -> find_VAR_with_hash_type(m, s, i)

(* get_VAR follows variables that stand for other variables, takes one     *)
(* element of the first container it meets, and follows what it found.     *)
ValueAt(m, v, index, reenter, hops) ==
    IF ~IsSymbol(v) THEN v
    ELSE IF m.sym[v[2]].type = "var"
         THEN IF hops = MaxHops THEN m.sym[v[2]].val
              ELSE ValueAt(m, m.sym[v[2]].val, index, reenter, hops + 1)
         ELSE LET w == IF reenter \/ index = NAN_BOX_Null THEN v ELSE ElementAt(m, v, index)
              IN  IF reenter \/ ~IsSymbol(w) THEN w
                  ELSE ValueAt(m, w, NAN_BOX_Null, TRUE, hops)

-----------------------------------------------------------------------------
(* Giving values back.                                                     *)

RECURSIVE free_ownership_ownvalue(_, _, _)
RECURSIVE del_VARS(_, _)

(* The old value is freed before the new one is looked at.                 *)
set_VAR_with_var_type(m, s, value, copy, del) ==
    LET new == get_VAR(m, value, NAN_BOX_Null)
        old == m.sym[s].val
        freed == IF IsBoxed(old) /\ del THEN free_ownership_ownvalue(m, s, old) ELSE m
        taken == TakeOver(freed, s, new, copy)
    IN  [taken.m EXCEPT !.sym[s].val = taken.v, !.sym[s].type = "var"]

del_VAR_with_var_type(m, s) == set_VAR_with_var_type(m, s, NAN_BOX_Null, FALSE, TRUE)

(* Only the owner frees an object; for a symbol, what it holds is freed.   *)
free_ownership_ownvalue(m, s, v) ==
    CASE IsBoxed(v) ->
            LET t == Touch(m, v)
            IN  IF verify_ownership_signature(t, s, v) THEN Release(t, v) ELSE t
      [] IsSymbol(v) -> del_VARS(m, v)
      [] OTHER -> m

(* Fault: the array is not marked as gone after its elements were freed.   *)
Faulty_del_VARS_with_array_type(m, s) ==
    FoldBlocks(LAMBDA h, v : free_ownership_ownvalue(h, s, v), m, m.sym[s].elems)

del_VARS_with_array_type(m, s) ==
    IF ~m.sym[s].there THEN m
    ELSE LET freed == FoldBlocks(LAMBDA h, v : free_ownership_ownvalue(h, s, v), m, m.sym[s].elems)
         IN  [freed EXCEPT !.sym[s].elems = <<>>, !.sym[s].there = FALSE]

(* A node is found by its key, unlinked, and what it holds is freed.       *)
del_VAR_with_tuple_type(m, s, value) ==
    LET nodes == TupleNodes(m, s, build_u64key_with_value(m, value))
        node == CHOOSE i \in nodes : TRUE
    IN  IF value = NAN_BOX_Null \/ ~m.sym[s].there \/ nodes = {}
        THEN [m |-> m, v |-> NAN_BOX_Null]
        ELSE [m |-> free_ownership_ownvalue(
                        [m EXCEPT !.sym[s].elems = RemoveAt(@, node)],
                        s, m.sym[s].elems[node]),
              v |-> make_own_value_number(0)]

del_VARS_with_tuple_type(m, s) ==
    LET step(h, v) == del_VAR_with_tuple_type(h, s, get_VAR_with_tuple_type(h, s, 0)).m
        freed == FoldBlocks(step, m, m.sym[s].elems)
    IN  [freed EXCEPT !.sym[s].elems = <<>>, !.sym[s].there = FALSE]

del_VARS_with_hash_type(m, s) ==
    LET step(t, h) == free_ownership_ownvalue(h, s, m.sym[s].pairs[t])
        freed == FoldSet(step, m, DOMAIN m.sym[s].pairs)
    IN  IF ~m.sym[s].there THEN m
        ELSE [freed EXCEPT !.sym[s].pairs = <<>>, !.sym[s].there = FALSE]

del_VARS(m, root) ==
    LET s == root[2]
    IN  IF ~IsSymbol(root) THEN m
        ELSE CASE m.sym[s].type = "var" -> del_VAR_with_var_type(m, s)
               [] m.sym[s].type = "array" -> del_VARS_with_array_type(m, s)
               [] m.sym[s].type = "tuple" -> del_VARS_with_tuple_type(m, s)
               [] m.sym[s].type = "hash" -> del_VARS_with_hash_type(m, s)

-----------------------------------------------------------------------------
(* Writing a variable.                                                     *)

(* The old element is freed first, also when the new one is then refused.  *)
set_VAR_with_array_type(m, s, i, value) ==
    LET freed == free_ownership_ownvalue(m, s, m.sym[s].elems[i + 1])
        new == get_VAR(m, value, NAN_BOX_Null)
        taken == TakeOver(freed, s, new, FALSE)
    IN  CASE ~m.sym[s].there \/ i >= Len(m.sym[s].elems) -> m
          [] m.sym[s].there /\ i < 0 -> Fault(m, "out of bounds")
          [] OTHER -> IF check_support_own_value_type(new)
                      THEN [taken.m EXCEPT !.sym[s].elems[i + 1] = taken.v] ELSE freed

(* A simple value is boxed; an element whose key is there already is freed. *)
add_VAR_with_tuple_type(m, s, value) ==
    LET new == get_VAR(m, value, NAN_BOX_Null)
        box == make_own_value_object(m, new)
        taken == CASE new[1] = "obj" ->
                         IF MaySign(m, new)
                         THEN [m |-> create_ownership_signature(Touch(m, new), s, new), v |-> new]
                         ELSE duplicate_ownership_value(m, s, new)
                   [] new[1] = "str" -> TakeOver(m, s, new, FALSE)
                   [] OTHER -> [m |-> create_ownership_signature(box.m, s, box.v), v |-> box.v]
        key == build_u64key_with_value(taken.m, taken.v)
        before(e) == KeyBefore(build_u64key_with_value(taken.m, e), key)
        after(e) == ~before(e)
    IN  CASE ~m.sym[s].there \/ ~check_support_own_value_type(new) -> m
          [] m.sym[s].there /\ check_support_own_value_type(new)
             /\ TupleNodes(taken.m, s, key) # {} -> free_ownership_ownvalue(taken.m, s, taken.v)
          [] OTHER -> [taken.m EXCEPT !.sym[s].elems =
                            SelectSeq(@, before) \o <<taken.v>> \o SelectSeq(@, after)]

(* Fault: the value is freed, but the key still leads to it.               *)
Faulty_del_VAR_with_hash_type(m, s, key) ==
    LET text == print_own_value_to_buf(m, key, FALSE)
    IN  IF key = NAN_BOX_Null \/ ~m.sym[s].there \/ text \notin DOMAIN m.sym[s].pairs
        THEN [m |-> m, v |-> NAN_BOX_Null]
        ELSE [m |-> free_ownership_ownvalue(m, s, m.sym[s].pairs[text]),
              v |-> make_own_value_number(0)]

del_VAR_with_hash_type(m, s, key) ==
    LET text == print_own_value_to_buf(m, key, FALSE)
        freed == free_ownership_ownvalue(m, s, m.sym[s].pairs[text])
    IN  CASE key = NAN_BOX_Null \/ ~m.sym[s].there -> [m |-> m, v |-> NAN_BOX_Null]
          [] text \notin DOMAIN m.sym[s].pairs -> [m |-> m, v |-> make_own_value_number(-3)]  \* STD_RV_ERR_POINTER
          [] OTHER -> [m |-> [freed EXCEPT !.sym[s].pairs = [t \in DOMAIN @ \ {text} |-> @[t]]],
                       v |-> make_own_value_number(0)]

(* Fault: what the key stood for before is not freed.                      *)
Faulty_add_VAR_with_hash_type(m, s, key, value, copy) ==
    LET taken == TakeOver(m, s, value, copy)
    IN  IF key = NAN_BOX_Null \/ ~m.sym[s].there THEN m
        ELSE [taken.m EXCEPT !.sym[s].pairs = (print_own_value_to_buf(m, key, FALSE) :> taken.v) @@ @]

(* The new value is copied before the old one of that key is freed.        *)
add_VAR_with_hash_type(m, s, key, value, copy) ==
    LET text == print_own_value_to_buf(m, key, FALSE)
        taken == TakeOver(m, s, value, copy)
        cleared == del_VAR_with_hash_type(taken.m, s, key).m
    IN  IF key = NAN_BOX_Null \/ ~m.sym[s].there THEN m
        ELSE [cleared EXCEPT !.sym[s].pairs = (text :> taken.v) @@ @]

SetFails(m, root, index) == m.sym[root[2]].type = "hash" /\ index = NAN_BOX_Null

(* A variable that stands for another one passes the assignment on; in a   *)
(* ring of variables set_VAR calls itself until the C stack is exhausted.  *)
RECURSIVE Assign(_, _, _, _, _)
Assign(m, root, index, value, seen) ==
    LET s == root[2]
        old == m.sym[s].val
    IN  CASE s \in seen -> Fault(m, "endless recursion")
          [] s \notin seen /\ m.sym[s].type = "var" ->
                IF old = value THEN m
                ELSE IF IsSymbol(old) /\ ~SetFails(m, old, index)
                     THEN Assign(m, old, index, value, seen \cup {s})
                     ELSE set_VAR_with_var_type(m, s, value, FALSE, TRUE)
          [] m.sym[s].type = "array" ->
                set_VAR_with_array_type(m, s,
                    IF index = NAN_BOX_Null THEN 0
                    ELSE get_own_value_number(Resolved(m, index)), value)
          [] m.sym[s].type = "tuple" -> add_VAR_with_tuple_type(m, s, value)
          [] m.sym[s].type = "hash" ->
                IF index = NAN_BOX_Null \/ IsSymbol(index) THEN m
                ELSE add_VAR_with_hash_type(m, s, index, value, TRUE)

set_VAR(m, root, index, value) == Assign(m, root, index, value, {})

del_VAR(m, root, index) ==
    LET key == Resolved(m, index)
    IN  CASE IsSymbol(root) /\ m.sym[root[2]].type = "tuple" ->
                del_VAR_with_tuple_type(m, root[2], key)
          [] IsSymbol(root) /\ m.sym[root[2]].type = "hash" ->
                del_VAR_with_hash_type(m, root[2], key)
          [] OTHER -> [m |-> m, v |-> NAN_BOX_Null]

-----------------------------------------------------------------------------
(* Declaring a variable.  The four kinds share one union: declared again   *)
(* as a var, an array reads as its length, a tuple or hash as a pointer.   *)

UnionBits(sym) ==
    CASE sym.type = "var" -> sym.val
      [] sym.type = "array" -> make_own_value_number(Len(sym.elems))
      [] OTHER -> make_own_value_number(IF sym.there THEN Junk ELSE 0)

declare_VAR_with_var_type(m, s, init, copy) ==
    LET taken == TakeOver(m, s, init, copy)
        boxed == IF MaySign(m, init)
                 THEN [m |-> create_ownership_signature(Touch(m, init), s, init), v |-> init]
                 ELSE duplicate_ownership_value(m, s, init)
        new == IF init[1] = "obj" THEN boxed ELSE taken
    IN  IF init = NAN_BOX_Null
        THEN [m EXCEPT !.sym[s].val = UnionBits(m.sym[s]), !.sym[s].type = "var"]
        ELSE [new.m EXCEPT !.sym[s].val = new.v, !.sym[s].type = "var"]

Declared(m, s, type, elems) ==
    [m EXCEPT !.sym[s].type = type, !.sym[s].elems = elems, !.sym[s].pairs = <<>>,
              !.sym[s].there = TRUE]

declare_VAR_with_array_type(m, s, count) ==
    Declared(m, s, "array", [i \in 1 .. count |-> make_own_value_number(0)])

declare_VAR_with_tuple_type(m, s) == Declared(m, s, "tuple", <<>>)

declare_VAR_with_hash_type(m, s) == Declared(m, s, "hash", <<>>)

(* Of an array whose length changes, nothing is kept.                      *)
resize_VARS_with_array_type(m, s, count) ==
    LET cleared == del_VARS_with_array_type(m, s)
    IN  IF count = 0 THEN cleared ELSE declare_VAR_with_array_type(cleared, s, count)

declare_VAR(m, s, type, size, init, copy) ==
    CASE type = "var" -> declare_VAR_with_var_type(m, s, init, copy)
      [] type = "array" -> declare_VAR_with_array_type(m, s, size)
      [] type = "tuple" -> declare_VAR_with_tuple_type(m, s)
      [] type = "hash" -> declare_VAR_with_hash_type(m, s)

=============================================================================
