----------------------------- MODULE CodeShape -----------------------------
(***************************************************************************)
(* What the machine relies on and never checks: the shape of the code that *)
(* the compiler wrote.  Each line has a height, the number of values that  *)
(* the code before it has pushed and not taken; the compiler's gen_code    *)
(* calls keep to it, and the machine has no other way of knowing.          *)
(***************************************************************************)
EXTENDS VirtualMachine

CompareOps == {"GT", "LT", "EQ", "NEQ", "LGE", "BGE", "AND", "OR"}
BinaryOps == ArithmeticOps \cup CompareOps
ReplacingOps == {"GET_ITEM", "DEL_ITEM", "FIND_ITEM"}

PushingOps == {"PUSHI", "PUSHU", "PUSHA", "PUSHS", "LOADA", "LOADL", "SYM_A", "SYM_L", "COUNT_ITEM"}
KeepingOps == {"FRAME", "CALL", "JUMP", "VAR_A", "VAR_L", "VAR_A_CLEAN", "VAR_L_CLEAN",
               "STOREA", "STOREL", "NEW_ARRAY", "NEW_LIST", "NEW_KEY_HASH"} \cup ReplacingOps
DroppingOps == {"POP", "BEQ0", "Inp_ADDI", "ADD_ITEM", "RESIZE_ARRAY"} \cup BinaryOps
DroppingTwoOps == {"Inp_ADD", "Inp_SUB", "Inp_MUL", "Inp_DIV", "Inp_MOD", "SET_ITEM", "ADD_KEY_ITEM"}

(* How many values a library function takes; some write to one of them.    *)
LibraryTakes ==
    {<<"assert_2", 2>>, <<"convert", 0>>, <<"check_type", 3>>, <<"random_number", 2>>,
     <<"random_address", 1>>, <<"random_string", 2>>, <<"create_instance", 3>>,
     <<"delete_instance", 2>>, <<"make_json", 2>>, <<"parse_json", 2>>,
     <<"string_to_array", 2>>, <<"array_to_string", 2>>}

Takes(name) == {n \in 1 .. 10 : name = "print_" \o ToString(n)}
               \cup {n \in 0 .. 10 : <<name, n>> \in LibraryTakes}

(* The values a line needs on the stack when it pushes a result.           *)
Need(op) == IF op \in BinaryOps THEN 2 ELSE IF op \in ReplacingOps THEN 1 ELSE 0

(* The values on the stack after a line, less those before it.             *)
Nets(c) ==
    (IF c.op \in PushingOps THEN {1} ELSE {})
    \cup (IF c.op \in KeepingOps THEN {0} ELSE {})
    \cup (IF c.op \in DroppingOps THEN {-1} ELSE {})
    \cup (IF c.op \in DroppingTwoOps THEN {-2} ELSE {})
    \cup (IF c.op = "POPR" THEN {-c.i} ELSE {})
    \cup (IF c.op = "CUSTOM" THEN {-n : n \in Takes(c.i)} ELSE {})

-----------------------------------------------------------------------------
(* A line of code belongs to the function of the last FRAME before it.     *)

FunctionAt(codes, j) == Max({k \in DOMAIN codes : k <= j /\ codes[k].op = "FRAME"})

LocalsAt(codes, j) == codes[FunctionAt(codes, j)].i

JumpsTo(codes, j) ==
    (IF codes[j].op \in {"BEQ0", "JUMP"} THEN {codes[j].i} ELSE {})
    \cup (IF codes[j].op \in {"JUMP", "RET"} THEN {} ELSE {j + 1})

(* A call finds a function, its arguments on the stack; the function reads *)
(* and replaces no more arguments than that.                               *)
CallFits(codes, height, j) ==
    LET f == codes[j].i
    IN  /\ f \in DOMAIN codes /\ codes[f].op = "FRAME"
        /\ codes[j].ex \in Nat /\ codes[j].ex <= height[j]
        /\ \A k \in DOMAIN codes :
               codes[k].op = "VAR_A" /\ FunctionAt(codes, k) = f => codes[k].ex < codes[j].ex

LineFits(codes, height, j) ==
    /\ codes[j].op # "RET" => height[j] >= Need(codes[j].op)
    /\ codes[j].op = "FRAME" => codes[j].i \in Nat /\ height[j] = 0
    /\ codes[j].op = "POPR" => codes[j].i \in Nat
    /\ codes[j].op = "VAR_A" => codes[j].ex \in Nat
    /\ codes[j].op = "VAR_L" => codes[j].ex \in 0 .. LocalsAt(codes, j) - 1
    /\ codes[j].op = "CALL" => CallFits(codes, height, j)
    /\ codes[j].op \in {"BEQ0", "JUMP"} => height[codes[j].i] = 0
    /\ \A k \in JumpsTo(codes, j) :
           /\ k \in DOMAIN codes /\ codes[k].op # "FRAME"
           /\ FunctionAt(codes, k) = FunctionAt(codes, j)
           /\ \A net \in Nets(codes[j]) : height[k] = height[j] + net

FitsHeights(codes, height) ==
    /\ \A j \in DOMAIN codes : j \in Nat /\ height[j] \in Int /\ FunctionAt(codes, j) \in DOMAIN codes
    /\ \A j \in DOMAIN codes : codes[j].op = "FRAME" => FunctionAt(codes, j) = j
    /\ \A j \in DOMAIN codes : codes[FunctionAt(codes, j)].op = "FRAME"
    /\ \A j \in DOMAIN codes : LineFits(codes, height, j)

(* Statements begin with nothing that they may take: so do functions, what *)
(* is jumped to, and what stands behind a jump or a return.  From there    *)
(* the heights add up.                                                     *)
Heights(codes) ==
    LET targets == {codes[j].i : j \in {k \in DOMAIN codes : codes[k].op \in {"BEQ0", "JUMP"}}}
        starts == {j \in DOMAIN codes :
                      \/ j = 0 \/ codes[j].op = "FRAME" \/ j \in targets
                      \/ codes[j - 1].op \in {"JUMP", "RET", "FRAME"}}
        net(j) == Min(Nets(codes[j]) \cup {1})
        start(j) == Max({k \in starts : k <= j})
    IN  [j \in DOMAIN codes |-> MapThenSumSet(net, start(j) .. j - 1)]

CodeFits(codes) == FitsHeights(codes, Heights(codes))

=============================================================================
