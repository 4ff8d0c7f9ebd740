--------------------------- MODULE VirtualMachine ---------------------------
(***************************************************************************)
(* The stack machine of mod_lang_vm: linking the code that the compiler    *)
(* wrote (virtual_machine_READ.c), the library functions                   *)
(* (virtual_machine_library.c), and one action per opcode of               *)
(* virtual_machine_EXEC.c, which execute_code dispatches.                  *)
(*                                                                         *)
(* One thread runs one machine and shares it with nobody.  The machine     *)
(* stops (fault) at the first access that the C program cannot survive.    *)
(* The registers gpr are written and never read in this build; they are    *)
(* left out.  A line of code is a triple of an opcode and two operands.    *)
(***************************************************************************)
EXTENDS OwnedValues

CONSTANTS MAX_STACK,        \* slots of the stack
          Library,          \* the library functions, each <<name, number of arguments>>
          RandomNumbers, RandomStrings,   \* what the generator may give
          Handles,          \* what cmd_create_instance may give, 0 when it fails
          JsonText(_),      \* the text for a function from names to values
          JsonString(_, _), JsonInteger(_, _)   \* a property of a text, by name

(* get_VAR, set_VAR, del_VAR, del_VARS and the rest of the module          *)
(* Variables, as the machine uses them.                                    *)
CONSTANTS ReadVar(_, _, _), WriteVar(_, _, _, _), DeleteItem(_, _, _), DeleteVars(_, _),
          DeclareVar(_, _, _, _, _, _), ResizeVars(_, _, _),
          SameValue(_, _, _), PrintValue(_, _), PrintToBuf(_, _, _)

ASSUME StackAssumption == MAX_STACK \in Nat \ {0, 1}

VARIABLES
    Codes,     \* the linked code, counted from 0
    mem,       \* the heap, see OwnedValues
    Stack, Sp, Fp, Pc,
    status,    \* "compiling", "running", "ended", "unlinked" when read_code
               \* refused, "cleaned" after vm_cleanup
    out,       \* what print has shown, line by line
    expected   \* what it should show, known from the start and never read

vars == <<Codes, mem, Stack, Sp, Fp, Pc, status, out, expected>>
loaded == <<Codes, expected>>

-----------------------------------------------------------------------------
(* Reading and linking code.                                               *)

SYMBOL_OPCODES == {"VAR_A", "VAR_A_CLEAN", "SYM_A", "LOADA"} \cup
                  {"VAR_L", "VAR_L_CLEAN", "SYM_L", "LOADL"}

Code(op, i, ex) == [op |-> op, i |-> i, ex |-> ex]

(* What has been read so far: the code, the labels with their address and  *)
(* number of arguments, the symbols by name, and the function being read.  *)
NothingRead == [m |-> EmptyHeap, codes |-> <<>>, labels |-> <<>>, symbols |-> <<>>, entry |-> ""]

GlobalSystemKey == 1

(* A string constant is signed with the key of the machine itself.         *)
read_code_PUSHS(r, text) ==
    LET new == make_own_value_object_string(r.m, text)
    IN  [r EXCEPT !.m = [new.m EXCEPT !.obj[new.v[2]].owner = GlobalSystemKey],
                  !.codes = Append(@, Code("PUSHS", new.v, 0))]

read_code_PUSHI(r, i, ex) ==
    [r EXCEPT !.codes =
        Append(@, Code("PUSHI",
                       IF ex # 0 THEN make_own_value_bool(i # 0) ELSE make_own_value_number(i), 0))]

read_code_PUSHU(r, i) == [r EXCEPT !.codes = Append(@, Code("PUSHU", make_own_value_number(i), 0))]

read_code_PUSHA(r, i) == [r EXCEPT !.codes = Append(@, Code("PUSHA", make_own_value_address(i), 0))]

(* Each argument and local of a function has one symbol, made when its     *)
(* VAR line is read and shared by all calls of the function.               *)
read_code_VAR_SYM(r, op, i) ==
    LET key == <<op \in {"VAR_A", "VAR_A_CLEAN", "SYM_A", "LOADA"}, r.entry, i>>
        new == make_own_value_object_symbol(r.m)
    IN  CASE op \in {"VAR_A", "VAR_L"} ->
                [r EXCEPT !.m = new.m, !.symbols = (key :> new.v) @@ @,
                          !.codes = Append(@, Code(op, new.v, i))]
          [] op \in SYMBOL_OPCODES \ {"VAR_A", "VAR_L"} ->
                [r EXCEPT !.codes =
                    Append(@, Code(op, IF key \in DOMAIN r.symbols THEN r.symbols[key]
                                       ELSE make_own_value_number(0), i))]
          [] OTHER -> [r EXCEPT !.codes = Append(@, Code(op, i, 0))]

read_code_EX(r, op, i, ex) == [r EXCEPT !.codes = Append(@, Code(op, i, ex))]

(* A call is bound by name; the variadic functions carry their number of   *)
(* arguments in the name.                                                  *)
read_code_CALL(r, name, nargs) ==
    [r EXCEPT !.codes =
        Append(@, Code("CALL", IF name \in {"print", "assert", "start"}
                               THEN name \o "_" \o ToString(nargs) ELSE name, nargs))]

(* Labels and entries take no place in the code.                           *)
read_code_ENTRY(r, op, name, nargs) ==
    LET label == [name |-> name, addr |-> Len(r.codes), args |-> nargs]
    IN  CASE op = "LABEL" -> [r EXCEPT !.labels = Append(@, label)]
          [] op = "ENTRY" -> [r EXCEPT !.labels = Append(@, label), !.entry = name]
          [] OTHER -> [r EXCEPT !.codes = Append(@, Code(op, name, 0))]

read_line(r, line) ==
    LET op == line[1]
    IN  CASE op \in SYMBOL_OPCODES \cup {"STOREA", "STOREL", "FRAME", "POPR", "CUSTOM"} ->
                read_code_VAR_SYM(r, op, line[2])
          [] op \in {"ENTRY", "LABEL", "JUMP", "BEQ0"} -> read_code_ENTRY(r, op, line[2], line[3])
          [] op = "CALL" -> read_code_CALL(r, line[2], line[3])
          [] op = "PUSHS" -> read_code_PUSHS(r, line[2])
          [] op = "PUSHI" -> read_code_PUSHI(r, line[2], line[3])
          [] op = "PUSHU" -> read_code_PUSHU(r, line[2])
          [] op = "PUSHA" -> read_code_PUSHA(r, line[2])
          [] op = "LOAD_LIB" -> r
          [] OTHER -> read_code_EX(r, op, line[2], line[3])

NoLabel == -1

(* The first label of that name wins.                                      *)
LabelsNamed(r, name) == {j \in DOMAIN r.labels : r.labels[j].name = name}

find_label(r, name) ==
    IF LabelsNamed(r, name) = {} THEN NoLabel ELSE r.labels[Min(LabelsNamed(r, name))].addr

find_label_ex(r, name, nargs) ==
    IF LabelsNamed(r, name) = {} \/ r.labels[Min(LabelsNamed(r, name))].args # nargs
    THEN NoLabel ELSE r.labels[Min(LabelsNamed(r, name))].addr

Link(r) ==
    [j \in 0 .. Len(r.codes) - 1 |->
        LET c == r.codes[j + 1]
        IN  CASE c.op \in {"BEQ0", "JUMP"} -> [c EXCEPT !.i = find_label(r, c.i)]
              [] c.op = "CALL" -> [c EXCEPT !.i = find_label_ex(r, c.i, c.ex)]
              [] OTHER -> c]

(* Fault: a call that fits no function is linked all the same.             *)
Faulty_LinkFails(codes) ==
    \E j \in DOMAIN codes : codes[j].op \in {"BEQ0", "JUMP"} /\ codes[j].i = NoLabel

LinkFails(codes) ==
    \E j \in DOMAIN codes : codes[j].op \in {"BEQ0", "JUMP", "CALL"} /\ codes[j].i = NoLabel

(* A library function is code as well: its arguments, their symbols pushed *)
(* in order, one CUSTOM that runs the C function, and the clean-up.        *)
library_func_register(name, nargs) ==
    LET each(op) == [i \in 1 .. nargs |-> <<op, i - 1, 0>>]
    IN  <<<<"ENTRY", name, nargs>>, <<"FRAME", 0, 0>>>> \o each("VAR_A") \o each("SYM_A")
        \o <<<<"CUSTOM", name, 0>>>> \o each("VAR_A_CLEAN") \o <<<<"RET", 0, 0>>>>

library_register ==
    FoldBlocks(LAMBDA lines, f : lines \o library_func_register(f[1], f[2]), <<>>, Library)

read_code(lines) == FoldBlocks(read_line, NothingRead, lines)

(* vm_init reads the library and then the program, and vm_execute starts   *)
(* at the first function__main, if the program has one.                    *)
vm_init(lines) ==
    LET r == read_code(library_register \o lines)
        start == find_label(r, "function__main")
    IN  /\ mem = r.m
        /\ Codes = Link(r)
        /\ Stack = [p \in 0 .. MAX_STACK - 1 |-> make_own_value_number(0)]
        /\ Sp = MAX_STACK - 1
        /\ Fp = MAX_STACK - 1
        /\ Pc = start
        /\ status = CASE LinkFails(Link(r)) -> "unlinked"
                      [] ~LinkFails(Link(r)) /\ start = NoLabel -> "ended"
                      [] OTHER -> "running"
        /\ out = <<>>

-----------------------------------------------------------------------------
(* The stack grows down; Sp is the free slot below its top.                *)

Executing(op) ==
    /\ status = "running" /\ mem.fault = {}
    /\ Pc \in DOMAIN Codes /\ Codes[Pc].op = op

operand == Codes[Pc].i
operand_ex == Codes[Pc].ex

OnStack(p) == IF p \in DOMAIN Stack THEN Stack[p] ELSE NAN_BOX_Null
Top == OnStack(Sp + 1)
Below == OnStack(Sp + 2)
Third == OnStack(Sp + 3)

(* n values leave the stack and v is pushed, or nothing is pushed.         *)
Exchange(n, v, m) ==
    /\ Sp' = Sp + n - 1
    /\ IF Sp + n \in DOMAIN Stack
       THEN Stack' = [Stack EXCEPT ![Sp + n] = v] /\ mem' = m
       ELSE mem' = Fault(m, "stack overflow") /\ UNCHANGED Stack

Drop(n, m) == Sp' = Sp + n /\ mem' = m /\ UNCHANGED Stack

StepOver == UNCHANGED <<mem, Stack, Sp>>

Crash(what) == mem' = Fault(mem, what) /\ UNCHANGED <<Stack, Sp>>

Advance == Pc' = Pc + 1 /\ UNCHANGED <<loaded, status, Fp>>

execute_code_POP ==
    /\ Executing("POP")
    /\ Drop(1, mem) /\ Advance /\ UNCHANGED out

execute_code_PUSHIUAS ==
    /\ \E op \in {"PUSHI", "PUSHU", "PUSHA", "PUSHS"} : Executing(op)
    /\ Exchange(0, operand, mem) /\ Advance /\ UNCHANGED out

(* A load resolves the variable to its value; a symbol is pushed as it is. *)
execute_code_LOAD ==
    /\ \E op \in {"LOADA", "LOADL"} : Executing(op)
    /\ Exchange(0, ReadVar(mem, operand, NAN_BOX_Null), mem) /\ Advance /\ UNCHANGED out

execute_code_SYM ==
    /\ \E op \in {"SYM_A", "SYM_L"} : Executing(op)
    /\ Exchange(0, operand, mem) /\ Advance /\ UNCHANGED out

-----------------------------------------------------------------------------
(* Arithmetic and comparison; division is that of C.                       *)

Sign(x) == IF x < 0 THEN -1 ELSE 1
Quotient(x, y) == Sign(x) * Sign(y) * ((Sign(x) * x) \div (Sign(y) * y))

Arithmetic(op, x, y) ==
    CASE op = "ADD" -> x + y
      [] op = "SUB" -> x - y
      [] op = "MUL" -> x * y
      [] op = "DIV" -> Quotient(x, y)
      [] op = "MOD" -> x - y * Quotient(x, y)

ArithmeticOps == {"ADD", "SUB", "MUL", "DIV", "MOD"}
Inp(op) ==
    CASE op = "ADD" -> "Inp_ADD" [] op = "SUB" -> "Inp_SUB" [] op = "MUL" -> "Inp_MUL"
      [] op = "DIV" -> "Inp_DIV" [] op = "MOD" -> "Inp_MOD"

x_number == get_own_value_number(Below)
y_number == get_own_value_number(Top)

Divides(op) == op \in {"DIV", "MOD"} /\ y_number = 0

execute_code_arithmetic ==
    \E op \in ArithmeticOps :
        /\ Executing(op)
        /\ IF Divides(op) THEN Crash("division by zero")
           ELSE Exchange(2, make_own_value_number(Arithmetic(op, x_number, y_number)), mem)
        /\ Advance /\ UNCHANGED out

(* The result of an operation in place goes straight into the variable,    *)
(* which the number of a register names; nothing is pushed.                *)
inline_set_obj_x_value(ret) ==
    LET slot == OnStack(IF operand_ex >= 11 THEN Fp - (operand_ex - 11) ELSE Fp - (operand_ex - 3))
    IN  CASE ~IsSymbol(slot) -> Fault(mem, "wild pointer")
          [] IsSymbol(slot) /\ mem.sym[slot[2]].type = "var" -> [mem EXCEPT !.sym[slot[2]].val = ret]
          [] OTHER -> WriteVar(mem, slot, NAN_BOX_Null, ret)

execute_code_Inp ==
    \E op \in ArithmeticOps :
        /\ Executing(Inp(op))
        /\ IF Divides(op) THEN Crash("division by zero")
           ELSE Drop(2, inline_set_obj_x_value(
                            make_own_value_number(Arithmetic(op, x_number, y_number))))
        /\ Advance /\ UNCHANGED out

execute_code_Inp_ADDI ==
    /\ Executing("Inp_ADDI")
    /\ Drop(1, inline_set_obj_x_value(make_own_value_number(y_number + operand)))
    /\ Advance /\ UNCHANGED out

Compared(op) ==
    CASE op = "GT" -> get_own_value_number(ReadVar(mem, Below, NAN_BOX_Null))
                        > get_own_value_number(ReadVar(mem, Top, NAN_BOX_Null))
      [] op = "LT" -> x_number < y_number
      [] op = "EQ" -> SameValue(mem, Below, Top)
      [] op = "NEQ" -> ~SameValue(mem, Below, Top)
      [] op = "LGE" -> x_number >= y_number
      [] op = "BGE" -> x_number <= y_number
      [] op = "AND" -> x_number # 0 /\ y_number # 0
      [] op = "OR" -> x_number # 0 \/ y_number # 0

execute_code_compare ==
    \E op \in {"GT", "LT", "EQ", "NEQ", "LGE", "BGE", "AND", "OR"} :
        /\ Executing(op)
        /\ Exchange(2, make_own_value_bool(Compared(op)),
                    IF op \in {"EQ", "NEQ"} THEN Touch(Touch(mem, Below), Top) ELSE mem)
        /\ Advance /\ UNCHANGED out

-----------------------------------------------------------------------------
(* Control.                                                                *)

execute_code_BEQ0 ==
    /\ Executing("BEQ0")
    /\ Drop(1, IF Top[1] = "bool" THEN mem ELSE Fault(mem, "assertion"))
    /\ Pc' = IF Top = make_own_value_bool(FALSE) THEN operand ELSE Pc + 1
    /\ UNCHANGED <<loaded, status, Fp, out>>

execute_code_JUMP ==
    /\ Executing("JUMP")
    /\ Pc' = operand
    /\ UNCHANGED <<loaded, mem, Stack, Sp, Fp, status, out>>

execute_code_CALL ==
    /\ Executing("CALL")
    /\ Exchange(0, make_own_value_number(Pc + 1), mem)
    /\ Pc' = operand
    /\ UNCHANGED <<loaded, Fp, status, out>>

execute_code_FRAME ==
    /\ Executing("FRAME")
    /\ Sp' = Sp - 1 - operand
    /\ Fp' = Sp - 1
    /\ IF Sp \in DOMAIN Stack
       THEN Stack' = [Stack EXCEPT ![Sp] = make_own_value_number(Fp)] /\ UNCHANGED mem
       ELSE mem' = Fault(mem, "stack overflow") /\ UNCHANGED Stack
    /\ Pc' = Pc + 1
    /\ UNCHANGED <<loaded, status, out>>

(* Fault: the return of the first function is not told from the others.    *)
Faulty_execute_code_RET ==
    /\ Executing("RET")
    /\ Fp' = get_own_value_number(OnStack(Fp + 1))
    /\ Sp' = Fp + 2 /\ Pc' = get_own_value_number(OnStack(Fp + 2))
    /\ UNCHANGED <<loaded, mem, Stack, status, out>>

(* What the function left on the stack is dropped with its frame.          *)
execute_code_RET ==
    /\ Executing("RET")
    /\ Fp' = get_own_value_number(OnStack(Fp + 1))
    /\ IF Fp + 1 >= MAX_STACK - 1 \/ Fp + 1 < 0
       THEN Sp' = Fp + 1 /\ status' = "ended" /\ UNCHANGED Pc
       ELSE Sp' = Fp + 2 /\ Pc' = get_own_value_number(OnStack(Fp + 2)) /\ UNCHANGED status
    /\ UNCHANGED <<loaded, mem, Stack, out>>

execute_code_POPR ==
    /\ Executing("POPR")
    /\ Drop(operand, mem) /\ Advance /\ UNCHANGED out

-----------------------------------------------------------------------------
(* Variables.  The caller pushed the arguments, the last one first: that   *)
(* of position i is at Fp + i + 3, the local of position i at Fp - i.      *)

(* Fault: the symbol is put one slot too low, over what CALL has saved.    *)
Faulty_execute_code_VAR_A ==
    /\ Executing("VAR_A")
    /\ LET slot == Fp + operand_ex + 2
       IN  /\ mem' = DeclareVar(mem, operand[2], "var", 0, OnStack(slot + 1), FALSE)
           /\ Stack' = [Stack EXCEPT ![slot] = operand]
    /\ Advance /\ UNCHANGED <<Sp, out>>

execute_code_VAR_A ==
    /\ Executing("VAR_A")
    /\ LET slot == Fp + operand_ex + 3
       IN  /\ mem' = DeclareVar(mem, operand[2], "var", 0, OnStack(slot), FALSE)
           /\ Stack' = [Stack EXCEPT ![slot] = operand]
    /\ Advance /\ UNCHANGED <<Sp, out>>

execute_code_VAR_L ==
    /\ Executing("VAR_L")
    /\ mem' = DeclareVar(mem, operand[2], "var", 0, NAN_BOX_Null, TRUE)
    /\ Stack' = [Stack EXCEPT ![Fp - operand_ex] = operand]
    /\ Advance /\ UNCHANGED <<Sp, out>>

execute_code_VAR_CLEAN ==
    /\ \E op \in {"VAR_A_CLEAN", "VAR_L_CLEAN"} : Executing(op)
    /\ mem' = DeleteVars(mem, operand)
    /\ Advance /\ UNCHANGED <<Stack, Sp, out>>

ArgSlot(i) == OnStack(Fp + i + 3)
LocalSlot(i) == OnStack(Fp - i)

execute_code_STORE ==
    /\ \E op \in {"STOREA", "STOREL"} : Executing(op)
    /\ mem' = WriteVar(mem, IF Executing("STOREA") THEN ArgSlot(operand) ELSE LocalSlot(operand),
                      NAN_BOX_Null, Top)
    /\ Advance /\ UNCHANGED <<Stack, Sp, out>>

execute_code_NEW ==
    \E kind \in {<<"NEW_ARRAY", "array">>, <<"NEW_LIST", "tuple">>, <<"NEW_KEY_HASH", "hash">>} :
        /\ Executing(kind[1])
        /\ mem' = DeclareVar(mem, LocalSlot(operand)[2], kind[2], operand_ex, NAN_BOX_Null, TRUE)
        /\ Advance /\ UNCHANGED <<Stack, Sp, out>>

-----------------------------------------------------------------------------
(* Containers.  An operation that does not fit the variable leaves its     *)
(* operands on the stack.                                                  *)

object == IF operand_ex # 0 THEN ArgSlot(operand) ELSE LocalSlot(operand)

IsVar(v) == IsSymbol(v) /\ mem.sym[v[2]].type = "var"

object_item == IF IsVar(object) THEN ReadVar(mem, object, NAN_BOX_Null) ELSE object

ItemKind ==
    CASE IsVar(object) /\ object_item = NAN_BOX_Null -> "null"
      [] IsSymbol(object_item) -> mem.sym[object_item[2]].type
      [] OTHER -> "wild"

Resolved(m, index) == IF IsSymbol(index) THEN ReadVar(m, index, NAN_BOX_Null) ELSE index

(* An index below 0 is read and written all the same, in front of the array. *)
OutOfBounds(m, v, index) ==
    /\ IsSymbol(v) /\ m.sym[v[2]].type = "array" /\ m.sym[v[2]].there
    /\ get_own_value_number(Resolved(m, index)) < 0

Checked(m, root, index) ==
    IF OutOfBounds(mem, root, index) THEN Fault(m, "out of bounds") ELSE m

execute_code_SET_ITEM ==
    /\ Executing("SET_ITEM")
    /\ IF IsSymbol(object) THEN Drop(2, WriteVar(mem, object, Below, Top)) ELSE Crash("wild pointer")
    /\ Advance /\ UNCHANGED out

execute_code_GET_ITEM ==
    /\ Executing("GET_ITEM")
    /\ Exchange(1, ReadVar(mem, object, Top), Checked(mem, object_item, Top))
    /\ Advance /\ UNCHANGED out

execute_code_ADD_ITEM ==
    /\ Executing("ADD_ITEM")
    /\ CASE ItemKind = "tuple" -> Drop(1, WriteVar(mem, object_item, NAN_BOX_Null, Top))
         [] ItemKind = "wild" -> Crash("wild pointer")
         [] OTHER -> StepOver
    /\ Advance /\ UNCHANGED out

execute_code_ADD_KEY_ITEM ==
    /\ Executing("ADD_KEY_ITEM")
    /\ CASE ItemKind = "hash" -> Drop(2, WriteVar(mem, object_item, Below, Top))
         [] ItemKind = "wild" -> Crash("wild pointer")
         [] OTHER -> StepOver
    /\ Advance /\ UNCHANGED out

execute_code_DEL_ITEM ==
    /\ Executing("DEL_ITEM")
    /\ CASE ItemKind \in {"tuple", "hash"} ->
                LET done == DeleteItem(mem, object_item, Top) IN Exchange(1, done.v, done.m)
         [] ItemKind = "wild" -> Crash("wild pointer")
         [] OTHER -> StepOver
    /\ Advance /\ UNCHANGED out

execute_code_FIND_ITEM ==
    /\ Executing("FIND_ITEM")
    /\ CASE ItemKind = "hash" -> Exchange(1, ReadVar(mem, object_item, Top), mem)
         [] ItemKind = "wild" -> Crash("wild pointer")
         [] OTHER -> StepOver
    /\ Advance /\ UNCHANGED out

ItemCount ==
    CASE ItemKind = "array" -> make_own_value_number(get_VAR_total_with_array_type(mem, object_item[2]))
      [] ItemKind = "tuple" -> make_own_value_number(get_VAR_total_with_tuple_type(mem, object_item[2]))
      [] OTHER -> NAN_BOX_Null

execute_code_COUNT_ITEM ==
    /\ Executing("COUNT_ITEM")
    /\ CASE ItemKind = "null" -> StepOver
         [] IsVar(object) /\ object_item[1] = "str" ->
                Exchange(0, make_own_value_number(get_VAR_total_with_var_type(mem, object[2])),
                         Touch(mem, object_item))
         [] ItemKind = "wild" /\ object_item[1] # "str" -> Crash("wild pointer")
         [] OTHER -> Exchange(0, ItemCount, mem)
    /\ Advance /\ UNCHANGED out

execute_code_RESIZE_ARRAY ==
    /\ Executing("RESIZE_ARRAY")
    /\ CASE ItemKind = "array" ->
                Drop(1, ResizeVars(mem, object_item[2],
                            IF Top = NAN_BOX_Null THEN 0
                            ELSE get_own_value_number(Resolved(mem, Top))))
         [] ItemKind = "wild" -> Crash("wild pointer")
         [] OTHER -> StepOver
    /\ Advance /\ UNCHANGED out

-----------------------------------------------------------------------------
(* Library functions.  CUSTOM finds its arguments on the stack, the last   *)
(* one on top, and each is the symbol of a parameter.                      *)

Calling(name) == Executing("CUSTOM") /\ operand = name

Argument(k, n) == OnStack(Sp + n + 1 - k)
Given(k, n) == ReadVar(mem, Argument(k, n), NAN_BOX_Null)

Answer(n, m, v) == Drop(n, WriteVar(m, Argument(n, n), NAN_BOX_Null, v))

(* A new string that nobody owns is given to the variable.                 *)
AnswerText(n, m, text) ==
    LET new == make_own_value_object_string(m, text) IN Answer(n, new.m, new.v)

Returns == Advance /\ UNCHANGED out

IsText(v) == v[1] = "str"

library_print ==
    \E n \in 1 .. 10 :
        /\ Calling("print_" \o ToString(n))
        /\ Drop(n, FoldBlocks(LAMBDA m, k : Touch(m, Given(k, n)), mem, [k \in 1 .. n |-> k]))
        /\ out' = Append(out, [k \in 1 .. n |-> PrintValue(mem, Argument(k, n))])
        /\ Advance

(* An assertion that fails is printed, and the program goes on.            *)
library_assert ==
    /\ Calling("assert_2")
    /\ Drop(2, IF Given(1, 2)[1] = "bool" /\ IsText(Given(2, 2)) THEN Touch(mem, Given(2, 2))
               ELSE Fault(mem, "assertion"))
    /\ out' = IF Given(1, 2) = make_own_value_bool(TRUE) THEN out
              ELSE Append(out, <<get_own_value_object_string(mem, Given(2, 2)), "FAILED">>)
    /\ Advance

library_convert ==
    /\ Calling("convert")
    /\ StepOver /\ Returns

library_check_type ==
    /\ Calling("check_type")
    /\ LET key == make_own_value_object_string(mem, get_own_value_type_string(mem, Given(1, 3)))
           found == ReadVar(key.m, Given(2, 3), key.v)
       IN  Answer(3, Release(key.m, key.v), make_own_value_bool(found # NAN_BOX_Null))
    /\ Returns

library_random_number ==
    /\ Calling("random_number")
    /\ IF Given(1, 2)[1] # "num" THEN Drop(2, mem)
       ELSE \E value \in RandomNumbers : Answer(2, mem, make_own_value_number(value))
    /\ Returns

library_random_address ==
    /\ Calling("random_address")
    /\ \E value \in RandomNumbers : Answer(1, mem, make_own_value_address(value))
    /\ Returns

library_random_string ==
    /\ Calling("random_string")
    /\ IF Given(1, 2)[1] # "num" THEN Drop(2, mem)
       ELSE \E value \in RandomStrings : AnswerText(2, mem, value)
    /\ Returns

library_create_instance ==
    /\ Calling("create_instance")
    /\ IF ~IsText(Given(1, 3)) \/ ~IsText(Given(2, 3)) THEN Drop(3, Fault(mem, "assertion"))
       ELSE \E handle \in Handles : Answer(3, mem, make_own_value_address(handle))
    /\ Returns

library_delete_instance ==
    /\ Calling("delete_instance")
    /\ IF ~IsText(Given(1, 2)) THEN Drop(2, Fault(mem, "assertion"))
       ELSE Answer(2, mem, NAN_BOX_Null)
    /\ Returns

IsHash(v) == IsSymbol(v) /\ mem.sym[v[2]].type = "hash"

(* Numbers, booleans, addresses and texts are written, the rest is skipped. *)
library_make_json ==
    /\ Calling("make_json")
    /\ LET pairs == mem.sym[Given(1, 2)[2]].pairs
           value(t) == ReadVar(mem, pairs[t], NAN_BOX_Null)
           written == {t \in DOMAIN pairs : value(t)[1] \in {"num", "bool", "addr", "str"}}
           text(v) == IF IsText(v) THEN get_own_value_object_string(mem, v)
                      ELSE ToString(get_own_value_number(v))
       IN  IF IsHash(Given(1, 2))
           THEN AnswerText(2, mem, JsonText([t \in written |-> text(value(t))]))
           ELSE Drop(2, Fault(mem, "assertion"))
    /\ Returns

(* Each value is replaced by that of its key in the text, with the type it *)
(* had; a new string takes over the signature of the old one.              *)
library_parse_json ==
    /\ Calling("parse_json")
    /\ LET hash == Given(2, 2)
           text == get_own_value_object_string(mem, Given(1, 2))
           parsed(t, m) ==
               LET old == ReadVar(m, m.sym[hash[2]].pairs[t], NAN_BOX_Null)
                   new == NewObject(m, "str", make_own_value_string(JsonString(text, t)),
                                    get_own_value_object(m, old).owner)
                   stored(h, v) == [h EXCEPT !.sym[hash[2]].pairs[t] = v]
               IN  CASE old[1] = "num" -> stored(m, make_own_value_number(JsonInteger(text, t)))
                     [] old[1] = "addr" -> stored(m, make_own_value_address(JsonInteger(text, t)))
                     [] IsText(old) -> stored(Release(new.m, old), new.v)
                     [] OTHER -> m
       IN  IF IsHash(hash) /\ IsText(Given(1, 2))
           THEN Drop(2, FoldSet(parsed, mem, DOMAIN mem.sym[hash[2]].pairs))
           ELSE Drop(2, IF IsText(Given(1, 2)) THEN Fault(mem, "assertion") ELSE mem)
    /\ Returns

(* The text becomes an array of texts of one character each.               *)
library_string_to_array ==
    /\ Calling("string_to_array")
    /\ LET target == Given(2, 2)
           text == get_own_value_object_string(mem, Given(1, 2))
           cleared == DeclareVar(DeleteVars(Touch(mem, Given(1, 2)), target),
                                  target[2], "array", Len(text), NAN_BOX_Null, FALSE)
           each(m, i) ==
               LET new == make_own_value_object_string(m, SubSeq(text, i, i))
               IN  WriteVar(new.m, target, make_own_value_number(i - 1), new.v)
       IN  CASE target = NAN_BOX_Null \/ ~IsText(Given(1, 2)) -> Drop(2, mem)
             [] ~IsSymbol(target) /\ target # NAN_BOX_Null /\ IsText(Given(1, 2)) ->
                    Drop(2, Fault(mem, "assertion"))
             [] OTHER -> Drop(2, FoldBlocks(each, cleared, [i \in 1 .. Len(text) |-> i]))
    /\ Returns

library_array_to_string ==
    /\ Calling("array_to_string")
    /\ LET array == Given(1, 2)
           items == [i \in 1 .. get_VAR_total_with_array_type(mem, array[2]) |->
                        ReadVar(mem, array, make_own_value_number(i - 1))]
           touched == FoldBlocks(Touch, mem, items)
       IN  IF IsSymbol(array) /\ mem.sym[array[2]].type = "array"
           THEN AnswerText(2, touched,
                    FoldBlocks(LAMBDA t, v : t \o PrintToBuf(mem, v, FALSE), "", items))
           ELSE Drop(2, mem)
    /\ Returns

-----------------------------------------------------------------------------
(* After the program has ended, or was refused, vm_cleanup frees the       *)
(* constants of the code and the symbols, but nothing they still hold.     *)

clean_codes ==
    LET constants == {Codes[j].i : j \in {k \in DOMAIN Codes : Codes[k].op = "PUSHS"}}
        free(v, m) == IF get_own_value_object(m, v).owner = GlobalSystemKey
                      THEN Release(m, v) ELSE Touch(m, v)
    IN  FoldSet(free, mem, constants)

vm_cleanup ==
    /\ status \in {"ended", "unlinked"}
    /\ status' = "cleaned"
    /\ mem' = [clean_codes EXCEPT !.sym = <<>>]
    /\ UNCHANGED <<loaded, Stack, Sp, Fp, Pc, out>>

library_function ==
    \/ library_print \/ library_assert \/ library_convert \/ library_check_type
    \/ library_random_number \/ library_random_address \/ library_random_string
    \/ library_create_instance \/ library_delete_instance
    \/ library_make_json \/ library_parse_json
    \/ library_string_to_array \/ library_array_to_string

execute_code ==
    \/ execute_code_POP \/ execute_code_PUSHIUAS \/ execute_code_LOAD \/ execute_code_SYM
    \/ execute_code_arithmetic \/ execute_code_Inp \/ execute_code_Inp_ADDI
    \/ execute_code_compare
    \/ execute_code_BEQ0 \/ execute_code_JUMP \/ execute_code_CALL \/ execute_code_FRAME
    \/ execute_code_RET \/ execute_code_POPR
    \/ execute_code_VAR_A \/ execute_code_VAR_L \/ execute_code_VAR_CLEAN
    \/ execute_code_STORE \/ execute_code_NEW
    \/ execute_code_SET_ITEM \/ execute_code_GET_ITEM \/ execute_code_ADD_ITEM
    \/ execute_code_ADD_KEY_ITEM \/ execute_code_DEL_ITEM \/ execute_code_FIND_ITEM
    \/ execute_code_COUNT_ITEM \/ execute_code_RESIZE_ARRAY
    \/ library_function

Next == execute_code \/ vm_cleanup

=============================================================================
