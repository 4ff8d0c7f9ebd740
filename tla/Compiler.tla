------------------------------ MODULE Compiler ------------------------------
(***************************************************************************)
(* The compiler of mod_lang_compile: ast_compile.c walks the tree of a     *)
(* function and ast_code.c collects the lines of code.                     *)
(*                                                                         *)
(* A tree is a tuple: an operation, then its parts; a list of trees is a   *)
(* sequence.  A line of code is a triple of an opcode and two operands.    *)
(* Every compile_ function of the source is an operator from a compiler    *)
(* state c to the next one:                                                *)
(*   c.codes          gen_codes, the lines of the function being compiled  *)
(*   c.buffer         gen_buffer, the lines of what is compiled            *)
(*   c.Env            the variables in scope, the last one wins            *)
(*   c.local_var_pos  the slots of the function used so far                *)
(*   c.label_counter  the labels handed out so far                         *)
(*   c.breaks         the loops around, the innermost one last             *)
(*   c.parse_no_error cleared by the first error and never set again       *)
(* The text form of the lines and its limits (4096 characters for one      *)
(* function, MAX_GEN_CODES, MAX_GEN_BUFFER) are left out.                  *)
(***************************************************************************)
EXTENDS LongFolds, FiniteSets, SequencesExt, TLC

None == <<"NONE">>                       \* a tree that is not there

CompilerReset ==
    [codes |-> <<>>, buffer |-> <<>>, Env |-> <<>>, local_var_pos |-> 0, label_counter |-> 0,
     breaks |-> <<[label |-> 0, envp |-> 0]>>, parse_no_error |-> TRUE]

gen_code_init(c) == [c EXCEPT !.codes = <<>>]

gen_code(c, op) == [c EXCEPT !.codes = Append(@, <<op, 0, 0>>)]

gen_codeI(c, op, i, ex) == [c EXCEPT !.codes = Append(@, <<op, i, ex>>)]

(* A label is written as the letter L and its number.                      *)
Label(n) == "L" \o ToString(n)

gen_label(c, op, n) == gen_codeI(c, op, Label(n), 0)

gen_code_func(c, name, n_local, params_count) ==
    [c EXCEPT !.buffer = @ \o <<<<"ENTRY", name, params_count>>, <<"FRAME", n_local, 0>>>>
                           \o c.codes \o <<<<"RET", 0, 0>>>>]

gen_code_expr(c) ==
    [c EXCEPT !.buffer = @ \o SelectSeq(c.codes, LAMBDA line : line[1] = "LOAD_LIB")]

gen_buffer_reset(c) == [c EXCEPT !.buffer = <<>>]

compile_reset(c) == [c EXCEPT !.label_counter = 0]

compile_error(c) == [c EXCEPT !.parse_no_error = FALSE]

-----------------------------------------------------------------------------
(* Variables in scope.                                                     *)

IsDefined(c, var) == \E i \in DOMAIN c.Env : c.Env[i].var = var
IsLocal(c, var) == \E i \in DOMAIN c.Env : c.Env[i].var = var /\ c.Env[i].kind = "local"

EntryOf(c, var) == c.Env[Max({i \in DOMAIN c.Env : c.Env[i].var = var})]

LocalOf(c, var) ==
    c.Env[Max({i \in DOMAIN c.Env : c.Env[i].var = var /\ c.Env[i].kind = "local"})]

IsArg(c, var) == EntryOf(c, var).kind = "arg"

InScope(c, var, kind, pos) ==
    gen_codeI([c EXCEPT !.Env = Append(@, [var |-> var, kind |-> kind, pos |-> pos])],
              IF kind = "arg" THEN "VAR_A" ELSE "VAR_L", pos, 0)

NewLocal(c, var) ==
    [InScope(c, var, "local", c.local_var_pos) EXCEPT !.local_var_pos = @ + 1]

(* The code that gives up the variables that came into scope after from.   *)
inline_var_arg_local_clean(c, from) ==
    FoldBlocks(LAMBDA d, e : gen_codeI(d, IF e.kind = "arg" THEN "VAR_A_CLEAN" ELSE "VAR_L_CLEAN",
                                     e.pos, 0),
             c, SubSeq(c.Env, from + 1, Len(c.Env)))

SymbolOf(p) == IF p[1] = "SYMBOL_OP" THEN p[2] ELSE "NO SYMBOL"

compile_load_var(c, var) ==
    IF IsDefined(c, var)
    THEN gen_codeI(c, IF IsArg(c, var) THEN "LOADA" ELSE "LOADL", EntryOf(c, var).pos, 0)
    ELSE compile_error(c)

compile_sym(c, var) ==
    IF IsDefined(c, var)
    THEN gen_codeI(c, IF IsArg(c, var) THEN "SYM_A" ELSE "SYM_L", EntryOf(c, var).pos, 0)
    ELSE compile_error(c)

-----------------------------------------------------------------------------
(* Expressions.                                                            *)

RECURSIVE compile_expr(_, _)

compile_all(c, trees) == FoldBlocks(compile_expr, c, trees)

(* Fault: the value that was stored stays on the stack.                    *)
Faulty_compile_store_var(c, var, v) ==
    gen_codeI(compile_expr(c, v), IF IsArg(c, var) THEN "STOREA" ELSE "STOREL",
              EntryOf(c, var).pos, 0)

(* Value and target: the value is compiled first, whoever the target is.   *)
compile_store_var(c, var, v) ==
    LET d == compile_expr(c, v)
    IN  IF IsDefined(c, var)
        THEN gen_code(gen_codeI(d, IF IsArg(c, var) THEN "STOREA" ELSE "STOREL",
                                EntryOf(c, var).pos, 0), "POP")
        ELSE compile_error(d)

compile_declare_var(c, var, init) ==
    IF ~IsDefined(c, var) THEN compile_error(c)
    ELSE IF init = None THEN c ELSE compile_store_var(c, var, init)

(* One operation on a container, its operands before it.                   *)
ItemCode(c, op, var, operands) ==
    IF IsDefined(c, var)
    THEN gen_codeI(compile_all(c, operands), op, EntryOf(c, var).pos,
                   IF IsArg(c, var) THEN 1 ELSE 0)
    ELSE compile_error(c)

compile_get_item_var(c, var, index) == ItemCode(c, "GET_ITEM", var, <<index>>)
compile_set_item_var(c, var, index, value) == ItemCode(c, "SET_ITEM", var, <<index, value>>)
compile_add_key_item_var(c, var, index, value) ==
    ItemCode(c, "ADD_KEY_ITEM", var, <<index, value>>)
compile_del_item_var(c, var, item) == ItemCode(c, "DEL_ITEM", var, <<item>>)
compile_find_item_var(c, var, item) == ItemCode(c, "FIND_ITEM", var, <<item>>)
compile_count_item_var(c, var) == ItemCode(c, "COUNT_ITEM", var, <<>>)

(* For a parameter, add_item and resize are compiled and then refused.     *)
RefusedForArg(c, d, var) == IF IsDefined(c, var) /\ IsArg(c, var) THEN compile_error(d) ELSE d

compile_add_item_var(c, var, item) ==
    RefusedForArg(c, ItemCode(c, "ADD_ITEM", var, <<item>>), var)

compile_resize_var(c, var, item) ==
    RefusedForArg(c, ItemCode(c, "RESIZE_ARRAY", var, <<item>>), var)

get_lang_ast_number(p) == IF p[1] = "NUMBER_OP" THEN p[2] ELSE 0

(* One item more than the array is long is accepted, any further ones are  *)
(* left out.                                                               *)
array_var_init_value(c, pos, items, count) ==
    LET each(d, i) == gen_codeI(compile_expr(gen_codeI(d, "PUSHI", i - 1, 0), items[i]),
                                "SET_ITEM", pos, 0)
        taken == IF Len(items) <= count THEN Len(items) ELSE count + 1
    IN  FoldBlocks(each, c, [i \in 1 .. taken |-> i])

compile_declare_array_var(c, var, size, items) ==
    LET count == get_lang_ast_number(size)
        pos == LocalOf(c, var).pos
    IN  IF ~IsLocal(c, var) \/ count <= 0 THEN compile_error(c)
        ELSE array_var_init_value(gen_codeI(c, "NEW_ARRAY", pos, count), pos, items, count)

tuple_var_init_value(c, pos, items) ==
    FoldBlocks(LAMBDA d, item : gen_codeI(compile_expr(d, item), "ADD_ITEM", pos, 0), c, items)

(* Fault: the list is made as an array.                                    *)
Faulty_compile_declare_tuple_var(c, var, items) ==
    IF ~IsLocal(c, var) THEN compile_error(c)
    ELSE tuple_var_init_value(gen_codeI(c, "NEW_ARRAY", LocalOf(c, var).pos, 0),
                              LocalOf(c, var).pos, items)

compile_declare_tuple_var(c, var, items) ==
    IF ~IsLocal(c, var) THEN compile_error(c)
    ELSE tuple_var_init_value(gen_codeI(c, "NEW_LIST", LocalOf(c, var).pos, 0),
                              LocalOf(c, var).pos, items)

(* Up to the first pair that lacks its key or its value: the pair of an    *)
(* empty list lacks both.                                                  *)
hash_var_init_value(c, pos, pairs) ==
    LET complete == {i \in DOMAIN pairs : \A j \in 1 .. i : None \notin {pairs[j][1], pairs[j][2]}}
    IN  FoldBlocks(LAMBDA d, i : gen_codeI(compile_all(d, pairs[i]), "ADD_KEY_ITEM", pos, 0),
                   c, [i \in 1 .. Cardinality(complete) |-> i])

compile_declare_hash_var(c, var, pairs) ==
    IF ~IsLocal(c, var) THEN compile_error(c)
    ELSE hash_var_init_value(gen_codeI(c, "NEW_KEY_HASH", LocalOf(c, var).pos, 0),
                             LocalOf(c, var).pos, pairs)

(* Arguments are pushed from the last to the first; a variable is passed   *)
(* as itself, anything else by its value.                                  *)
compile_expr_sym(c, p) == compile_sym(c, SymbolOf(p))

compile_args(c, args) ==
    FoldBlocks(LAMBDA d, p : IF p[1] = "SYMBOL_OP" THEN compile_expr_sym(d, p)
                           ELSE compile_expr(d, p),
             c, Reverse(args))

(* Fault: one value too many is dropped after the call.                    *)
Faulty_compile_call_func(c, name, args) ==
    gen_codeI(gen_codeI(compile_args(c, args), "CALL", name, Len(args)), "POPR", Len(args) + 1, 0)

compile_call_func(c, name, args) ==
    gen_codeI(gen_codeI(compile_args(c, args), "CALL", name, Len(args)), "POPR", Len(args), 0)

(* What a function gives back cannot be assigned.                          *)
check_call_function_assign(p) ==
    ~(p[1] = "EQ_OP" /\ p[2][1] = "SYMBOL_OP" /\ p[3][1] = "CALL_OP")

(* The register of an operation in place is guessed from the operand of    *)
(* the code that stands k lines back.                                      *)
OperandBack(c, k) ==
    LET line == c.codes[Len(c.codes) + 1 - k]
    IN  IF line[1] \in {"CALL", "PUSHS", "PUSHU"} THEN 0 ELSE line[2]

Register(c, k) ==
    (IF c.codes[Len(c.codes) + 1 - k][1] = "SYM_A" THEN 3 ELSE 11) + OperandBack(c, k)

BinaryCode ==
    "PLUS_OP" :> "ADD" @@ "MINUS_OP" :> "SUB" @@ "MUL_OP" :> "MUL" @@ "DIV_OP" :> "DIV"
    @@ "MOD_OP" :> "MOD" @@ "LT_OP" :> "LT" @@ "GT_OP" :> "GT" @@ "EQUAL_OP" :> "EQ"
    @@ "NON_EQUAL_OP" :> "NEQ" @@ "LGE_OP" :> "LGE" @@ "BGE_OP" :> "BGE"
    @@ "AND_OP" :> "AND" @@ "OR_OP" :> "OR"

InPlaceCode ==
    "Inp_PLUS_OP" :> "Inp_ADD" @@ "Inp_MINUS_OP" :> "Inp_SUB" @@ "Inp_MUL_OP" :> "Inp_MUL"
    @@ "Inp_DIV_OP" :> "Inp_DIV" @@ "Inp_MOD_OP" :> "Inp_MOD"

compile_in_place(c, p) ==
    LET left == compile_expr(c, p[2])
        both == compile_expr(left, p[3])
    IN  IF p[1] = "Inp_PLUS_OP" /\ p[3][1] = "NUMBER_OP"
        THEN gen_codeI(left, "Inp_ADDI", p[3][2], Register(left, 1))
        ELSE gen_codeI(both, InPlaceCode[p[1]], 0, Register(both, 2))

compile_expr(c, p) ==
    LET op == p[1]
        var == SymbolOf(p[2])
    IN  CASE op \in DOMAIN BinaryCode -> gen_code(compile_all(c, <<p[2], p[3]>>), BinaryCode[op])
          [] op \in DOMAIN InPlaceCode -> compile_in_place(c, p)
          [] op = "NUMBER_OP" -> gen_codeI(c, "PUSHI", p[2], 0)
          [] op = "U_NUMBER_OP" -> gen_codeI(c, "PUSHU", p[2], 0)
          [] op = "ADDRESS_OP" -> gen_codeI(c, "PUSHA", p[2], 0)
          [] op = "BOOL_OP" -> gen_codeI(c, "PUSHI", IF p[2] THEN 1 ELSE 0, 1)
          [] op = "STRING_OP" -> gen_codeI(c, "PUSHS", p[2], 0)
          [] op = "SYMBOL_OP" -> compile_load_var(c, p[2])
          [] op = "SAFE_GET_OP" -> compile_load_var(c, var)
          [] op \in {"EQ_OP", "SAFE_SET_OP"} ->
                IF check_call_function_assign(p) THEN compile_store_var(c, var, p[3])
                ELSE compile_error(c)
          [] op = "CALL_OP" -> compile_call_func(c, var, p[3])
          [] op = "DECLARE_VAR_OP" -> compile_declare_var(c, var, p[3])
          [] op = "DECLARE_ARRAY_OP" -> compile_declare_array_var(c, var, p[3], p[4])
          [] op = "DECLARE_TUPLE_OP" -> compile_declare_tuple_var(c, var, p[3])
          [] op = "DECLARE_HASH_OP" -> compile_declare_hash_var(c, var, p[3])
          [] op \in {"GET_ARRAY_OP", "GET_TUPLE_OP"} -> compile_get_item_var(c, var, p[3])
          [] op = "SET_ARRAY_OP" -> compile_set_item_var(c, var, p[3], p[4])
          [] op = "ADD_ITEM_OP" ->
                FoldBlocks(LAMBDA d, item : compile_add_item_var(d, var, item), c, p[3])
          [] op = "DEL_ITEM_OP" ->
                FoldBlocks(LAMBDA d, item : compile_del_item_var(d, var, item), c, p[3])
          [] op = "ADD_KEY_ITEM_OP" -> compile_add_key_item_var(c, var, p[3][1], p[3][2])
          [] op = "FIND_ITEM_OP" -> compile_find_item_var(c, var, p[3][1])
          [] op = "COUNT_TUPLE_OP" -> compile_count_item_var(c, var)
          [] op = "RESIZE_ARRAY_OP" -> compile_resize_var(c, var, p[3][1])
          [] op = "LOAD_LIB_OP" ->
                gen_code_expr(gen_codeI(gen_code_init(c), "LOAD_LIB", p[2][2], 0))
          [] OTHER -> c

-----------------------------------------------------------------------------
(* Statements.                                                             *)

RECURSIVE compile_statement(_, _)

(* The variables of a block are in scope until its end, their slots are    *)
(* not used again.                                                         *)
compile_block(c, local_vars, statements) ==
    LET declare(d, p) == IF p = None THEN d ELSE compile_expr(NewLocal(d, SymbolOf(p[2])), p)
        body == FoldBlocks(compile_statement, FoldBlocks(declare, c, local_vars), statements)
    IN  [inline_var_arg_local_clean(body, Len(c.Env)) EXCEPT !.Env = c.Env]

(* A return gives up every variable before its expression is evaluated.    *)
compile_return(c, expr) ==
    gen_code(compile_expr(inline_var_arg_local_clean(c, 0), expr), "RET")

(* A break gives up the variables of the blocks it leaves.                 *)
compile_break(c) ==
    gen_label(inline_var_arg_local_clean(c, Last(c.breaks).envp), "JUMP", Last(c.breaks).label)

compile_if(c, cond, then_part, else_part) ==
    LET tested == compile_expr(c, cond)
        l1 == tested.label_counter
        then == compile_statement(
                    gen_label([tested EXCEPT !.label_counter = @ + 1], "BEQ0", l1), then_part)
        l2 == then.label_counter
        both == [then EXCEPT !.label_counter = @ + 1]
        else == compile_statement(gen_label(gen_label(both, "JUMP", l2), "LABEL", l1), else_part)
    IN  IF else_part = None THEN gen_label(both, "LABEL", l1) ELSE gen_label(else, "LABEL", l2)

(* The two labels of a loop, and the loop as the target of a break.        *)
EnterLoop(c) ==
    [c EXCEPT !.label_counter = @ + 2,
              !.breaks = Append(@, [label |-> c.label_counter + 1, envp |-> Len(c.Env)])]

compile_loop(c, init, cond, iter, body) ==
    LET l1 == c.label_counter
        l2 == c.label_counter + 1
        started == gen_label(compile_expr(EnterLoop(c), init), "LABEL", l1)
        tested == gen_label(compile_expr(started, cond), "BEQ0", l2)
        again == gen_label(compile_expr(compile_statement(tested, body), iter), "JUMP", l1)
    IN  [gen_label(again, "LABEL", l2) EXCEPT !.breaks = Front(@)]

compile_while(c, cond, body) == compile_loop(c, None, cond, None, body)

compile_for(c, init, cond, iter, body) == compile_loop(c, init, cond, iter, body)

compile_statement(c, p) ==
    CASE p[1] = "BLOCK_STATEMENT" -> compile_block(c, p[2], p[3])
      [] p[1] = "RETURN_STATEMENT" -> compile_return(c, p[2])
      [] p[1] = "BREAK_STATEMENT" -> compile_break(c)
      [] p[1] = "IF_STATEMENT" -> compile_if(c, p[2], p[3], p[4])
      [] p[1] = "WHILE_STATEMENT" -> compile_while(c, p[2], p[3])
      [] p[1] = "FOR_STATEMENT" -> compile_for(c, p[2], p[3], p[4], p[5])
      [] OTHER -> compile_expr(c, p)

-----------------------------------------------------------------------------
(* Functions and commands.                                                 *)

(* A parameter is a record of its variable, the declaration of the types   *)
(* it may have and the block that checks them, both None without a type.   *)
CompileParameter(c, pos, parameter) ==
    LET declared == InScope(c, parameter.var, "arg", pos)
        typed == compile_expr(NewLocal(declared, SymbolOf(parameter.type[2])), parameter.type)
    IN  IF parameter.type = None THEN declared ELSE compile_statement(typed, parameter.check)

define_function(c, name, params, body) ==
    LET start == [gen_code_init(c) EXCEPT !.Env = <<>>, !.local_var_pos = 0]
        given == FoldBlocks(LAMBDA d, i : CompileParameter(d, i - 1, params[i]),
                          start, [i \in 1 .. Len(params) |-> i])
        done == inline_var_arg_local_clean(compile_statement(given, body), 0)
    IN  IF ~c.parse_no_error THEN c
        ELSE [gen_code_func(done, name, done.local_var_pos, Len(params)) EXCEPT !.Env = <<>>]

(* Each command becomes a main function of its own, which first loads the  *)
(* library of the shell.                                                   *)
compile_command_statements(c, commands) ==
    LET lib(d) == gen_code_expr(gen_codeI(gen_code_init(d), "LOAD_LIB", "shell_lib", 0))
        each(d, p) == gen_code_func(gen_code(compile_expr(gen_code_init(lib(d)), p), "POP"),
                                    "function__main", 0, 0)
    IN  IF ~c.parse_no_error THEN c ELSE FoldBlocks(each, c, commands)

=============================================================================
