------------------------------- MODULE Parser -------------------------------
(***************************************************************************)
(* The parser of mod_lang_parse: the tokens of lang_lex.c, the recursive   *)
(* descent of lang_parse.c, and the names of lang_ast.c.  Its trees are    *)
(* those the module Compiler reads.                                        *)
(*                                                                         *)
(* A source text is a sequence of words: a keyword, a name, a sign, a      *)
(* numeral, a quoted text (which starts with '), an end of line.  Words    *)
(* are apart from each other unless the word ~ stands between them.        *)
(*                                                                         *)
(* Every function of the source is an operator from a parser state s to    *)
(* the next one, s.v being what it returns.  An error leaves no token but  *)
(* the last, so that every operator after it returns at once.              *)
(*   s.toks                    the tokens ahead, the first is lex_lookahead *)
(*   s.fn                      function_name, "" outside of a function     *)
(*   s.names, s.custom         the symbols made so far; required functions *)
(*   s.create_id, s.create_func  what the keywords var and def announce    *)
(*   s.defs                    what was handed to the compiler, in order   *)
(*   s.err                     "", "syntax" or "undeclared"; "endless" when *)
(*                             the parser has not returned and never will   *)
(***************************************************************************)
EXTENDS LongFolds, FiniteSets, SequencesExt, TLC

CONSTANT MaxNumeral      \* numerals that a program may contain

NoTree == <<"NONE">>
NullBits == -2000000     \* the bits of NAN_BOX_Null read as a number

-----------------------------------------------------------------------------
(* Words to tokens.                                                        *)

KeyWords ==
    {"var", "def", "if", "else", "return", "while", "for", "break", "add_item", "del_item",
     "set", "get", "find_item", "count_item", "add_key_item", "resize", "load_lib", "null",
     "true", "false", "and", "or"}

Signs == {".", ",", ":", "&", "(", ")", "{", "}", "[", "]", "<", ">", "=", "!", "+", "-",
          "*", "/", "%", "<=", ">=", "==", "!=", "+=", "-=", "*=", "/=", "%=", "\n"}

NumeralOf == [w \in {ToString(n) : n \in 0 .. MaxNumeral} |->
                 CHOOSE n \in 0 .. MaxNumeral : ToString(n) = w]

(* A numeral may end in its width: I8 to I64, or U8 to U64.                *)
Widths == {"8", "16", "32", "64"}
Suffixed(w, letter) == \E d \in DOMAIN NumeralOf, b \in Widths : w = d \o letter \o b
Digits(w, letter) == CHOOSE d \in DOMAIN NumeralOf : \E b \in Widths : w = d \o letter \o b

inline_handle_digit(w) ==
    CASE w \in DOMAIN NumeralOf -> <<"NUM", NumeralOf[w]>>
      [] SubSeq(w, 1, 2) = "0x" -> <<"ADDRESS", NumeralOf[SubSeq(w, 3, Len(w))]>>
      [] Suffixed(w, "I") -> <<"NUM", NumeralOf[Digits(w, "I")]>>
      [] Suffixed(w, "U") -> <<"U_NUM", NumeralOf[Digits(w, "U")]>>

IsNumeral(w) == SubSeq(w, 1, 1) \in {ToString(n) : n \in 0 .. 9}

lang_lex_token(w) ==
    CASE w \in KeyWords \cup Signs -> <<w, 0>>
      [] IsNumeral(w) -> inline_handle_digit(w)
      [] SubSeq(w, 1, 1) = "'" -> <<"STR", SubSeq(w, 2, Len(w))>>
      [] OTHER -> <<"ID", w>>

(* Behind a token that is no numeral and no end of line, a slash that      *)
(* follows at once is swallowed; a comment that follows at once takes the  *)
(* token with it.  Anywhere else but at the start of the text, a comment   *)
(* is read as code.                                                        *)
LexWord(l, w) ==
    LET read == [l EXCEPT !.glued = FALSE, !.toks = Append(@, lang_lex_token(w))]
        swallows == l.glued /\ l.toks # <<>> /\ Last(l.toks)[1] \notin {"NUM", "U_NUM", "ADDRESS", "\n"}
    IN  CASE l.mode = "line" -> IF w = "\n" THEN [read EXCEPT !.mode = "code"] ELSE l
          [] l.mode = "block" -> IF w = "*/" THEN [l EXCEPT !.mode = "closed"] ELSE l
          [] l.mode = "closed" -> [l EXCEPT !.mode = "code", !.err = @ \/ w # "\n"]
          [] l.mode = "code" /\ w = "~" -> [l EXCEPT !.glued = TRUE]
          [] l.mode = "code" /\ w = "#" -> [l EXCEPT !.mode = "line"]
          [] l.mode = "code" /\ w = "/" /\ swallows -> [l EXCEPT !.glued = FALSE]
          [] l.mode = "code" /\ w = "/*" /\ (swallows \/ l.toks = <<>>) ->
                [l EXCEPT !.mode = "block", !.glued = FALSE,
                          !.toks = IF @ = <<>> THEN @ ELSE Front(@)]
          [] l.mode = "code" /\ w = "/*" /\ ~(swallows \/ l.toks = <<>>) ->
                [l EXCEPT !.glued = FALSE, !.toks = @ \o <<<<"/", 0>>, <<"*", 0>>>>]
          [] OTHER -> read

EndOfText == <<"EOF", 0>>

(* The tokens of a text; no token at all when its lexing fails.            *)
lang_lex(words) ==
    LET l == FoldBlocks(LexWord, [toks |-> <<>>, mode |-> "code", glued |-> FALSE, err |-> FALSE],
                      words)
    IN  [toks |-> Append(l.toks, EndOfText),
         err |-> l.err \/ l.mode \in {"block", "closed"}]

-----------------------------------------------------------------------------
(* The parser state.                                                       *)

Ahead(s) == Head(s.toks)[1]
Value(s) == Head(s.toks)[2]

Announced(s) ==
    [s EXCEPT !.create_id = @ \/ Ahead(s) \in {"var", "def"},
              !.create_func = @ \/ Ahead(s) = "def"]

lang_next(s) == IF Len(s.toks) = 1 THEN s ELSE Announced([s EXCEPT !.toks = Tail(@)])

ParseError(s, what) ==
    [s EXCEPT !.err = IF @ = "" THEN what ELSE @, !.toks = <<EndOfText>>, !.v = NoTree]

lang_lex_error(s) == ParseError(s, "syntax")

(* No error of the code: the mark of a parser that is in its loop for ever. *)
NeverReturns(s) == ParseError(s, "endless")

lang_expect(s, token) == IF Ahead(s) = token THEN lang_next(s) ELSE lang_lex_error(s)

Returning(s, v) == [s EXCEPT !.v = v]

make_lang_ast(s, op, left, right) == [s EXCEPT !.v = <<op, left, right>>]

-----------------------------------------------------------------------------
(* Names: of functions the source declares (function__f), of its variables *)
(* (function__f--x), and of the library functions, which need no prefix.   *)

global_func_extern ==
    {"print", "install", "uninstall", "start", "stop", "show", "help", "grace_exit", "exit",
     "run", "ps", "assert", "random_number", "random_address", "random_string", "make_json",
     "parse_json", "create_instance", "delete_instance", "string_to_array", "array_to_string",
     "debug", "convert", "check_type"}

lookup_lang_ast_symbol(s, name) ==
    LET custom == name \in s.custom
        extern == custom \/ name \in global_func_extern
        inside == s.fn # "" /\ ~extern
        def == s.create_func \/ custom
        new_name == IF inside THEN s.fn \o "--" \o name
                    ELSE IF def THEN "function__" \o name ELSE name
        found == new_name \in s.names
        made == ~found /\ (s.create_id \/ extern)
        next == [s EXCEPT !.create_id = FALSE, !.create_func = inside /\ def,
                          !.names = IF made THEN @ \cup {new_name} ELSE @]
    IN  CASE found \/ made -> Returning(next, <<"SYMBOL_OP", new_name>>)
          [] ~found /\ ~made /\ "function__" \o name \in s.names ->
                Returning(next, <<"SYMBOL_OP", "function__" \o name>>)
          [] OTHER -> Returning(next, NoTree)

(* The flags are looked at after the token behind the name was read.       *)
AcceptName(s) == lookup_lang_ast_symbol(lang_next(s), Value(s))

identifier(s) ==
    IF Ahead(s) = "ID" THEN lang_next(lookup_lang_ast_symbol(s, Value(s))) ELSE lang_lex_error(s)

-----------------------------------------------------------------------------
(* Expressions.                                                            *)

RECURSIVE expression(_)
RECURSIVE block(_, _)

primary_expr(s) ==
    LET t == Ahead(s)
        name == AcceptName(s)
        take(v) == Returning(lang_next(s), v)
    IN  CASE t = "ID" -> IF name.v = NoTree THEN ParseError(name, "undeclared") ELSE name
          [] t = "null" -> take(<<"NUMBER_OP", NullBits>>)
          [] t = "NUM" -> take(<<"NUMBER_OP", Value(s)>>)
          [] t = "U_NUM" -> take(<<"U_NUMBER_OP", Value(s)>>)
          [] t \in {"true", "false"} -> take(<<"BOOL_OP", t = "true">>)
          [] t = "ADDRESS" -> take(<<"ADDRESS_OP", Value(s)>>)
          [] t = "STR" -> take(<<"STRING_OP", Value(s)>>)
          [] t = "(" -> LET e == expression(lang_next(s)) IN Returning(lang_expect(e, ")"), e.v)
          [] OTHER -> Returning(s, NoTree)

expr_key(s) ==
    LET key == primary_expr(s)
        value == primary_expr(lang_expect(key, ":"))
    IN  IF key.v = NoTree THEN Returning(key, <<NoTree, NoTree>>)
        ELSE Returning(value, <<key.v, value.v>>)

Item(s, kind) ==
    CASE kind = "expression" -> expression(s)
      [] kind = "value" -> primary_expr(s)
      [] kind = "pair" -> expr_key(s)

RECURSIVE MoreItems(_, _, _)
MoreItems(s, kind, sofar) ==
    LET item == Item(lang_next(s), kind)
    IN  IF Ahead(s) = "," THEN MoreItems(item, kind, Append(sofar, item.v))
        ELSE Returning(s, sofar)

ListOf(s, kind) ==
    LET first == Item(s, kind)
    IN  MoreItems(first, kind, IF first.v = NoTree THEN <<>> ELSE <<first.v>>)

vals_list(s) == ListOf(s, "value")
arg_list(s) == ListOf(s, "expression")
key_list(s) == ListOf(s, "pair")

Between(s, close, parse(_)) ==
    LET e == parse(lang_next(s)) IN Returning(lang_expect(e, close), e.v)

Nothing(s) == Returning(s, <<>>)

(* What may follow a dot, and whether it is called with a list, with one   *)
(* expression, or with nothing.                                            *)
MethodTree ==
    "add_item" :> "ADD_ITEM_OP" @@ "add_key_item" :> "ADD_KEY_ITEM_OP"
    @@ "del_item" :> "DEL_ITEM_OP" @@ "find_item" :> "FIND_ITEM_OP" @@ "resize" :> "RESIZE_ARRAY_OP"
    @@ "count_item" :> "COUNT_TUPLE_OP" @@ "get" :> "SAFE_GET_OP" @@ "set" :> "SAFE_SET_OP"

MethodCall(s, object) ==
    LET method == Ahead(s)
        open == lang_next(s)
        args == CASE method \in {"count_item", "get"} -> Between(open, ")", Nothing)
                  [] method = "set" -> Between(open, ")", expression)
                  [] OTHER -> Between(open, ")", arg_list)
    IN  CASE method \notin DOMAIN MethodTree -> Returning(s, object)
          [] method \in DOMAIN MethodTree /\ Ahead(open) # "(" -> lang_lex_error(open)
          [] OTHER -> make_lang_ast(args, MethodTree[method], object, args.v)

RECURSIVE CallRest(_, _)
CallRest(s, object) ==
    LET args == Between(s, ")", arg_list)
        index == Between(s, "]", expression)
        value == expression(lang_next(index))
        key == Between(s, "}", expression)
        next == CASE Ahead(s) = "(" -> make_lang_ast(args, "CALL_OP", object, args.v)
                  [] Ahead(s) = "[" /\ Ahead(index) = "=" ->
                        Returning(value, <<"SET_ARRAY_OP", object, index.v, value.v>>)
                  [] Ahead(s) = "[" /\ Ahead(index) # "=" ->
                        make_lang_ast(index, "GET_ARRAY_OP", object, index.v)
                  [] Ahead(s) = "{" -> make_lang_ast(key, "GET_TUPLE_OP", object, key.v)
                  [] Ahead(s) = "." -> MethodCall(lang_next(s), object)
    IN  IF Ahead(s) \in {"(", "[", "{", "."} THEN CallRest(next, next.v) ELSE Returning(s, object)

call_expr(s) == LET first == primary_expr(s) IN CallRest(first, first.v)

(* Fault: sums bind stronger than products.                                *)
Faulty_Levels ==
    <<"+" :> "PLUS_OP" @@ "-" :> "MINUS_OP",
      "*" :> "MUL_OP" @@ "/" :> "DIV_OP" @@ "%" :> "MOD_OP",
      "<" :> "LT_OP" @@ ">" :> "GT_OP" @@ ">=" :> "LGE_OP" @@ "<=" :> "BGE_OP",
      "==" :> "EQUAL_OP" @@ "!=" :> "NON_EQUAL_OP">>

(* The levels of the operators that associate to the left.                 *)
Levels ==
    <<"*" :> "MUL_OP" @@ "/" :> "DIV_OP" @@ "%" :> "MOD_OP",
      "+" :> "PLUS_OP" @@ "-" :> "MINUS_OP",
      "<" :> "LT_OP" @@ ">" :> "GT_OP" @@ ">=" :> "LGE_OP" @@ "<=" :> "BGE_OP",
      "==" :> "EQUAL_OP" @@ "!=" :> "NON_EQUAL_OP">>

(* A minus whose chain starts with no operand negates the number behind    *)
(* it, and drops what the chain had before.                                *)
Combined(op, first, left, right) ==
    IF op = "MINUS_OP" /\ first = NoTree /\ right[1] = "NUMBER_OP"
    THEN <<"NUMBER_OP", 0 - right[2]>> ELSE <<op, left, right>>

RECURSIVE Chain(_, _)
RECURSIVE MoreOperands(_, _, _)
MoreOperands(s, level, first) ==
    LET right == Chain(lang_next(s), level - 1)
    IN  IF Ahead(s) \in DOMAIN Levels[level]
        THEN MoreOperands(Returning(right, Combined(Levels[level][Ahead(s)], first, s.v, right.v)),
                          level, first)
        ELSE s

Chain(s, level) ==
    LET first == Chain(s, level - 1)
    IN  IF level = 0 THEN call_expr(s) ELSE MoreOperands(first, level, first.v)

multiplicative(s) == Chain(s, 1)
additive(s) == Chain(s, 2)
relational(s) == Chain(s, 3)
equality(s) == Chain(s, 4)

RECURSIVE logic_and(_)
logic_and(s) ==
    LET left == equality(s)
        right == logic_and(lang_next(left))
    IN  IF Ahead(left) = "and" THEN make_lang_ast(right, "AND_OP", left.v, right.v) ELSE left

RECURSIVE logic_or(_)
logic_or(s) ==
    LET left == logic_and(s)
        right == logic_or(lang_next(left))
    IN  IF Ahead(left) = "or" THEN make_lang_ast(right, "OR_OP", left.v, right.v) ELSE left

Assigning ==
    "=" :> "EQ_OP" @@ "*=" :> "Inp_MUL_OP" @@ "/=" :> "Inp_DIV_OP" @@ "%=" :> "Inp_MOD_OP"
    @@ "+=" :> "Inp_PLUS_OP" @@ "-=" :> "Inp_MINUS_OP"

RECURSIVE assignment(_)
assignment(s) ==
    LET target == logic_or(s)
        value == assignment(lang_next(target))
    IN  IF Ahead(target) \in DOMAIN Assigning
        THEN make_lang_ast(value, Assigning[Ahead(target)], target.v, value.v)
        ELSE target

expression(s) == assignment(s)

-----------------------------------------------------------------------------
(* Blocks and statements.                                                  *)

(* Declared with brackets, and perhaps with items between another pair.    *)
Container(s, op, symbol, open, items) ==
    CASE Ahead(s) = "\n" -> Returning(lang_next(s), <<op, symbol, <<>>>>)
      [] Ahead(s) = "=" /\ Ahead(lang_next(s)) = open ->
            Returning(lang_expect(items, "\n"), <<op, symbol, items.v>>)
      [] Ahead(s) = "=" /\ Ahead(lang_next(s)) # open -> lang_lex_error(s)
      [] OTHER -> Returning(s, NoTree)

local_var(s) ==
    LET named == identifier(lang_next(s))
        symbol == named.v
        value == expression(lang_next(named))
        size == Between(named, "]", expression)
        equals(sign) == lang_expect(sign, "=")
        array == Container(size, "DECLARE_ARRAY_OP", symbol, "[", Between(equals(size), "]", vals_list))
        pair(close) == lang_expect(lang_next(named), close)
    IN  CASE Ahead(s) # "var" -> Returning(s, NoTree)
          [] Ahead(s) = "var" /\ Ahead(named) = "\n" ->
                Returning(lang_next(named), <<"DECLARE_VAR_OP", symbol, NoTree>>)
          [] Ahead(s) = "var" /\ Ahead(named) = "=" ->
                Returning(lang_expect(value, "\n"), <<"DECLARE_VAR_OP", symbol, value.v>>)
          [] Ahead(s) = "var" /\ Ahead(named) = "[" ->
                IF array.v = NoTree THEN array
                ELSE Returning(array, <<array.v[1], symbol, size.v, array.v[3]>>)
          [] Ahead(s) = "var" /\ Ahead(named) = "{" ->
                Container(pair("}"), "DECLARE_TUPLE_OP", symbol, "{", Between(equals(pair("}")), "}", vals_list))
          [] Ahead(s) = "var" /\ Ahead(named) = "<" ->
                Container(pair(">"), "DECLARE_HASH_OP", symbol, "<", Between(equals(pair(">")), ">", key_list))
          [] OTHER -> Returning(named, NoTree)

RECURSIVE local_vars(_, _)
local_vars(s, sofar) ==
    LET one == local_var(s)
    IN  IF one.v = NoTree THEN Returning(one, sofar) ELSE local_vars(one, Append(sofar, one.v))

InParentheses(s) ==
    IF Ahead(s) = "(" THEN Between(s, ")", expression) ELSE lang_lex_error(s)

RECURSIVE statement(_)

if_statement(s) ==
    LET cond == InParentheses(s)
        then == block(cond, TRUE)
        else == block(lang_next(then), FALSE)
    IN  IF Ahead(then) = "else"
        THEN Returning(else, <<"IF_STATEMENT", cond.v, then.v, else.v>>)
        ELSE Returning(then, <<"IF_STATEMENT", cond.v, then.v, NoTree>>)

while_statement(s) ==
    LET cond == InParentheses(s)
        body == statement(cond)
    IN  make_lang_ast(body, "WHILE_STATEMENT", cond.v, body.v)

for_statement(s) ==
    LET init == expression(lang_expect(s, "("))
        cond == expression(lang_expect(init, ","))
        iter == expression(lang_expect(cond, ","))
        body == statement(lang_expect(iter, ")"))
    IN  Returning(body, <<"FOR_STATEMENT", init.v, cond.v, iter.v, body.v>>)

statement(s) ==
    LET exp == expression(s)
        result == expression(lang_next(s))
    IN  CASE Ahead(s) = "\n" -> Returning(lang_next(s), NoTree)
          [] Ahead(s) = "{" -> block(s, FALSE)
          [] Ahead(s) = "if" -> if_statement(lang_next(s))
          [] Ahead(s) = "return" ->
                Returning(lang_expect(result, "\n"), <<"RETURN_STATEMENT", result.v>>)
          [] Ahead(s) = "break" ->
                Returning(lang_expect(lang_next(s), "\n"), <<"BREAK_STATEMENT">>)
          [] Ahead(s) = "while" -> while_statement(lang_next(s))
          [] Ahead(s) = "for" -> for_statement(lang_next(s))
          [] OTHER -> IF exp.v = NoTree THEN exp ELSE Returning(lang_expect(exp, "\n"), exp.v)

(* A word that starts no statement, the end of the text among them, is     *)
(* never taken, and the loop goes on for ever: no error is raised, the     *)
(* parser does not return, and nothing that comes after it happens.        *)
RECURSIVE MoreStatements(_, _)
MoreStatements(s, sofar) ==
    LET one == statement(s)
        all == IF one.v = NoTree THEN sofar ELSE Append(sofar, one.v)
    IN  CASE one.err # "" -> one
          [] one.err = "" /\ Ahead(one) = "}" -> Returning(one, all)
          [] one.err = "" /\ Ahead(one) # "}" /\ one.toks = s.toks -> NeverReturns(one)
          [] OTHER -> MoreStatements(one, all)

(* The first statement is read before the closing brace is looked for, and *)
(* so is a second one.                                                     *)
statements(s) ==
    LET first == statement(s)
    IN  MoreStatements(first, IF first.v = NoTree THEN <<>> ELSE <<first.v>>)

block(s, nl_skip) ==
    LET locals == local_vars(lang_expect(lang_expect(s, "{"), "\n"), <<>>)
        body == statements(locals)
        closed == lang_expect(body, "}")
        ended == IF nl_skip \/ Ahead(closed) = "EOF" THEN closed ELSE lang_expect(closed, "\n")
    IN  Returning(ended, <<"BLOCK_STATEMENT", locals.v, body.v>>)

-----------------------------------------------------------------------------
(* Parameters: the check of a typed one is parsed from a text of its own.  *)

fake_type_check_words(name) ==
    LET ret == name \o "__parameter_check_ret"
    IN  <<"{", "\n", "var", ret, "\n",
          "check_type", "(", name, ",", name \o "__type", ",", ret, ")", "\n",
          "if", "(", ret, "==", "false", ")", "{", "\n",
          "print", "(", "'check_type_failed", ")", "\n", "return", "\n",
          "}", "else", "{", "\n", "print", "(", "'check_type_success", ")", "\n",
          "}", "\n", "}", "\n">>

fake_type_check_ast(s, name) ==
    LET own == Announced([s EXCEPT !.toks = lang_lex(fake_type_check_words(name)).toks])
        parsed == block(own, FALSE)
    IN  [parsed EXCEPT !.toks = s.toks, !.err = s.err]

var_identifier(s) ==
    LET at == lang_next(s)
        name == Value(at)
        symbol == AcceptName(at)
        typed == lang_next(symbol)
        type == lookup_lang_ast_symbol([typed EXCEPT !.create_id = TRUE], name \o "__type")
        values == Between(type, "}", vals_list)
        check == fake_type_check_ast(values, name)
        parameter(t, c) == [var |-> symbol.v[2], type |-> t, check |-> c]
    IN  CASE Ahead(s) # "var" \/ Ahead(at) # "ID" -> lang_lex_error(s)
          [] Ahead(symbol) # ":" -> Returning(symbol, parameter(NoTree, NoTree))
          [] Ahead(symbol) = ":" /\ Ahead(typed) # "{" -> lang_lex_error(typed)
          [] OTHER -> Returning(check, parameter(<<"DECLARE_TUPLE_OP", type.v, values.v>>, check.v))

RECURSIVE MoreParameters(_, _)
MoreParameters(s, sofar) ==
    LET one == var_identifier(lang_next(s))
    IN  IF Ahead(s) = "," THEN MoreParameters(one, Append(sofar, one.v)) ELSE Returning(s, sofar)

parameters(s) ==
    LET first == var_identifier(s)
    IN  IF Ahead(s) = ")" THEN Returning(s, <<>>) ELSE MoreParameters(first, <<first.v>>)

-----------------------------------------------------------------------------
(* Programs.                                                               *)

Defined(s, def) == IF s.err = "" THEN [s EXCEPT !.defs = Append(@, def)] ELSE s

(* The token behind a function is skipped, whatever it is.                 *)
def_function(s) ==
    LET named == identifier(s)
        inside == [named EXCEPT !.fn = IF named.v = NoTree THEN "" ELSE named.v[2]]
        params == parameters(lang_expect(inside, "("))
        body == block(lang_expect(lang_expect(params, ")"), "\n"), FALSE)
    IN  lang_next([Defined(body, [kind |-> "function", name |-> inside.fn, params |-> params.v,
                                  body |-> body.v]) EXCEPT !.fn = ""])

command_statement(s) ==
    LET e == call_expr(s)
    IN  CASE Ahead(s) = "\n" -> Returning(lang_next(s), NoTree)
          [] Ahead(s) # "\n" /\ e.v = NoTree -> e
          [] OTHER -> Returning(lang_expect(e, "\n"), e.v)

RECURSIVE command_statements(_, _)
command_statements(s, sofar) ==
    LET one == command_statement(s)
    IN  IF one.v = NoTree THEN Returning(one, sofar) ELSE command_statements(one, Append(sofar, one.v))

RECURSIVE SkipNewLines(_)
SkipNewLines(s) == IF Ahead(s) = "\n" THEN SkipNewLines(lang_next(s)) ELSE s

(* The commands are the last thing that is read of a text.                 *)
RECURSIVE global_definitions(_)
global_definitions(s) ==
    LET at == SkipNewLines(s)
        lib == lang_next(at)
        commands == command_statements(at, <<>>)
    IN  CASE Ahead(at) = "def" -> global_definitions(def_function(lang_next(at)))
          [] Ahead(at) = "load_lib" ->
                IF Ahead(lib) = "STR"
                THEN global_definitions(Defined(lang_next(lib),
                        [kind |-> "lib", tree |-> <<"LOAD_LIB_OP", <<"STRING_OP", Value(lib)>>>>]))
                ELSE lang_lex_error(lib)
          [] OTHER -> Defined(commands, [kind |-> "commands", list |-> commands.v])

lang_parse(words, custom) ==
    LET lexed == lang_lex(words)
        start == Announced([toks |-> lexed.toks, v |-> NoTree, fn |-> "", names |-> {},
                            custom |-> custom, create_id |-> FALSE, create_func |-> FALSE,
                            defs |-> <<>>, err |-> ""])
    IN  IF lexed.err THEN lang_lex_error(start) ELSE global_definitions(start)

=============================================================================
