----------------------------- MODULE MCPrograms -----------------------------
(***************************************************************************)
(* Programs with what they must print: those of files/script, cut to one   *)
(* case each, and families of expressions and loops whose output is        *)
(* computed here from the meaning of the language.                         *)
(***************************************************************************)
EXTENDS ScriptText

LibraryDef ==
    <<<<"print_1", 1>>, <<"print_2", 2>>, <<"assert_2", 2>>, <<"convert", 0>>, <<"check_type", 3>>,
      <<"random_number", 2>>, <<"random_address", 1>>, <<"random_string", 2>>,
      <<"create_instance", 3>>, <<"delete_instance", 2>>, <<"make_json", 2>>, <<"parse_json", 2>>,
      <<"string_to_array", 2>>, <<"array_to_string", 2>>>>

(* One hash in a text: the JSON reader finds what the writer wrote.        *)
JsonTexts == [n : {"0", "2"}, s : {"rs"}]
TextOf(f) == "n=" \o f["n"] \o ";s=" \o f["s"]
JsonTextDef(f) == IF DOMAIN f = {"n", "s"} THEN TextOf(f) ELSE "{}"
JsonStringDef(t, k) == IF \E f \in JsonTexts : TextOf(f) = t THEN (CHOOSE f \in JsonTexts : TextOf(f) = t)[k] ELSE ""
JsonIntegerDef(t, k) == IF JsonStringDef(t, k) = "2" THEN 2 ELSE 0

-----------------------------------------------------------------------------
(* The scripts of the repository.                                          *)

test_for ==
    Main(<<"var i | var t { } = { 1 , 22 , 'hello } | var n = t . count_item ( )",
           "for ( i = 0 , i < n , i = i + 1 ) { | var j | var item | item = t { i }",
           "for ( j = 0 , j < 3 , j += 1 ) { | if ( j == 2 ) { | print ( 'break , j ) | break | } | }",
           "if ( i == 1 ) { | print ( 'out , i ) | break | }",
           "print ( item , t { i } ) | }">>,
         <<<<"break", "2">>, <<"1", "1">>, <<"break", "2">>, <<"out", "1">>>>)

test_while ==
    Main(<<"var i = 0 | while ( true ) { | var j | j = i + 100 | print ( i , j ) | i = i + 1",
           "if ( i >= 2 ) { | break | } | } | print ( 'end )">>,
         <<<<"0", "100">>, <<"1", "101">>, <<"end">>>>)

test_ifelse ==
    Main(<<"var i = 32 | if ( i == 32 ) { | print ( 'yes ) | }",
           "if ( i != 32 ) { | print ( 'wrong ) | } else { | print ( 'no ) | return | } | print ( 'wrong )">>,
         <<<<"yes">>, <<"no">>>>)

test_return ==
    Program(<<"def early ( ) | { | var data | random_string ( 12 , data ) | if ( data == 'rs ) { | return 7 | }",
              "print ( 'wrong ) | } |",
              "def main ( ) | { | early ( ) | print ( 'back ) | } | | main ( )">>,
            <<<<"back">>>>)

test_arg ==
    Program(<<"def assign ( var key , var ret ) | { | ret = key + 1 | } |",
              "def main ( ) | { | var key = 99 | var ret | assign ( key , ret ) | print ( key , ret )",
              "assign ( 5 , ret ) | assert ( ret == 6 , 'ret ) | } | | main ( )">>,
            <<<<"99", "100">>>>)

test_lifetime ==
    Main(<<"var ret | ret = 100 | { | var ret | var j | ret = 30 | j = 'world | print ( ret , j )",
           "random_number ( 32 , ret ) | print ( ret ) | } | print ( ret )">>,
         <<<<"30", "world">>, <<"7">>, <<"100">>>>)

test_var_type ==
    Main(<<"var j = 9U8 | var d = true | var s = 'one | var a = 0x5 | var k = - 10",
           "assert ( d == true , 'd ) | d = false | assert ( d == false , 'd ) | j = 12I16",
           "assert ( j >= 12 , 'ge ) | assert ( j <= 12 , 'le ) | assert ( j > 11 , 'gt ) | assert ( j < 13 , 'lt )",
           "s . set ( 'two ) | print ( s . get ( ) , a ) | print ( k , j / 5 ) | convert ( )",
           "random_address ( a ) | print ( a ) | assert ( d != null , 'd )">>,
         <<<<"two", "0x5">>, <<"-10", "2">>, <<"0x7">>>>)

test_math ==
    Main(<<"var a | var b | a = 1 | b = a + 3 * 2 | print ( b ) | b = ( a + 3 ) * 2 | print ( b )",
           "b += 1 | print ( b ) | b -= a | print ( b ) | b *= 8 | print ( b ) | b /= 2 | print ( b ) | b %= 3 | print ( b )",
           "# comment", "print ( 'end )">>,
         <<<<"7">>, <<"8">>, <<"9">>, <<"8">>, <<"64">>, <<"32">>, <<"2">>, <<"end">>>>)

test_tuple ==
    Main(<<"var s = 'four | var t { } = { 1 , 22 , 1 } | var i | var f | t . add_item ( s )",
           "for ( i = 0 , i < t . count_item ( ) , i += 1 ) { | print ( t { i } ) | } | f = t . find_item ( 22 )",
           "t . del_item ( 22 ) | print ( t . count_item ( ) , s )">>,
         <<<<"1">>, <<"22">>, <<"four">>, <<"2", "four">>>>)

test_hash ==
    Main(<<"var s = 'one | var a [ 2 ] = [ 5 , 'x ] | var v | var h < > = < 12 : 'text , 13 : a >",
           "v = h . find_item ( 12 ) | print ( v ) | h . add_key_item ( s , 'two ) | v = h . find_item ( s ) | print ( v )",
           "h . add_key_item ( s , 'three ) | v = h . find_item ( 'one ) | print ( v )",
           "h . del_item ( 12 ) | v = h . find_item ( 12 ) | print ( v )",
           "v = h . find_item ( 13 ) | print ( v [ 0 ] , v [ 1 ] ) | print ( a . count_item ( ) , s )">>,
         <<<<"text">>, <<"two">>, <<"three">>, <<"null">>, <<"5", "x">>, <<"0", "one">>>>)

test_hash_hash ==
    Program(<<"def put ( var state ) | { | var inner | var more < > = < 4 : 'hello > | var v",
              "inner = state . find_item ( 'kv ) | inner . add_key_item ( 'k , more ) | v = inner . find_item ( 'k )",
              "v = v . find_item ( 4 ) | print ( v ) | v = more . find_item ( 4 ) | print ( v ) | } |",
              "def main ( ) | { | var kv < > = < > | var state < > = < 'kv : kv > | put ( state ) | } | | main ( )">>,
            <<<<"hello">>, <<"null">>>>)

test_hash_link ==
    Main(<<"var link < > | var current | var names [ 3 ] = [ 'O , 'I , 'II ] | var i | current = link",
           "for ( i = 2 , i >= 0 , i -= 1 ) { | var item < > | var v | v = names [ i ] | item . add_key_item ( 'value , v )",
           "current . add_key_item ( 'next , item ) | current = current . find_item ( 'next ) | }",
           "current = link . find_item ( 'next )",
           "while ( current != null ) { | var v | v = current . find_item ( 'value ) | print ( v )",
           "current = current . find_item ( 'next ) | }">>,
         <<<<"II">>, <<"I">>, <<"O">>>>)

test_array ==
    Main(<<"var s = 'one | var t = 'two | var a [ 3 ] = [ 1 , 2 , 'x ] | var b [ 2 ] | var i = 1",
           "a [ 1 ] = s | print ( a [ 1 ] , s ) | a [ i ] = t . get ( ) | print ( a [ 1 ] , a [ 0 ] )",
           "a [ 4 ] = 5 | assert ( a [ 4 ] == null , 'a4 ) | b [ 0 ] = a | print ( b [ 0 ] ) | print ( a [ 2 ] , a . count_item ( ) )">>,
         <<<<"one", "one">>, <<"two", "1">>, <<"0">>, <<"x", "3">>>>)

test_new_array_size ==
    Main(<<"var a [ 2 ] = [ 1 , 'x ] | var alias | var n | alias = a | n = 3 | alias . resize ( n )",
           "alias [ 2 ] = 'y | print ( a [ 2 ] , a [ 0 ] ) | print ( a . count_item ( ) )">>,
         <<<<"y", "0">>, <<"3">>>>)

test_array_to_string ==
    Main(<<"var s = 'ab | var a [ 1 ] | var back | string_to_array ( s , a ) | print ( a [ 0 ] , a [ 1 ] )",
           "array_to_string ( a , back ) | print ( back , back . count_item ( ) )">>,
         <<<<"a", "b">>, <<"ab", "2">>>>)

test_type_check ==
    Program(<<"def typed ( var x : { 'OWN_TYPE_STRING , 'OWN_TYPE_BOOL } ) | { | print ( 'in , x ) | } |",
              "def main ( ) | { | typed ( true ) | typed ( 5 ) | } | | main ( )">>,
            <<<<"check_type_success">>, <<"in", "true">>, <<"check_type_failed">>>>)

(* Of the two values the generator may give, the text names the one it was. *)
test_make_parse_json ==
    Main(<<"var n = 2 | var s | var out | var h < > = < > | random_string ( 2 , s ) | h . add_key_item ( 'n , n )",
           "h . add_key_item ( 's , s ) | make_json ( h , out ) | h . add_key_item ( 'n , 5 ) | h . add_key_item ( 's , 'old )",
           "parse_json ( out , h ) | n = h . find_item ( 'n ) | s = h . find_item ( 's ) | print ( n , s ) | print ( out )">>,
         <<<<"2", "rs">>, <<"n=2;s=rs">>>>)

test_instance ==
    Main(<<"var handle | create_instance ( 'bundle , 'iid , handle )",
           "if ( handle != 0x0 ) { | delete_instance ( 'iid , handle ) | } | print ( 'done )">>,
         <<<<"done">>>>)

(* A command of its own, as it is typed at the shell.                      *)
test_command ==
    Program(<<"def greet ( var x ) | { | print ( 'hello , x ) | } | | greet ( 5 )">>, <<<<"hello", "5">>>>)

(* What the parser or the linker refuses does not run at all.              *)
refused ==
    { Main(<<"print ( x )">>, <<>>), Main(<<"var x = 5 6">>, <<>>),
      Program(<<"def main ( ) | { | if ( true ) | print ( 1 ) | } |">>, <<>>),
      Program(<<"def main ( ) | { | nobody ( ) | } | | main ( )">>, <<>>),
      Program(<<"def one ( var x ) | { | print ( x ) | } | | def main ( ) | { | one ( 1 , 2 ) | } | | main ( )">>, <<>>) }

-----------------------------------------------------------------------------
(* Families: the expected lines are computed from the numbers.             *)

Strength == "*" :> 5 @@ "/" :> 5 @@ "%" :> 5 @@ "+" :> 4 @@ "-" :> 4 @@ "<" :> 3
            @@ ">=" :> 3 @@ "==" :> 2 @@ "!=" :> 2 @@ "and" :> 1 @@ "or" :> 0

Meaning(op, x, y) ==
    CASE op = "+" -> x + y [] op = "-" -> x - y [] op = "*" -> x * y
      [] op = "/" -> x \div y [] op = "%" -> x % y
      [] op = "<" -> IF x < y THEN 1 ELSE 0
      [] op = ">=" -> IF x >= y THEN 1 ELSE 0
      [] op = "==" -> IF x = y THEN 1 ELSE 0
      [] op = "!=" -> IF x # y THEN 1 ELSE 0
      [] op = "and" -> IF x # 0 /\ y # 0 THEN 1 ELSE 0
      [] op = "or" -> IF x # 0 \/ y # 0 THEN 1 ELSE 0

Shown(op, x) == IF Strength[op] > 3 THEN ToString(x) ELSE IF x = 1 THEN "true" ELSE "false"

Num(n) == ToString(n)

(* a op1 b op2 c: the stronger operator first, of two alike the left one.  *)
Expression(op1, op2) ==
    LET left == Strength[op1] >= Strength[op2] /\ ~(op1 = "or" /\ op2 = "or")
        value == IF left THEN Meaning(op2, Meaning(op1, 7, 2), 3) ELSE Meaning(op1, 7, Meaning(op2, 2, 3))
    IN  Main(<<"var a = 7 | var b = 2 | var c = 3",
               "print ( a " \o op1 \o " b " \o op2 \o " c ) | print ( ( a " \o op1 \o " b ) " \o op2 \o " c )">>,
             <<<<Shown(IF left THEN op2 ELSE op1, value)>>,
               <<Shown(op2, Meaning(op2, Meaning(op1, 7, 2), 3))>>>>)

(* Two loops, the inner one left at k, the outer one at l.                 *)
Loops(n, k, l) ==
    LET inner(i) == [j \in 1 .. (IF k < n THEN k ELSE n) |-> <<Num(i), Num(j - 1)>>]
        rounds == [i \in 1 .. (IF l < n THEN l + 1 ELSE n) |-> inner(i - 1)]
    IN  Main(<<"var i | var j", "for ( i = 0 , i < " \o Num(n) \o " , i += 1 ) { | var x = 'x",
               "for ( j = 0 , j < " \o Num(n) \o " , j += 1 ) { | var y = 'y | if ( j == " \o Num(k) \o " ) { | break | }",
               "print ( i , j ) | } | if ( i == " \o Num(l) \o " ) { | break | } | }">>,
             FlattenSeq(rounds))

ProgramsDef ==
    { test_for, test_while, test_ifelse, test_return, test_arg, test_lifetime, test_var_type, test_math,
      test_tuple, test_hash, test_hash_hash, test_hash_link, test_array, test_new_array_size,
      test_array_to_string, test_type_check, test_make_parse_json, test_instance,
      test_command }
    \cup refused
    \cup {Expression(op1, op2) : op1 \in DOMAIN Strength, op2 \in DOMAIN Strength}
    \cup {Loops(n, k, l) : n \in 1 .. 2, k \in 0 .. 2, l \in 0 .. 2}

=============================================================================
