------------------------------ MODULE MCValues ------------------------------
(***************************************************************************)
(* All short sequences of statements that move texts between variables,    *)
(* containers and the parameters of a function.                            *)
(***************************************************************************)
EXTENDS ScriptText

CONSTANT Statements    \* the statements the sequences are made of
CONSTANT Length        \* how many of them

JsonTextDef(f) == ""
JsonStringDef(t, k) == ""
JsonIntegerDef(t, k) == 0
NoLibrary == <<>>

Moving == {"x = y", "y = x . get ( )", "x = 'one", "x = 5", "y = a",
           "a [ 0 ] = x", "x = a [ 0 ]", "a [ 0 ] = 'new", "a . resize ( 2 )",
           "h . add_key_item ( 'k , x )", "y = h . find_item ( 'k )", "v = h . del_item ( 'k )",
           "h . add_key_item ( 'a , a )", "y = h . find_item ( 'a )",
           "t . add_item ( x )", "t . add_item ( 'el )", "v = t . del_item ( x )", "y = t { 0 }",
           "assign ( x , y )", "assign ( 'lit , y )", "assign ( a , y )",
           "{ | var x = 'in | y = x | }", "return", "for ( v = 0 , v < 2 , v += 1 ) { | var w = x | y = w | }"}

(* An element that is set from itself is freed before it is read.          *)
WithItself == Moving \cup {"a [ 0 ] = a [ 0 ]"}

(* A variable that holds null has nothing to count, and nothing is pushed  *)
(* for its count: the local in the last slot is taken for it.              *)
WithCounts == {"v = h . find_item ( 'none ) | v = v . count_item ( )", "t . add_item ( x )"}

ValuePrograms ==
    {Program(<<"def assign ( var p , var q ) | { | var r | r = p | q = r | } |",
               "def main ( ) | { | var x = 'xx | var y = 'yyy | var v | var a [ 1 ] = [ 'in ]",
               "var h < > = < 'k : 'old > | var t { } = { 'el }">> \o w \o <<"} | | main ( )">>, <<>>)
        : w \in [1 .. Length -> Statements]}

=============================================================================
