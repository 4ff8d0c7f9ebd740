----------------------------- MODULE ScriptText -----------------------------
(***************************************************************************)
(* What the models of scripts share: the compiler and the variables that   *)
(* the machine is run with, and texts from lines of words.                 *)
(***************************************************************************)
EXTENDS Script

CONSTANTS MaxNumeral, KeyBefore(_, _)

F == INSTANCE CompileFile
V == INSTANCE Variables

CompileDef(text) == LET r == F!compile_file_body(text) IN r
GetVarDef(m, root, index) == LET r == V!get_VAR(m, root, index) IN r
SetVarDef(m, root, index, value) == LET r == V!set_VAR(m, root, index, value) IN r
DelVarDef(m, root, index) == LET r == V!del_VAR(m, root, index) IN r
DelVarsDef(m, root) == LET r == V!del_VARS(m, root) IN r
DeclareDef(m, s, type, size, init, copy) == LET r == V!declare_VAR(m, s, type, size, init, copy) IN r
ResizeDef(m, s, count) == LET r == V!resize_VARS_with_array_type(m, s, count) IN r
EqualDef(m, x, y) == LET r == V!is_own_value_equal(m, x, y) IN r
PrintDef(m, v) == LET r == V!print_own_value(m, v) IN r
PrintToBufDef(m, v, reenter) == LET r == V!print_own_value_to_buf(m, v, reenter) IN r

(* Any fixed order of the keys will do.                                    *)
KeyBeforeDef(x, y) == Len(x) < Len(y)

(* Texts: words stand between spaces, | ends a line, and so does a string. *)

Words(line) ==
    LET close(a) == IF a.word = "" THEN a.done ELSE Append(a.done, IF a.word = "|" THEN "\n" ELSE a.word)
        step(a, i) ==
            LET ch == SubSeq(line, i, i)
            IN  IF ch = " " THEN [done |-> close(a), word |-> ""] ELSE [a EXCEPT !.word = @ \o ch]
    IN  Append(close(FoldBlocks(step, [done |-> <<>>, word |-> ""], [i \in 1 .. Len(line) |-> i])), "\n")

Text(lines) == FoldBlocks(LAMBDA t, line : t \o Words(line), <<>>, lines)

Program(lines, prints) == [text |-> Text(lines), prints |-> prints]

(* A program that is the body of main, called by one command.              *)
Main(lines, prints) ==
    Program(<<"def main ( ) | {">> \o lines \o <<"} | | main ( )">>, prints)

=============================================================================
