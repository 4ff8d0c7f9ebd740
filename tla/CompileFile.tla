----------------------------- MODULE CompileFile -----------------------------
(***************************************************************************)
(* From a text to its code: the parser hands every function and command to *)
(* the compiler as soon as it has read it (lang_parse, compile_file_body). *)
(***************************************************************************)
EXTENDS LongFolds

CONSTANT MaxNumeral

P == INSTANCE Parser
C == INSTANCE Compiler

CompileDefinition(c, def) ==
    CASE def.kind = "function" -> C!define_function(c, def.name, def.params, def.body)
      [] def.kind = "commands" -> C!compile_command_statements(c, def.list)
      [] def.kind = "lib" -> C!compile_expr(c, def.tree)

(* What came before an error stays compiled.  A text whose parser does not *)
(* return is never compiled.                                               *)
compile_file_body(text) ==
    LET parsed == P!lang_parse(text, {})
    IN  [ends |-> parsed.err # "endless",
         buffer |-> FoldBlocks(CompileDefinition, C!CompilerReset, parsed.defs).buffer]

=============================================================================
