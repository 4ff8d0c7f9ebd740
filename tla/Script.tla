------------------------------- MODULE Script -------------------------------
(***************************************************************************)
(* A script from its text to its end: its code is linked and run by a new  *)
(* machine, which is cleaned up at last (cmd_execute and vm_execute).      *)
(*                                                                         *)
(* One thread does all of this, one opcode after the other; it is fair, as *)
(* nothing else holds it up.                                               *)
(***************************************************************************)
EXTENDS CodeShape

CONSTANTS Programs,   \* records of a text and what it should print, line by line
          CompileFileBody(_)   \* what becomes of a text: the module CompileFile

(* The machine is not there before the text has been compiled, and for a   *)
(* text whose compilation does not end it never is.                        *)
StillCompiling ==
    /\ status = "compiling" /\ mem = EmptyHeap /\ Codes = <<>> /\ out = <<>>
    /\ Stack = [p \in 0 .. MAX_STACK - 1 |-> make_own_value_number(0)]
    /\ Sp = MAX_STACK - 1 /\ Fp = MAX_STACK - 1 /\ Pc = NoLabel

ScriptInit ==
    \E p \in Programs :
        LET compiled == CompileFileBody(p.text)
        IN  /\ expected = p.prints
            /\ IF compiled.ends THEN vm_init(compiled.buffer) ELSE StillCompiling

ScriptSpec ==
    /\ ScriptInit /\ [][Next]_vars
    /\ WF_vars(Next)

-----------------------------------------------------------------------------
(* Properties of whole programs.                                           *)

(* The machine's state keeps its form.                                     *)
TypeOK ==
    /\ status \in {"compiling", "running", "ended", "unlinked", "cleaned"}
    /\ DOMAIN Stack = 0 .. MAX_STACK - 1 /\ Sp \in -1 .. MAX_STACK - 1 /\ Fp \in DOMAIN Stack
    /\ status = "running" => Pc \in DOMAIN Codes
    /\ \A i \in DOMAIN mem.obj : i < mem.next
    /\ \A s \in DOMAIN mem.sym : mem.sym[s].type \in {"var", "array", "tuple", "hash"}

(* A program that has ended printed what its text says, in that order:     *)
(* loops ran as often, branches and breaks went where they should, and no  *)
(* assert of the script failed.                                            *)
PrintsExpected == status = "cleaned" => out = expected

(* No access to memory that is not there, and no division by zero.         *)
NoFault == mem.fault = {}

(* The locals of the function that runs.                                   *)
FrameSize == LocalsAt(Codes, Pc)

(* Operands never run into the locals of their function: each opcode takes *)
(* from the stack what the compiler pushed for it and no more.  (The POP   *)
(* that ends a command may have nothing to drop; the RET behind it sets    *)
(* the stack back whatever it is.)                                         *)
OperandsAboveLocals ==
    status = "running" /\ Pc \in DOMAIN Codes /\ Codes[Pc].op \notin {"FRAME", "RET"}
        => Sp <= Fp - FrameSize

(* A function returns behind a call of that very function, to the frame    *)
(* that called it: nothing wrote over what its FRAME and CALL had saved.   *)
ReturnsBehindItsCall ==
    [][execute_code_RET /\ status' = "running" =>
           /\ Pc' - 1 \in DOMAIN Codes /\ Codes[Pc' - 1].op = "CALL"
           /\ Codes[Pc' - 1].i = FunctionAt(Codes, Pc) /\ Fp' > Fp]_vars

(* What the machine takes for granted: the code it starts with has the     *)
(* shape that CodeShape describes, memory keeps its record of faults, and  *)
(* count_item, which pushes nothing for a variable that holds null, is not *)
(* asked to.                                                               *)
ShapeIsKept ==
    /\ status = "running" /\ Fp = MAX_STACK - 1 =>
           CodeFits(Codes) /\ Pc \in DOMAIN Codes /\ Codes[Pc].op = "FRAME"
    /\ "fault" \in DOMAIN mem
    /\ Executing("COUNT_ITEM") => ItemKind # "null"

(* What else a script has to see to, for an operation that gives up leaves *)
(* its operands on the stack: add_item is asked of a tuple, add_key_item   *)
(* of a hash, resize of an array.  (What is no variable at all ends it.)   *)
ItemsFit ==
    /\ Executing("ADD_ITEM") => ItemKind \in {"tuple", "wild"}
    /\ Executing("ADD_KEY_ITEM") => ItemKind \in {"hash", "wild"}
    /\ Executing("RESIZE_ARRAY") => ItemKind \in {"array", "wild"}

(* Every text a program allocated was freed when it has been cleaned up.   *)
NothingLeaks == status = "cleaned" => mem.obj = <<>>

(* A loop starts its next round with the stack it started the last one     *)
(* with, so that a long loop cannot run out of stack.                      *)
LoopsKeepTheStack ==
    [][Executing("JUMP") /\ operand < Pc => Sp = Fp - FrameSize]_vars

(* What the symbols hold, each place by itself.                            *)
Places == {<<s, "val", 0>> : s \in DOMAIN mem.sym}
          \cup (UNION {{<<s, "elems", i>> : i \in DOMAIN mem.sym[s].elems} : s \in DOMAIN mem.sym})
          \cup (UNION {{<<s, "pairs", t>> : t \in DOMAIN mem.sym[s].pairs} : s \in DOMAIN mem.sym})

Held(p) == IF p[2] = "val" THEN mem.sym[p[1]].val ELSE mem.sym[p[1]][p[2]][p[3]]

Holds(p, o) == IsBoxed(Held(p)) /\ Held(p)[2] = o

(* README.md: every variable has an ownership, only the owner can handle   *)
(* the variable.  No variable holds a text that was freed,                 *)
NoDangling == \A p \in Places : IsBoxed(Held(p)) => Held(p)[2] \in DOMAIN mem.obj

(* and a text that has an owner is held in one place, by the owner.        *)
OwnedOnce ==
    \A o \in DOMAIN mem.obj :
        LET places == {p \in Places : Holds(p, o)}
        IN  /\ Cardinality(places) <= 1
            /\ \A p \in places : mem.obj[o].owner = mem.sym[p[1]].key

(* The compilation of every program ends (statements() finds the brace it  *)
(* waits for), so does every loop of it, and so does the program.          *)
Terminates == <>(status = "cleaned")

=============================================================================
