---------------------------- MODULE ScriptProofs ----------------------------
(***************************************************************************)
(* The stack of the machine, for code of any shape the compiler may give   *)
(* it, any program and any depth of calls: operands stay above the locals  *)
(* of their function, and a function returns to the line behind its call.  *)
(*                                                                         *)
(* The stack grows downwards.  A frame is named by its Fp: behind it, at   *)
(* Fp + 1 and Fp + 2, are the Fp of its caller (FRAME) and the line to     *)
(* return to (CALL), and at Fp, Fp - 1, ... its locals.  No test of the    *)
(* machine keeps these apart: they are slots of one array, and VAR_A, the  *)
(* pushes and VAR_L write where the code tells them to.  So the proof      *)
(* keeps the set F of the frames that are open, as a chain in which each   *)
(* one's saved places hold what its caller needs, and shows of each opcode *)
(* that it writes into none of them, and of FRAME and RET that they add    *)
(* the topmost frame to the chain and take it off.                         *)
(*                                                                         *)
(* What is taken for granted of the code is ShapeIsKept.  When ItemsFit    *)
(* as well, no operation leaves operands behind, and the same invariant    *)
(* holds with = in place of <= (Reaches, e): so loops keep the stack.      *)
(***************************************************************************)
EXTENDS Script, TLAPS

(* The values that a line finds on the stack.                              *)
H == Heights(Codes)

(* What is below the values y of a function: at most down to y, or, when   *)
(* e, down to y exactly.                                                   *)
Reaches(e, x, y) == x <= y /\ (e => x = y)

(* The frame of the script's main, which no function called.               *)
Bottom == MAX_STACK - 2

(* What the frame f saved.                                                 *)
CallerOf(f) == Stack[f + 1][2]
ReturnOf(f) == Stack[f + 2][2]

IsReturn(r) == r \in DOMAIN Codes /\ r - 1 \in DOMAIN Codes /\ Codes[r - 1].op = "CALL"

(* The frame f runs the function whose code goes on at r.                  *)
CalledFrom(f, r) == f # Bottom => Codes[ReturnOf(f) - 1].i = FunctionAt(Codes, r)

(* A frame's saved places are as FRAME and CALL left them: they lead to    *)
(* the next frame of the chain, below whose operands this frame begins.    *)
FrameFits(e, F, f) ==
    /\ f \in -1 .. Bottom
    /\ f # Bottom =>
        /\ Stack[f + 1] = <<"num", CallerOf(f)>> /\ Stack[f + 2] = <<"num", ReturnOf(f)>>
        /\ CallerOf(f) \in F /\ CallerOf(f) > f
        /\ \A c \in F : c <= f \/ c >= CallerOf(f)
        /\ IsReturn(ReturnOf(f))
        /\ Reaches(e, f + 2, CallerOf(f) - LocalsAt(Codes, ReturnOf(f)) - H[ReturnOf(f) - 1])
        /\ CalledFrom(CallerOf(f), ReturnOf(f))

Chain(e, F) == \A f \in F : FrameFits(e, F, f)

Topmost(F, f) == f \in F /\ \A g \in F : g >= f

(* Between two opcodes a function is at work in the topmost frame,         *)
AtWork(F) == Codes[Pc].op # "FRAME" /\ Topmost(F, Fp) /\ CalledFrom(Fp, Pc)

(* or the machine starts,                                                  *)
Starting(F) == F = {} /\ Sp = MAX_STACK - 1 /\ Fp = MAX_STACK - 1

(* or a CALL has pushed its line and jumped, and FRAME is next.            *)
Saved == Stack[Sp + 1][2]
Entering(e, F) ==
    /\ Topmost(F, Fp) /\ Sp + 1 \in 0 .. MAX_STACK - 1
    /\ Stack[Sp + 1] = <<"num", Saved>> /\ IsReturn(Saved)
    /\ Codes[Saved - 1].i = Pc
    /\ Reaches(e, Sp + 1, Fp - LocalsAt(Codes, Saved) - H[Saved - 1])
    /\ CalledFrom(Fp, Saved)

StackFits(e, F) ==
    /\ Chain(e, F)
    /\ \/ AtWork(F)
       \/ Codes[Pc].op = "FRAME" /\ (Starting(F) \/ Entering(e, F))

(* The operands are above the locals, as many as the line needs as long as *)
(* no access has failed; a RET may come after a POP of nothing.            *)
PlaceFits(e) ==
    /\ Pc \in DOMAIN Codes /\ Sp \in Int /\ Fp \in Int
    /\ Codes[Pc].op # "FRAME" =>
        /\ mem.fault = {} => Reaches(e, Sp, Fp - LocalsAt(Codes, Pc) - H[Pc])
        /\ Codes[Pc].op # "RET" => Sp <= Fp - LocalsAt(Codes, Pc)

(* The inductive invariant.                                                *)
Inv(e) ==
    /\ DOMAIN Stack = 0 .. MAX_STACK - 1
    /\ status = "running" =>
        /\ CodeFits(Codes) /\ PlaceFits(e)
        /\ mem.fault = {} => \E F \in SUBSET Int : StackFits(e, F)

(* An opcode of a function's body is next.                                 *)
Working == status = "running" /\ mem.fault = {} /\ Codes[Pc].op # "FRAME"

-----------------------------------------------------------------------------
(* What the code's shape says of one line and of the lines that follow it. *)

(* The stack has room for the two lines that are saved before main starts. *)
LEMMA MaxStack == MAX_STACK \in Nat /\ MAX_STACK >= 2
  BY StackAssumption

(* Each line belongs to a function and keeps the rules of its opcode.      *)
LEMMA LineKept ==
    ASSUME CodeFits(Codes), NEW j \in DOMAIN Codes
    PROVE  /\ j \in Nat /\ H[j] \in Int /\ FunctionAt(Codes, j) \in DOMAIN Codes
           /\ LocalsAt(Codes, j) \in Nat
           /\ Codes[j].op = "FRAME" => FunctionAt(Codes, j) = j
           /\ LineFits(Codes, H, j)
  <1>1. FitsHeights(Codes, H)
    BY DEF CodeFits, H
  <1>2. /\ j \in Nat /\ H[j] \in Int /\ FunctionAt(Codes, j) \in DOMAIN Codes
        /\ Codes[j].op = "FRAME" => FunctionAt(Codes, j) = j
        /\ Codes[FunctionAt(Codes, j)].op = "FRAME"
        /\ LineFits(Codes, H, j)
    BY <1>1 DEF FitsHeights
  <1>3. LineFits(Codes, H, FunctionAt(Codes, j))
    BY <1>1, <1>2 DEF FitsHeights
  <1>4. LocalsAt(Codes, j) \in Nat
    BY <1>2, <1>3 DEF LocalsAt, LineFits
  <1> QED BY <1>2, <1>4

(* But for a RET, no line stands below its locals.                         *)
LEMMA NotNegative ==
    ASSUME CodeFits(Codes), NEW j \in DOMAIN Codes, Codes[j].op # "RET"
    PROVE  H[j] >= 0 /\ H[j] >= Need(Codes[j].op)
  <1>1. LineFits(Codes, H, j) /\ H[j] \in Int
    BY LineKept
  <1>2. Need(Codes[j].op) \in Nat
    BY DEF Need
  <1> QED BY <1>1, <1>2 DEF LineFits

(* The line that follows another is in the same function, and finds what   *)
(* the first one leaves.                                                   *)
LEMMA EdgeKept ==
    ASSUME CodeFits(Codes), NEW j \in DOMAIN Codes, NEW k \in JumpsTo(Codes, j)
    PROVE  /\ k \in DOMAIN Codes /\ Codes[k].op # "FRAME"
           /\ FunctionAt(Codes, k) = FunctionAt(Codes, j)
           /\ LocalsAt(Codes, k) = LocalsAt(Codes, j)
           /\ \A net \in Nets(Codes[j]) : H[k] = H[j] + net
  <1>1. LineFits(Codes, H, j)
    BY LineKept
  <1> QED BY <1>1 DEF LineFits, LocalsAt

(* The chain of frames stays when their saved places are not written.      *)
LEMMA ChainKept ==
    ASSUME NEW e, NEW F, Chain(e, F), Codes' = Codes,
           \A f \in F : f # Bottom => Stack'[f + 1] = Stack[f + 1] /\ Stack'[f + 2] = Stack[f + 2]
    PROVE  Chain(e, F)' /\ \A f \in F : \A r : CalledFrom(f, r) => CalledFrom(f, r)'
  <1>1. \A f \in F : f # Bottom => /\ CallerOf(f)' = CallerOf(f) /\ ReturnOf(f)' = ReturnOf(f)
    BY DEF CallerOf, ReturnOf
  <1>2. ASSUME NEW f \in F, NEW r, CalledFrom(f, r) PROVE CalledFrom(f, r)'
    BY <1>1, <1>2 DEF CalledFrom, Bottom
  <1>3. H' = H
    BY DEF H
  <1>4. ASSUME NEW f \in F PROVE FrameFits(e, F, f)'
    <2>1. FrameFits(e, F, f)
      BY DEF Chain
    <2>2. CASE f = Bottom
      BY <2>1, <2>2 DEF FrameFits, Bottom
    <2>3. CASE f # Bottom
      <3>1. CalledFrom(CallerOf(f), ReturnOf(f))'
        BY <1>1, <1>2, <2>1, <2>3 DEF FrameFits
      <3> QED BY <1>1, <1>3, <2>1, <2>3, <3>1 DEF FrameFits, IsReturn, Bottom
    <2> QED BY <2>2, <2>3
  <1> QED BY <1>2, <1>4 DEF Chain

(* The saved places are in the stack.                                      *)
LEMMA SavedInside ==
    ASSUME NEW e, NEW F, Chain(e, F), NEW f \in F, f # Bottom, DOMAIN Stack = 0 .. MAX_STACK - 1
    PROVE  f + 1 \in DOMAIN Stack /\ f + 2 \in DOMAIN Stack
  <1>1. f \in -1 .. Bottom
    BY DEF Chain, FrameFits
  <1> QED BY <1>1, MaxStack DEF Bottom

(* A step inside of a function, to a line its code goes on at.             *)
LEMMA Walk ==
    ASSUME NEW e \in BOOLEAN, Inv(e), Working,
           Codes' = Codes, status' = status, Fp' = Fp, DOMAIN Stack' = DOMAIN Stack,
           Pc' \in JumpsTo(Codes, Pc), NEW net \in Nets(Codes[Pc]), net \in Int,
           Sp' \in Int, Reaches(e, Sp', Sp - net),
           \A F \in SUBSET Int : mem'.fault = {} /\ Chain(e, F) /\ AtWork(F) =>
               \A f \in F : f # Bottom => Stack'[f + 1] = Stack[f + 1] /\ Stack'[f + 2] = Stack[f + 2]
    PROVE  Inv(e)'
  <1>1. CodeFits(Codes) /\ PlaceFits(e) /\ Pc \in DOMAIN Codes
    BY DEF Inv, Working, PlaceFits
  <1>2. /\ Pc' \in DOMAIN Codes /\ Codes[Pc'].op # "FRAME"
        /\ FunctionAt(Codes, Pc') = FunctionAt(Codes, Pc)
        /\ LocalsAt(Codes, Pc') = LocalsAt(Codes, Pc)
        /\ H[Pc'] = H[Pc] + net
    BY <1>1, EdgeKept
  <1>3. H' = H
    BY DEF H
  <1>4. LocalsAt(Codes, Pc) \in Nat /\ H[Pc] \in Int /\ H[Pc'] \in Int
    BY <1>1, <1>2, LineKept
  <1>5. PlaceFits(e)'
    <2>1. Reaches(e, Sp', Fp' - LocalsAt(Codes, Pc') - H[Pc'])
      BY <1>1, <1>2, <1>4 DEF PlaceFits, Working, Reaches
    <2>2. Codes[Pc'].op # "RET" => H[Pc'] >= 0
      BY <1>1, <1>2, NotNegative
    <2> QED BY <1>1, <1>2, <1>3, <1>4, <2>1, <2>2 DEF PlaceFits, Reaches
  <1>6. ASSUME mem'.fault = {} PROVE (\E F \in SUBSET Int : StackFits(e, F))'
    <2>1. PICK F \in SUBSET Int : Chain(e, F) /\ AtWork(F)
      BY DEF Inv, Working, StackFits
    <2>2. Chain(e, F)' /\ CalledFrom(Fp, Pc)'
      <3>1. Chain(e, F)' /\ \A f \in F : \A r : CalledFrom(f, r) => CalledFrom(f, r)'
        BY <1>6, <2>1, ChainKept
      <3>2. CalledFrom(Fp, Pc')
        BY <1>2, <2>1 DEF AtWork, CalledFrom
      <3> QED BY <2>1, <3>1, <3>2 DEF AtWork, Topmost, CalledFrom, ReturnOf
    <2>3. Codes'[Pc'].op # "FRAME" /\ Topmost(F, Fp)'
      BY <1>2, <2>1 DEF AtWork, Topmost
    <2>4. StackFits(e, F)'
      BY <2>2, <2>3 DEF StackFits, AtWork
    <2> QED BY <2>4
  <1> QED BY <1>1, <1>5, <1>6 DEF Inv, CodeFits, Working

(* What the operations on the stack write is no saved place: it is below.  *)
LEMMA BelowFrames ==
    ASSUME NEW e \in BOOLEAN, Inv(e), Working, NEW slot \in Int, slot <= Fp - LocalsAt(Codes, Pc)
    PROVE  \A F \in SUBSET Int : Chain(e, F) /\ AtWork(F) =>
               \A f \in F : slot # f + 1 /\ slot # f + 2
  <1>1. LocalsAt(Codes, Pc) \in Nat /\ Fp \in Int
    BY LineKept DEF Inv, Working, PlaceFits
  <1> QED BY <1>1 DEF AtWork, Topmost

(* An opcode that takes n values,                                          *)
LEMMA DropWalk ==
    ASSUME NEW e \in BOOLEAN, Inv(e), Working, NEW n \in Int, NEW m, Drop(n, m), Advance,
           -n \in Nets(Codes[Pc]), Codes[Pc].op \notin {"JUMP", "RET"}
    PROVE  Inv(e)'
  <1>1. Pc' \in JumpsTo(Codes, Pc)
    BY DEF JumpsTo, Advance
  <1>2. Sp' \in Int /\ Reaches(e, Sp', Sp - (-n))
    BY DEF Drop, Inv, Working, PlaceFits, Reaches
  <1> QED BY <1>1, <1>2, Walk DEF Drop, Advance, loaded

(* one that leaves the stack alone,                                        *)
LEMMA StayWalk ==
    ASSUME NEW e \in BOOLEAN, Inv(e), Working, UNCHANGED <<Stack, Sp>>, Advance,
           NEW net \in Nets(Codes[Pc]), net \in Int, Reaches(e, net, 0), Codes[Pc].op \notin {"JUMP", "RET"}
    PROVE  Inv(e)'
  <1>1. Pc' \in JumpsTo(Codes, Pc)
    BY DEF JumpsTo, Advance
  <1>2. Sp' \in Int /\ Reaches(e, Sp', Sp - net)
    BY DEF Inv, Working, PlaceFits, Reaches
  <1> QED BY <1>1, <1>2, Walk DEF Advance, loaded

(* (a failed access is not forgotten)                                      *)
LEMMA FaultStays == ASSUME NEW m, NEW what, "fault" \in DOMAIN Fault(m, what)
                    PROVE  Fault(m, what).fault # {}
  BY DEF Fault

(* and one that takes n values and pushes one.                             *)
LEMMA ExchangeWalk ==
    ASSUME NEW e \in BOOLEAN, Inv(e), Working, "fault" \in DOMAIN mem',
           NEW n \in Nat, NEW v, NEW m, Exchange(n, v, m), Advance,
           1 - n \in Nets(Codes[Pc]), n <= H[Pc], Codes[Pc].op \notin {"JUMP", "RET"}
    PROVE  Inv(e)'
  <1>1. Pc' \in JumpsTo(Codes, Pc)
    BY DEF JumpsTo, Advance
  <1>2. /\ Sp \in Int /\ Fp \in Int /\ H[Pc] \in Int /\ LocalsAt(Codes, Pc) \in Nat
        /\ Sp <= Fp - LocalsAt(Codes, Pc) - H[Pc]
    BY LineKept DEF Inv, Working, PlaceFits, Reaches
  <1>3. /\ Sp' \in Int /\ Reaches(e, Sp', Sp - (1 - n))
        /\ Sp + n \in Int /\ 1 - n \in Int /\ Sp + n <= Fp - LocalsAt(Codes, Pc)
    <2>1. Sp' = Sp + n - 1
      BY DEF Exchange
    <2> QED BY <1>2, <2>1 DEF Reaches
  <1>4. CASE Sp + n \in DOMAIN Stack
    <2>1. Stack' = [Stack EXCEPT ![Sp + n] = v]
      BY <1>4 DEF Exchange
    <2>2. DOMAIN Stack' = DOMAIN Stack
      BY <2>1
    <2>3. ASSUME NEW F \in SUBSET Int, Chain(e, F), AtWork(F), NEW f \in F, f # Bottom
          PROVE  Stack'[f + 1] = Stack[f + 1] /\ Stack'[f + 2] = Stack[f + 2]
      <3>1. Sp + n # f + 1 /\ Sp + n # f + 2
        BY <1>3, <2>3, BelowFrames
      <3>2. f + 1 \in DOMAIN Stack /\ f + 2 \in DOMAIN Stack
        BY <2>3, SavedInside DEF Inv
      <3> QED BY <2>1, <3>1, <3>2
    <2>4. Codes' = Codes /\ status' = status /\ Fp' = Fp
      BY DEF Advance, loaded
    <2> QED BY <1>1, <1>3, <2>2, <2>3, <2>4, Walk
  <1>5. CASE Sp + n \notin DOMAIN Stack
    <2>1. mem' = Fault(m, "stack overflow") /\ Stack' = Stack
      BY <1>5 DEF Exchange
    <2>2. mem'.fault # {}
      BY <2>1, FaultStays
    <2>3. Codes' = Codes /\ status' = status /\ Fp' = Fp /\ DOMAIN Stack' = DOMAIN Stack
      BY <2>1 DEF Advance, loaded
    <2> QED BY <1>1, <1>3, <2>2, <2>3, Walk
  <1> QED BY <1>4, <1>5

-----------------------------------------------------------------------------
(* The same for the groups of opcodes in CodeShape.                        *)

(* The opcode that runs is the one at Pc.                                  *)
LEMMA Runs == ASSUME NEW op, Executing(op), op # "FRAME" PROVE Working /\ Codes[Pc].op = op
  BY DEF Executing, Working

(* What an opcode takes is there.                                          *)
LEMMA Needed ==
    ASSUME NEW e \in BOOLEAN, Inv(e), Working, Codes[Pc].op # "RET"
    PROVE  H[Pc] \in Int /\ Need(Codes[Pc].op) <= H[Pc] /\ 0 <= H[Pc]
  BY NotNegative, LineKept DEF Inv, Working, PlaceFits, Need

(* Opcodes that push a value,                                              *)
LEMMA PushWalk ==
    ASSUME NEW e \in BOOLEAN, Inv(e), "fault" \in DOMAIN mem', NEW op \in PushingOps, Executing(op),
           NEW v, NEW m, Exchange(0, v, m), Advance
    PROVE  Inv(e)'
  <1>1. Working /\ Codes[Pc].op = op /\ op \notin {"JUMP", "RET"} /\ Need(op) = 0
    BY Runs DEF PushingOps, Need, BinaryOps, ArithmeticOps, CompareOps, ReplacingOps
  <1>2. 1 - 0 \in Nets(Codes[Pc])
    BY <1>1 DEF Nets
  <1>3. 0 <= H[Pc]
    BY <1>1, Needed
  <1> QED BY <1>1, <1>2, <1>3, ExchangeWalk

(* that put a value in the place of another,                               *)
LEMMA ReplaceWalk ==
    ASSUME NEW e \in BOOLEAN, Inv(e), "fault" \in DOMAIN mem', NEW op \in ReplacingOps, Executing(op),
           NEW v, NEW m, Exchange(1, v, m), Advance
    PROVE  Inv(e)'
  <1>1. Working /\ Codes[Pc].op = op /\ op \notin {"JUMP", "RET"} /\ Need(op) = 1
    BY Runs DEF ReplacingOps, Need, BinaryOps, ArithmeticOps, CompareOps
  <1>2. 1 - 1 \in Nets(Codes[Pc])
    BY <1>1 DEF Nets, KeepingOps
  <1>3. 1 <= H[Pc]
    BY <1>1, Needed
  <1> QED BY <1>1, <1>2, <1>3, ExchangeWalk

(* and in the place of two.                                                *)
LEMMA BinaryWalk ==
    ASSUME NEW e \in BOOLEAN, Inv(e), "fault" \in DOMAIN mem', NEW op \in BinaryOps, Executing(op),
           NEW v, NEW m, Exchange(2, v, m), Advance
    PROVE  Inv(e)'
  <1>1. Working /\ Codes[Pc].op = op /\ op \notin {"JUMP", "RET"} /\ Need(op) = 2
    BY Runs DEF Need, BinaryOps, ArithmeticOps, CompareOps
  <1>2. 1 - 2 \in Nets(Codes[Pc])
    BY <1>1 DEF Nets, DroppingOps
  <1>3. 2 <= H[Pc]
    BY <1>1, Needed
  <1> QED BY <1>1, <1>2, <1>3, ExchangeWalk

-----------------------------------------------------------------------------
(* The opcodes that move the stack within a function.                      *)

(* Those that take one value,                                              *)
LEMMA LeaveWalk ==
    ASSUME NEW e \in BOOLEAN, Inv(e), NEW op, Executing(op), op \in DroppingOps \ BinaryOps, op # "BEQ0", NEW m, Drop(1, m), Advance
    PROVE  Inv(e)'
  <1>1. Working /\ Codes[Pc].op = op /\ op \notin {"JUMP", "RET"} /\ -1 \in Nets(Codes[Pc])
    BY Runs DEF DroppingOps, Nets
  <1> QED BY <1>1, DropWalk

(* and those that take two.                                                *)
LEMMA LeaveTwoWalk ==
    ASSUME NEW e \in BOOLEAN, Inv(e), NEW op \in DroppingTwoOps, Executing(op), NEW m, Drop(2, m), Advance
    PROVE  Inv(e)'
  <1>1. Working /\ Codes[Pc].op = op /\ op \notin {"JUMP", "RET"} /\ -2 \in Nets(Codes[Pc])
    BY Runs DEF DroppingTwoOps, Nets
  <1> QED BY <1>1, DropWalk

(* After a failed access nothing runs: its stack is never used.            *)
LEMMA CrashWalk ==
    ASSUME NEW e \in BOOLEAN, Inv(e), Working, Codes[Pc].op \notin {"JUMP", "RET"},
           UNCHANGED <<Stack, Sp>>, mem'.fault # {}, Advance
    PROVE  Inv(e)'
  <1>1. Pc' \in JumpsTo(Codes, Pc)
    BY DEF JumpsTo, Advance
  <1>2. CodeFits(Codes) /\ Pc \in DOMAIN Codes /\ Sp \in Int /\ Fp \in Int
    BY DEF Inv, Working, PlaceFits
  <1>3. Sp <= Fp - LocalsAt(Codes, Pc)
    BY DEF Inv, Working, PlaceFits
  <1>4. Pc' \in DOMAIN Codes /\ LocalsAt(Codes, Pc') = LocalsAt(Codes, Pc)
    BY <1>1, <1>2, EdgeKept
  <1>5. PlaceFits(e)'
    BY <1>2, <1>3, <1>4 DEF PlaceFits, Advance, loaded, LocalsAt
  <1> QED BY <1>2, <1>5 DEF Inv, Advance, loaded, CodeFits

(* A failed access, whatever the opcode would have done.                   *)
LEMMA FailWalk ==
    ASSUME NEW e \in BOOLEAN, Inv(e), "fault" \in DOMAIN mem',
           NEW op, Executing(op), op \notin {"FRAME", "JUMP", "RET"}, NEW what, Crash(what), Advance
    PROVE  Inv(e)'
  <1>1. Working /\ Codes[Pc].op \notin {"JUMP", "RET"}
    BY Runs
  <1>2. mem'.fault # {}
    BY FaultStays DEF Crash
  <1> QED BY <1>1, <1>2, CrashWalk DEF Crash

(* Opcodes that neither take nor push anything.                            *)
LEMMA KeepWalk ==
    ASSUME NEW e \in BOOLEAN, Inv(e), NEW op, Executing(op), UNCHANGED <<Stack, Sp>>, Advance,
           op \in KeepingOps \ {"FRAME", "JUMP"}
    PROVE  Inv(e)'
  <1>1. Working /\ Codes[Pc].op = op /\ op \notin {"JUMP", "RET"}
    BY Runs DEF KeepingOps, ReplacingOps
  <1>2. 0 \in Nets(Codes[Pc]) /\ Reaches(e, 0, 0)
    BY <1>1 DEF Nets, Reaches
  <1> QED BY <1>1, <1>2, StayWalk

(* What an operation that gives up does not take stays on the stack, above *)
(* what the code counts on.                                                *)
LEMMA GiveUpWalk ==
    ASSUME Inv(FALSE), NEW op, Executing(op), StepOver, Advance,
           op \in {"ADD_ITEM", "ADD_KEY_ITEM", "RESIZE_ARRAY"}
    PROVE  Inv(FALSE)'
  <1>1. Working /\ Codes[Pc].op = op /\ op \notin {"JUMP", "RET"}
    BY Runs
  <1>2. PICK net \in {-1, -2} : net \in Nets(Codes[Pc])
    BY <1>1 DEF Nets, DroppingOps, DroppingTwoOps
  <1>3. Reaches(FALSE, net, 0) /\ net \in Int
    BY DEF Reaches
  <1> QED BY <1>1, <1>2, <1>3, StayWalk DEF StepOver

(* POP takes a value.                                                      *)
LEMMA POPKeeps ==
    ASSUME NEW e \in BOOLEAN PROVE Inv(e) /\ execute_code_POP => Inv(e)'
  BY LeaveWalk DEF execute_code_POP, DroppingOps, BinaryOps, ArithmeticOps, CompareOps

(* Constants, values of variables and symbols are pushed.                  *)
LEMMA PushesKeep ==
    ASSUME NEW e \in BOOLEAN PROVE
    Inv(e) /\ "fault" \in DOMAIN mem'
        /\ (execute_code_PUSHIUAS \/ execute_code_LOAD \/ execute_code_SYM) => Inv(e)'
  <1>1. ASSUME Inv(e), "fault" \in DOMAIN mem', execute_code_PUSHIUAS PROVE Inv(e)'
    <2>1. PICK op \in {"PUSHI", "PUSHU", "PUSHA", "PUSHS"} : Executing(op)
      BY <1>1 DEF execute_code_PUSHIUAS
    <2> QED BY <1>1, <2>1, PushWalk DEF execute_code_PUSHIUAS, PushingOps
  <1>2. ASSUME Inv(e), "fault" \in DOMAIN mem', execute_code_LOAD PROVE Inv(e)'
    <2>1. PICK op \in {"LOADA", "LOADL"} : Executing(op)
      BY <1>2 DEF execute_code_LOAD
    <2> QED BY <1>2, <2>1, PushWalk DEF execute_code_LOAD, PushingOps
  <1>3. ASSUME Inv(e), "fault" \in DOMAIN mem', execute_code_SYM PROVE Inv(e)'
    <2>1. PICK op \in {"SYM_A", "SYM_L"} : Executing(op)
      BY <1>3 DEF execute_code_SYM
    <2> QED BY <1>3, <2>1, PushWalk DEF execute_code_SYM, PushingOps
  <1> QED BY <1>1, <1>2, <1>3

(* Calculations and comparisons take two values and push their result.     *)
LEMMA ArithmeticKeeps ==
    ASSUME NEW e \in BOOLEAN PROVE
    Inv(e) /\ "fault" \in DOMAIN mem' /\ (execute_code_arithmetic \/ execute_code_compare) => Inv(e)'
  <1>1. ASSUME Inv(e), "fault" \in DOMAIN mem', execute_code_arithmetic PROVE Inv(e)'
    <2>1. PICK op \in ArithmeticOps :
             /\ Executing(op) /\ Advance
             /\ IF Divides(op) THEN Crash("division by zero")
                ELSE Exchange(2, make_own_value_number(Arithmetic(op, x_number, y_number)), mem)
      BY <1>1 DEF execute_code_arithmetic
    <2>2. op \in BinaryOps /\ op \notin {"FRAME", "JUMP", "RET"}
      BY DEF BinaryOps, ArithmeticOps
    <2>3. CASE Crash("division by zero")
      BY <1>1, <2>1, <2>2, <2>3, FailWalk
    <2>4. CASE Exchange(2, make_own_value_number(Arithmetic(op, x_number, y_number)), mem)
      BY <1>1, <2>1, <2>2, <2>4, BinaryWalk
    <2> QED BY <2>1, <2>3, <2>4
  <1>2. ASSUME Inv(e), "fault" \in DOMAIN mem', execute_code_compare PROVE Inv(e)'
    <2>1. PICK op \in CompareOps :
             /\ Executing(op) /\ Advance
             /\ Exchange(2, make_own_value_bool(Compared(op)),
                         IF op \in {"EQ", "NEQ"} THEN Touch(Touch(mem, Below), Top) ELSE mem)
      BY <1>2 DEF execute_code_compare, CompareOps
    <2> QED BY <1>2, <2>1, BinaryWalk DEF BinaryOps
  <1> QED BY <1>1, <1>2

(* += and its kin take the variable and the value.                         *)
LEMMA InPlaceKeeps ==
    ASSUME NEW e \in BOOLEAN PROVE 
    Inv(e) /\ "fault" \in DOMAIN mem' /\ (execute_code_Inp \/ execute_code_Inp_ADDI) => Inv(e)'
  <1>1. ASSUME Inv(e), "fault" \in DOMAIN mem', execute_code_Inp PROVE Inv(e)'
    <2>1. PICK op \in ArithmeticOps :
             /\ Executing(Inp(op)) /\ Advance
             /\ IF Divides(op) THEN Crash("division by zero")
                ELSE Drop(2, inline_set_obj_x_value(
                                 make_own_value_number(Arithmetic(op, x_number, y_number))))
      BY <1>1 DEF execute_code_Inp
    <2>2. Inp(op) \in DroppingTwoOps /\ Inp(op) \notin {"FRAME", "JUMP", "RET"}
      BY DEF Inp, DroppingTwoOps, ArithmeticOps
    <2>3. CASE Crash("division by zero")
      BY <1>1, <2>1, <2>2, <2>3, FailWalk
    <2>4. CASE Drop(2, inline_set_obj_x_value(make_own_value_number(Arithmetic(op, x_number, y_number))))
      BY <1>1, <2>1, <2>2, <2>4, LeaveTwoWalk
    <2> QED BY <2>1, <2>3, <2>4
  <1>2. ASSUME Inv(e), execute_code_Inp_ADDI PROVE Inv(e)'
    BY <1>2, LeaveWalk DEF execute_code_Inp_ADDI, DroppingOps, BinaryOps, ArithmeticOps, CompareOps
  <1> QED BY <1>1, <1>2

(* Cleaning, storing and making variables leave the stack alone.           *)
LEMMA VariablesKeep ==
    ASSUME NEW e \in BOOLEAN PROVE
    Inv(e) /\ (execute_code_VAR_CLEAN \/ execute_code_STORE \/ execute_code_NEW) => Inv(e)'
  <1>1. ASSUME Inv(e), execute_code_VAR_CLEAN PROVE Inv(e)'
    <2>1. PICK op \in {"VAR_A_CLEAN", "VAR_L_CLEAN"} : Executing(op)
      BY <1>1 DEF execute_code_VAR_CLEAN
    <2> QED BY <1>1, <2>1, KeepWalk DEF execute_code_VAR_CLEAN, KeepingOps
  <1>2. ASSUME Inv(e), execute_code_STORE PROVE Inv(e)'
    <2>1. PICK op \in {"STOREA", "STOREL"} : Executing(op)
      BY <1>2 DEF execute_code_STORE
    <2> QED BY <1>2, <2>1, KeepWalk DEF execute_code_STORE, KeepingOps
  <1>3. ASSUME Inv(e), execute_code_NEW PROVE Inv(e)'
    <2>1. PICK op \in {"NEW_ARRAY", "NEW_LIST", "NEW_KEY_HASH"} :
             Executing(op) /\ Advance /\ UNCHANGED <<Stack, Sp>>
      BY <1>3 DEF execute_code_NEW
    <2> QED BY <1>3, <2>1, KeepWalk DEF KeepingOps
  <1> QED BY <1>1, <1>2, <1>3

(* Operations on elements, which give up when the variable is of another   *)
(* kind.                                                                   *)
LEMMA ItemsKeep ==
    ASSUME NEW e \in BOOLEAN PROVE
    Inv(e) /\ "fault" \in DOMAIN mem' /\ (e => ItemsFit)
        /\ (\/ execute_code_SET_ITEM \/ execute_code_GET_ITEM \/ execute_code_ADD_ITEM
            \/ execute_code_ADD_KEY_ITEM \/ execute_code_DEL_ITEM \/ execute_code_FIND_ITEM
            \/ execute_code_RESIZE_ARRAY) => Inv(e)'
  <1> SUFFICES ASSUME Inv(e), "fault" \in DOMAIN mem', e => ItemsFit
               PROVE  (\/ execute_code_SET_ITEM \/ execute_code_GET_ITEM \/ execute_code_ADD_ITEM
                       \/ execute_code_ADD_KEY_ITEM \/ execute_code_DEL_ITEM \/ execute_code_FIND_ITEM
                       \/ execute_code_RESIZE_ARRAY) => Inv(e)'
    OBVIOUS
  <1>1. CASE execute_code_SET_ITEM
    <2>1. \/ \E m : Drop(2, m)
          \/ Crash("wild pointer")
      BY <1>1 DEF execute_code_SET_ITEM
    <2>2. CASE \E m : Drop(2, m)
      BY <1>1, <2>2, LeaveTwoWalk DEF execute_code_SET_ITEM, DroppingTwoOps
    <2>3. CASE Crash("wild pointer")
      BY <1>1, <2>3, FailWalk DEF execute_code_SET_ITEM
    <2> QED BY <2>1, <2>2, <2>3
  <1>2. CASE execute_code_GET_ITEM
    BY <1>2, ReplaceWalk DEF execute_code_GET_ITEM, ReplacingOps
  <1>3. CASE execute_code_ADD_ITEM
    <2>1. \/ \E m : Drop(1, m)
          \/ Crash("wild pointer")
          \/ ~e /\ StepOver
      BY <1>3 DEF execute_code_ADD_ITEM, ItemsFit
    <2>2. CASE \E m : Drop(1, m)
      BY <1>3, <2>2, LeaveWalk DEF execute_code_ADD_ITEM, DroppingOps, BinaryOps, ArithmeticOps, CompareOps
    <2>3. CASE Crash("wild pointer")
      BY <1>3, <2>3, FailWalk DEF execute_code_ADD_ITEM
    <2>4. CASE ~e /\ StepOver
      <3>1. e = FALSE
        BY <2>4
      <3> QED BY <1>3, <2>4, <3>1, GiveUpWalk DEF execute_code_ADD_ITEM
    <2> QED BY <2>1, <2>2, <2>3, <2>4
  <1>4. CASE execute_code_ADD_KEY_ITEM
    <2>1. \/ \E m : Drop(2, m)
          \/ Crash("wild pointer")
          \/ ~e /\ StepOver
      BY <1>4 DEF execute_code_ADD_KEY_ITEM, ItemsFit
    <2>2. CASE \E m : Drop(2, m)
      BY <1>4, <2>2, LeaveTwoWalk DEF execute_code_ADD_KEY_ITEM, DroppingTwoOps
    <2>3. CASE Crash("wild pointer")
      BY <1>4, <2>3, FailWalk DEF execute_code_ADD_KEY_ITEM
    <2>4. CASE ~e /\ StepOver
      <3>1. e = FALSE
        BY <2>4
      <3> QED BY <1>4, <2>4, <3>1, GiveUpWalk DEF execute_code_ADD_KEY_ITEM
    <2> QED BY <2>1, <2>2, <2>3, <2>4
  <1>5. CASE execute_code_DEL_ITEM
    <2>1. \/ \E v, m : Exchange(1, v, m)
          \/ Crash("wild pointer")
          \/ StepOver
      BY <1>5 DEF execute_code_DEL_ITEM
    <2>2. CASE \E v, m : Exchange(1, v, m)
      BY <1>5, <2>2, ReplaceWalk DEF execute_code_DEL_ITEM, ReplacingOps
    <2>3. CASE Crash("wild pointer")
      BY <1>5, <2>3, FailWalk DEF execute_code_DEL_ITEM
    <2>4. CASE StepOver
      BY <1>5, <2>4, KeepWalk DEF execute_code_DEL_ITEM, StepOver, KeepingOps, ReplacingOps
    <2> QED BY <2>1, <2>2, <2>3, <2>4
  <1>6. CASE execute_code_FIND_ITEM
    <2>1. \/ \E v, m : Exchange(1, v, m)
          \/ Crash("wild pointer")
          \/ StepOver
      BY <1>6 DEF execute_code_FIND_ITEM
    <2>2. CASE \E v, m : Exchange(1, v, m)
      BY <1>6, <2>2, ReplaceWalk DEF execute_code_FIND_ITEM, ReplacingOps
    <2>3. CASE Crash("wild pointer")
      BY <1>6, <2>3, FailWalk DEF execute_code_FIND_ITEM
    <2>4. CASE StepOver
      BY <1>6, <2>4, KeepWalk DEF execute_code_FIND_ITEM, StepOver, KeepingOps, ReplacingOps
    <2> QED BY <2>1, <2>2, <2>3, <2>4
  <1>7. CASE execute_code_RESIZE_ARRAY
    <2>1. \/ \E m : Drop(1, m)
          \/ Crash("wild pointer")
          \/ ~e /\ StepOver
      BY <1>7 DEF execute_code_RESIZE_ARRAY, ItemsFit
    <2>2. CASE \E m : Drop(1, m)
      BY <1>7, <2>2, LeaveWalk DEF execute_code_RESIZE_ARRAY, DroppingOps, BinaryOps, ArithmeticOps, CompareOps
    <2>3. CASE Crash("wild pointer")
      BY <1>7, <2>3, FailWalk DEF execute_code_RESIZE_ARRAY
    <2>4. CASE ~e /\ StepOver
      <3>1. e = FALSE
        BY <2>4
      <3> QED BY <1>7, <2>4, <3>1, GiveUpWalk DEF execute_code_RESIZE_ARRAY
    <2> QED BY <2>1, <2>2, <2>3, <2>4
  <1> QED BY <1>1, <1>2, <1>3, <1>4, <1>5, <1>6, <1>7

(* count_item pushes its count, of anything but a variable of null: for    *)
(* that it returns without a push, and the code after it takes a local.    *)
LEMMA COUNT_ITEMKeeps ==
    ASSUME NEW e \in BOOLEAN PROVE
    Inv(e) /\ ItemKind # "null" /\ "fault" \in DOMAIN mem' /\ execute_code_COUNT_ITEM => Inv(e)'
  <1> SUFFICES ASSUME Inv(e), ItemKind # "null", "fault" \in DOMAIN mem', execute_code_COUNT_ITEM
               PROVE  Inv(e)'
    OBVIOUS
  <1>1. \/ \E v, m : Exchange(0, v, m)
        \/ Crash("wild pointer")
    BY DEF execute_code_COUNT_ITEM
  <1>2. CASE \E v, m : Exchange(0, v, m)
    BY <1>2, PushWalk DEF execute_code_COUNT_ITEM, PushingOps
  <1>3. CASE Crash("wild pointer")
    BY <1>3, FailWalk DEF execute_code_COUNT_ITEM
  <1> QED BY <1>1, <1>2, <1>3

-----------------------------------------------------------------------------
(* Library functions.                                                      *)

(* A library function takes its arguments,                                 *)
LEMMA TakeWalk ==
    ASSUME NEW e \in BOOLEAN, Inv(e), NEW name, Calling(name), NEW n \in Int, n \in Takes(name), NEW m, Drop(n, m), Advance
    PROVE  Inv(e)'
  <1>1. Working /\ Codes[Pc].op = "CUSTOM" /\ Codes[Pc].i = name
    BY Runs DEF Calling, operand
  <1>2. -n \in Nets(Codes[Pc])
    BY <1>1 DEF Nets
  <1> QED BY <1>1, <1>2, DropWalk

(* and each of them takes as many as CodeShape says.                       *)
LEMMA LibraryKeeps ==
    ASSUME NEW e \in BOOLEAN PROVE Inv(e) /\ library_function => Inv(e)'
  <1>1. ASSUME Inv(e), library_print PROVE Inv(e)'
    <2>1. PICK n \in 1 .. 10 : Calling("print_" \o ToString(n)) /\ Advance /\ \E m : Drop(n, m)
      BY <1>1 DEF library_print
    <2>2. n \in Takes("print_" \o ToString(n))
      BY DEF Takes
    <2> QED BY <1>1, <2>1, <2>2, TakeWalk
  <1>2. ASSUME Inv(e), library_check_type PROVE Inv(e)'
    <2>1. Calling("check_type") /\ Advance
      BY <1>2 DEF library_check_type, Returns
    <2>2. \E m : Drop(3, m)
      BY <1>2 DEF library_check_type, Answer, AnswerText
    <2>3. 3 \in Takes("check_type")
      BY DEF Takes, LibraryTakes
    <2> QED BY <1>2, <2>1, <2>2, <2>3, TakeWalk
  <1>3. ASSUME Inv(e), library_random_number PROVE Inv(e)'
    <2>1. Calling("random_number") /\ Advance
      BY <1>3 DEF library_random_number, Returns
    <2>2. \E m : Drop(2, m)
      BY <1>3 DEF library_random_number, Answer, AnswerText
    <2>3. 2 \in Takes("random_number")
      BY DEF Takes, LibraryTakes
    <2> QED BY <1>3, <2>1, <2>2, <2>3, TakeWalk
  <1>4. ASSUME Inv(e), library_random_address PROVE Inv(e)'
    <2>1. Calling("random_address") /\ Advance
      BY <1>4 DEF library_random_address, Returns
    <2>2. \E m : Drop(1, m)
      BY <1>4 DEF library_random_address, Answer, AnswerText
    <2>3. 1 \in Takes("random_address")
      BY DEF Takes, LibraryTakes
    <2> QED BY <1>4, <2>1, <2>2, <2>3, TakeWalk
  <1>5. ASSUME Inv(e), library_random_string PROVE Inv(e)'
    <2>1. Calling("random_string") /\ Advance
      BY <1>5 DEF library_random_string, Returns
    <2>2. \E m : Drop(2, m)
      BY <1>5 DEF library_random_string, Answer, AnswerText
    <2>3. 2 \in Takes("random_string")
      BY DEF Takes, LibraryTakes
    <2> QED BY <1>5, <2>1, <2>2, <2>3, TakeWalk
  <1>6. ASSUME Inv(e), library_create_instance PROVE Inv(e)'
    <2>1. Calling("create_instance") /\ Advance
      BY <1>6 DEF library_create_instance, Returns
    <2>2. \E m : Drop(3, m)
      BY <1>6 DEF library_create_instance, Answer, AnswerText
    <2>3. 3 \in Takes("create_instance")
      BY DEF Takes, LibraryTakes
    <2> QED BY <1>6, <2>1, <2>2, <2>3, TakeWalk
  <1>7. ASSUME Inv(e), library_delete_instance PROVE Inv(e)'
    <2>1. Calling("delete_instance") /\ Advance
      BY <1>7 DEF library_delete_instance, Returns
    <2>2. \E m : Drop(2, m)
      BY <1>7 DEF library_delete_instance, Answer, AnswerText
    <2>3. 2 \in Takes("delete_instance")
      BY DEF Takes, LibraryTakes
    <2> QED BY <1>7, <2>1, <2>2, <2>3, TakeWalk
  <1>8. ASSUME Inv(e), library_make_json PROVE Inv(e)'
    <2>1. Calling("make_json") /\ Advance
      BY <1>8 DEF library_make_json, Returns
    <2>2. \E m : Drop(2, m)
      BY <1>8 DEF library_make_json, Answer, AnswerText
    <2>3. 2 \in Takes("make_json")
      BY DEF Takes, LibraryTakes
    <2> QED BY <1>8, <2>1, <2>2, <2>3, TakeWalk
  <1>9. ASSUME Inv(e), library_parse_json PROVE Inv(e)'
    <2>1. Calling("parse_json") /\ Advance
      BY <1>9 DEF library_parse_json, Returns
    <2>2. \E m : Drop(2, m)
      BY <1>9 DEF library_parse_json, Answer, AnswerText
    <2>3. 2 \in Takes("parse_json")
      BY DEF Takes, LibraryTakes
    <2> QED BY <1>9, <2>1, <2>2, <2>3, TakeWalk
  <1>10. ASSUME Inv(e), library_string_to_array PROVE Inv(e)'
    <2>1. Calling("string_to_array") /\ Advance
      BY <1>10 DEF library_string_to_array, Returns
    <2>2. \E m : Drop(2, m)
      BY <1>10 DEF library_string_to_array, Answer, AnswerText
    <2>3. 2 \in Takes("string_to_array")
      BY DEF Takes, LibraryTakes
    <2> QED BY <1>10, <2>1, <2>2, <2>3, TakeWalk
  <1>11. ASSUME Inv(e), library_array_to_string PROVE Inv(e)'
    <2>1. Calling("array_to_string") /\ Advance
      BY <1>11 DEF library_array_to_string, Returns
    <2>2. \E m : Drop(2, m)
      BY <1>11 DEF library_array_to_string, Answer, AnswerText
    <2>3. 2 \in Takes("array_to_string")
      BY DEF Takes, LibraryTakes
    <2> QED BY <1>11, <2>1, <2>2, <2>3, TakeWalk
  <1>12. ASSUME Inv(e), library_assert PROVE Inv(e)'
    <2>1. Calling("assert_2") /\ Advance /\ \E m : Drop(2, m)
      BY <1>12 DEF library_assert
    <2>2. 2 \in Takes("assert_2")
      BY DEF Takes, LibraryTakes
    <2> QED BY <1>12, <2>1, <2>2, TakeWalk
  <1>13. ASSUME Inv(e), library_convert PROVE Inv(e)'
    <2>1. Calling("convert") /\ Advance /\ UNCHANGED <<mem, Stack, Sp>>
      BY <1>13 DEF library_convert, Returns, StepOver
    <2>2. 0 \in Takes("convert")
      BY DEF Takes, LibraryTakes
    <2>3. Drop(0, mem)
      BY <1>13, <2>1 DEF Drop, Inv, PlaceFits, Calling, Executing
    <2> QED BY <1>13, <2>1, <2>2, <2>3, TakeWalk
  <1> QED BY <1>1, <1>2, <1>3, <1>4, <1>5, <1>6, <1>7,
             <1>8, <1>9, <1>10, <1>11, <1>12, <1>13 DEF library_function

-----------------------------------------------------------------------------
(* Control within a function.                                              *)

(* A branch, a jump, and what a call leaves to be dropped.                 *)
LEMMA BranchesKeep ==
    ASSUME NEW e \in BOOLEAN PROVE Inv(e) /\ (execute_code_BEQ0 \/ execute_code_JUMP \/ execute_code_POPR) => Inv(e)'
  <1>1. ASSUME Inv(e), execute_code_BEQ0 PROVE Inv(e)'
    <2>1. Working /\ Codes[Pc].op = "BEQ0"
      BY <1>1, Runs DEF execute_code_BEQ0
    <2>2. Pc' \in JumpsTo(Codes, Pc) /\ -1 \in Nets(Codes[Pc])
      BY <1>1, <2>1 DEF execute_code_BEQ0, JumpsTo, operand, Nets, DroppingOps
    <2>3. Sp' = Sp + 1 /\ Stack' = Stack
      BY <1>1 DEF execute_code_BEQ0, Drop
    <2>4. Sp' \in Int /\ Reaches(e, Sp', Sp - (-1))
      BY <1>1, <2>1, <2>3 DEF Inv, Working, PlaceFits, Reaches
    <2>5. Codes' = Codes /\ status' = status /\ Fp' = Fp
      BY <1>1 DEF execute_code_BEQ0, loaded
    <2>6. -1 \in Int
      OBVIOUS
    <2> QED BY <1>1, <2>1, <2>2, <2>3, <2>4, <2>5, <2>6, Walk
  <1>2. ASSUME Inv(e), execute_code_JUMP PROVE Inv(e)'
    <2>1. Working /\ Codes[Pc].op = "JUMP"
      BY <1>2, Runs DEF execute_code_JUMP
    <2>2. Pc' \in JumpsTo(Codes, Pc) /\ 0 \in Nets(Codes[Pc])
      BY <1>2, <2>1 DEF execute_code_JUMP, JumpsTo, operand, Nets, KeepingOps
    <2>3. Sp \in Int
      BY <1>2, <2>1 DEF Inv, Working, PlaceFits
    <2> QED BY <1>2, <2>1, <2>2, <2>3, Walk DEF execute_code_JUMP, loaded, Reaches
  <1>3. ASSUME Inv(e), execute_code_POPR PROVE Inv(e)'
    <2>1. Working /\ Codes[Pc].op = "POPR"
      BY <1>3, Runs DEF execute_code_POPR
    <2>2. operand \in Nat
      BY <1>3, <2>1, LineKept DEF operand, LineFits, Inv, Working, PlaceFits
    <2>3. -operand \in Nets(Codes[Pc])
      BY <2>1 DEF Nets, operand
    <2> QED BY <1>3, <2>1, <2>2, <2>3, DropWalk DEF execute_code_POPR
  <1> QED BY <1>1, <1>2, <1>3

-----------------------------------------------------------------------------
(* The slots of arguments and locals are no saved places.                  *)

(* VAR_L writes a local of the topmost frame, below its saved places.      *)
LEMMA VAR_LKeeps ==
    ASSUME NEW e \in BOOLEAN PROVE Inv(e) /\ execute_code_VAR_L => Inv(e)'
  <1> SUFFICES ASSUME Inv(e), execute_code_VAR_L PROVE Inv(e)'
    OBVIOUS
  <1>1. Working /\ Codes[Pc].op = "VAR_L"
    BY Runs DEF execute_code_VAR_L
  <1>2. /\ Pc \in DOMAIN Codes /\ Fp \in Int /\ Sp \in Int /\ CodeFits(Codes)
    BY <1>1 DEF Inv, Working, PlaceFits
  <1>3. operand_ex \in Nat
    BY <1>1, <1>2, LineKept DEF operand_ex, LineFits
  <1>4. Pc' \in JumpsTo(Codes, Pc) /\ 0 \in Nets(Codes[Pc])
    BY <1>1 DEF execute_code_VAR_L, Advance, JumpsTo, Nets, KeepingOps
  <1>5. Stack' = [Stack EXCEPT ![Fp - operand_ex] = operand] /\ Sp' = Sp
    BY DEF execute_code_VAR_L
  <1>6. ASSUME NEW F \in SUBSET Int, Chain(e, F), AtWork(F), NEW f \in F, f # Bottom
        PROVE  Stack'[f + 1] = Stack[f + 1] /\ Stack'[f + 2] = Stack[f + 2]
    <2>1. f >= Fp /\ f \in Int
      BY <1>6 DEF AtWork, Topmost
    <2>2. f + 1 \in DOMAIN Stack /\ f + 2 \in DOMAIN Stack
      BY <1>6, SavedInside DEF Inv
    <2> QED BY <1>2, <1>3, <1>5, <2>1, <2>2
  <1>7. Codes' = Codes /\ status' = status /\ Fp' = Fp /\ DOMAIN Stack' = DOMAIN Stack
    BY <1>5 DEF execute_code_VAR_L, Advance, loaded
  <1> QED BY <1>1, <1>2, <1>4, <1>5, <1>6, <1>7, Walk DEF Reaches

(* VAR_A writes an argument, above the saved places of the topmost frame   *)
(* and, as the caller pushed it, below its caller's.                       *)
LEMMA VAR_AKeeps ==
    ASSUME NEW e \in BOOLEAN PROVE Inv(e) /\ execute_code_VAR_A => Inv(e)'
  <1> SUFFICES ASSUME Inv(e), execute_code_VAR_A PROVE Inv(e)'
    OBVIOUS
  <1>1. Working /\ Codes[Pc].op = "VAR_A"
    BY Runs DEF execute_code_VAR_A
  <1>2. /\ Pc \in DOMAIN Codes /\ Fp \in Int /\ Sp \in Int /\ CodeFits(Codes)
    BY <1>1 DEF Inv, Working, PlaceFits
  <1>3. operand_ex \in Nat
    BY <1>1, <1>2, LineKept DEF operand_ex, LineFits
  <1>4. Pc' \in JumpsTo(Codes, Pc) /\ 0 \in Nets(Codes[Pc])
    BY <1>1 DEF execute_code_VAR_A, Advance, JumpsTo, Nets, KeepingOps
  <1>5. Stack' = [Stack EXCEPT ![Fp + operand_ex + 3] = operand] /\ Sp' = Sp
    BY DEF execute_code_VAR_A
  <1>6. ASSUME NEW F \in SUBSET Int, Chain(e, F), AtWork(F), NEW f \in F, f # Bottom
        PROVE  Stack'[f + 1] = Stack[f + 1] /\ Stack'[f + 2] = Stack[f + 2]
    <2>1. f >= Fp /\ f \in Int /\ Fp \in F /\ FrameFits(e, F, Fp) /\ CalledFrom(Fp, Pc)
      BY <1>6 DEF AtWork, Topmost, Chain
    <2>2. f + 1 \in DOMAIN Stack /\ f + 2 \in DOMAIN Stack
      BY <1>6, SavedInside DEF Inv
    <2>3. CASE Fp + operand_ex + 3 # f + 1 /\ Fp + operand_ex + 3 # f + 2
      BY <1>2, <1>3, <1>5, <2>2, <2>3
    <2>4. CASE Fp = Bottom
      BY <1>2, <1>3, <1>5, <2>1, <2>2, <2>3, <2>4, MaxStack DEF Bottom, Inv
    <2>5. CASE Fp # Bottom /\ f # Fp
      <3> DEFINE r == ReturnOf(Fp)
                 site == r - 1
      <3>0. CallerOf(Fp) \in Int /\ (f <= Fp \/ f >= CallerOf(Fp))
        BY <1>6, <2>1, <2>5 DEF FrameFits
      <3>1. /\ r \in DOMAIN Codes /\ site \in DOMAIN Codes /\ Codes[site].op = "CALL"
            /\ f >= CallerOf(Fp) /\ CallerOf(Fp) \in Int
            /\ Fp + 2 <= CallerOf(Fp) - LocalsAt(Codes, r) - H[site]
            /\ Codes[site].i = FunctionAt(Codes, Pc)
        <4>1. f >= CallerOf(Fp)
          BY <1>2, <2>1, <2>5, <3>0
        <4> QED BY <2>1, <2>5, <3>0, <4>1 DEF FrameFits, IsReturn, CalledFrom, Reaches
      <3>2. LocalsAt(Codes, r) \in Nat /\ H[site] \in Int
        BY <1>2, <3>1, LineKept
      <3>3. CallFits(Codes, H, site)
        BY <1>2, <3>1, LineKept DEF LineFits
      <3>4. operand_ex < Codes[site].ex /\ Codes[site].ex \in Nat /\ Codes[site].ex <= H[site]
        BY <1>1, <1>2, <3>1, <3>3 DEF CallFits, operand_ex
      <3> HIDE DEF r, site
      <3>5. Fp + operand_ex + 3 <= f
        BY <1>2, <1>3, <2>1, <3>1, <3>2, <3>4
      <3> QED BY <1>2, <1>3, <1>5, <2>1, <2>2, <3>5
    <2>6. CASE f = Fp
      BY <1>2, <1>3, <1>5, <2>2, <2>6
    <2> QED BY <2>4, <2>5, <2>6
  <1>7. Codes' = Codes /\ status' = status /\ Fp' = Fp /\ DOMAIN Stack' = DOMAIN Stack
    BY <1>5 DEF execute_code_VAR_A, Advance, loaded
  <1> QED BY <1>1, <1>2, <1>4, <1>5, <1>6, <1>7, Walk DEF Reaches

-----------------------------------------------------------------------------
(* From one function to another.                                           *)

(* CALL saves the line to return to where no frame has anything.           *)
LEMMA CALLKeeps ==
    ASSUME NEW e \in BOOLEAN PROVE Inv(e) /\ "fault" \in DOMAIN mem' /\ execute_code_CALL => Inv(e)'
  <1> SUFFICES ASSUME Inv(e), "fault" \in DOMAIN mem', execute_code_CALL PROVE Inv(e)'
    OBVIOUS
  <1>1. Working /\ Codes[Pc].op = "CALL"
    BY Runs DEF execute_code_CALL
  <1>2. /\ Pc \in DOMAIN Codes /\ Pc \in Nat /\ Fp \in Int /\ Sp \in Int /\ CodeFits(Codes)
        /\ LineFits(Codes, H, Pc) /\ H[Pc] \in Int /\ LocalsAt(Codes, Pc) \in Nat
        /\ Reaches(e, Sp, Fp - LocalsAt(Codes, Pc) - H[Pc])
    BY <1>1, LineKept DEF Inv, Working, PlaceFits
  <1>3. CallFits(Codes, H, Pc)
    BY <1>1, <1>2 DEF LineFits
  <1>4. Pc' \in DOMAIN Codes /\ Codes[Pc'].op = "FRAME" /\ 0 <= H[Pc]
    BY <1>2, <1>3 DEF CallFits, execute_code_CALL, operand
  <1>5. /\ Codes' = Codes /\ status' = status /\ Fp' = Fp /\ Sp' = Sp - 1
        /\ Pc' = Codes[Pc].i
    <2>1. Sp' = Sp + 0 - 1
      BY DEF execute_code_CALL, Exchange
    <2> QED BY <1>2, <2>1 DEF execute_code_CALL, loaded, operand
  <1>6. PlaceFits(e)'
    BY <1>2, <1>4, <1>5 DEF PlaceFits
  <1>7. Pc + 1 \in JumpsTo(Codes, Pc)
    BY <1>1 DEF JumpsTo
  <1>8. /\ Pc + 1 \in DOMAIN Codes /\ FunctionAt(Codes, Pc + 1) = FunctionAt(Codes, Pc)
        /\ LocalsAt(Codes, Pc + 1) = LocalsAt(Codes, Pc)
    BY <1>2, <1>7, EdgeKept
  <1>9. CASE Sp \in DOMAIN Stack
    <2>1. Stack' = [Stack EXCEPT ![Sp] = <<"num", Pc + 1>>]
      <3>1. make_own_value_number(Pc + 1) = <<"num", Pc + 1>>
        BY <1>2 DEF make_own_value_number, NullNumber
      <3>2. Sp + 0 = Sp
        BY <1>2
      <3> QED BY <1>9, <3>1, <3>2 DEF execute_code_CALL, Exchange
    <2>2. PICK F \in SUBSET Int : Chain(e, F) /\ AtWork(F)
      BY <1>1 DEF Inv, Working, StackFits
    <2>3. \A f \in F : f # Bottom => Stack'[f + 1] = Stack[f + 1] /\ Stack'[f + 2] = Stack[f + 2]
      <3> SUFFICES ASSUME NEW f \in F, f # Bottom
                   PROVE  Stack'[f + 1] = Stack[f + 1] /\ Stack'[f + 2] = Stack[f + 2]
        OBVIOUS
      <3>1. f >= Fp /\ f \in Int
        BY <2>2 DEF AtWork, Topmost
      <3>2. f + 1 \in DOMAIN Stack /\ f + 2 \in DOMAIN Stack
        BY <2>2, SavedInside DEF Inv
      <3> QED BY <1>2, <1>4, <2>1, <3>1, <3>2 DEF Reaches
    <2>4. Chain(e, F)' /\ \A f \in F : \A r : CalledFrom(f, r) => CalledFrom(f, r)'
      BY <1>5, <2>2, <2>3, ChainKept
    <2>5. H' = H
      BY <1>5 DEF H
    <2>6. Sp' + 1 = Sp /\ Stack'[Sp] = <<"num", Pc + 1>> /\ Sp \in 0 .. MAX_STACK - 1
      BY <1>2, <1>5, <1>9, <2>1 DEF Inv
    <2>7. Saved' = Pc + 1
      BY <2>6 DEF Saved
    <2>8. Pc + 1 - 1 = Pc
      BY <1>2
    <2>9. CalledFrom(Fp, Saved)'
      <3>1. CalledFrom(Fp, Pc + 1)
        BY <1>8, <2>2 DEF AtWork, CalledFrom
      <3>2. Fp # Bottom => Stack'[Fp + 2] = Stack[Fp + 2]
        BY <2>2, <2>3 DEF AtWork, Topmost
      <3> QED BY <1>5, <2>7, <3>1, <3>2 DEF CalledFrom, ReturnOf, Bottom
    <2>10. IsReturn(Saved)'
      BY <1>1, <1>2, <1>5, <1>8, <2>7, <2>8 DEF IsReturn
    <2>11. Topmost(F, Fp)'
      BY <1>5, <2>2 DEF AtWork, Topmost
    <2>12. Reaches(e, Sp + 1, Fp - LocalsAt(Codes, Saved) - H[Saved - 1])'
      BY <1>2, <1>5, <1>8, <2>5, <2>6, <2>7, <2>8 DEF Reaches
    <2>13. Entering(e, F)'
      <3>1. (Sp + 1 \in 0 .. MAX_STACK - 1)' /\ (Stack[Sp + 1] = <<"num", Saved>>)'
        BY <2>6, <2>7
      <3>2. (Codes[Saved - 1].i = Pc)'
        <4>1. Saved' - 1 = Pc
          BY <1>2, <2>7
        <4>2. Codes'[Saved' - 1] = Codes[Pc]
          BY <1>5, <4>1
        <4> QED BY <1>5, <4>2
      <3> QED BY <2>9, <2>10, <2>11, <2>12, <3>1, <3>2 DEF Entering
    <2>14. StackFits(e, F)'
      BY <1>4, <1>5, <2>4, <2>13 DEF StackFits
    <2>15. DOMAIN Stack' = DOMAIN Stack
      BY <2>1
    <2> QED BY <1>2, <1>5, <1>6, <2>14, <2>15 DEF Inv, CodeFits
  <1>10. CASE Sp \notin DOMAIN Stack
    <2>1. mem' = Fault(mem, "stack overflow") /\ Stack' = Stack
      <3>1. Sp + 0 = Sp
        BY <1>2
      <3> QED BY <1>10, <3>1 DEF execute_code_CALL, Exchange
    <2>2. mem'.fault # {}
      BY <2>1, FaultStays
    <2> QED BY <1>2, <1>5, <1>6, <2>1, <2>2 DEF Inv, CodeFits
  <1> QED BY <1>9, <1>10

(* RET finds what FRAME and CALL saved, and goes back.                     *)
LEMMA RETKeeps ==
    ASSUME NEW e \in BOOLEAN PROVE
    Inv(e) /\ execute_code_RET =>
        /\ Inv(e)'
        /\ status' = "running" => /\ Pc' - 1 \in DOMAIN Codes /\ Codes[Pc' - 1].op = "CALL"
                                 /\ Codes[Pc' - 1].i = FunctionAt(Codes, Pc) /\ Fp' > Fp
  <1> SUFFICES ASSUME Inv(e), execute_code_RET
               PROVE  /\ Inv(e)'
                      /\ status' = "running" =>
                             /\ Pc' - 1 \in DOMAIN Codes /\ Codes[Pc' - 1].op = "CALL"
                             /\ Codes[Pc' - 1].i = FunctionAt(Codes, Pc) /\ Fp' > Fp
    OBVIOUS
  <1>1. Working /\ Codes[Pc].op = "RET"
    BY Runs DEF execute_code_RET
  <1>2. CodeFits(Codes) /\ Fp \in Int
    BY <1>1 DEF Inv, Working, PlaceFits
  <1>3. PICK F \in SUBSET Int : Chain(e, F) /\ AtWork(F)
    BY <1>1 DEF Inv, Working, StackFits
  <1>4. FrameFits(e, F, Fp) /\ Fp \in F /\ Fp \in -1 .. Bottom
    BY <1>3 DEF Chain, AtWork, Topmost, FrameFits
  <1>5. CASE Fp = Bottom
    <2>1. status' = "ended" /\ Stack' = Stack
      BY <1>5, MaxStack DEF execute_code_RET, Bottom
    <2> QED BY <2>1 DEF Inv
  <1>6. CASE Fp # Bottom
    <2>1. Fp + 1 \in DOMAIN Stack /\ Fp + 2 \in DOMAIN Stack /\ ~(Fp + 1 >= MAX_STACK - 1 \/ Fp + 1 < 0)
      BY <1>4, <1>6, MaxStack DEF Bottom, Inv
    <2>2. /\ Fp' = CallerOf(Fp) /\ Sp' = Fp + 2 /\ Pc' = ReturnOf(Fp)
          /\ Codes' = Codes /\ mem' = mem /\ Stack' = Stack /\ status' = status
      <3>1. /\ OnStack(Fp + 1) = <<"num", CallerOf(Fp)>> /\ OnStack(Fp + 2) = <<"num", ReturnOf(Fp)>>
        BY <1>4, <1>6, <2>1 DEF OnStack, FrameFits
      <3>2. /\ get_own_value_number(OnStack(Fp + 1)) = CallerOf(Fp)
            /\ get_own_value_number(OnStack(Fp + 2)) = ReturnOf(Fp)
        BY <3>1 DEF get_own_value_number
      <3> QED BY <2>1, <3>2 DEF execute_code_RET, loaded
    <2> DEFINE p == CallerOf(Fp)
               r == ReturnOf(Fp)
    <2>3. /\ p \in F /\ p > Fp /\ IsReturn(r) /\ CalledFrom(p, r)
          /\ \A c \in F : c <= Fp \/ c >= p
          /\ Reaches(e, Fp + 2, p - LocalsAt(Codes, r) - H[r - 1])
      BY <1>4, <1>6 DEF FrameFits
    <2>4. r - 1 \in DOMAIN Codes /\ Codes[r - 1].op = "CALL" /\ r \in DOMAIN Codes
      BY <2>3 DEF IsReturn
    <2>5. Codes[r - 1].i = FunctionAt(Codes, Pc)
      BY <1>3, <1>6 DEF AtWork, CalledFrom
    <2>6. r \in Nat /\ r - 1 + 1 = r
      BY <1>2, <2>4, LineKept
    <2>7. r \in JumpsTo(Codes, r - 1) /\ 0 \in Nets(Codes[r - 1])
      BY <2>4, <2>6 DEF JumpsTo, Nets, KeepingOps
    <2>8. Codes[r].op # "FRAME" /\ H[r] = H[r - 1] + 0
      BY <1>2, <2>4, <2>7, EdgeKept
    <2>9. H[r] \in Int /\ H[r - 1] \in Int /\ LocalsAt(Codes, r) \in Nat
      BY <1>2, <2>4, LineKept
    <2>10. p \in Int
      BY <2>3
    <2> HIDE DEF p, r
    <2>11. Reaches(e, Sp', Fp' - LocalsAt(Codes, Pc') - H[Pc']) /\ Sp' \in Int /\ Fp' \in Int
      BY <1>2, <2>2, <2>3, <2>8, <2>9, <2>10 DEF p, r, Reaches
    <2>12. PlaceFits(e)'
      <3>1. H' = H
        BY <2>2 DEF H
      <3>2. Codes[r].op # "RET" => H[r] >= 0
        BY <1>2, <2>4, NotNegative
      <3>3. Codes[r].op # "RET" => Sp' <= Fp' - LocalsAt(Codes, Pc')
        BY <2>2, <2>9, <2>11, <3>2 DEF r, Reaches
      <3> QED BY <2>2, <2>4, <2>8, <2>11, <3>1, <3>3 DEF PlaceFits, r
    <2>13. PICK G \in SUBSET Int : G = F \ {Fp}
      OBVIOUS
    <2>14. StackFits(e, G)'
      <3>1. ASSUME NEW f \in G PROVE FrameFits(e, G, f)
        <4>1. FrameFits(e, F, f) /\ f \in Int /\ f >= Fp /\ f # Fp
          BY <1>3, <2>13 DEF Chain, AtWork, Topmost
        <4>2. f # Bottom => CallerOf(f) \in G
          BY <1>2, <2>13, <4>1 DEF FrameFits
        <4> QED BY <2>13, <4>1, <4>2 DEF FrameFits
      <3>2. Chain(e, G)
        BY <3>1 DEF Chain
      <3>3. Chain(e, G)'
        BY <2>2, <3>2, ChainKept
      <3>4. p \in G /\ \A g \in G : g >= p
        <4>1. \A g \in G : g \in Int /\ g >= Fp /\ g # Fp /\ (g <= Fp \/ g >= p)
          BY <1>3, <2>3, <2>13 DEF AtWork, Topmost
        <4> QED BY <1>2, <2>3, <2>10, <2>13, <4>1
      <3>5. CalledFrom(Fp, Pc)'
        BY <2>2, <2>3 DEF CalledFrom, ReturnOf, Bottom, p, r
      <3>6. Topmost(G, Fp)'
        BY <2>2, <3>4 DEF Topmost, p
      <3>7. AtWork(G)'
        BY <2>2, <2>8, <3>5, <3>6 DEF AtWork, r
      <3> QED BY <3>3, <3>7 DEF StackFits
    <2>15. Inv(e)'
      BY <1>1, <1>2, <2>2, <2>12, <2>14 DEF Inv, CodeFits, Working
    <2> QED BY <2>2, <2>3, <2>4, <2>5, <2>15 DEF p, r
  <1> QED BY <1>5, <1>6

(* FRAME opens a frame on top of the chain.                                *)
LEMMA FRAMEKeeps ==
    ASSUME NEW e \in BOOLEAN PROVE Inv(e) /\ "fault" \in DOMAIN mem' /\ execute_code_FRAME => Inv(e)'
  <1> SUFFICES ASSUME Inv(e), "fault" \in DOMAIN mem', execute_code_FRAME PROVE Inv(e)'
    OBVIOUS
  <1>1. status = "running" /\ mem.fault = {} /\ Codes[Pc].op = "FRAME"
    BY DEF execute_code_FRAME, Executing
  <1>2. /\ CodeFits(Codes) /\ Pc \in DOMAIN Codes /\ Sp \in Int /\ Fp \in Int
    BY <1>1 DEF Inv, PlaceFits
  <1>3. /\ FunctionAt(Codes, Pc) = Pc /\ Codes[Pc].i \in Nat /\ H[Pc] = 0
    <2>1. LineFits(Codes, H, Pc) /\ (Codes[Pc].op = "FRAME" => FunctionAt(Codes, Pc) = Pc)
      BY <1>2, LineKept
    <2> QED BY <1>1, <2>1 DEF LineFits
  <1>4. Pc + 1 \in JumpsTo(Codes, Pc) /\ 0 \in Nets(Codes[Pc])
    BY <1>1 DEF JumpsTo, Nets, KeepingOps
  <1>5. /\ Pc + 1 \in DOMAIN Codes /\ Codes[Pc + 1].op # "FRAME"
        /\ FunctionAt(Codes, Pc + 1) = Pc /\ LocalsAt(Codes, Pc + 1) = Codes[Pc].i
        /\ H[Pc + 1] = 0
    BY <1>2, <1>3, <1>4, EdgeKept, LineKept DEF LocalsAt
  <1>6. /\ Codes' = Codes /\ status' = status /\ Pc' = Pc + 1
        /\ Fp' = Sp - 1 /\ Sp' = Sp - 1 - Codes[Pc].i
    BY DEF execute_code_FRAME, loaded, operand
  <1>7. H' = H
    BY <1>6 DEF H
  <1>8. PlaceFits(e)'
    BY <1>2, <1>3, <1>5, <1>6, <1>7 DEF PlaceFits, Reaches
  <1>9. CASE Sp \notin DOMAIN Stack
    <2>1. mem' = Fault(mem, "stack overflow") /\ Stack' = Stack
      BY <1>9 DEF execute_code_FRAME
    <2>2. mem'.fault # {}
      BY <2>1, FaultStays
    <2> QED BY <1>2, <1>6, <1>8, <2>1, <2>2 DEF Inv, CodeFits
  <1>10. CASE Sp \in DOMAIN Stack
    <2>1. PICK F \in SUBSET Int : Chain(e, F) /\ (Starting(F) \/ Entering(e, F))
      BY <1>1 DEF Inv, StackFits, AtWork
    <2>2. Sp \in 0 .. MAX_STACK - 1 /\ DOMAIN Stack = 0 .. MAX_STACK - 1
      BY <1>10 DEF Inv
    <2>3. Fp >= -1
      <3>1. CASE Starting(F)
        BY <3>1, MaxStack DEF Starting
      <3>2. CASE Entering(e, F)
        BY <2>1, <3>2 DEF Entering, Topmost, Chain, FrameFits
      <3> QED BY <2>1, <3>1, <3>2
    <2>4. Stack' = [Stack EXCEPT ![Sp] = <<"num", Fp>>]
      <3>1. make_own_value_number(Fp) = <<"num", Fp>>
        BY <1>2, <2>3 DEF make_own_value_number, NullNumber
      <3> QED BY <1>10, <3>1 DEF execute_code_FRAME
    <2>5. PICK f \in Int : f = Sp - 1
      BY <1>2
    <2>6. CASE Starting(F)
      <3>1. f = Bottom
        BY <2>5, <2>6, MaxStack DEF Starting, Bottom
      <3>2. StackFits(e, {f})'
        <4>1. FrameFits(e, {f}, f)'
          BY <2>5, <3>1, MaxStack DEF FrameFits, Bottom
        <4>2. Chain(e, {f})'
          BY <4>1 DEF Chain
        <4>3. AtWork({f})'
          BY <1>5, <1>6, <2>5, <3>1 DEF AtWork, Topmost, CalledFrom, Bottom
        <4> QED BY <4>2, <4>3 DEF StackFits
      <3>3. {f} \in SUBSET Int
        BY <2>5
      <3> QED BY <1>2, <1>6, <1>8, <2>4, <3>2, <3>3 DEF Inv, CodeFits
    <2>7. CASE Entering(e, F)
      <3>1. PICK r : r = Saved
        OBVIOUS
      <3>2. PICK p \in Int : p = Fp
        BY <1>2
      <3>3. /\ p \in F /\ (\A g \in F : g >= p) /\ Sp + 1 \in 0 .. MAX_STACK - 1
            /\ Stack[Sp + 1] = <<"num", r>> /\ IsReturn(r) /\ Codes[r - 1].i = Pc
            /\ Reaches(e, Sp + 1, p - LocalsAt(Codes, r) - H[r - 1])
            /\ CalledFrom(p, r)
        BY <2>7, <3>1, <3>2 DEF Entering, Topmost
      <3>4. LocalsAt(Codes, r) \in Nat /\ H[r - 1] \in Int /\ 0 <= H[r - 1]
        BY <1>2, <3>3, LineKept, NotNegative DEF IsReturn
      <3>5. f + 1 = Sp /\ f + 2 = Sp + 1 /\ f + 2 <= p
        BY <1>2, <2>5, <3>3, <3>4 DEF Reaches
      <3>6. Stack'[f + 1] = <<"num", p>> /\ Stack'[f + 2] = <<"num", r>>
        <4>1. Stack'[Sp] = <<"num", p>> /\ Stack'[Sp + 1] = Stack[Sp + 1]
          BY <1>2, <2>2, <2>4, <3>2, <3>3
        <4> QED BY <3>3, <3>5, <4>1
      <3>7. f \in -1 .. Bottom /\ f # Bottom /\ f < p
        <4>1. p <= Bottom
          BY <2>1, <3>3 DEF Chain, FrameFits
        <4> QED BY <2>2, <2>5, <3>5, <4>1, MaxStack DEF Bottom
      <3>8. \A g \in F : g # Bottom => Stack'[g + 1] = Stack[g + 1] /\ Stack'[g + 2] = Stack[g + 2]
        <4> SUFFICES ASSUME NEW g \in F, g # Bottom
                     PROVE  Stack'[g + 1] = Stack[g + 1] /\ Stack'[g + 2] = Stack[g + 2]
          OBVIOUS
        <4>1. g >= p /\ g \in Int
          BY <3>3
        <4>2. g + 1 \in DOMAIN Stack /\ g + 2 \in DOMAIN Stack
          BY <2>1, <2>2, SavedInside
        <4> QED BY <2>4, <3>5, <4>1, <4>2
      <3>9. Chain(e, F)' /\ \A g \in F : \A s : CalledFrom(g, s) => CalledFrom(g, s)'
        BY <1>6, <2>1, <3>8, ChainKept
      <3> DEFINE G == F \cup {f}
      <3>10. G \in SUBSET Int /\ p \in G
        BY <3>3
      <3>11. FrameFits(e, G, f)'
        <4>1. CallerOf(f)' = p /\ ReturnOf(f)' = r
          BY <3>6 DEF CallerOf, ReturnOf
        <4>2. CalledFrom(p, r)'
          BY <3>3, <3>9
        <4>3. CalledFrom(CallerOf(f), ReturnOf(f))'
          BY <4>1, <4>2 DEF CalledFrom, Bottom, ReturnOf
        <4>4. \A c \in G : c <= f \/ c >= p
          BY <3>3, <2>5
        <4>5. IsReturn(r)'
          BY <1>6, <3>3 DEF IsReturn
        <4>6. Reaches(e, f + 2, p - LocalsAt(Codes, r) - H[r - 1])
          BY <3>3, <3>5
        <4> QED BY <1>6, <1>7, <3>6, <3>7, <3>10, <4>1, <4>3, <4>4, <4>5, <4>6 DEF FrameFits, Bottom, IsReturn
      <3>12. ASSUME NEW g \in F PROVE FrameFits(e, G, g)'
        <4>1. FrameFits(e, F, g)'
          BY <3>9 DEF Chain
        <4>2. g >= p /\ g \in Int
          BY <3>3
        <4>3. f <= g
          BY <3>7, <4>2
        <4> QED BY <4>1, <4>3 DEF FrameFits
      <3>13. Chain(e, G)'
        BY <3>11, <3>12 DEF Chain
      <3>14. AtWork(G)'
        <4>1. Topmost(G, Fp)'
          <5>1. f \in G /\ \A g \in G : g \in Int /\ (g = f \/ g >= p)
            BY <3>3
          <5>2. \A g \in G : g >= f
            BY <3>7, <5>1
          <5>3. Fp' = f
            BY <1>6, <2>5
          <5> QED BY <5>1, <5>2, <5>3 DEF Topmost
        <4>2. CalledFrom(Fp, Pc)'
          <5>1. Stack'[Fp' + 2] = <<"num", r>>
            BY <1>6, <2>5, <3>6
          <5> QED BY <1>5, <1>6, <3>3, <5>1 DEF CalledFrom, ReturnOf
        <4> QED BY <1>5, <1>6, <4>1, <4>2 DEF AtWork
      <3>15. StackFits(e, G)'
        BY <3>13, <3>14 DEF StackFits
      <3> QED BY <1>2, <1>6, <1>8, <2>4, <3>10, <3>15 DEF Inv, CodeFits
    <2> QED BY <2>1, <2>6, <2>7
  <1> QED BY <1>9, <1>10

-----------------------------------------------------------------------------

(* Every step keeps the invariant,                                         *)
LEMMA StepKeeps ==
    ASSUME NEW e \in BOOLEAN PROVE 
    Inv(e) /\ ShapeIsKept /\ ShapeIsKept' /\ (e => ItemsFit) /\ [Next]_vars => Inv(e)'
  <1> SUFFICES ASSUME Inv(e), ShapeIsKept, ShapeIsKept', e => ItemsFit, [Next]_vars PROVE Inv(e)'
    OBVIOUS
  <1>1. "fault" \in DOMAIN mem'
    BY DEF ShapeIsKept
  <1>2. execute_code_COUNT_ITEM => ItemKind # "null"
    BY DEF ShapeIsKept, execute_code_COUNT_ITEM
  <1>3. CASE UNCHANGED vars
    BY <1>3 DEF vars, Inv, CodeFits, PlaceFits, StackFits, Chain, FrameFits, AtWork, Topmost, CalledFrom,
                Reaches, Starting, Entering, Saved, IsReturn, CallerOf, ReturnOf, H
  <1>4. CASE vm_cleanup
    BY <1>4 DEF vm_cleanup, Inv
  <1>5. CASE execute_code
    BY <1>1, <1>2, <1>5, POPKeeps, PushesKeep, ArithmeticKeeps, InPlaceKeeps, VariablesKeep, ItemsKeep,
       COUNT_ITEMKeeps, LibraryKeeps, BranchesKeep, VAR_AKeeps, VAR_LKeeps, CALLKeeps, RETKeeps, FRAMEKeeps
       DEF execute_code
  <1> QED BY <1>3, <1>4, <1>5 DEF Next

(* and the machine starts in it.                                           *)
LEMMA InitFits ==
    ASSUME NEW e \in BOOLEAN PROVE ScriptInit /\ ShapeIsKept => Inv(e)
  <1> SUFFICES ASSUME ScriptInit, ShapeIsKept PROVE Inv(e)
    OBVIOUS
  <1>1. StillCompiling \/ \E lines : vm_init(lines)
    BY DEF ScriptInit
  <1>2. /\ DOMAIN Stack = 0 .. MAX_STACK - 1 /\ Sp = MAX_STACK - 1 /\ Fp = MAX_STACK - 1
    BY <1>1 DEF vm_init, StillCompiling
  <1>3. ASSUME status = "running"
        PROVE  CodeFits(Codes) /\ Codes[Pc].op = "FRAME" /\ Pc \in DOMAIN Codes
    BY <1>2, <1>3 DEF ShapeIsKept
  <1>4. StackFits(e, {}) \/ status # "running"
    BY <1>2, <1>3 DEF StackFits, Chain, Starting
  <1>5. PlaceFits(e) \/ status # "running"
    BY <1>2, <1>3, MaxStack DEF PlaceFits
  <1> QED BY <1>2, <1>3, <1>4, <1>5 DEF Inv

(* For any program whose code has the shape that the compiler gives it,    *)
(* the frames on the stack always form a chain whose saved places are      *)
(* whole, with the operands of the running function above all of them.     *)
THEOREM CodeKeepsItsStack == ScriptSpec /\ []ShapeIsKept => []Inv(FALSE)
  <1>1. ScriptInit /\ ShapeIsKept => Inv(FALSE)
    BY InitFits
  <1>2. Inv(FALSE) /\ ShapeIsKept /\ ShapeIsKept' /\ [Next]_vars => Inv(FALSE)'
    BY StepKeeps
  <1> QED BY <1>1, <1>2, PTL DEF ScriptSpec

(* The pops and pushes of execute_code: operands never run into the locals *)
(* of their function, at any depth of calls.                               *)
THEOREM OperandsStayAboveLocals == ScriptSpec /\ []ShapeIsKept => []OperandsAboveLocals
  <1>1. Inv(FALSE) => OperandsAboveLocals
    BY LineKept DEF Inv, PlaceFits, OperandsAboveLocals, FrameSize
  <1> QED BY <1>1, CodeKeepsItsStack, PTL

(* execute_code_RET: a function goes back to the line behind a call of     *)
(* that function and to the frame of its caller.                           *)
THEOREM FunctionsReturnToTheirCall == ScriptSpec /\ []ShapeIsKept => ReturnsBehindItsCall
  <1> DEFINE Back == execute_code_RET /\ status' = "running" =>
                         /\ Pc' - 1 \in DOMAIN Codes /\ Codes[Pc' - 1].op = "CALL"
                         /\ Codes[Pc' - 1].i = FunctionAt(Codes, Pc) /\ Fp' > Fp
  <1>1. Inv(FALSE) /\ [Next]_vars => [Back]_vars
    BY RETKeeps
  <1> QED BY <1>1, CodeKeepsItsStack, PTL DEF ScriptSpec, ReturnsBehindItsCall

(* As long as no operation on elements gives up, each line finds as many   *)
(* values on the stack as the code before it left, not one more: across    *)
(* branches, loops and calls of any depth.                                 *)
THEOREM CodeCountsItsOperands == ScriptSpec /\ []ShapeIsKept /\ []ItemsFit => []Inv(TRUE)
  <1>1. ScriptInit /\ ShapeIsKept => Inv(TRUE)
    BY InitFits
  <1>2. Inv(TRUE) /\ ShapeIsKept /\ ShapeIsKept' /\ ItemsFit /\ [Next]_vars => Inv(TRUE)'
    BY StepKeeps
  <1> QED BY <1>1, <1>2, PTL DEF ScriptSpec

(* execute_code_JUMP of a loop: the next round starts with the very stack  *)
(* the last one started with, however many rounds there are.               *)
THEOREM LoopsStartAfresh == ScriptSpec /\ []ShapeIsKept /\ []ItemsFit => LoopsKeepTheStack
  <1> DEFINE Afresh == Executing("JUMP") /\ operand < Pc => Sp = Fp - FrameSize
  <1>1. Inv(TRUE) => Afresh
    <2> SUFFICES ASSUME Inv(TRUE), Executing("JUMP") PROVE Sp = Fp - FrameSize
      OBVIOUS
    <2>1. Working /\ Codes[Pc].op = "JUMP"
      BY Runs
    <2>2. /\ CodeFits(Codes) /\ Pc \in DOMAIN Codes /\ Sp \in Int /\ Fp \in Int
          /\ Sp = Fp - LocalsAt(Codes, Pc) - H[Pc]
      BY <2>1 DEF Inv, PlaceFits, Working, Reaches
    <2>3. Codes[Pc].i \in JumpsTo(Codes, Pc) /\ 0 \in Nets(Codes[Pc])
      BY <2>1 DEF JumpsTo, Nets, KeepingOps
    <2>4. H[Codes[Pc].i] = H[Pc] + 0 /\ H[Codes[Pc].i] = 0 /\ H[Pc] \in Int /\ LocalsAt(Codes, Pc) \in Nat
      BY <2>1, <2>2, <2>3, EdgeKept, LineKept DEF LineFits
    <2> QED BY <2>2, <2>4 DEF FrameSize
  <1> QED BY <1>1, CodeCountsItsOperands, PTL DEF LoopsKeepTheStack

=============================================================================
