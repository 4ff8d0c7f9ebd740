------------------------------ MODULE LongFolds ------------------------------
(***************************************************************************)
(* FoldLeft of the community modules goes as deep as its sequence is long, *)
(* which a whole program is too long for.  FoldBlocks computes the same in *)
(* the depth of one block and of the number of blocks: what has been       *)
(* folded so far is evaluated before the next element or block is entered. *)
(***************************************************************************)
EXTENDS Integers, SequencesExt

BLOCK == 16

FoldBlocks(op(_, _), base, s) ==
    LET step(acc, x) == CHOOSE r \in {op(a, x) : a \in {acc}} : TRUE
        end(b) == IF BLOCK * b < Len(s) THEN BLOCK * b ELSE Len(s)
        block(b) == SubSeq(s, BLOCK * (b - 1) + 1, end(b))
        over(acc, b) == CHOOSE r \in {FoldLeft(step, a, block(b)) : a \in {acc}} : TRUE
    IN  FoldLeft(over, base, [b \in 1 .. (Len(s) + BLOCK - 1) \div BLOCK |-> b])

=============================================================================
