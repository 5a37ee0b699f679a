------------------------------ MODULE Donnelly ------------------------------
(***************************************************************************)
(* The addresses of stems in the Donnelly layout.  A block is a triangle   *)
(* of bh levels, kept together in one line of 2 ^ bh slots, the last of    *)
(* them unused; the blocks below its last level have lines of their own.   *)
(* A cursor keeps the slot of a stem, its level in the tree and in its     *)
(* block, and the bits of the path to it, which in the end are the leaf.   *)
(*                                                                         *)
(* The traversals of DonnellyCore, of one level with or without a branch   *)
(* and unrolled (traverse, traverse_head and traverse_tail, branch,        *)
(* branch_relative and its head and tail), differ in how they choose       *)
(* between the two kinds of children and agree on the child: Branch is     *)
(* that child.  Indices are u32 in the code, beyond any instance here.     *)
(***************************************************************************)
EXTENDS Integers

Line(bh) == 2 ^ bh

LineBase(bh, stem) == stem - (stem % Line(bh))
Local(bh, stem)    == stem % Line(bh)

(* The line of a block, from the line above it and the path through that.  *)
(* A root block of four levels has the lines from seven on below it.       *)
BlockRootOffset(bh) == Line(bh) - 2 * bh - 1

ChildInBlock(bh, stem, is_right) ==
    LineBase(bh, stem) + 1 + 2 * Local(bh, stem) + is_right

ChildBlockOneRowUp(bh, stem, minor, is_right) == \* a variation: off by one
    (LineBase(bh, stem) + 1 + 2 * (Local(bh, stem) - minor) + is_right)
        * Line(bh)

ChildBlock(bh, stem, minor, is_right) ==
    (LineBase(bh, stem) + 1 + 2 * (Local(bh, stem) - minor - 1) + is_right)
        * Line(bh)

RootOf(bh) == [stem |-> 0, leaf |-> 0, level |-> 0, minor |-> 0]

Branch(bh, c, is_right) ==
    LET last_row == c.minor + 1 = bh IN
    [stem  |-> IF last_row THEN ChildBlock(bh, c.stem, c.minor, is_right)
               ELSE ChildInBlock(bh, c.stem, is_right),
     leaf  |-> 2 * c.leaf + is_right,
     level |-> c.level + 1,
     minor |-> IF last_row THEN 0 ELSE c.minor + 1]

-----------------------------------------------------------------------------
(* The descents that only want a leaf keep the line and the path through   *)
(* its block, and recover the leaf from the number of the last line.       *)

(* right[slot, level]: the side taken at a stem, 0 or 1. *)
PathInBlock(right, base, level, rows) ==
    LET path[n \in 0 .. rows] ==
            IF n = 0 THEN 0
            ELSE 2 * path[n - 1]
                 + right[base + 2 ^ (n - 1) - 1 + path[n - 1], level + n - 1]
    IN  path[rows]

LeafIdxFromBlockBase(bh, base, levels) ==
    base \div Line(bh)
    - (BlockRootOffset(bh) * (2 ^ levels - 1)) \div (Line(bh) - 1)

BlockDescent(bh, right, total_levels) ==
    LET full == total_levels \div bh
        rest == total_levels % bh
        base[b \in 0 .. full] ==
            IF b = 0 THEN 0
            ELSE (base[b - 1] + BlockRootOffset(bh)
                  + PathInBlock(right, base[b - 1], (b - 1) * bh, bh)) * Line(bh)
    IN  LeafIdxFromBlockBase(bh, base[full], full * bh) * 2 ^ rest
        + PathInBlock(right, base[full], full * bh, rest)

-----------------------------------------------------------------------------
(* The stems of a tree of some depth: up to the one of its rightmost leaf, *)
(* in eights.                                                              *)
StemCount(bh, depth) ==
    LET rightmost[n \in 0 .. depth] ==
            IF n = 0 THEN RootOf(bh) ELSE Branch(bh, rightmost[n - 1], 1)
    IN  8 * ((rightmost[depth].stem + 8) \div 8)
=============================================================================
