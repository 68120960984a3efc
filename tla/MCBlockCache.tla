----------------------------- MODULE MCBlockCache -----------------------------
(***************************************************************************)
(* A small BlockCache for TLC: single bytes with a hint of more (file      *)
(* copies, tags) and a whole block at once.                                *)
(***************************************************************************)
EXTENDS BlockCache

SmallReads == {<<1, 4>>, <<4, 4>>}
=============================================================================
