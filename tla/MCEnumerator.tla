---------------------------- MODULE MCEnumerator ----------------------------
(* Three blocks and four raw lists: a block and a list id are reused     *)
(* after a free while other batches are live, and the lists outnumber the *)
(* blocks, so a leaked list is not masked by reuse.                       *)
EXTENDS Enumerator

CONSTANTS b1, b2, b3,
          l1, l2, l3, l4

MCBlocks == {b1, b2, b3}
MCLists == {l1, l2, l3, l4}
\* malloc may return NULL.
MCMallocResults == BOOLEAN
=============================================================================
