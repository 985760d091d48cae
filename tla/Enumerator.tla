----------------------------- MODULE Enumerator -----------------------------
(***************************************************************************)
(* The device enumerator of libsddc.c (sddc_get_device_info,              *)
(* sddc_free_device_info).  The transport hands over a raw device list;   *)
(* sddc_get_device_info mallocs one block of count + 1 entries, stores the *)
(* raw list's pointer in the first entry, copies the string pointers of   *)
(* the raw list into the others and returns a pointer one entry past the  *)
(* start.  sddc_free_device_info steps back one entry, reads the raw list *)
(* from there, frees the block and hands the raw list back to the         *)
(* transport.  Memory is abstracted to allocation ids: a block or a raw   *)
(* list is a member of Blocks or Lists, free while not live, so freed ids *)
(* are reused the way an allocator reuses addresses.  The device strings  *)
(* and the count are left out: no step of either call depends on them.   *)
(***************************************************************************)
EXTENDS Naturals

CONSTANTS
  Blocks,         \* addresses malloc may return
  Lists,          \* addresses of the transport's raw lists
  MallocResults   \* {TRUE} if malloc always succeeds, BOOLEAN if it may fail

VARIABLES
  raw,      \* raw lists handed out by usb_device_get_device_list, not freed
  blocks,   \* blocks malloc'ed by sddc_get_device_info, not freed
  hdr,      \* the raw list stored in entry 0 of each block ever written
  held,     \* pointers sddc_get_device_info returned to the caller
  crashed   \* the process died on a write through NULL

vars == <<raw, blocks, hdr, held, crashed>>

\* A pointer into a block: its address and its offset in entries.
Ptr == [blk : Blocks, off : {0, 1}]

TypeOK ==
  /\ raw \subseteq Lists
  /\ blocks \subseteq Blocks
  /\ DOMAIN hdr \subseteq Blocks /\ \A b \in DOMAIN hdr : hdr[b] \in Lists
  /\ held \subseteq Ptr
  /\ crashed \in BOOLEAN

Init ==
  /\ raw = {}
  /\ blocks = {}
  /\ hdr = [b \in {} |-> b]
  /\ held = {}
  /\ crashed = FALSE

(***************************************************************************)
(* sddc_get_device_info after usb_device_get_device_list succeeded with    *)
(* the raw list l (when it fails the call returns -1 and nothing changes:  *)
(* a stuttering step).  malloc's result is not checked: when it is NULL    *)
(* the write of the list pointer at line 85 goes through NULL.  Otherwise  *)
(* entry 0 of block b gets l, and the caller gets b + 1.                   *)
(***************************************************************************)
sddc_get_device_info ==
  /\ ~crashed
  /\ \E l \in Lists \ raw, ok \in MallocResults :
       /\ raw' = raw \cup {l}
       /\ \/ /\ ok
             /\ \E b \in Blocks \ blocks :
                  /\ blocks' = blocks \cup {b}
                  /\ hdr' = [x \in DOMAIN hdr \cup {b} |->
                               IF x = b THEN l ELSE hdr[x]]
                  /\ held' = held \cup {[blk |-> b, off |-> 1]}
             /\ UNCHANGED crashed
          \/ /\ ~ok
             /\ crashed' = TRUE
             /\ UNCHANGED <<blocks, hdr, held>>

\* The block at the start of the allocation p points into.
Base(p) == [blk |-> p.blk, off |-> p.off - 1]

\* The same call without usb_device_free_device_list: a mutant.
sddc_free_device_info_keep_list(p) ==
  /\ ~crashed
  /\ blocks' = blocks \ {Base(p).blk}
  /\ held' = held \ {p}
  /\ UNCHANGED <<raw, hdr, crashed>>

(***************************************************************************)
(* sddc_free_device_info(p), p a pointer the caller got from               *)
(* sddc_get_device_info and has not freed (the contract of spec 4.6): step *)
(* back one entry, read the raw list stored there, free the block, free    *)
(* the raw list.                                                           *)
(***************************************************************************)
sddc_free_device_info(p) ==
  /\ ~crashed
  /\ blocks' = blocks \ {Base(p).blk}
  /\ raw' = raw \ {hdr[Base(p).blk]}
  /\ held' = held \ {p}
  /\ UNCHANGED <<hdr, crashed>>

Next ==
  \/ sddc_get_device_info
  \/ \E p \in held : sddc_free_device_info(p)

Spec == Init /\ [][Next]_vars

(***************************************************************************)
(* The batch and its raw list live and die together (spec 4.6: releasing a *)
(* batch releases exactly its backing allocation): as long as the process *)
(* runs, the caller holds one pointer, at entry 1, per live block, and the *)
(* live raw lists are exactly those stored in the live blocks, one per     *)
(* block.  A free that dropped or mixed up a list leaks a raw list or      *)
(* frees one another batch still reads.                                    *)
(***************************************************************************)
CoupledLifetime ==
  ~crashed =>
    /\ \A p \in held : p.off = 1
    /\ {p.blk : p \in held} = blocks
    /\ blocks \subseteq DOMAIN hdr
    /\ raw = {hdr[b] : b \in blocks}
    /\ \A b, c \in blocks : hdr[b] = hdr[c] => b = c

(***************************************************************************)
(* spec 4.6: enumerate returns a batch or an Error.  sddc_get_device_info *)
(* never takes the process down, whatever malloc returns.                  *)
(***************************************************************************)
EnumerateReturnsBatchOrError == ~crashed
=============================================================================
