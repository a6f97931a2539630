---------------------------- MODULE MCAllocHooks ----------------------------
(* An instance of AllocHooks for TLC: pages of two grains in directories of *)
(* two entries; a block that fills a page, one that begins in it and ends   *)
(* in the next, one with a page in the middle, which is registered as full, *)
(* and one whose size the int of the driver cannot hold.                    *)
EXTENDS AllocHooks

MCBlock == {[base |-> 2, size |-> 2], [base |-> 3, size |-> 2],
            [base |-> 2, size |-> 4], [base |-> 8, size |-> 5]}

MCpath == [a \in {1, 2, 4, 5, 6} |->
    CASE a = 1 -> <<0, 0, 0, 0>> [] a = 2 -> <<0, 0, 0, 1>>
      [] a = 4 -> <<0, 0, 1, 0>>
      [] a = 5 -> <<0, 1, 0, 0>> [] a = 6 -> <<0, 1, 0, 1>>]

(* What the two threads call: memory changes hands while it is accessed,    *)
(* realloc moves or fails, two threads register blocks in the same page at  *)
(* once, a new throws before a malloc, a block has no hook, blocks of other *)
(* sizes are put where a page was full, lines of the TLB are replaced.      *)
MCPrograms == {
    << <<"malloc", "free", "malloc">>, <<"access">> >>,
    << <<"malloc", "realloc", "access">>, <<>> >>,
    << <<"malloc", "free">>, <<"malloc">> >>,
    << <<"malloc", "access">>, <<"malloc">> >>,
    << <<"new", "malloc", "new", "access">>, <<>> >>,
    << <<"aligned_alloc", "access", "free", "malloc", "access">>, <<>> >>,
    << <<"malloc", "malloc", "free", "malloc", "free", "access">>, <<>> >>,
    << <<"malloc", "access", "access", "access", "access">>, <<>> >>}

=============================================================================
