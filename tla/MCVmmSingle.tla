--------------------------- MODULE MCVmmSingle ---------------------------
(* Requests of one page, <<0, 1>> and <<1, 0>> being one paragraph and     *)
(* exactly 256, and the refused <<0, 0>>: what the shell itself asks for.  *)
(* Ten blocks may be asked for, one more than the table has pages: the last *)
(* search finds it full.                                                   *)
EXTENDS Vmm

MCBlockSize == 3
MCBlocks    == 3
MCMaxOwned  == 10
MCRequests  == {<<0, 0>>, <<0, 1>>, <<1, 0>>}
=============================================================================
