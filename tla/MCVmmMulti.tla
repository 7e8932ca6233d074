--------------------------- MODULE MCVmmMulti ----------------------------
(* Requests of one, two and BlockSize pages; <<2, 1>> is the request whose *)
(* page count wraps to zero in TempHi.  With five blocks held a run that is *)
(* too short crosses a block boundary in front of a block a program holds. *)
EXTENDS Vmm

MCBlockSize == 3
MCBlocks    == 3
MCMaxOwned  == 5
MCRequests  == {<<0, 1>>, <<1, 1>>, <<2, 1>>}
=============================================================================
