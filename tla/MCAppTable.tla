----------------------------- MODULE MCAppTable -----------------------------
(***************************************************************************)
(* Three slots of nine cells behind a header of two: the third crosses the  *)
(* window of 22 cells, as the seventh of the code (4 + 6 * 40 bytes) crosses *)
(* the 256-byte window.  User memory has three pages of two units, with one  *)
(* page before and one behind it.                                           *)
(***************************************************************************)
EXTENDS AppTable

\* Plain PRGs, names of one and of four characters: the table stays before
\* the slot that crosses the window.
PlainPrograms == {[name |-> <<65>>, code |-> 3, image |-> 3, base |-> -1],
                  [name |-> <<66, 66, 66, 66>>, code |-> 2, image |-> 2,
                   base |-> -1]}

\* A third program takes the slot that crosses the window.
ThreePrograms == PlainPrograms \cup
    {[name |-> <<67>>, code |-> 1, image |-> 1, base |-> -1]}

\* R6 binaries: the image carries a relocation table the code does not.
R6Programs == {[name |-> <<65>>, code |-> 2, image |-> 3, base |-> 2],
               [name |-> <<66>>, code |-> 2, image |-> 2, base |-> -1]}

SomeAddrs == {1, 3, 4, 7}
=============================================================================
