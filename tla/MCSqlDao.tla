------------------------------ MODULE MCSqlDao ------------------------------
(***************************************************************************)
(* An instance of SqlDao for TLC.                                          *)
(***************************************************************************)
EXTENDS SqlDao, TLC

W(limit, odd, grouped, known) == [limit |-> limit, odd |-> odd, grouped |-> grouped, known |-> known]

\* a map without a limit, one with a window, one the builder refuses in two ways
GivenMaps ==
  "plain"  :> W(NoLimit, {}, TRUE, TRUE) @@
  "window" :> W(<<1, 2>>, {}, FALSE, TRUE) @@
  "odd"    :> W(<<>>, {"_having"}, FALSE, FALSE)

\* rows with the same columns, an empty one, and columns the first row lacks
InsertedRows == {<<>>, <<[a |-> 1, b |-> 2], [a |-> 3, b |-> 4]>>, <<[a |-> 1], [a |-> 2, b |-> 3]>>, <<<<>>, [a |-> 1]>>}

=============================================================================
