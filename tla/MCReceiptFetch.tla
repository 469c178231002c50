--------------------------- MODULE MCReceiptFetch ---------------------------
(***************************************************************************)
(* The small instance of the time frame runs.                              *)
(***************************************************************************)
EXTENDS ReceiptFetch

CONSTANTS a1, a2, a3, b1, mine, other

\* Three receipts of the pool asked for, one of another.
MCPoolOf == [a \in Addresses |-> IF a = b1 THEN other ELSE mine]

\* Frames of one instant, of two, and of none.
AllFrames == {<<1, 2>>, <<2, 2>>, <<2, 3>>, <<3, 2>>}

=============================================================================
