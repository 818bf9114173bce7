------------------------- MODULE MCUndisturbedCalls -------------------------
(***************************************************************************)
(* Small instances of UndisturbedCalls.                                    *)
(***************************************************************************)
EXTENDS UndisturbedCalls, MCNifiOperator

=============================================================================
