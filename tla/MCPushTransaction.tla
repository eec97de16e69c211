------------------------- MODULE MCPushTransaction -------------------------
(* Values of the constants of PushTransaction for TLC. *)
EXTENDS PushTransaction, TLC

CONSTANTS t1, t2, m1, m2, m3, MessageNew, MessageAppend, FlagsSet

(* Two messages in one transaction, one in another. *)
McTxnOf == [m \in Msgs |-> IF m = m3 THEN t2 ELSE t1]

(* The two messages of one transaction are alike. *)
McSymmetry == Permutations({m1, m2})

=============================================================================
