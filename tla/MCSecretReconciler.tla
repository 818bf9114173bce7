------------------------- MODULE MCSecretReconciler -------------------------
(***************************************************************************)
(* Small instances of SecretReconciler, with model values for operators    *)
(* and keys.  Three keys suffice for two operators, since a fresh key only *)
(* has to differ from the stored one and from the one the other operator   *)
(* holds.                                                                  *)
(***************************************************************************)
EXTENDS SecretReconciler

=============================================================================
