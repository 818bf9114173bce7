--------------------------- MODULE WriteOnceSecret ---------------------------
(***************************************************************************)
(* What SensitiveKeyReconciler and AdminSecretReconciler promise: a key is *)
(* generated when the secret is missing and never replaced while it is     *)
(* there.  (NiFi cannot read its flow after the sensitive key changed.)    *)
(***************************************************************************)
CONSTANTS Keys, NoKey, AutoGenerate

VARIABLE secret

Init == secret \in Keys \cup {NoKey}

Generate == AutoGenerate /\ secret = NoKey /\ secret' \in Keys

Remove == secret # NoKey /\ secret' = NoKey

Next == Generate \/ Remove

Safe == Init /\ [][Next]_secret

\* A missing secret does not stay missing.
Spec == Safe /\ WF_secret(Generate)

=============================================================================
