-------------------------- MODULE UndisturbedCalls --------------------------
(***************************************************************************)
(* What one reconciliation achieves by itself.  The operator watches only  *)
(* NifiClusters, so after a change it does not see (an object deleted, an  *)
(* AuthenticationClass edited, an old NifiCluster's objects left behind)   *)
(* it rests on cluster.go and the reconcilers that the next call, started  *)
(* by the resync, repairs everything at once.                              *)
(*                                                                         *)
(* A history variable is added to NifiOperator.  It guards no step.        *)
(***************************************************************************)
EXTENDS NifiOperator

VARIABLE
    undisturbed  \* a call is in progress that read the latest NifiCluster, and since
                 \* then nothing disturbed it

historyVars == <<vars, undisturbed>>

\* The garbage collector removes a secret.
SecretCollected ==
    \E k \in Key : k[1] \in SecretKinds /\ objects[k] # None /\ objects'[k] = None

\* A call that finds a secret of an earlier NifiCluster leaves it alone, and the
\* garbage collector may take it afterwards: that counts as a disturbance too.
Record ==
    undisturbed' = /\ pc' # "idle"
                   /\ IF pc = "idle" THEN seen = cr ELSE undisturbed
                   /\ budget' = budget
                   /\ ~SecretCollected

HistoryInit == Init /\ undisturbed = FALSE
HistoryNext == Next /\ Record
HistorySpec == HistoryInit /\ [][HistoryNext]_historyVars
FairHistorySpec == HistorySpec /\ Fairness

-----------------------------------------------------------------------------
\* One undisturbed call that comes to its end has repaired everything, whatever
\* happened before it: every wanted object is what the spec asks for, its ConfigMaps
\* and StatefulSets fit together, and the reporting task can reach NiFi.  Reads of
\* the AuthenticationClass while it registers and while it runs, resyncs, expiring
\* Jobs and the removal of other objects of an earlier NifiCluster go on meanwhile.
UndisturbedCallsRepair ==
    undisturbed /\ pc = "run" /\ resources = << >> =>
        Converged /\ PodsFit /\ ReportingTaskFits

\* When the spec, the classes, the permissions and the secrets allow it, an undisturbed
\* call comes to its end: it ends early only after a write (the library may ask for a
\* requeue then) or at a Job whose template it would have to change.  What it registers
\* it can build, may write and finds in order.  With UndisturbedCallsRepair this is the
\* safety part of EventuallyConverged.
ReconcilableCallsGoOn ==
    [][undisturbed /\ Reconcilable /\ pc' = "idle" /\ budget' = budget =>
         \/ pc = "run" /\ resources = << >>
         \/ objects' # objects
         \/ pc = "run" /\ Current.key[1] = "Job" /\ Stored # None]_historyVars

=============================================================================
