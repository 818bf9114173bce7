----------------------------- MODULE MCNifiPods -----------------------------
(***************************************************************************)
(* Small instances of NifiPods: one role group with a pod, two git         *)
(* repositories.                                                           *)
(***************************************************************************)
EXTENDS NifiPods, MCNifiOperator

MCRepositories == {1, 2}
MCCredentialItems == {"user", "password"}

WithGitSync == [Single EXCEPT !.gitSync = << OneOption, NoOption >>]

\* The clustering backend changes and the repositories go; or the role group goes,
\* leaving its objects and its pod; or one repository is left, whose first fetch never
\* ends.
PodSpecs == {WithGitSync,
             [Single EXCEPT !.zookeeper = TRUE],
             [WithGitSync EXCEPT !.groups = {}],
             [WithGitSync EXCEPT !.gitSync =
                 << [NoOption EXCEPT !.options = "--one-time" :> "false"] >>]}

\* The reporting task of a 1.x cluster is enabled.
TaskSpecs == {[Single EXCEPT !.version = "1.27.0", !.reportingTask = e] : e \in BOOLEAN}

=============================================================================
