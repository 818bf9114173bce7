---------------------------- MODULE ReportingTask ----------------------------
(***************************************************************************)
(* The Service and the Job that install the Prometheus reporting task on   *)
(* NiFi 1.x (internal/controller/reporting_task).  The Service selects one *)
(* pod by name; the Job runs a script against NiFi's REST API through it.  *)
(***************************************************************************)
EXTENDS NodeResources

\* registerReportingTaskResources returns early unless the task is enabled
\* and the product version starts with "1.".
WantsReportingTask(spec) == spec.reportingTask /\ IsV1(spec)

\* The web port given to the Service and to the Job.
ReportingWebPort(spec) == IF EnableTls(spec) THEN GetPort("https") ELSE GetPort("http")

\* Variant with a defect: replicas are not looked at.
SelectorPodOfFirstGroup(spec) == Min(spec.groups)

(***************************************************************************)
(* The role group whose pod 0 the Service selects: the first one, by name, *)
(* with replicas, or the first one when none has.  The caller checks that  *)
(* there is a role group.                                                  *)
(***************************************************************************)
getReportingTaskServiceSelectorPod(spec) ==
    LET running == {g \in spec.groups : spec.replicas[g] > 0}
    IN  Min(IF running # {} THEN running ELSE spec.groups)

ReportingTaskService(spec) ==
    [selector |-> getReportingTaskServiceSelectorPod(spec),
     port     |-> ReportingWebPort(spec)]

-----------------------------------------------------------------------------
\* The directories the Job's command line reads files from: the admin
\* password with any authenticator, the CA certificate with a secret class.
JobReads(spec, auth) ==
    (IF auth.type # "none" THEN {"/kubedoop/users"} ELSE {})
      \cup (IF spec.tls = "class" THEN {"/kubedoop/cert"} ELSE {})

buildVolumeMounts(spec, auth) ==
    (IF spec.tls = "class" THEN {<<"cert", "/kubedoop/cert">>} ELSE {})
      \cup GetVolumeMounts(auth)

buildVolumes(spec, auth) ==
    (IF spec.tls = "class" THEN {<<"cert", "secret-class">>} ELSE {})
      \cup GetVolumes(auth)

\* The Job's pod template.
ReportingTaskJob(spec, auth) ==
    [scheme  |-> IF EnableTls(spec) THEN "https" ELSE "http",
     port    |-> ReportingWebPort(spec),
     version |-> spec.version,
     reads   |-> JobReads(spec, auth),
     mounts  |-> buildVolumeMounts(spec, auth),
     volumes |-> buildVolumes(spec, auth)]

JobBuildFails(auth) == VolumesPanic(auth)

=============================================================================
