---------------------------- MODULE NodeResources ----------------------------
(***************************************************************************)
(* The objects of one role group of NiFi nodes (internal/controller/node): *)
(* ConfigMap, StatefulSet and headless Service, as functions of the spec   *)
(* of the cluster and of the authenticators the builders work with.        *)
(***************************************************************************)
EXTENDS Authentication, GitSync

CONSTANTS
    RoleGroups,   \* role-group names, numbered in lexicographic order
    Versions,     \* product versions
    V1Versions    \* the versions that start with "1."

ASSUME NodeAssumption ==
    /\ RoleGroups \subseteq Nat
    /\ V1Versions \subseteq Versions

(***************************************************************************)
(* NifiClusterSpec.  The fields the CRD defaults or requires (image, pull  *)
(* policy, replicas, key secret name) are always there.  tls is "off" (no  *)
(* block), "noClass" (an empty secret class) or "class".                   *)
(***************************************************************************)
NifiClusterSpec ==
    [groups: SUBSET RoleGroups,
     replicas: [RoleGroups -> Nat],
     authentication: {NoAuth} \cup Seq(AuthenticationSpec),
     zookeeper: BOOLEAN,
     tls: {"off", "noClass", "class"},
     version: Versions,
     reportingTask: BOOLEAN,
     gitSync: Seq(GitSyncSpec),
     autoGenerate: BOOLEAN,
     stopped: BOOLEAN,
     paused: BOOLEAN]

-----------------------------------------------------------------------------
Ports == [http |-> 8088, https |-> 9443, protocol |-> 9088,
          balance |-> 6243, metrics |-> 8081]

GetPort(name) == IF name \in DOMAIN Ports THEN Ports[name] ELSE 0

\* The ServiceAccount of the pods, created by registerRBACResources.
NifiServiceAccountName == "nifi"

EnableTls(spec) == spec.tls # "off"

IsV1(spec) == spec.version \in V1Versions

-----------------------------------------------------------------------------
(***************************************************************************)
(* ConfigMap                                                               *)
(***************************************************************************)

useZooKeeperStateProvider(spec) == spec.zookeeper

\* state-management.xml: the id of its cluster provider and the environment
\* variables the text reads.
getStateManagementConfig(spec) ==
    IF useZooKeeperStateProvider(spec)
    THEN [id |-> "zk-provider", getenv |-> {"ZOOKEEPER_HOSTS", "ZOOKEEPER_CHROOT"}]
    ELSE [id |-> "kubernetes-provider", getenv |-> {"STACKLET_NAME"}]

\* nifi.state.management.provider.cluster
StateProviderProperty(spec) ==
    IF useZooKeeperStateProvider(spec) THEN "zk-provider" ELSE "kubernetes-provider"

\* The ports NiFi's web server listens on: http always, https with TLS.
WebProperties(spec) ==
    {GetPort("http")} \cup (IF EnableTls(spec) THEN {GetPort("https")} ELSE {})

\* The directories of the key stores and trust stores NiFi opens.
KeyStoreProperties(spec) == IF EnableTls(spec) THEN {"/kubedoop/server-tls"} ELSE {}

\* The port of the reporting-task service in nifi.web.proxy.host, if any.
ProxyHostProperty(spec) ==
    IF IsV1(spec) /\ spec.reportingTask THEN {GetPort("https")} ELSE {}

\* Cluster mode: election manager, secured protocol, variables read.
ClusterProperties(spec) ==
    IF useZooKeeperStateProvider(spec)
    THEN [election |-> "CuratorLeaderElectionManager",
          secure |-> EnableTls(spec),
          getenv |-> {"NODE_ADDRESS", "ZOOKEEPER_HOSTS", "ZOOKEEPER_CHROOT"}]
    ELSE [election |-> "KubernetesLeaderElectionManager",
          secure |-> EnableTls(spec),
          getenv |-> {"NODE_ADDRESS", "STACKLET_NAME"}]

\* nifi.properties; auth is the authenticator read while the file is built.
getNifiProperties(spec, auth) ==
    [stateProvider |-> StateProviderProperty(spec),
     web           |-> WebProperties(spec),
     keyStores     |-> KeyStoreProperties(spec),
     proxyHost     |-> ProxyHostProperty(spec),
     cluster       |-> ClusterProperties(spec),
     authGetenv    |-> ExtendNifiProperties(auth)]

\* The data of the ConfigMap.  login-identity-providers.xml comes from the
\* authenticator captured at registration (auth), nifi.properties from the one
\* read again during the build (reread).
NifiConfigMap(spec, auth, reread) ==
    [properties      |-> getNifiProperties(spec, reread),
     login           |-> GetLoginIdentityProvider(auth),
     stateManagement |-> getStateManagementConfig(spec)]

ConfigMapBuildFails(reread) == Unusable(reread) \/ PropertiesPanic(reread)

\* The files gomplate can find in the mounted ConfigMap.
ConfigMapFiles(cm) ==
    {"bootstrap.conf", "nifi.properties", "state-management.xml"}
      \cup (IF cm.login.provider = "none" THEN {} ELSE {"login-identity-providers.xml"})

\* Every environment variable the templates of the ConfigMap read.
TemplateVariables(cm) ==
    cm.properties.cluster.getenv \cup cm.properties.authGetenv
      \cup cm.login.getenv \cup cm.stateManagement.getenv

\* gomplate finds the files of the prepare script and can parse them: getenv is the
\* only action it knows among those the builders write.
Renders(cm, prepare) ==
    /\ prepare.renders \subseteq ConfigMapFiles(cm)
    /\ cm.login.actions \subseteq {"getenv"}

-----------------------------------------------------------------------------
(***************************************************************************)
(* StatefulSet                                                             *)
(***************************************************************************)

\* Variant with a defect: the ZooKeeper variables are forgotten.
getContainerEnvNoZooKeeper(spec, auth) == {"POD_NAME", "STACKLET_NAME"} \cup GetEnvVars(auth)

getContainerEnv(spec, auth) ==
    {"POD_NAME", "STACKLET_NAME"}
      \cup (IF spec.zookeeper THEN {"ZOOKEEPER_HOSTS", "ZOOKEEPER_CHROOT"} ELSE {})
      \cup GetEnvVars(auth)

\* The prepare script: the variables it exports, the files it renders.
getPrepareContainerArgs(auth) ==
    [exports |-> {"NODE_ADDRESS"} \cup GetInitArgs(auth),
     renders |-> {"nifi.properties", "login-identity-providers.xml",
                  "state-management.xml"}]

setupMainContainerProbe(spec) ==
    IF EnableTls(spec) THEN GetPort("https") ELSE GetPort("http")

getVolumeMounts(auth) ==
    {<<"nifi-config", "/kubedoop/mount/config">>, <<"empty-dir", "conf">>}
      \cup GetVolumeMounts(auth)

getVolumes(auth) ==
    {<<"nifi-config", "configmap">>, <<"empty-dir", "emptyDir">>} \cup GetVolumes(auth)

\* The StatefulSet of role group g; a stopped cluster is scaled to zero.  The pods
\* have the prepare container and then the init containers of git, and NiFi beside
\* the sidecars of git.
NifiStatefulSet(spec, g, auth, git) ==
    [replicas       |-> IF spec.stopped THEN 0 ELSE spec.replicas[g],
     version        |-> spec.version,
     serviceAccount |-> NifiServiceAccountName,
     env            |-> getContainerEnv(spec, auth),
     prepare        |-> getPrepareContainerArgs(auth),
     mounts         |-> getVolumeMounts(auth),
     volumes        |-> getVolumes(auth),
     probe          |-> setupMainContainerProbe(spec),
     git            |-> git]

StatefulSetBuildFails(auth) == EnvVarsPanic(auth) \/ VolumesPanic(auth)

-----------------------------------------------------------------------------
\* The headless Service of a role group: every container port, published
\* before the pods are ready.
NodeService == [ports |-> {Ports[p] : p \in DOMAIN Ports},
                headless |-> TRUE, publishNotReady |-> TRUE]

=============================================================================
