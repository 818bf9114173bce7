--------------------------- MODULE MCNifiOperator ---------------------------
(***************************************************************************)
(* Small instances of NifiOperator: two role groups, one                   *)
(* AuthenticationClass, a 1.x and a 2.x product version.                   *)
(***************************************************************************)
EXTENDS NifiOperator, TLC

MCRoleGroups == {1, 2}
MCVersions == {"1.27.0", "2.4.0"}
MCV1Versions == {"1.27.0"}
MCAuthClasses == {"class"}

\* Options of git-sync: one that is reserved, three that users may set.
MCGitOptions == {"--ref", "--one-time", "--max-failures", "--v"}
NoOption == [credentials |-> FALSE, options |-> << >>]
OneOption == [credentials |-> TRUE,
              options |-> ("--max-failures" :> "other" @@ "--ref" :> "other")]
TwoOptions == [NoOption EXCEPT !.options = "--max-failures" :> "other" @@ "--v" :> "other"]

UsesClass == << [class |-> "class", oidc |-> TRUE] >>

\* A plain 2.x cluster with two role groups.
Base == [groups |-> {1, 2}, replicas |-> (1 :> 0 @@ 2 :> 1),
         authentication |-> UsesClass, zookeeper |-> FALSE, tls |-> "off",
         version |-> "2.4.0", reportingTask |-> TRUE, gitSync |-> << >>,
         autoGenerate |-> TRUE, stopped |-> FALSE, paused |-> FALSE]

\* A 1.x cluster with ZooKeeper, TLS and the reporting task.
Classic == [Base EXCEPT !.zookeeper = TRUE, !.tls = "class", !.version = "1.27.0"]

\* The specs users move between: other clustering backend, other TLS mode with
\* the same Job name, one role group less, stopped with a provided key,
\* git-sync, paused.
EditSpecs == {Base, Classic,
              [Classic EXCEPT !.tls = "off", !.groups = {1}],
              [Base EXCEPT !.stopped = TRUE, !.groups = {1}, !.autoGenerate = FALSE],
              [Base EXCEPT !.groups = {2}, !.gitSync = << TwoOptions >>],
              [Base EXCEPT !.paused = TRUE]}

\* Every combination of what the builders look at; replicas matter to the reporting
\* task only.
AuthForms == {NoAuth, << >>, UsesClass, UsesClass \o UsesClass,
              << [class |-> "class", oidc |-> FALSE] >>,
              << [class |-> NoName, oidc |-> TRUE] >>}
AllSpecs ==
    {s \in
      {[Base EXCEPT !.groups = g, !.replicas = r, !.authentication = a,
                    !.zookeeper = z, !.tls = t, !.version = v, !.reportingTask = e,
                    !.gitSync = IF z THEN << OneOption, NoOption >> ELSE << >>] :
          g \in {{}, {1, 2}},
          r \in {(1 :> 0 @@ 2 :> 0), (1 :> 0 @@ 2 :> 1), (1 :> 1 @@ 2 :> 1)},
          a \in AuthForms, z \in BOOLEAN, t \in {"off", "noClass", "class"},
          v \in MCVersions, e \in BOOLEAN} :
        WantsReportingTask(s) \/ s.replicas = Base.replicas}

\* One role group, for the liveness runs.
OneRoleGroup == {2}
Single == [Base EXCEPT !.groups = {2}, !.replicas = 2 :> 1]
SingleV1 == [Single EXCEPT !.zookeeper = TRUE, !.tls = "noClass", !.version = "1.27.0",
                           !.gitSync = << OneOption >>]
SingleOnly == {Single}
SingleV1Only == {SingleV1}
\* A provided key; and no role group, with a generated key.
KeySpecs == {[Single EXCEPT !.autoGenerate = FALSE], [Single EXCEPT !.groups = {}]}
NoAuthSpecs == {[Single EXCEPT !.authentication = NoAuth]}

ClassOf(p) == [c \in MCAuthClasses |-> p]
StaticOnly == {ClassOf({"static"})}
OidcOnly == {ClassOf({"oidc"})}
LdapOnly == {ClassOf({"ldap", "bind"})}
AllClasses == {ClassOf(p) : p \in {{"oidc", "ldap"}, {"ldap", "bind"}, {"ldap"}, {"static"},
                                   {}, NilProvider}}
MarkersOnly == {MarkerGrants}
ChartOnly == {ChartGrants}

NoNewProviders == {}
OtherProviders == {{"ldap", "bind"}, NilProvider}

=============================================================================
