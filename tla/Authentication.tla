--------------------------- MODULE Authentication ---------------------------
(***************************************************************************)
(* The authenticators of internal/common/security.  A NifiCluster names at *)
(* most one AuthenticationClass; NewAuthentication reads that class from   *)
(* the API server and turns it into one authenticator (OIDC, LDAP or       *)
(* static user), which then contributes environment variables, volumes,    *)
(* mounts, properties, a login provider and shell commands to the objects  *)
(* the operator writes.                                                    *)
(*                                                                         *)
(* Text is abstracted to what other parts refer to: the names of the       *)
(* environment variables a template reads, of the volumes a pod mounts and *)
(* of the secrets behind them.                                             *)
(***************************************************************************)
EXTENDS Integers, Sequences

CONSTANTS
    AuthClasses,  \* names of AuthenticationClass objects
    NoName,       \* the empty string given as a class name
    NoAuth        \* a nil Authentication slice in the cluster's spec

(***************************************************************************)
(* The provider of an AuthenticationClass is the set of its non-nil        *)
(* blocks; "bind" says that the LDAP block has BindCredentials.  A class   *)
(* that does not exist, or has no provider, yields the nil provider.       *)
(***************************************************************************)
NilProvider == {"nil"}
Providers == SUBSET {"oidc", "ldap", "bind", "static"} \cup {NilProvider}

\* One element of spec.clusterConfig.authentication.
AuthenticationSpec == [class: AuthClasses \cup {NoName}, oidc: BOOLEAN]

(***************************************************************************)
(* What NewAuthentication hands back: no authentication configured, one    *)
(* authenticator, an error, or a nil-pointer panic.                        *)
(***************************************************************************)
NoAuthentication == [type |-> "none", bind |-> FALSE, config |-> FALSE]

Failure(t) == [type |-> t, bind |-> FALSE, config |-> FALSE]

Unusable(auth) == auth.type \in {"error", "panic"}

\* The provider of a class: a class that is not found is read as an empty
\* object, whose provider is nil.
GetAuthProvider(classes, c) == classes[c]

(***************************************************************************)
(* The authenticator of a non-nil authentication list.  The blocks are     *)
(* tried in the order OIDC, LDAP, static; provider.OIDC is dereferenced    *)
(* without a nil check.                                                    *)
(***************************************************************************)
NewAuthentication(auths, classes) ==
    IF Len(auths) # 1 THEN Failure("error")
    ELSE IF auths[1].class = NoName THEN Failure("error")
    ELSE LET p == GetAuthProvider(classes, auths[1].class)
             Authenticator(t) == [type |-> t, bind |-> "bind" \in p,
                                  config |-> auths[1].oidc]
         IN  IF p = NilProvider THEN Failure("panic")
             ELSE IF "oidc" \in p THEN Authenticator("oidc")
             ELSE IF "ldap" \in p THEN Authenticator("ldap")
             ELSE IF "static" \in p THEN Authenticator("static")
             ELSE Failure("error")

\* getAuthentication of the cluster and getAuthentrication of the role.
GetAuthentication(authentication, classes) ==
    IF authentication = NoAuth THEN NoAuthentication
    ELSE NewAuthentication(authentication, classes)

-----------------------------------------------------------------------------
(***************************************************************************)
(* The Authenticator interface, as operators on the authenticator's view.  *)
(***************************************************************************)

\* The secret with the operator's generated admin password.
OidcAdminPasswordSecret == "oidc-admin-password"

\* Environment variables of every NiFi container.
GetEnvVars(auth) ==
    IF auth.type = "oidc" THEN {"OIDC_CLIENT_ID", "OIDC_CLIENT_SECRET"} ELSE {}

\* Environment variables exported by the prepare container's shell script.
GetInitArgs(auth) ==
    IF auth.type \in {"oidc", "static"} THEN {"NIFI_ADMIN_PASSWORD"} ELSE {}

\* Volumes, as pairs of a volume name and what backs it.
oidcVolumes == {<<"admin", OidcAdminPasswordSecret>>}

\* Variant with a defect: the volume has the secret that is generated for OIDC.
staticVolumesOfOidc == oidcVolumes

staticVolumes == {<<"admin", "user-credentials">>}
ldapVolumes == {<<"bind-credentials", "secret-class">>}

GetVolumes(auth) ==
    CASE auth.type = "oidc"   -> oidcVolumes
      [] auth.type = "static" -> staticVolumes
      [] auth.type = "ldap"   -> ldapVolumes
      [] OTHER -> {}

\* Mounts, as pairs of a volume name and a directory.
oidcVolumeMounts   == {<<"admin", "/kubedoop/users">>}
staticVolumeMounts == {<<"admin", "/kubedoop/users">>}
ldapVolumeMounts   == {<<"bind-credentials", "/kubedoop/secret">>}

GetVolumeMounts(auth) ==
    CASE auth.type = "oidc"   -> oidcVolumeMounts
      [] auth.type = "static" -> staticVolumeMounts
      [] auth.type = "ldap"   -> ldapVolumeMounts
      [] OTHER -> {}

\* Environment variables read by the properties the authenticator adds to
\* nifi.properties.
ExtendNifiProperties(auth) ==
    IF auth.type = "oidc" THEN {"OIDC_CLIENT_ID", "OIDC_CLIENT_SECRET"} ELSE {}

\* login-identity-providers.xml: which provider it configures, with which
\* strategy, the actions between double braces in its text and the environment
\* variables they read.
getSingleUserLoginIdentityProvider ==
    [provider |-> "single-user", actions |-> {"getenv"}, getenv |-> {"NIFI_ADMIN_PASSWORD"}]

ldapLoginIdentityProvider(auth) ==
    [provider |-> IF auth.bind THEN "ldap-simple" ELSE "ldap-anonymous",
     actions |-> {"file:UTF-8"}, getenv |-> {}]

GetLoginIdentityProvider(auth) ==
    CASE auth.type \in {"oidc", "static"} -> getSingleUserLoginIdentityProvider
      [] auth.type = "ldap" -> ldapLoginIdentityProvider(auth)
      [] OTHER -> [provider |-> "none", actions |-> {}, getenv |-> {}]

\* Dereferences that fail while an object is built: the OIDC authenticator
\* needs the cluster's oidc block for its properties and its environment.
PropertiesPanic(auth) == auth.type = "oidc" /\ ~auth.config
EnvVarsPanic(auth)    == auth.type = "oidc" /\ ~auth.config

\* The LDAP authenticator needs BindCredentials for its volume and its mount.
VolumesPanic(auth)    == auth.type = "ldap" /\ ~auth.bind

=============================================================================
