------------------------------- MODULE GitSync -------------------------------
(***************************************************************************)
(* The containers that bring custom components from git repositories into  *)
(* the NiFi pods (internal/common/git_sync.go).  Each repository i gets a  *)
(* volume, an init container that fetches it once before NiFi starts and a *)
(* sidecar that goes on fetching it.                                       *)
(*                                                                         *)
(* The arguments that are the same in every build of a spec (repository,   *)
(* branch, depth, period, link, root, git-config) are left out; what is    *)
(* kept is the mode and the options that users add.                        *)
(***************************************************************************)
EXTENDS Integers, Sequences, FiniteSetsExt

CONSTANT GitOptions   \* names of git-sync options that users may set

OptionValues == {"true", "false", "other"}

\* One element of spec.clusterConfig.customComponentsGitSync.
GitSyncSpec ==
    [credentials: BOOLEAN,
     options: UNION {[names -> OptionValues] : names \in SUBSET GitOptions}]

-----------------------------------------------------------------------------
\* Keys of gitSyncConfig that are filtered out.
ReservedOptions ==
    {"--git-config", "--repo", "--ref", "--depth", "--period", "--link", "--root",
     "--one-time=true", "--one-time=false"}

UserOptions(gs) == DOMAIN gs.options \ ReservedOptions

\* The command line: the mode, then the user's options in the order in which the
\* loop happened to range over the Go map.
buildGitSyncArgs(gs, oneTime, order) ==
    << <<"--one-time", oneTime>> >>
      \o [j \in DOMAIN order |-> <<order[j], gs.options[order[j]]>>]

\* The mode git-sync runs in: of a repeated option the last one counts.
OneTimeMode(args) ==
    args[CHOOSE j \in DOMAIN args :
            /\ args[j][1] = "--one-time"
            /\ \A k \in DOMAIN args : args[k][1] = "--one-time" => k <= j][2]

\* Environment variables, each with the item of the credentials secret behind it.
gitSyncEnvVarFromSecret(gs) ==
    IF gs.credentials
    THEN {<<"GITSYNC_USERNAME", "user">>, <<"GITSYNC_PASSWORD", "password">>}
    ELSE {}

\* Variant with a defect: all containers share the first volume.
buildGitSyncContainerShared(gs, i, oneTime, order) ==
    [env   |-> gitSyncEnvVarFromSecret(gs),
     args  |-> buildGitSyncArgs(gs, oneTime, order),
     mount |-> 1]

buildGitSyncContainer(gs, i, oneTime, order) ==
    [env   |-> gitSyncEnvVarFromSecret(gs),
     args  |-> buildGitSyncArgs(gs, oneTime, order),
     mount |-> i]

\* The orders a loop over the user's options may take.
OptionOrders(gs) == Bijection(1..Cardinality(UserOptions(gs)), UserOptions(gs))

\* The same for the loops of all repositories.
ArgOrders(syncs) ==
    {o \in [DOMAIN syncs -> UNION {OptionOrders(syncs[i]) : i \in DOMAIN syncs}] :
        \A i \in DOMAIN syncs : o[i] \in OptionOrders(syncs[i])}

\* Variant with a defect: no init containers.
GitSyncResourcesNoInit(syncs, first, second) ==
    [inits    |-> << >>,
     sidecars |-> [i \in DOMAIN syncs |->
                     buildGitSyncContainer(syncs[i], i, "false", second[i])],
     volumes  |-> DOMAIN syncs,
     mounts   |-> DOMAIN syncs]

\* Variant with a defect: no sidecars.
GitSyncResourcesNoSidecar(syncs, first, second) ==
    [inits    |-> [i \in DOMAIN syncs |->
                     buildGitSyncContainer(syncs[i], i, "true", first[i])],
     sidecars |-> << >>,
     volumes  |-> DOMAIN syncs,
     mounts   |-> DOMAIN syncs]

\* Init containers, sidecars, volumes and the mounts of the NiFi container, with
\* the orders that the init containers' and the sidecars' options took.
GitSyncResources(syncs, first, second) ==
    [inits    |-> [i \in DOMAIN syncs |->
                     buildGitSyncContainer(syncs[i], i, "true", first[i])],
     sidecars |-> [i \in DOMAIN syncs |->
                     buildGitSyncContainer(syncs[i], i, "false", second[i])],
     volumes  |-> DOMAIN syncs,
     mounts   |-> DOMAIN syncs]

\* Variant with a defect: the sidecars' options end at the first reserved one, which the
\* loop may meet before the others.
NewGitSyncResourcesCutShort(syncs) ==
    {GitSyncResources(syncs, first, second) :
        first \in ArgOrders(syncs),
        second \in ArgOrders(syncs) \cup {[i \in DOMAIN syncs |-> << >>]}}

\* Everything a call may return: the order of the options differs between calls.
NewGitSyncResources(syncs) ==
    {GitSyncResources(syncs, first, second) : first, second \in ArgOrders(syncs)}

=============================================================================
