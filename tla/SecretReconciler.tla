-------------------------- MODULE SecretReconciler --------------------------
(***************************************************************************)
(* One generated secret and the operators that reconcile it, at the grain  *)
(* of single API calls:                                                    *)
(*   internal/common/security/sensitive_key.go      SensitiveKeyReconciler *)
(*   internal/common/security/oidc_admin_secret.go  AdminSecretReconciler  *)
(*                                                                         *)
(* Both look the secret up and, when it is missing, call the generic       *)
(* reconciler, which builds a secret with a fresh random key and hands it  *)
(* to the library's CreateOrUpdate.  That looks the secret up once more    *)
(* and creates it, or updates it to what was built.  All lookups are       *)
(* answered by the operator's informer cache, which may lag behind the API *)
(* server.  Several operators act at once when leader election is off (the *)
(* default of the leader-elect flag), as during a rolling update.          *)
(***************************************************************************)
EXTENDS Integers

CONSTANTS
    Operators,      \* running operator processes
    Keys,           \* random keys; users choose theirs from the same set
    NoKey,          \* not a key: the secret does not exist, nothing is built
    AutoGenerate,   \* sensitiveProperties.autoGenerate; TRUE for the admin secret
    CacheMayLag,    \* FALSE: every lookup sees the API server's state
    UserMayCreate,  \* users may create the secret, too
    MaxUpsets       \* bound on user actions, failed calls and restarts

ASSUME SecretAssumption ==
    /\ AutoGenerate \in BOOLEAN
    /\ CacheMayLag \in BOOLEAN
    /\ UserMayCreate \in BOOLEAN
    /\ MaxUpsets \in Nat
    /\ NoKey \notin Keys

VARIABLES
    secret,   \* the key in the secret on the API server, or NoKey
    version,  \* the resource version: grows with every change
    born,     \* the version at which the present secret was created
    cache,    \* per operator: what its informer holds, and of which version
    pc,       \* per operator: the next call of Reconcile
    missed,   \* per operator: the version at which Reconcile missed the secret
    read,     \* per operator: the version CreateOrUpdate read
    built,    \* per operator: the key the builder generated, or NoKey
    upsets    \* user actions, failed calls and restarts so far

vars == <<secret, version, born, cache, pc, missed, read, built, upsets>>
server == <<secret, version, born>>

Steps == {"get", "build", "get again", "create", "update"}

\* The state of the API server as a lookup returns it.
Present == [found |-> secret # NoKey, version |-> version]

\* What a lookup by operator o returns.
Lookup(o) == IF CacheMayLag THEN cache[o] ELSE Present

\* A random key differs from every key around.
Fresh == Keys \ ({secret} \cup {built[o] : o \in Operators})

-----------------------------------------------------------------------------
\* The call ends, with success or with an error after which it is retried.
Return(o) == /\ pc' = [pc EXCEPT ![o] = "get"]
             /\ built' = [built EXCEPT ![o] = NoKey]

Goto(o, step) == pc' = [pc EXCEPT ![o] = step]

\* The secret is found and left alone, or it is missing and must come from the
\* user, which is an error.  (A present admin secret without its data item is an
\* error, too: nothing is written either.)
Leave(o) ==
    /\ pc[o] = "get"
    /\ Lookup(o).found \/ ~AutoGenerate
    /\ Return(o)
    /\ UNCHANGED <<server, cache, missed, read, upsets>>

\* Variant with a defect: the lookup's answer is ignored.
MissAnyway(o) ==
    /\ pc[o] = "get" /\ AutoGenerate
    /\ Goto(o, "build")
    /\ missed' = [missed EXCEPT ![o] = Lookup(o).version]
    /\ UNCHANGED <<server, cache, read, built, upsets>>

\* Variant with a defect: a missing secret is ignored like any "not found".
MissIgnored(o) ==
    /\ pc[o] = "get"
    /\ ~Lookup(o).found /\ AutoGenerate
    /\ Return(o)
    /\ missed' = [missed EXCEPT ![o] = Lookup(o).version]
    /\ UNCHANGED <<server, cache, read, upsets>>

\* The secret is missing: on to the generic reconciler.
Miss(o) ==
    /\ pc[o] = "get"
    /\ ~Lookup(o).found /\ AutoGenerate
    /\ Goto(o, "build")
    /\ missed' = [missed EXCEPT ![o] = Lookup(o).version]
    /\ UNCHANGED <<server, cache, read, built, upsets>>

\* Variant with a defect: an error of the random source is ignored.
BuildWithoutKey(o) ==
    /\ pc[o] = "build"
    /\ Goto(o, "get again")
    /\ UNCHANGED <<server, cache, missed, read, built, upsets>>

\* Build: a fresh random key.
Build(o) ==
    /\ pc[o] = "build"
    /\ \E k \in Fresh : built' = [built EXCEPT ![o] = k]
    /\ Goto(o, "get again")
    /\ UNCHANGED <<server, cache, missed, read, upsets>>

\* CreateOrUpdate looks the secret up again.
GetAgain(o) ==
    /\ pc[o] = "get again"
    /\ Goto(o, IF Lookup(o).found THEN "update" ELSE "create")
    /\ read' = [read EXCEPT ![o] = Lookup(o).version]
    /\ UNCHANGED <<server, cache, missed, built, upsets>>

Create(o) ==
    /\ pc[o] = "create" /\ secret = NoKey
    /\ secret' = built[o]
    /\ version' = version + 1
    /\ born' = version + 1
    /\ Return(o)
    /\ UNCHANGED <<cache, missed, read, upsets>>

AlreadyExists(o) ==
    /\ pc[o] = "create" /\ secret # NoKey
    /\ Return(o)
    /\ UNCHANGED <<server, cache, missed, read, upsets>>

\* The built key differs from the stored one, so the object is updated.  Whether
\* the update carries the version that was read is up to the library: a stale one
\* may succeed.
Update(o) ==
    /\ pc[o] = "update" /\ secret # NoKey
    /\ secret' = built[o]
    /\ version' = version + 1
    /\ born' = born
    /\ Return(o)
    /\ UNCHANGED <<cache, missed, read, upsets>>

UpdateRejected(o) ==
    /\ pc[o] = "update"
    /\ secret = NoKey \/ read[o] # version
    /\ Return(o)
    /\ UNCHANGED <<server, cache, missed, read, upsets>>

Reconcile(o) ==
    \/ Leave(o) \/ Miss(o) \/ Build(o) \/ GetAgain(o)
    \/ Create(o) \/ AlreadyExists(o) \/ Update(o) \/ UpdateRejected(o)

-----------------------------------------------------------------------------
\* The informer catches up.
Sync(o) ==
    /\ cache[o] # Present
    /\ cache' = [cache EXCEPT ![o] = Present]
    /\ UNCHANGED <<server, pc, missed, read, built, upsets>>

Upset == upsets < MaxUpsets /\ upsets' = upsets + 1

UserCreates ==
    /\ Upset /\ UserMayCreate /\ secret = NoKey
    /\ secret' \in Fresh
    /\ version' = version + 1
    /\ born' = version + 1
    /\ UNCHANGED <<cache, pc, missed, read, built>>

\* A user, or the garbage collector after the NifiCluster is gone.
UserDeletes ==
    /\ Upset /\ secret # NoKey
    /\ secret' = NoKey
    /\ version' = version + 1
    /\ UNCHANGED <<born, cache, pc, missed, read, built>>

\* A call, or the random source, fails.
CallFails(o) ==
    /\ Upset /\ pc[o] # "get"
    /\ Return(o)
    /\ UNCHANGED <<server, cache, missed, read>>

\* The operator restarts and lists the secrets.
Restart(o) ==
    /\ Upset
    /\ Return(o)
    /\ cache' = [cache EXCEPT ![o] = Present]
    /\ UNCHANGED <<server, missed, read>>

Init ==
    /\ secret \in Keys \cup {NoKey}
    /\ version = 1
    /\ born = 1
    /\ cache = [o \in Operators |-> Present]
    /\ pc = [o \in Operators |-> "get"]
    /\ missed = [o \in Operators |-> 0]
    /\ read = [o \in Operators |-> 0]
    /\ built = [o \in Operators |-> NoKey]
    /\ upsets = 0

Next ==
    \/ \E o \in Operators : Reconcile(o) \/ Sync(o) \/ CallFails(o) \/ Restart(o)
    \/ UserCreates
    \/ UserDeletes

Spec == Init /\ [][Next]_vars

\* Every operator is triggered again (resync, backoff) and its informer runs.
FairSpec == Spec /\ \A o \in Operators : WF_vars(Reconcile(o)) /\ WF_vars(Sync(o))

-----------------------------------------------------------------------------
(***************************************************************************)
(* Properties                                                              *)
(***************************************************************************)

\* A call holds a key exactly between the build and its end.
KeyHeldWhileUsed ==
    \A o \in Operators : built[o] \in Keys <=> pc[o] \in {"get again", "create", "update"}

\* Type correctness.  No operator knows of a version, in its cache or in the call
\* it is in, that the API server has not reached, and a call holds a key exactly
\* between the build and its end.
TypeOK ==
    /\ secret \in Keys \cup {NoKey}
    /\ version \in Nat
    /\ born \in 0..version
    /\ cache \in [Operators -> [found: BOOLEAN, version: 0..version]]
    /\ pc \in [Operators -> Steps]
    /\ missed \in [Operators -> 0..version]
    /\ read \in [Operators -> 0..version]
    /\ built \in [Operators -> Keys \cup {NoKey}]
    /\ KeyHeldWhileUsed
    /\ upsets \in 0..MaxUpsets

\* The inductive form of the next property.  Whoever does not know the secret
\* (its cache misses it, or its call is past the lookup that missed it) looked
\* before the present secret was created.
UnawareOfLaterSecret ==
    secret # NoKey =>
        \A o \in Operators :
            /\ ~cache[o].found => born > cache[o].version
            /\ pc[o] # "get" => born > missed[o]

\* "already exists, skipping reconciliation": a secret that was on the API server
\* when an operator's lookup was answered (as of the version its cache had) is
\* never written by the call that lookup belongs to, whatever other operators,
\* users, lagging caches and restarts do.  Only a secret created after the
\* lookup's version can be replaced.
OnlyUnseenReplaced ==
    [][\A o \in Operators : Update(o) => born > missed[o]]_vars

\* The operators settle on one key: however their calls interleave, eventually
\* the secret exists and is never rewritten again.  (Two operators with lagging
\* caches may replace each other's key, but only finitely often.)
KeySettles == <>[](secret # NoKey) /\ <>[][UNCHANGED secret]_vars

\* "if the secret already exists, we don't need to reconcile it"
\* (AdminSecretReconciler.Reconcile): a secret that exists keeps its key until
\* somebody deletes it.  Refuted: CreateOrUpdate looks again and updates a secret
\* that was created after the first lookup.
ExistingSecretIsKept ==
    [][secret # NoKey /\ secret' # NoKey => secret' = secret]_vars

\* With one operator, lookups that see the API server's state and no user who
\* creates the secret, the reconciler is a write-once secret: generated when it is
\* missing, and then kept until somebody deletes it.
Abstract == INSTANCE WriteOnceSecret
WriteOnce == Abstract!Spec

=============================================================================
