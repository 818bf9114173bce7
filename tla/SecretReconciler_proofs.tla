---------------------- MODULE SecretReconciler_proofs ----------------------
(***************************************************************************)
(* Proofs about SecretReconciler, for any set of operators and keys, any   *)
(* bound on upsets, and whether or not caches lag or users create secrets. *)
(***************************************************************************)
EXTENDS SecretReconciler, TLAPS

-----------------------------------------------------------------------------
\* One step of the specification, split into its actions.
LEMMA NextCases ==
    ASSUME Next
    PROVE  \/ \E o \in Operators : \/ Leave(o) \/ Miss(o) \/ Build(o) \/ GetAgain(o)
                                   \/ Create(o) \/ AlreadyExists(o) \/ Update(o)
                                   \/ UpdateRejected(o) \/ Sync(o) \/ CallFails(o)
                                   \/ Restart(o)
           \/ UserCreates
           \/ UserDeletes
  BY DEF Next, Reconcile

\* What a lookup returns is typed, and no later than the API server's version.
LEMMA LookupType ==
    ASSUME TypeOK
    PROVE  /\ Present \in [found: BOOLEAN, version: 0..version]
           /\ \A o \in Operators : Lookup(o) \in [found: BOOLEAN, version: 0..version]
  <1>1. Present \in [found: BOOLEAN, version: 0..version]
    BY DEF TypeOK, Present
  <1>. QED
    BY <1>1 DEF TypeOK, Lookup

\* The bound on upsets is kept.
LEMMA UpsetType ==
    ASSUME TypeOK, Upset
    PROVE  upsets' \in 0..MaxUpsets
  BY SecretAssumption DEF TypeOK, Upset

\* When the API server's version grows, the versions the operators know stay
\* within bounds.
LEMMA VersionGrows ==
    ASSUME TypeOK, version' = version + 1, UNCHANGED <<cache, missed, read>>
    PROVE  /\ version' \in Nat
           /\ cache' \in [Operators -> [found: BOOLEAN, version: 0..version']]
           /\ missed' \in [Operators -> 0..version']
           /\ read' \in [Operators -> 0..version']
  <1>1. version' \in Nat /\ 0..version \subseteq 0..version'
    BY DEF TypeOK
  <1>2. [found: BOOLEAN, version: 0..version] \subseteq [found: BOOLEAN, version: 0..version']
    BY <1>1
  <1>3. cache' \in [Operators -> [found: BOOLEAN, version: 0..version']]
    BY <1>2 DEF TypeOK
  <1>4. missed' \in [Operators -> 0..version'] /\ read' \in [Operators -> 0..version']
    BY <1>1 DEF TypeOK
  <1>. QED
    BY <1>1, <1>3, <1>4

\* Type correctness of every reachable state: no operator is ahead of the server.
THEOREM TypeCorrect == Spec => []TypeOK
  <1>1. Init => TypeOK
    BY SecretAssumption DEF Init, TypeOK, Present, KeyHeldWhileUsed, Steps
  <1>2. TypeOK /\ [Next]_vars => TypeOK'
    <2>. SUFFICES ASSUME TypeOK, [Next]_vars
                  PROVE  TypeOK'
      OBVIOUS
    <2>. USE SecretAssumption
    <2>1. ASSUME NEW o \in Operators, Leave(o) PROVE TypeOK'
      BY <2>1 DEF Leave, Return, server, TypeOK, KeyHeldWhileUsed, Steps
    <2>2. ASSUME NEW o \in Operators, Miss(o) PROVE TypeOK'
      BY <2>2, LookupType DEF Miss, Goto, server, TypeOK, KeyHeldWhileUsed, Steps
    <2>3. ASSUME NEW o \in Operators, Build(o) PROVE TypeOK'
      <3>1. PICK k \in Keys : built' = [built EXCEPT ![o] = k]
        BY <2>3, Zenon DEF Build, Fresh
      <3>2. pc' = [pc EXCEPT ![o] = "get again"]
              /\ UNCHANGED <<secret, version, born, cache, missed, read, upsets>>
        BY <2>3, Zenon DEF Build, Goto, server
      <3>. QED
        BY <3>1, <3>2 DEF TypeOK, KeyHeldWhileUsed, Steps
    <2>4. ASSUME NEW o \in Operators, GetAgain(o) PROVE TypeOK'
      BY <2>4, LookupType DEF GetAgain, Goto, server, TypeOK, KeyHeldWhileUsed, Steps
    <2>5. ASSUME NEW o \in Operators, Create(o) PROVE TypeOK'
      <3>1. born' \in 0..version' /\ secret' \in Keys \cup {NoKey}
        BY <2>5 DEF Create, TypeOK
      <3>. QED
        BY <2>5, <3>1, VersionGrows DEF Create, Return, TypeOK, KeyHeldWhileUsed, Steps
    <2>6. ASSUME NEW o \in Operators, AlreadyExists(o) PROVE TypeOK'
      BY <2>6 DEF AlreadyExists, Return, server, TypeOK, KeyHeldWhileUsed, Steps
    <2>7. ASSUME NEW o \in Operators, Update(o) PROVE TypeOK'
      <3>1. born' \in 0..version' /\ secret' \in Keys \cup {NoKey}
        BY <2>7 DEF Update, TypeOK
      <3>. QED
        BY <2>7, <3>1, VersionGrows DEF Update, Return, TypeOK, KeyHeldWhileUsed, Steps
    <2>8. ASSUME NEW o \in Operators, UpdateRejected(o) PROVE TypeOK'
      BY <2>8 DEF UpdateRejected, Return, server, TypeOK, KeyHeldWhileUsed, Steps
    <2>9. ASSUME NEW o \in Operators, Sync(o) PROVE TypeOK'
      <3>1. cache' \in [Operators -> [found: BOOLEAN, version: 0..version]]
        BY <2>9, LookupType DEF Sync, TypeOK
      <3>. QED
        BY <2>9, <3>1 DEF Sync, server, KeyHeldWhileUsed, TypeOK
    <2>10. ASSUME NEW o \in Operators, CallFails(o) PROVE TypeOK'
      BY <2>10, UpsetType DEF CallFails, Return, server, TypeOK, KeyHeldWhileUsed, Steps
    <2>11. ASSUME NEW o \in Operators, Restart(o) PROVE TypeOK'
      <3>1. cache' \in [Operators -> [found: BOOLEAN, version: 0..version]]
        BY <2>11, LookupType DEF Restart, TypeOK
      <3>. QED
        BY <2>11, <3>1, UpsetType DEF Restart, Return, server, TypeOK, KeyHeldWhileUsed, Steps
    <2>12. CASE UserCreates
      <3>1. born' \in 0..version' /\ secret' \in Keys \cup {NoKey}
        BY <2>12 DEF UserCreates, Fresh, TypeOK
      <3>. QED
        BY <2>12, <3>1, VersionGrows, UpsetType DEF UserCreates, KeyHeldWhileUsed, TypeOK
    <2>13. CASE UserDeletes
      <3>1. born' \in 0..version' /\ secret' \in Keys \cup {NoKey}
        BY <2>13 DEF UserDeletes, TypeOK
      <3>. QED
        BY <2>13, <3>1, VersionGrows, UpsetType DEF UserDeletes, KeyHeldWhileUsed, TypeOK
    <2>14. CASE UNCHANGED vars
      BY <2>14 DEF vars, TypeOK, KeyHeldWhileUsed, Steps
    <2>. QED
      BY <2>1, <2>2, <2>3, <2>4, <2>5, <2>6, <2>7, <2>8, <2>9, <2>10, <2>11,
         <2>12, <2>13, <2>14, NextCases
  <1>. QED
    BY <1>1, <1>2, PTL DEF Spec

-----------------------------------------------------------------------------
(***************************************************************************)
(* The safety of lookups.  The invariant speaks of caches as well as of    *)
(* calls in flight: a call takes its version from the cache, and a secret  *)
(* created at a new version is later than all versions known so far.       *)
(***************************************************************************)

\* A lookup that misses a secret which exists is older than that secret.
LEMMA MissedIsOlder ==
    ASSUME UnawareOfLaterSecret, NEW o \in Operators, ~Lookup(o).found, secret # NoKey
    PROVE  born > Lookup(o).version
  BY DEF UnawareOfLaterSecret, Lookup, Present

\* A secret created now is later than every version an operator knows.
LEMMA NewSecretIsLater ==
    ASSUME TypeOK, born' = version + 1, UNCHANGED <<cache, missed>>
    PROVE  \A o \in Operators : born' > cache'[o].version /\ born' > missed'[o]
  BY DEF TypeOK

\* Every operator that does not know the secret looked before it was created:
\* in every reachable state, for any number of operators and any cache lag.
THEOREM UnawareInvariant == Spec => []UnawareOfLaterSecret
  <1>1. Init => UnawareOfLaterSecret
    <2>. SUFFICES ASSUME Init, secret # NoKey, NEW o \in Operators
                  PROVE  cache[o].found /\ pc[o] = "get"
      BY DEF UnawareOfLaterSecret
    <2>1. cache[o] = [found |-> secret # NoKey, version |-> version] /\ pc[o] = "get"
      BY DEF Init, Present
    <2>2. cache[o].found = (secret # NoKey)
      BY <2>1
    <2>. QED
      BY <2>1, <2>2, Zenon
  <1>2. TypeOK /\ UnawareOfLaterSecret /\ [Next]_vars => UnawareOfLaterSecret'
    <2>. SUFFICES ASSUME TypeOK, UnawareOfLaterSecret, [Next]_vars
                  PROVE  UnawareOfLaterSecret'
      OBVIOUS
    <2>1. ASSUME NEW o \in Operators, Leave(o) PROVE UnawareOfLaterSecret'
      BY <2>1 DEF Leave, Return, server, TypeOK, UnawareOfLaterSecret
    <2>2. ASSUME NEW o \in Operators, Miss(o) PROVE UnawareOfLaterSecret'
      BY <2>2, MissedIsOlder DEF Miss, Goto, server, TypeOK, UnawareOfLaterSecret
    <2>3. ASSUME NEW o \in Operators, Build(o) PROVE UnawareOfLaterSecret'
      BY <2>3 DEF Build, Goto, server, TypeOK, UnawareOfLaterSecret
    <2>4. ASSUME NEW o \in Operators, GetAgain(o) PROVE UnawareOfLaterSecret'
      BY <2>4 DEF GetAgain, Goto, server, TypeOK, UnawareOfLaterSecret
    <2>5. ASSUME NEW o \in Operators, Create(o) PROVE UnawareOfLaterSecret'
      BY <2>5, NewSecretIsLater DEF Create, UnawareOfLaterSecret
    <2>6. ASSUME NEW o \in Operators, AlreadyExists(o) PROVE UnawareOfLaterSecret'
      BY <2>6 DEF AlreadyExists, Return, server, TypeOK, UnawareOfLaterSecret
    <2>7. ASSUME NEW o \in Operators, Update(o) PROVE UnawareOfLaterSecret'
      BY <2>7 DEF Update, Return, TypeOK, UnawareOfLaterSecret
    <2>8. ASSUME NEW o \in Operators, UpdateRejected(o) PROVE UnawareOfLaterSecret'
      BY <2>8 DEF UpdateRejected, Return, server, TypeOK, UnawareOfLaterSecret
    <2>9. ASSUME NEW o \in Operators, Sync(o) PROVE UnawareOfLaterSecret'
      BY <2>9 DEF Sync, Present, server, TypeOK, UnawareOfLaterSecret
    <2>10. ASSUME NEW o \in Operators, CallFails(o) PROVE UnawareOfLaterSecret'
      BY <2>10 DEF CallFails, Return, server, TypeOK, UnawareOfLaterSecret
    <2>11. ASSUME NEW o \in Operators, Restart(o) PROVE UnawareOfLaterSecret'
      BY <2>11 DEF Restart, Return, Present, server, TypeOK, UnawareOfLaterSecret
    <2>12. CASE UserCreates
      BY <2>12, NewSecretIsLater DEF UserCreates, UnawareOfLaterSecret
    <2>13. CASE UserDeletes
      BY <2>13 DEF UserDeletes, UnawareOfLaterSecret
    <2>14. CASE UNCHANGED vars
      BY <2>14 DEF vars, UnawareOfLaterSecret
    <2>. QED
      BY <2>1, <2>2, <2>3, <2>4, <2>5, <2>6, <2>7, <2>8, <2>9, <2>10, <2>11,
         <2>12, <2>13, <2>14, NextCases
  <1>. QED
    BY <1>1, <1>2, TypeCorrect, PTL DEF Spec

\* No call replaces a secret that its own lookup could have seen.
THEOREM OnlyUnseenReplacedHolds == Spec => OnlyUnseenReplaced
  <1>1. UnawareOfLaterSecret /\ [Next]_vars
          => [\A o \in Operators : Update(o) => born > missed[o]]_vars
    BY DEF UnawareOfLaterSecret, Update
  <1>. QED
    BY <1>1, UnawareInvariant, PTL DEF Spec, OnlyUnseenReplaced

-----------------------------------------------------------------------------
(***************************************************************************)
(* Refinement.  While the only operator is past its lookup nobody else     *)
(* creates the secret, so CreateOrUpdate never gets to update it.          *)
(***************************************************************************)

\* The circumstances under which the promise is kept.
Alone == /\ \A p, q \in Operators : p = q
         /\ ~CacheMayLag
         /\ ~UserMayCreate

\* A call past the lookup still misses the secret, never updates, and creates
\* with a key.
AloneInv ==
    \A o \in Operators :
        /\ pc[o] # "get" => AutoGenerate /\ secret = NoKey
        /\ pc[o] # "update"
        /\ pc[o] \in {"get again", "create"} => built[o] \in Keys

\* A lone operator's call in flight always finds the secret still missing.
LEMMA AloneInvariant ==
    ASSUME Alone
    PROVE  Spec => []AloneInv
  <1>1. Init => AloneInv
    BY DEF Init, AloneInv
  <1>2. TypeOK /\ AloneInv /\ [Next]_vars => AloneInv'
    <2>. SUFFICES ASSUME TypeOK, AloneInv, [Next]_vars
                  PROVE  AloneInv'
      OBVIOUS
    <2>. USE DEF Alone, AloneInv, TypeOK
    <2>1. ASSUME NEW o \in Operators, Leave(o) PROVE AloneInv'
      BY <2>1 DEF Leave, Return, server
    <2>2. ASSUME NEW o \in Operators, Miss(o) PROVE AloneInv'
      BY <2>2 DEF Miss, Goto, Lookup, Present, server
    <2>3. ASSUME NEW o \in Operators, Build(o) PROVE AloneInv'
      BY <2>3 DEF Build, Goto, Fresh, server
    <2>4. ASSUME NEW o \in Operators, GetAgain(o) PROVE AloneInv'
      BY <2>4 DEF GetAgain, Goto, Lookup, Present, server
    <2>5. ASSUME NEW o \in Operators, Create(o) PROVE AloneInv'
      BY <2>5 DEF Create, Return
    <2>6. ASSUME NEW o \in Operators, AlreadyExists(o) PROVE AloneInv'
      BY <2>6 DEF AlreadyExists, Return, server
    <2>7. ASSUME NEW o \in Operators, Update(o) PROVE AloneInv'
      BY <2>7 DEF Update
    <2>8. ASSUME NEW o \in Operators, UpdateRejected(o) PROVE AloneInv'
      BY <2>8 DEF UpdateRejected
    <2>9. ASSUME NEW o \in Operators, Sync(o) PROVE AloneInv'
      BY <2>9 DEF Sync, server
    <2>10. ASSUME NEW o \in Operators, CallFails(o) PROVE AloneInv'
      BY <2>10 DEF CallFails, Return, server
    <2>11. ASSUME NEW o \in Operators, Restart(o) PROVE AloneInv'
      BY <2>11 DEF Restart, Return, server
    <2>12. CASE UserCreates
      BY <2>12 DEF UserCreates
    <2>13. CASE UserDeletes
      BY <2>13 DEF UserDeletes
    <2>14. CASE UNCHANGED vars
      BY <2>14 DEF vars
    <2>. QED
      BY <2>1, <2>2, <2>3, <2>4, <2>5, <2>6, <2>7, <2>8, <2>9, <2>10, <2>11,
         <2>12, <2>13, <2>14, NextCases
  <1>. QED
    BY <1>1, <1>2, TypeCorrect, PTL DEF Spec

\* A lone operator with lookups that see the API server's state implements the
\* write-once secret (its safety part): a key is generated only when the secret is
\* missing, and stays until it is deleted.
THEOREM ImplementsWriteOnce ==
    ASSUME Alone
    PROVE  Spec => Abstract!Safe
  <1>1. Init => Abstract!Init
    BY DEF Init, Abstract!Init
  <1>2. AloneInv /\ [Next]_vars => [Abstract!Next]_secret
    <2>. SUFFICES ASSUME AloneInv, [Next]_vars, secret' # secret
                  PROVE  Abstract!Next
      OBVIOUS
    <2>1. ASSUME NEW o \in Operators, Create(o) PROVE Abstract!Next
      BY <2>1 DEF Create, AloneInv, Abstract!Next, Abstract!Generate
    <2>2. ASSUME NEW o \in Operators, Update(o) PROVE FALSE
      BY <2>2 DEF Update, AloneInv
    <2>3. CASE UserCreates
      BY <2>3 DEF UserCreates, Alone
    <2>4. CASE UserDeletes
      BY <2>4 DEF UserDeletes, Abstract!Next, Abstract!Remove
    <2>5. ASSUME NEW o \in Operators,
                 \/ Leave(o) \/ Miss(o) \/ Build(o) \/ GetAgain(o) \/ AlreadyExists(o)
                 \/ UpdateRejected(o) \/ Sync(o) \/ CallFails(o) \/ Restart(o)
          PROVE  FALSE
      BY <2>5 DEF Leave, Miss, Build, GetAgain, AlreadyExists, UpdateRejected, Sync,
                  CallFails, Restart, server
    <2>. QED
      BY <2>1, <2>2, <2>3, <2>4, <2>5, NextCases DEF vars
  <1>. QED
    BY <1>1, <1>2, AloneInvariant, PTL DEF Spec, Abstract!Safe

=============================================================================
