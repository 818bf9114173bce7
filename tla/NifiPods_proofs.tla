--------------------------- MODULE NifiPods_proofs ---------------------------
(***************************************************************************)
(* The proof that NiFi never runs without its configuration and the        *)
(* contents of its git repositories.  The order of the init containers is  *)
(* what carries it: repository i is in its volume once container i is      *)
(* done, and the volumes live as long as the pod.  Also that a             *)
(* StatefulSet exists only together with what its pods need to start, and  *)
(* what the template of a pod tells about the ConfigMap it was built with. *)
(***************************************************************************)
EXTENDS NifiPods, NifiOperator_proofs

PodFields == {"template", "done", "running", "config", "content"}

\* The git-sync part of a template: container i serves repository i.
GitOk(git) ==
    /\ Len(git.inits) \in Nat
    /\ DOMAIN git.inits = 1..Len(git.inits)
    /\ DOMAIN git.sidecars = 1..Len(git.inits)
    /\ git.mounts = 1..Len(git.inits) /\ git.volumes = 1..Len(git.inits)
    /\ \A i \in 1..Len(git.inits) :
            git.inits[i].mount = i /\ git.sidecars[i].mount = i /\ i \in Repositories

StsOk(sts) == "git" \in DOMAIN sts /\ GitOk(sts.git)

\* A pod: what the init containers that are done have left behind.
PodOk(p) ==
    /\ DOMAIN p = PodFields
    /\ GitOk(p.template.git)
    /\ DOMAIN p.content = 1..Len(p.template.git.inits)
    /\ p.done \in 0..(Len(p.template.git.inits) + 1)
    /\ \A i \in DOMAIN p.content : i < p.done => p.content[i] > 0
    /\ p.done > 0 => p.config # None
    /\ p.running => p.done = Len(p.template.git.inits) + 1

Templates == \A g \in RoleGroups :
    objects[<<"StatefulSet", g>>] # None => StsOk(objects[<<"StatefulSet", g>>].body)

\* The inductive invariant.
ContentInv ==
    /\ DOMAIN pods = RoleGroups
    /\ heads \in [Repositories -> Nat \ {0}]
    /\ \A g \in RoleGroups : pods[g] # None => PodOk(pods[g])
    /\ Templates

-----------------------------------------------------------------------------
\* A list built from 1 to n has n elements.
LEMMA BuiltLength == ASSUME NEW n \in Nat, NEW f(_) PROVE Len([i \in 1..n |-> f(i)]) = n
  OBVIOUS

\* What NewGitSyncResources returns is well formed, for any order of the options.
LEMMA GitResourcesOk ==
    ASSUME NEW syncs \in Seq(GitSyncSpec), NEW first, NEW second,
           1..Len(syncs) \subseteq Repositories
    PROVE  GitOk(GitSyncResources(syncs, first, second))
  <1>. DEFINE git == GitSyncResources(syncs, first, second)
              n   == Len(syncs)
  <1>1. n \in Nat /\ DOMAIN syncs = 1..n
    OBVIOUS
  <1>2. /\ git.inits = [i \in 1..n |-> buildGitSyncContainer(syncs[i], i, "true", first[i])]
        /\ git.sidecars = [i \in 1..n |-> buildGitSyncContainer(syncs[i], i, "false", second[i])]
        /\ git.volumes = 1..n /\ git.mounts = 1..n
    BY <1>1 DEF GitSyncResources
  <1>3. \A gs, i, m, o : buildGitSyncContainer(gs, i, m, o).mount = i
    BY DEF buildGitSyncContainer
  <1>4. Len(git.inits) = n
    BY <1>1, <1>2, BuiltLength
  <1>. HIDE DEF git, n
  <1>5. 1..n \subseteq Repositories
    BY DEF n
  <1>6. GitOk(git)
    BY <1>1, <1>2, <1>3, <1>4, <1>5 DEF GitOk
  <1>. QED
    BY <1>6 DEF git

\* Hence so is every git-sync part a reconciler can hold.
LEMMA GitViewsOk ==
    ASSUME NEW git \in GitViews
    PROVE  GitOk(git)
  <1>1. CASE git = NoGitSync
    <2>1. << >> \in Seq(GitSyncSpec) /\ 1..Len(<< >>) \subseteq Repositories
      OBVIOUS
    <2>. QED
      BY <1>1, <2>1, GitResourcesOk, Zenon DEF NoGitSync
  <1>2. ASSUME NEW s \in Specs, git \in NewGitSyncResources(s.gitSync) PROVE GitOk(git)
    <2>1. s.gitSync \in Seq(GitSyncSpec)
      BY OperatorAssumption DEF NifiClusterSpec
    <2>2. 1..Len(s.gitSync) \subseteq Repositories
      BY PodsAssumption
    <2>3. PICK first, second : git = GitSyncResources(s.gitSync, first, second)
      BY <1>2 DEF NewGitSyncResources
    <2>. QED
      BY <2>1, <2>2, <2>3, GitResourcesOk
  <1>. QED
    BY <1>1, <1>2 DEF GitViews

\* The operator writes StatefulSets with a well-formed git-sync part.
LEMMA TemplatesStep ==
    ASSUME TypeOK, Templates, [Next]_vars
    PROVE  Templates'
  <1>. SUFFICES ASSUME NEW g \in RoleGroups, objects'[<<"StatefulSet", g>>] # None
                PROVE  StsOk(objects'[<<"StatefulSet", g>>].body)
    BY DEF Templates
  <1>1. <<"StatefulSet", g>> \in Key
    BY Keys DEF GroupKinds
  <1>2. CASE objects'[<<"StatefulSet", g>>] = objects[<<"StatefulSet", g>>]
    BY <1>2 DEF Templates
  <1>3. CASE /\ WriteResource /\ Current.key = <<"StatefulSet", g>>
             /\ objects'[<<"StatefulSet", g>>] = Desired
    <2>1. Current \in Entry
      BY <1>3, RunningType DEF WriteResource
    <2>2. Current.key[1] = "StatefulSet"
      BY <1>3
    <2>3. Desired.body = Body(Current, inst.spec, classes)
      BY <2>2 DEF Desired, DesiredObject, IsSecret, SecretKinds
    <2>4. Body(Current, inst.spec, classes)
            = NifiStatefulSet(inst.spec, Current.key[2], Current.auth, Current.git)
      BY <2>2 DEF Body
    <2>5. GitOk(Current.git)
      BY <2>1, GitViewsOk DEF Entry
    <2>6. \A x, y, z, w : /\ "git" \in DOMAIN NifiStatefulSet(x, y, z, w)
                          /\ NifiStatefulSet(x, y, z, w).git = w
      BY DEF NifiStatefulSet
    <2>. QED
      BY <1>3, <2>3, <2>4, <2>5, <2>6 DEF StsOk
  <1>4. <<"StatefulSet", g>> # SensitiveKey /\ <<"StatefulSet", g>> # AdminSecret
    BY DEF SensitiveKey, AdminSecret, KeyOf
  <1>. QED
    BY <1>1, <1>2, <1>3, <1>4, ObjectStep, Zenon

-----------------------------------------------------------------------------
\* A new pod has everything to do and an empty volume for each repository.
LEMMA NewPodOk ==
    ASSUME NEW sts, StsOk(sts)
    PROVE  PodOk(NewPod(sts))
  <1>1. Template(sts).git = sts.git
    BY DEF Template, StsOk
  <1>. DEFINE p == NewPod(sts)
  <1>2. /\ DOMAIN p = PodFields /\ p.template.git = sts.git /\ p.done = 0 /\ p.running = FALSE
        /\ p.content = [i \in sts.git.volumes |-> 0]
    BY <1>1 DEF NewPod, PodFields
  <1>. HIDE DEF p
  <1>3. PodOk(p)
    BY <1>2 DEF PodOk, StsOk, GitOk
  <1>. QED
    BY <1>3 DEF p

\* The prepare container leaves the configuration behind.
LEMMA PreparedOk ==
    ASSUME NEW p, PodOk(p), p.done = 0, NEW c, c # None, NEW q,
           q = [p EXCEPT !.done = 1, !.config = c]
    PROVE  PodOk(q)
  <1>1. /\ DOMAIN q = PodFields /\ q.template = p.template /\ q.done = 1
        /\ q.config = c /\ q.content = p.content /\ q.running = p.running
    BY DEF PodOk, PodFields
  <1>2. ~p.running
    BY DEF PodOk, GitOk
  <1>3. 1 \in 0..(Len(p.template.git.inits) + 1)
    BY DEF PodOk, GitOk
  <1>4. \A i \in DOMAIN p.content : ~(i < 1)
    BY DEF PodOk, GitOk
  <1>. QED
    BY <1>1, <1>2, <1>3, <1>4, Zenon DEF PodOk

\* An init container of git-sync fills the volume of its repository.
LEMMA FetchedFirstOk ==
    ASSUME NEW p, PodOk(p), p.done \in DOMAIN p.template.git.inits,
           NEW r \in Nat \ {0}, NEW d, d = p.done \/ d = p.done + 1, NEW q,
           q = [p EXCEPT !.content = [p.content EXCEPT ![p.done] = r], !.done = d]
    PROVE  PodOk(q)
  <1>. DEFINE n == Len(p.template.git.inits)
  <1>0. n \in Nat /\ p.done \in 1..n
    BY DEF PodOk, GitOk
  <1>1. /\ n \in Nat /\ p.done \in 1..n /\ d \in 1..(n+1)
        /\ DOMAIN p.content = 1..n /\ p.config # None
    BY <1>0 DEF PodOk
  <1>5. ~p.running
    <2>1. p.done # n + 1
      BY <1>0
    <2>. QED
      BY <2>1 DEF PodOk
  <1>2. /\ DOMAIN q = PodFields /\ q.template = p.template /\ q.done = d
        /\ q.config = p.config /\ q.running = p.running
        /\ q.content = [p.content EXCEPT ![p.done] = r]
    BY DEF PodOk, PodFields
  <1>3. DOMAIN q.content = 1..n
    BY <1>1, <1>2
  <1>4. \A i \in 1..n : i < d => q.content[i] > 0
    <2>. SUFFICES ASSUME NEW i \in 1..n, i < d PROVE q.content[i] > 0
      OBVIOUS
    <2>1. CASE i = p.done
      BY <1>1, <1>2, <2>1
    <2>2. CASE i # p.done
      <3>1. i < p.done
        BY <1>1, <2>2
      <3>2. p.content[i] > 0
        BY <1>1, <3>1 DEF PodOk
      <3>. QED
        BY <1>1, <1>2, <2>2, <3>2
    <2>. QED
      BY <2>1, <2>2
  <1>. QED
    BY <1>1, <1>2, <1>3, <1>4, <1>5 DEF PodOk

\* A sidecar overwrites a volume with another revision.
LEMMA FetchedOk ==
    ASSUME NEW p, PodOk(p), NEW i \in DOMAIN p.content, NEW r \in Nat \ {0}, NEW q,
           q = [p EXCEPT !.content = [p.content EXCEPT ![i] = r]]
    PROVE  PodOk(q)
  <1>1. /\ DOMAIN q = PodFields /\ q.template = p.template /\ q.done = p.done
        /\ q.config = p.config /\ q.running = p.running
        /\ q.content = [p.content EXCEPT ![i] = r]
    BY DEF PodOk, PodFields
  <1>2. /\ DOMAIN q.content = DOMAIN p.content
        /\ \A j \in DOMAIN p.content : q.content[j] = r \/ q.content[j] = p.content[j]
    BY <1>1
  <1>3. \A j \in DOMAIN p.content : j < p.done => p.content[j] > 0
    BY DEF PodOk
  <1>4. \A j \in DOMAIN q.content : j < q.done => q.content[j] > 0
    BY <1>1, <1>2, <1>3
  <1>5. /\ GitOk(q.template.git) /\ DOMAIN q.content = 1..Len(q.template.git.inits)
        /\ q.done \in 0..(Len(q.template.git.inits) + 1)
    BY <1>1, <1>2 DEF PodOk
  <1>6. q.done > 0 => q.config # None
    BY <1>1 DEF PodOk
  <1>7. q.running => q.done = Len(q.template.git.inits) + 1
    BY <1>1 DEF PodOk
  <1>. QED
    BY <1>1, <1>4, <1>5, <1>6, <1>7 DEF PodOk

\* NiFi is started or ends.
LEMMA SwitchedOk ==
    ASSUME NEW p, PodOk(p), NEW b \in BOOLEAN,
           b => p.done = Len(p.template.git.inits) + 1,
           NEW q, q = [p EXCEPT !.running = b]
    PROVE  PodOk(q)
  <1>1. /\ DOMAIN q = PodFields /\ q.template = p.template /\ q.done = p.done
        /\ q.config = p.config /\ q.content = p.content /\ q.running = b
    BY DEF PodOk, PodFields
  <1>. QED
    BY <1>1 DEF PodOk

-----------------------------------------------------------------------------
\* A step of the kubelet for one pod, or a disturbance of one.
LEMMA PodStepOk ==
    ASSUME ContentInv, NEW g \in RoleGroups,
           \/ Kubelet(g) \/ NifiCrashes(g) \/ Evict(g)
           \/ \E i \in Repositories : Fetch(g, i)
    PROVE  /\ DOMAIN pods' = RoleGroups
           /\ \A h \in RoleGroups : pods'[h] # None => PodOk(pods'[h])
  <1>1. /\ DOMAIN pods = RoleGroups
        /\ \A h \in RoleGroups : pods[h] # None => PodOk(pods[h])
        /\ \A j \in Repositories : heads[j] \in Nat \ {0}
    BY DEF ContentInv
  <1>2. ASSUME NEW q, q # None => PodOk(q), pods' = [pods EXCEPT ![g] = q]
        PROVE  /\ DOMAIN pods' = RoleGroups
               /\ \A h \in RoleGroups : pods'[h] # None => PodOk(pods'[h])
    BY <1>1, <1>2
  <1>3. CASE CreatePod(g)
    <2>1. StsOk(StatefulSetOf(g).body)
      BY <1>3 DEF CreatePod, WantsPods, StatefulSetOf, ContentInv, Templates
    <2>2. PodOk(NewPod(StatefulSetOf(g).body))
      BY <2>1, NewPodOk
    <2>. QED
      BY <1>2, <1>3, <2>2, Zenon DEF CreatePod
  <1>4. CASE ReplacePod(g) \/ Evict(g)
    BY <1>2, <1>4 DEF ReplacePod, Evict
  <1>5. CASE Prepare(g)
    <2>. DEFINE cm == ConfigMapOf(g).body
                t == pods[g].template
                c == [from |-> cm, unset |-> TemplateVariables(cm) \ (t.env \cup t.prepare.exports)]
                q == [pods[g] EXCEPT !.done = 1, !.config = c]
    <2>1. pods[g] # None /\ pods[g].done = 0 /\ PodOk(pods[g])
      BY <1>1, <1>5 DEF Prepare
    <2>2. c # None
      BY DEF None
    <2>3. pods' = [pods EXCEPT ![g].done = 1, ![g].config = c]
      BY <1>5 DEF Prepare
    <2>. HIDE DEF c
    <2>4. pods' = [pods EXCEPT ![g] = q]
      BY <2>1, <2>3, <1>1, Zenon
    <2>5. PodOk(q)
      BY <2>1, <2>2, PreparedOk, Zenon
    <2>. HIDE DEF q
    <2>. QED
      BY <1>2, <2>4, <2>5, Zenon
  <1>6. CASE FetchFirst(g)
    <2>. DEFINE p == pods[g]
                j == pods[g].done
                d == IF OneTimeMode(p.template.git.inits[j].args) = "true"
                     THEN j + 1 ELSE j
                q == [p EXCEPT !.content = [p.content EXCEPT ![j] = heads[j]], !.done = d]
    <2>1. PodOk(p) /\ j \in DOMAIN p.template.git.inits
      BY <1>1, <1>6, Zenon DEF FetchFirst
    <2>2. p.template.git.inits[j].mount = j /\ j \in Repositories
      BY <2>1, Zenon DEF PodOk, GitOk
    <2>3. pods' = [pods EXCEPT ![g].content[j] = heads[j], ![g].done = d]
      BY <1>6, <2>2, Zenon DEF FetchFirst
    <2>4. d = j \/ d = j + 1
      OBVIOUS
    <2>5. heads[j] \in Nat \ {0}
      BY <1>1, <2>2
    <2>. HIDE DEF d
    <2>6. PodOk(q)
      BY <2>1, <2>4, <2>5, FetchedFirstOk, Zenon
    <2>7. pods' = [pods EXCEPT ![g] = q]
      BY <2>1, <2>3, <1>1, Zenon DEF PodOk, PodFields
    <2>. HIDE DEF q
    <2>. QED
      BY <1>2, <2>6, <2>7, Zenon
  <1>7. CASE StartNifi(g)
    <2>. DEFINE q == [pods[g] EXCEPT !.running = TRUE]
    <2>1. PodOk(pods[g]) /\ pods[g].done = Len(pods[g].template.git.inits) + 1
            /\ pods' = [pods EXCEPT ![g].running = TRUE]
      BY <1>1, <1>7 DEF StartNifi, Initialised
    <2>2. PodOk(q)
      BY <2>1, SwitchedOk, Zenon
    <2>3. pods' = [pods EXCEPT ![g] = q]
      BY <2>1
    <2>. HIDE DEF q
    <2>. QED
      BY <1>2, <2>2, <2>3
  <1>8. CASE NifiCrashes(g)
    <2>. DEFINE q == [pods[g] EXCEPT !.running = FALSE]
    <2>1. PodOk(pods[g]) /\ pods' = [pods EXCEPT ![g].running = FALSE]
      BY <1>1, <1>8 DEF NifiCrashes
    <2>2. PodOk(q)
      BY <2>1, SwitchedOk, Zenon
    <2>3. pods' = [pods EXCEPT ![g] = q]
      BY <2>1
    <2>. HIDE DEF q
    <2>. QED
      BY <1>2, <2>2, <2>3
  <1>9. CASE \E i \in Repositories : Fetch(g, i)
    <2>0. PICK i \in Repositories : Fetch(g, i)
      BY <1>9
    <2>. DEFINE p == pods[g]
                q == [p EXCEPT !.content = [p.content EXCEPT ![i] = heads[i]]]
    <2>1. PodOk(p) /\ i \in DOMAIN p.template.git.sidecars
      BY <1>1, <2>0, Zenon DEF Fetch, Initialised
    <2>2. p.template.git.sidecars[i].mount = i /\ i \in DOMAIN p.content
      BY <2>1 DEF PodOk, GitOk
    <2>3. pods' = [pods EXCEPT ![g].content[i] = heads[i]]
      BY <2>0, <2>2, Zenon DEF Fetch
    <2>4. PodOk(q)
      BY <1>1, <2>1, <2>2, FetchedOk
    <2>5. pods' = [pods EXCEPT ![g] = q]
      BY <2>1, <2>3, <1>1
    <2>. HIDE DEF q
    <2>. QED
      BY <1>2, <2>4, <2>5, Zenon
  <1>. QED
    BY <1>3, <1>4, <1>5, <1>6, <1>7, <1>8, <1>9 DEF Kubelet

\* The inductive step.
LEMMA ContentInvStep ==
    ASSUME TypeOK, ContentInv, [PodsNext]_allVars
    PROVE  TypeOK' /\ ContentInv'
  <1>1. CASE Next /\ UNCHANGED podVars
    <2>1. TypeOK' /\ Templates'
      BY <1>1, TypeStep, TemplatesStep DEF ContentInv
    <2>. QED
      BY <1>1, <2>1 DEF podVars, ContentInv
  <1>2. ASSUME UNCHANGED operatorVars, budget' \in Nat PROVE TypeOK' /\ Templates'
    BY <1>2 DEF operatorVars, local, TypeOK, ContentInv, Templates
  <1>3. CASE \/ \E g \in RoleGroups : Kubelet(g) \/ NifiCrashes(g) \/ Evict(g)
             \/ \E g \in RoleGroups, i \in Repositories : Fetch(g, i)
    <2>1. /\ DOMAIN pods' = RoleGroups
          /\ \A h \in RoleGroups : pods'[h] # None => PodOk(pods'[h])
      BY <1>3, PodStepOk
    <2>2. UNCHANGED operatorVars /\ UNCHANGED heads /\ budget' \in Nat
      BY <1>3, DisturbType, Zenon
         DEF Kubelet, CreatePod, ReplacePod, Prepare, FetchFirst, StartNifi,
              Fetch, NifiCrashes, Evict, PodStep, vars, operatorVars, TypeOK
    <2>. QED
      BY <1>2, <2>1, <2>2 DEF ContentInv
  <1>4. ASSUME NEW i \in Repositories, Push(i) PROVE TypeOK' /\ ContentInv'
    <2>1. UNCHANGED operatorVars /\ UNCHANGED pods /\ budget' \in Nat
      BY <1>4, DisturbType DEF Push
    <2>2. heads' \in [Repositories -> Nat \ {0}]
      BY <1>4 DEF Push, ContentInv
    <2>. QED
      BY <1>2, <2>1, <2>2 DEF ContentInv
  <1>5. CASE UNCHANGED allVars
    <2>1. UNCHANGED operatorVars /\ UNCHANGED podVars /\ budget' \in Nat
      BY <1>5 DEF allVars, vars, operatorVars, TypeOK
    <2>. QED
      BY <1>2, <2>1 DEF podVars, ContentInv
  <1>. QED
    BY <1>1, <1>3, <1>4, <1>5 DEF PodsNext

\* Hence it holds in every reachable state.
LEMMA ContentAlways == PodsSpec => [](TypeOK /\ ContentInv)
  <1>1. PodsInit => TypeOK /\ ContentInv
    <2>. SUFFICES ASSUME PodsInit PROVE ContentInv
      BY TypeInit DEF PodsInit
    <2>1. \A g \in RoleGroups : objects[<<"StatefulSet", g>>] = None
      BY Keys, Zenon DEF PodsInit, Init, GroupKinds
    <2>. QED
      BY <2>1 DEF PodsInit, ContentInv, Templates
  <1>2. TypeOK /\ ContentInv /\ [PodsNext]_allVars => TypeOK' /\ ContentInv'
    BY ContentInvStep
  <1>. QED
    BY <1>1, <1>2, PTL DEF PodsSpec

\* For any role groups, specs, repositories, credentials and disturbances, NiFi never
\* runs before its configuration is rendered and every repository it mounts has been
\* fetched: what the init containers are for.
THEOREM ContentComesFirst == PodsSpec => []ContentBeforeNifi
  <1>1. ContentInv => ContentBeforeNifi
    <2>. SUFFICES ASSUME ContentInv, NEW g \in RoleGroups, pods[g] # None, pods[g].running
                  PROVE  /\ pods[g].config # None
                         /\ \A i \in pods[g].template.git.mounts : pods[g].content[i] > 0
      BY DEF ContentBeforeNifi
    <2>1. PodOk(pods[g])
      BY DEF ContentInv
    <2>2. Len(pods[g].template.git.inits) \in Nat
            /\ pods[g].template.git.mounts = DOMAIN pods[g].content
            /\ pods[g].done = Len(pods[g].template.git.inits) + 1
      BY <2>1 DEF PodOk, GitOk
    <2>3. DOMAIN pods[g].content = 1..Len(pods[g].template.git.inits)
      BY <2>1 DEF PodOk
    <2>4. pods[g].done > 0 /\ \A i \in DOMAIN pods[g].content : i < pods[g].done
      <3>1. \A n \in Nat : n + 1 > 0 /\ \A i \in 1..n : i < n + 1
        OBVIOUS
      <3>. QED
        BY <2>2, <2>3, <3>1, Zenon
    <2>. QED
      BY <2>1, <2>2, <2>4 DEF PodOk
  <1>. QED
    BY <1>1, ContentAlways, PTL

-----------------------------------------------------------------------------
(***************************************************************************)
(* The revisions in the volumes.  No volume is ahead of its repository, so *)
(* that fetching never goes back.                                          *)
(***************************************************************************)

\* What is in a volume is a revision of the repository that the volume is for.
RevisionInv ==
    \A g \in RoleGroups : pods[g] # None =>
        \A i \in DOMAIN pods[g].content :
            pods[g].content[i] \in Nat /\ pods[g].content[i] =< heads[i]

\* What a step may do to the volumes of a pod that is there afterwards.
LEMMA VolumeStep ==
    ASSUME ContentInv, [PodsNext]_allVars, NEW g \in RoleGroups, pods'[g] # None
    PROVE  \/ pods[g] # None /\ pods'[g].content = pods[g].content
           \/ pods[g] # None /\ \E i \in Repositories :
                 pods'[g].content = [pods[g].content EXCEPT ![i] = heads[i]]
           \/ pods[g] = None /\ \A i \in DOMAIN pods'[g].content : pods'[g].content[i] = 0
  <1>1. /\ DOMAIN pods = RoleGroups
        /\ \A h \in RoleGroups : pods[h] # None => PodOk(pods[h])
    BY DEF ContentInv
  <1>2. CASE pods' = pods
    BY <1>2
  <1>3. ASSUME NEW h \in RoleGroups, h # g, NEW q, pods' = [pods EXCEPT ![h] = q]
        PROVE  pods'[g] = pods[g]
    BY <1>1, <1>3
  <1>4. ASSUME NEW h \in RoleGroups, CreatePod(h)
        PROVE  \/ pods'[g] = pods[g]
               \/ pods[g] = None /\ \A i \in DOMAIN pods'[g].content : pods'[g].content[i] = 0
    <2>1. pods[h] = None /\ pods' = [pods EXCEPT ![h] = NewPod(StatefulSetOf(h).body)]
      BY <1>4 DEF CreatePod
    <2>2. \A sts : \A i \in DOMAIN NewPod(sts).content : NewPod(sts).content[i] = 0
      BY DEF NewPod
    <2>. QED
      BY <1>1, <2>1, <2>2
  <1>5. ASSUME NEW h \in RoleGroups, ReplacePod(h) \/ Evict(h)
        PROVE  pods'[g] = pods[g]
    BY <1>1, <1>5 DEF ReplacePod, Evict
  <1>6. ASSUME NEW h \in RoleGroups, Prepare(h) \/ StartNifi(h) \/ NifiCrashes(h)
        PROVE  pods[g] # None /\ pods'[g].content = pods[g].content
    <2>1. pods[h] # None
      BY <1>6 DEF Prepare, StartNifi, NifiCrashes, Initialised
    <2>2. "content" \in DOMAIN pods[h]
      BY <1>1, <2>1 DEF PodOk, PodFields
    <2>3. ASSUME Prepare(h) PROVE h = g => pods'[g].content = pods[g].content
      <3>1. PICK c : pods' = [pods EXCEPT ![h].done = 1, ![h].config = c]
        BY <2>3, Zenon DEF Prepare
      <3>. QED
        BY <1>1, <2>2, <3>1
    <2>4. ASSUME StartNifi(h) \/ NifiCrashes(h) PROVE h = g => pods'[g].content = pods[g].content
      <3>1. PICK b : pods' = [pods EXCEPT ![h].running = b]
        BY <2>4 DEF StartNifi, NifiCrashes
      <3>. QED
        BY <1>1, <2>2, <3>1
    <2>5. h # g => pods'[g] = pods[g]
      BY <1>1, <1>6 DEF Prepare, StartNifi, NifiCrashes
    <2>. QED
      BY <1>6, <2>1, <2>3, <2>4, <2>5
  <1>7. ASSUME NEW h \in RoleGroups, FetchFirst(h)
        PROVE  \/ pods'[g] = pods[g]
               \/ pods[g] # None /\ \E i \in Repositories :
                     pods'[g].content = [pods[g].content EXCEPT ![i] = heads[i]]
    <2>. DEFINE j == pods[h].done
    <2>1. pods[h] # None /\ PodOk(pods[h]) /\ j \in DOMAIN pods[h].template.git.inits
      BY <1>1, <1>7, Zenon DEF FetchFirst
    <2>2. pods[h].template.git.inits[j].mount = j /\ j \in Repositories
      BY <2>1, Zenon DEF PodOk, GitOk
    <2>3. PICK d : pods' = [pods EXCEPT ![h].content[j] = heads[j], ![h].done = d]
      BY <1>7, <2>2, Zenon DEF FetchFirst
    <2>4. "content" \in DOMAIN pods[h]
      BY <2>1 DEF PodOk, PodFields
    <2>. HIDE DEF j
    <2>5. h = g => pods'[g].content = [pods[g].content EXCEPT ![j] = heads[j]]
      BY <1>1, <2>3, <2>4
    <2>6. h # g => pods'[g] = pods[g]
      BY <1>1, <2>3
    <2>. QED
      BY <2>1, <2>2, <2>5, <2>6
  <1>8. ASSUME NEW h \in RoleGroups, NEW i \in Repositories, Fetch(h, i)
        PROVE  \/ pods'[g] = pods[g]
               \/ pods[g] # None /\ pods'[g].content = [pods[g].content EXCEPT ![i] = heads[i]]
    <2>1. pods[h] # None /\ PodOk(pods[h]) /\ i \in DOMAIN pods[h].template.git.sidecars
      BY <1>1, <1>8, Zenon DEF Fetch, Initialised
    <2>2. pods[h].template.git.sidecars[i].mount = i /\ "content" \in DOMAIN pods[h]
      BY <2>1 DEF PodOk, GitOk, PodFields
    <2>3. pods' = [pods EXCEPT ![h].content[i] = heads[i]]
      BY <1>8, <2>2 DEF Fetch
    <2>. QED
      BY <1>1, <2>1, <2>2, <2>3
  <1>9. CASE \/ Next /\ UNCHANGED podVars
             \/ \E i \in Repositories : Push(i)
             \/ UNCHANGED allVars
    BY <1>2, <1>9 DEF podVars, Push, allVars
  <1>. QED
    BY <1>4, <1>5, <1>6, <1>7, <1>8, <1>9, Zenon DEF PodsNext, Kubelet

\* The revisions of a repository only grow.
LEMMA HeadsGrow ==
    ASSUME ContentInv, [PodsNext]_allVars, NEW i \in Repositories
    PROVE  heads[i] \in Nat /\ heads'[i] \in Nat /\ heads[i] =< heads'[i]
  <1>1. heads \in [Repositories -> Nat \ {0}]
    BY DEF ContentInv
  <1>2. ASSUME NEW j \in Repositories, Push(j) PROVE heads' = [heads EXCEPT ![j] = @ + 1]
    BY <1>2 DEF Push
  <1>3. heads' = heads \/ \E j \in Repositories : heads' = [heads EXCEPT ![j] = @ + 1]
    BY <1>2, Zenon
       DEF PodsNext, Kubelet, CreatePod, ReplacePod, Prepare, FetchFirst, StartNifi, Fetch,
            NifiCrashes, Evict, PodStep, podVars, allVars
  <1>. QED
    BY <1>1, <1>3

\* What a step does to one volume of a pod.
LEMMA RevisionStep ==
    ASSUME ContentInv, RevisionInv, [PodsNext]_allVars, ContentInv', NEW g \in RoleGroups,
           pods'[g] # None, NEW i \in DOMAIN pods'[g].content
    PROVE  /\ pods'[g].content[i] \in Nat /\ pods'[g].content[i] =< heads'[i]
           /\ pods[g] # None => pods'[g].content[i] >= pods[g].content[i]
  <1>1. i \in Repositories
    <2>1. PodOk(pods'[g])
      BY DEF ContentInv
    <2>. QED
      BY <2>1 DEF PodOk, GitOk
  <1>2. heads[i] \in Nat /\ heads'[i] \in Nat /\ heads[i] =< heads'[i]
    BY <1>1, HeadsGrow
  <1>3. CASE pods[g] # None /\ pods'[g].content = pods[g].content
    BY <1>2, <1>3 DEF RevisionInv
  <1>4. ASSUME pods[g] # None, NEW j \in Repositories,
               pods'[g].content = [pods[g].content EXCEPT ![j] = heads[j]]
        PROVE  /\ pods'[g].content[i] \in Nat /\ pods'[g].content[i] =< heads'[i]
               /\ pods'[g].content[i] >= pods[g].content[i]
    <2>1. i \in DOMAIN pods[g].content
      BY <1>4
    <2>2. pods[g].content[i] \in Nat /\ pods[g].content[i] =< heads[i]
      BY <1>4, <2>1 DEF RevisionInv
    <2>3. pods'[g].content[i] = heads[i] \/ pods'[g].content[i] = pods[g].content[i]
      BY <1>4, <2>1
    <2>. QED
      BY <1>2, <2>2, <2>3
  <1>5. CASE pods[g] = None /\ pods'[g].content[i] = 0
    BY <1>2, <1>5
  <1>. QED
    BY <1>3, <1>4, <1>5, VolumeStep, Zenon

\* For any repositories, specs and disturbances, and however pods, sidecars and pushes
\* interleave, no volume of a living pod goes back to an earlier revision.
THEOREM RevisionsOnlyMoveForward == PodsSpec => ContentMovesForward
  <1>1. PodsInit => RevisionInv
    BY DEF PodsInit, RevisionInv
  <1>2. ContentInv /\ RevisionInv /\ [PodsNext]_allVars /\ ContentInv' => RevisionInv'
    BY RevisionStep DEF RevisionInv
  <1>3. ContentInv /\ RevisionInv /\ [PodsNext]_allVars /\ ContentInv' =>
          [\A g \in RoleGroups :
              pods[g] # None /\ pods'[g] # None =>
                  \A i \in DOMAIN pods[g].content :
                      pods'[g].content[i] >= pods[g].content[i]]_allVars
    <2>. SUFFICES ASSUME ContentInv, RevisionInv, [PodsNext]_allVars, ContentInv',
                         NEW g \in RoleGroups, pods[g] # None, pods'[g] # None,
                         NEW i \in DOMAIN pods[g].content
                  PROVE  pods'[g].content[i] >= pods[g].content[i]
      OBVIOUS
    <2>1. DOMAIN pods'[g].content = DOMAIN pods[g].content
      BY VolumeStep, Zenon
    <2>. QED
      BY <2>1, RevisionStep
  <1>. QED
    BY <1>1, <1>2, <1>3, ContentAlways, PTL DEF PodsSpec, ContentMovesForward

-----------------------------------------------------------------------------
(***************************************************************************)
(* What a template tells about the ConfigMap                               *)
(***************************************************************************)

\* The parts of a template.
LEMMA TemplateParts ==
    ASSUME NEW s, NEW g, NEW a, NEW git, NEW t, t = Template(NifiStatefulSet(s, g, a, git))
    PROVE  /\ t.env = getContainerEnv(s, a) /\ t.prepare = getPrepareContainerArgs(a)
           /\ t.volumes = getVolumes(a) /\ t.probe = setupMainContainerProbe(s)
  BY DEF Template, NifiStatefulSet

\* The environment tells the clustering backend, the probe tells TLS and the volumes
\* tell the authenticator.
Tells(t, s, a) ==
    /\ s.zookeeper => "ZOOKEEPER_HOSTS" \in t.env
    /\ "ZOOKEEPER_HOSTS" \in t.env => s.zookeeper
    /\ EnableTls(s) => t.probe = 9443
    /\ t.probe = 9443 => EnableTls(s)
    /\ a.type = "oidc" => <<"admin", OidcAdminPasswordSecret>> \in t.volumes
    /\ <<"admin", OidcAdminPasswordSecret>> \in t.volumes => a.type = "oidc"
    /\ a.type = "static" => <<"admin", "user-credentials">> \in t.volumes
    /\ <<"admin", "user-credentials">> \in t.volumes => a.type = "static"
    /\ a.type = "ldap" => <<"bind-credentials", "secret-class">> \in t.volumes
    /\ <<"bind-credentials", "secret-class">> \in t.volumes => a.type = "ldap"

\* That is so for every template of a StatefulSet.
LEMMA TemplateTellsSpec ==
    ASSUME NEW s, NEW a, a.type \in {"none", "error", "panic", "oidc", "ldap", "static"},
           NEW g, NEW git, NEW t, t = Template(NifiStatefulSet(s, g, a, git))
    PROVE  Tells(t, s, a)
  <1>1. /\ t.env = getContainerEnv(s, a) /\ t.volumes = getVolumes(a)
        /\ t.probe = setupMainContainerProbe(s)
    BY TemplateParts
  <1>2. /\ s.zookeeper => "ZOOKEEPER_HOSTS" \in t.env
        /\ "ZOOKEEPER_HOSTS" \in t.env => s.zookeeper
    BY <1>1 DEF getContainerEnv, GetEnvVars
  <1>3. /\ EnableTls(s) => t.probe = 9443
        /\ t.probe = 9443 => EnableTls(s)
    BY <1>1 DEF setupMainContainerProbe, GetPort, Ports
  <1>4. \/ a.type = "oidc" /\ GetVolumes(a) = {<<"admin", OidcAdminPasswordSecret>>}
        \/ a.type = "static" /\ GetVolumes(a) = {<<"admin", "user-credentials">>}
        \/ a.type = "ldap" /\ GetVolumes(a) = {<<"bind-credentials", "secret-class">>}
        \/ a.type \in {"none", "error", "panic"} /\ GetVolumes(a) = {}
    BY DEF GetVolumes, oidcVolumes, staticVolumes, ldapVolumes
  <1>5. t.volumes = {<<"nifi-config", "configmap">>, <<"empty-dir", "emptyDir">>} \cup GetVolumes(a)
    BY <1>1 DEF getVolumes
  <1>6. \A x, y : <<"admin", x>> # <<"nifi-config", y>> /\ <<"admin", x>> # <<"empty-dir", y>>
          /\ <<"bind-credentials", x>> # <<"nifi-config", y>>
          /\ <<"bind-credentials", x>> # <<"empty-dir", y>>
          /\ <<"bind-credentials", x>> # <<"admin", y>>
    OBVIOUS
  <1>7. <<"admin", OidcAdminPasswordSecret>> # <<"admin", "user-credentials">>
    BY DEF OidcAdminPasswordSecret
  <1>. QED
    BY <1>2, <1>3, <1>4, <1>5, <1>6, <1>7 DEF Tells

\* ConfigMaps that differ in the proxy host only.
LEMMA OnlyProxyHost ==
    ASSUME NEW sp, NEW w, NEW k, NEW h1, NEW h2, NEW c, NEW x, NEW l, NEW m,
           NEW p1, p1 = [stateProvider |-> sp, web |-> w, keyStores |-> k,
                         proxyHost |-> h1, cluster |-> c, authGetenv |-> x],
           NEW p2, p2 = [stateProvider |-> sp, web |-> w, keyStores |-> k,
                         proxyHost |-> h2, cluster |-> c, authGetenv |-> x]
    PROVE  SameButProxyHost([properties |-> p1, login |-> l, stateManagement |-> m],
                            [properties |-> p2, login |-> l, stateManagement |-> m])
  <1>1. [p1 EXCEPT !.proxyHost = {}] = [p2 EXCEPT !.proxyHost = {}]
    OBVIOUS
  <1>2. ASSUME NEW a, NEW b, [a EXCEPT !.proxyHost = {}] = [b EXCEPT !.proxyHost = {}]
        PROVE  SameButProxyHost([properties |-> a, login |-> l, stateManagement |-> m],
                                [properties |-> b, login |-> l, stateManagement |-> m])
    BY <1>2 DEF SameButProxyHost
  <1>. QED
    BY <1>1, <1>2, Zenon

\* Specs told from one template have ConfigMaps that differ in nifi.web.proxy.host at
\* most, unless gomplate cannot render them.
LEMMA TemplateTells ==
    ASSUME NEW s1, NEW a1, a1.type \in {"none", "error", "panic", "oidc", "ldap", "static"},
           NEW s2, NEW a2, a2.type \in {"none", "error", "panic", "oidc", "ldap", "static"},
           NEW t, Tells(t, s1, a1), Tells(t, s2, a2),
           NEW cm1, cm1 = NifiConfigMap(s1, a1, a1), NEW cm2, cm2 = NifiConfigMap(s2, a2, a2),
           cm1.login.actions \subseteq {"getenv"}
    PROVE  SameButProxyHost(cm1, cm2)
  <1>1. \/ s1.zookeeper /\ s2.zookeeper
        \/ ~s1.zookeeper /\ ~s2.zookeeper
    BY DEF Tells
  <1>2. \/ EnableTls(s1) /\ EnableTls(s2)
        \/ ~EnableTls(s1) /\ ~EnableTls(s2)
    BY DEF Tells
  <1>3. a1.type # "ldap"
    <2>1. cm1.login = GetLoginIdentityProvider(a1)
      BY DEF NifiConfigMap
    <2>2. a1.type = "ldap" => "file:UTF-8" \in GetLoginIdentityProvider(a1).actions
      BY DEF GetLoginIdentityProvider, ldapLoginIdentityProvider
    <2>. QED
      BY <2>1, <2>2
  <1>4. a1.type = a2.type \/ {a1.type, a2.type} \subseteq {"none", "error", "panic"}
    BY <1>3 DEF Tells
  <1>5. /\ getStateManagementConfig(s1) = getStateManagementConfig(s2)
        /\ StateProviderProperty(s1) = StateProviderProperty(s2)
    BY <1>1 DEF getStateManagementConfig, StateProviderProperty, useZooKeeperStateProvider
  <1>6. /\ WebProperties(s1) = WebProperties(s2)
        /\ KeyStoreProperties(s1) = KeyStoreProperties(s2)
    BY <1>2 DEF WebProperties, KeyStoreProperties
  <1>7. ClusterProperties(s1) = ClusterProperties(s2)
    <2>1. EnableTls(s1) = EnableTls(s2)
      BY <1>2, Zenon DEF EnableTls
    <2>. QED
      BY <1>1, <2>1 DEF ClusterProperties, useZooKeeperStateProvider
  <1>8. /\ ExtendNifiProperties(a1) = ExtendNifiProperties(a2)
        /\ GetLoginIdentityProvider(a1) = GetLoginIdentityProvider(a2)
    BY <1>3, <1>4 DEF ExtendNifiProperties, GetLoginIdentityProvider
  <1>. QED
    BY <1>5, <1>6, <1>7, <1>8, OnlyProxyHost DEF NifiConfigMap, getNifiProperties

\* What the templates of a ConfigMap read is in the environment of its template.
LEMMA VariablesFit ==
    ASSUME NEW s, NEW a, NEW g, NEW git, NEW t, t = Template(NifiStatefulSet(s, g, a, git)),
           NEW cm, cm = NifiConfigMap(s, a, a)
    PROVE  TemplateVariables(cm) \subseteq t.env \cup t.prepare.exports
  <1>1. /\ t.env = getContainerEnv(s, a)
        /\ t.prepare.exports = {"NODE_ADDRESS"} \cup GetInitArgs(a)
    <2>1. t.env = getContainerEnv(s, a) /\ t.prepare = getPrepareContainerArgs(a)
      BY TemplateParts
    <2>. QED
      BY <2>1 DEF getPrepareContainerArgs
  <1>2. /\ cm.properties.cluster = ClusterProperties(s)
        /\ cm.properties.authGetenv = ExtendNifiProperties(a)
        /\ cm.login = GetLoginIdentityProvider(a)
        /\ cm.stateManagement = getStateManagementConfig(s)
    BY DEF NifiConfigMap, getNifiProperties
  <1>3. /\ ClusterProperties(s).getenv \cup getStateManagementConfig(s).getenv
              \subseteq {"NODE_ADDRESS"} \cup getContainerEnv(s, a)
        /\ ExtendNifiProperties(a) \subseteq getContainerEnv(s, a)
    BY DEF ClusterProperties, getStateManagementConfig, useZooKeeperStateProvider,
           getContainerEnv, ExtendNifiProperties, GetEnvVars
  <1>4. GetLoginIdentityProvider(a).getenv \subseteq GetInitArgs(a)
    BY DEF GetLoginIdentityProvider, getSingleUserLoginIdentityProvider,
           ldapLoginIdentityProvider, GetInitArgs
  <1>. QED
    BY <1>1, <1>2, <1>3, <1>4 DEF TemplateVariables

-----------------------------------------------------------------------------
(***************************************************************************)
(* What a step of the pods does to templates and configurations            *)
(***************************************************************************)

\* The configuration rendered from the ConfigMap cm in a pod of template t.
Rendered(cm, t) ==
    [from |-> cm, unset |-> TemplateVariables(cm) \ (t.env \cup t.prepare.exports)]

\* Its parts, and what it takes for gomplate to render.
LEMMA RenderedParts ==
    /\ \A cm, t : /\ Rendered(cm, t).from = cm
                  /\ Rendered(cm, t).unset =
                        TemplateVariables(cm) \ (t.env \cup t.prepare.exports)
    /\ \A cm, p : Renders(cm, p) => cm.login.actions \subseteq {"getenv"}
  <1>1. \A cm, t : /\ Rendered(cm, t).from = cm
                   /\ Rendered(cm, t).unset =
                         TemplateVariables(cm) \ (t.env \cup t.prepare.exports)
    BY DEF Rendered
  <1>2. \A cm, p : Renders(cm, p) => cm.login.actions \subseteq {"getenv"}
    BY DEF Renders
  <1>. QED
    BY <1>1, <1>2

\* What a step of the pods may do to the template and the configuration of a pod that
\* is there afterwards.
LEMMA PodCases ==
    ASSUME ContentInv, NEW g \in RoleGroups, pods'[g] # None,
           \/ \E h \in RoleGroups : Kubelet(h) \/ NifiCrashes(h) \/ Evict(h)
           \/ \E h \in RoleGroups, i \in Repositories : Fetch(h, i)
           \/ \E i \in Repositories : Push(i)
    PROVE  \/ /\ pods[g] # None /\ pods'[g].template = pods[g].template
              /\ pods'[g].config = pods[g].config
           \/ /\ StatefulSetOf(g) # None
              /\ pods'[g].template = Template(StatefulSetOf(g).body)
              /\ pods'[g].config = None
           \/ /\ pods[g] # None /\ pods'[g].template = pods[g].template
              /\ ConfigMapOf(g) # None
              /\ Renders(ConfigMapOf(g).body, pods[g].template.prepare)
              /\ pods'[g].config = Rendered(ConfigMapOf(g).body, pods[g].template)
  <1>. DEFINE Same == /\ pods[g] # None /\ pods'[g].template = pods[g].template
                      /\ pods'[g].config = pods[g].config
  <1>1. /\ DOMAIN pods = RoleGroups
        /\ \A h \in RoleGroups : pods[h] # None =>
                {"template", "config", "content", "done", "running"} = DOMAIN pods[h]
    BY Zenon DEF ContentInv, PodOk, PodFields
  <1>2. CASE pods'[g] = pods[g]
    BY <1>2, Zenon
  <1>3. ASSUME NEW h \in RoleGroups, CreatePod(h)
        PROVE  \/ pods'[g] = pods[g]
               \/ /\ StatefulSetOf(g) # None
                  /\ pods'[g].template = Template(StatefulSetOf(g).body)
                  /\ pods'[g].config = None
    <2>1. /\ pods' = [pods EXCEPT ![h] = NewPod(StatefulSetOf(h).body)]
          /\ StatefulSetOf(h) # None
      BY <1>3, Zenon DEF CreatePod, WantsPods
    <2>2. \A sts : NewPod(sts).template = Template(sts) /\ NewPod(sts).config = None
      BY DEF NewPod
    <2>. QED
      BY <1>1, <2>1, <2>2
  <1>4. ASSUME NEW h \in RoleGroups, ReplacePod(h) \/ Evict(h) PROVE pods'[g] = pods[g]
    <2>1. pods' = [pods EXCEPT ![h] = None]
      BY <1>4, Zenon DEF ReplacePod, Evict
    <2>. QED
      BY <1>1, <2>1
  <1>5. ASSUME NEW h \in RoleGroups, Prepare(h)
        PROVE  \/ pods'[g] = pods[g]
               \/ /\ pods[g] # None /\ pods'[g].template = pods[g].template
                  /\ ConfigMapOf(g) # None
                  /\ Renders(ConfigMapOf(g).body, pods[g].template.prepare)
                  /\ pods'[g].config = Rendered(ConfigMapOf(g).body, pods[g].template)
    <2>. DEFINE c == Rendered(ConfigMapOf(h).body, pods[h].template)
    <2>1. /\ pods[h] # None /\ ConfigMapOf(h) # None
          /\ Renders(ConfigMapOf(h).body, pods[h].template.prepare)
          /\ pods' = [pods EXCEPT ![h].done = 1, ![h].config = c]
      BY <1>5 DEF Prepare, Rendered
    <2>. HIDE DEF c
    <2>2. CASE h = g
      <3>1. pods'[g].template = pods[g].template /\ pods'[g].config = c
        BY <1>1, <2>1, <2>2
      <3>. QED
        BY <2>1, <2>2, <3>1 DEF c
    <2>3. CASE h # g
      BY <1>1, <2>1, <2>3
    <2>. QED
      BY <2>2, <2>3, Zenon
  <1>6. ASSUME NEW h \in RoleGroups, StartNifi(h) \/ NifiCrashes(h) PROVE Same
    <2>1. PICK b : pods' = [pods EXCEPT ![h].running = b]
      BY <1>6 DEF StartNifi, NifiCrashes
    <2>2. pods[h] # None
      BY <1>6 DEF StartNifi, NifiCrashes, Initialised
    <2>. QED
      BY <1>1, <2>1, <2>2
  <1>7. ASSUME NEW h \in RoleGroups, FetchFirst(h) PROVE Same
    <2>1. PICK j, r, d : pods' = [pods EXCEPT ![h].content[j] = r, ![h].done = d]
      BY <1>7, Zenon DEF FetchFirst
    <2>2. pods[h] # None
      BY <1>7, Zenon DEF FetchFirst
    <2>. QED
      BY <1>1, <2>1, <2>2
  <1>8. ASSUME NEW h \in RoleGroups, NEW i \in Repositories, Fetch(h, i) PROVE Same
    <2>1. PICK j, r : pods' = [pods EXCEPT ![h].content[j] = r]
      BY <1>8, Zenon DEF Fetch
    <2>2. pods[h] # None
      BY <1>8, Zenon DEF Fetch, Initialised
    <2>. QED
      BY <1>1, <2>1, <2>2
  <1>9. ASSUME NEW i \in Repositories, Push(i) PROVE pods'[g] = pods[g]
    BY <1>9 DEF Push
  <1>. QED
    BY <1>2, <1>3, <1>4, <1>5, <1>6, <1>7, <1>8, <1>9, Zenon DEF Kubelet

-----------------------------------------------------------------------------
(***************************************************************************)
(* The pods' prerequisites: a StatefulSet never exists before what its     *)
(* pods need.  Registration puts every StatefulSet behind its              *)
(* prerequisites, a run takes the resources in that order and ends at the  *)
(* first failure, and an object, once written, stays (as long as nobody    *)
(* deletes it).                                                            *)
(***************************************************************************)

\* Nobody deletes objects or the NifiCluster.
NobodyDeletes == "drift" \notin Disturbances /\ "delete" \notin Disturbances

RbacKeys == {KeyOf("ServiceAccount"), KeyOf("Role"), KeyOf("RoleBinding")}

\* What must exist before the StatefulSet of g.
Needs(g) == RbacKeys \cup {<<"ConfigMap", g>>}

\* In the list s of reconcilers, a StatefulSet's needs exist or come earlier.
Ordered(s, objs) ==
    \A i \in 1..Len(s), g \in RoleGroups :
        s[i].key = <<"StatefulSet", g>> =>
            \A p \in Needs(g) : objs[p] # None \/ \E j \in 1..(i-1) : s[j].key = p

\* The parts of the objects that PodsHavePrerequisites compares.
Bodies(objs) ==
    /\ objs[KeyOf("ServiceAccount")] # None =>
            objs[KeyOf("ServiceAccount")].body = NifiServiceAccountName
    /\ objs[KeyOf("Role")] # None => objs[KeyOf("Role")].body = {"leases", "configmaps"}
    /\ objs[KeyOf("RoleBinding")] # None =>
            /\ objs[KeyOf("RoleBinding")].body.subject = NifiServiceAccountName
            /\ objs[KeyOf("RoleBinding")].body.role = NifiRoleName
    /\ \A g \in RoleGroups : objs[<<"StatefulSet", g>>] # None =>
            /\ objs[<<"StatefulSet", g>>].body.serviceAccount = NifiServiceAccountName
            /\ \A p \in Needs(g) : objs[p] # None

\* The inductive invariant.
PodInv ==
    /\ cr # None /\ uid = 1
    /\ Ordered(resources, objects)
    /\ pc = "register" => \A p \in RbacKeys : \E j \in 1..Len(resources) : resources[j].key = p
    /\ Bodies(objects)

-----------------------------------------------------------------------------
\* The needs of a StatefulSet are objects of other kinds.
LEMMA NeedsAreKeys ==
    ASSUME NEW g \in RoleGroups
    PROVE  /\ Needs(g) \subseteq Key
           /\ <<"StatefulSet", g>> \in Key
           /\ \A p \in Needs(g) :
                p[1] \in {"ServiceAccount", "Role", "RoleBinding", "ConfigMap"}
  BY DEF Needs, RbacKeys, KeyOf, Key, RbacKinds, GroupKinds

\* Going on after the head's object exists keeps the order.
LEMMA TailOrdered ==
    ASSUME NEW s \in Seq(Entry), s # << >>, NEW old, NEW new,
           Ordered(s, old),
           \A k \in Key : old[k] # None => new[k] # None,
           new[Head(s).key] # None
    PROVE  Ordered(Tail(s), new)
  <1>. SUFFICES ASSUME NEW i \in 1..Len(Tail(s)), NEW g \in RoleGroups,
                       Tail(s)[i].key = <<"StatefulSet", g>>,
                       NEW p \in Needs(g), new[p] = None
                PROVE  \E j \in 1..(i-1) : Tail(s)[j].key = p
    BY Zenon DEF Ordered
  <1>1. Len(Tail(s)) = Len(s) - 1 /\ Len(s) \in Nat
         /\ \A x \in 1..Len(Tail(s)) : Tail(s)[x] = s[x+1]
    OBVIOUS
  <1>2. i + 1 \in 1..Len(s) /\ s[i+1].key = <<"StatefulSet", g>>
    BY <1>1
  <1>3. old[p] = None
    BY NeedsAreKeys, Zenon
  <1>4. PICK j \in 1..((i+1)-1) : s[j].key = p
    BY <1>2, <1>3 DEF Ordered
  <1>5. j # 1
    BY <1>4
  <1>6. j - 1 \in 1..(i-1) /\ Tail(s)[j-1] = s[j]
    BY <1>1, <1>4, <1>5
  <1>. QED
    BY <1>4, <1>6

\* Appending a list whose StatefulSets have their needs before them keeps the order.
LEMMA AppendOrdered ==
    ASSUME NEW s \in Seq(Entry), NEW t \in Seq(Entry), NEW objs,
           Ordered(s, objs),
           \A i \in 1..Len(t), g \in RoleGroups :
              t[i].key = <<"StatefulSet", g>> =>
                \A p \in Needs(g) : \/ \E j \in 1..Len(s) : s[j].key = p
                                    \/ \E j \in 1..(i-1) : t[j].key = p
    PROVE  Ordered(s \o t, objs)
  <1>. SUFFICES ASSUME NEW i \in 1..Len(s \o t), NEW g \in RoleGroups,
                       (s \o t)[i].key = <<"StatefulSet", g>>,
                       NEW p \in Needs(g), objs[p] = None
                PROVE  \E j \in 1..(i-1) : (s \o t)[j].key = p
    BY Zenon DEF Ordered
  <1>1. /\ Len(s) \in Nat /\ Len(t) \in Nat /\ Len(s \o t) = Len(s) + Len(t)
        /\ \A x \in 1..Len(s) : (s \o t)[x] = s[x]
        /\ \A x \in 1..Len(t) : (s \o t)[Len(s) + x] = t[x]
    BY Concatenation
  <1>2. CASE i \in 1..Len(s)
    <2>1. PICK j \in 1..(i-1) : s[j].key = p
      BY <1>1, <1>2 DEF Ordered
    <2>. QED
      BY <1>1, <1>2, <2>1
  <1>3. CASE i \notin 1..Len(s)
    <2>1. i - Len(s) \in 1..Len(t) /\ t[i - Len(s)].key = <<"StatefulSet", g>>
      BY <1>1, <1>3
    <2>2. CASE \E j \in 1..Len(s) : s[j].key = p
      BY <1>1, <1>3, <2>2
    <2>3. CASE \E j \in 1..((i - Len(s)) - 1) : t[j].key = p
      <3>1. PICK j \in 1..((i - Len(s)) - 1) : t[j].key = p
        BY <2>3
      <3>2. Len(s) + j \in 1..(i-1) /\ (s \o t)[Len(s) + j] = t[j]
        BY <1>1, <2>1, <3>1
      <3>. QED
        BY <3>1, <3>2
    <2>. QED
      BY <2>1, <2>2, <2>3, Zenon
  <1>. QED
    BY <1>2, <1>3

\* registerRBACResources registers the ServiceAccount, the Role and the binding.
LEMMA RbacRegistered ==
    /\ \A objs : Ordered(registerRBACResources, objs)
    /\ \A p \in RbacKeys : \E j \in 1..Len(registerRBACResources) :
            registerRBACResources[j].key = p
  <1>1. /\ Len(registerRBACResources) = 3
        /\ registerRBACResources[1].key = <<"ServiceAccount", "cluster">>
        /\ registerRBACResources[2].key = <<"Role", "cluster">>
        /\ registerRBACResources[3].key = <<"RoleBinding", "cluster">>
    BY DEF registerRBACResources, Plain
  <1>2. \A j \in 1..Len(registerRBACResources) : j = 1 \/ j = 2 \/ j = 3
    BY <1>1
  <1>3. \A j \in 1..Len(registerRBACResources), g \in RoleGroups :
            registerRBACResources[j].key # <<"StatefulSet", g>>
    BY <1>1, <1>2
  <1>4. 1 \in 1..Len(registerRBACResources) /\ 2 \in 1..Len(registerRBACResources)
          /\ 3 \in 1..Len(registerRBACResources)
    BY <1>1
  <1>. QED
    BY <1>1, <1>3, <1>4 DEF Ordered, RbacKeys, KeyOf

\* A role group's StatefulSet comes right after its ConfigMap, and is the only one.
LEMMA RoleGroupOrdered ==
    ASSUME NEW g \in RoleGroups, NEW auth \in Views, NEW git \in GitViews,
           NoAuthentication \in Views,
           NEW i \in 1..Len(RoleGroupResources(g, auth, git)), NEW h \in RoleGroups,
           RoleGroupResources(g, auth, git)[i].key = <<"StatefulSet", h>>
    PROVE  h = g /\ i = 2 /\ RoleGroupResources(g, auth, git)[1].key = <<"ConfigMap", g>>
  <1>. DEFINE r == RoleGroupResources(g, auth, git)
              u == AdminSecretResources(auth)
  <1>1. /\ Len(u) \in Nat /\ u \in Seq(Entry)
        /\ \A j \in 1..Len(u) : u[j].key = <<"AdminSecret", "cluster">>
    <2>1. Plain("AdminSecret", "cluster") \in Entry
      BY Keys DEF Plain, Entry, SecretKinds, GitViews
    <2>2. CASE auth.type = "ldap"
      <3>1. u = << Plain("AdminSecret", "cluster") >>
        BY <2>2 DEF AdminSecretResources
      <3>. QED
        BY <2>1, <3>1 DEF Plain
    <2>3. CASE auth.type # "ldap"
      <3>1. u = << >>
        BY <2>3 DEF AdminSecretResources
      <3>. QED
        BY <3>1
    <2>. QED
      BY <2>2, <2>3
  <1>2. /\ WithAuth("ConfigMap", g, auth) \in Entry
        /\ WithGit("StatefulSet", g, auth, git) \in Entry
        /\ Plain("Service", g) \in Entry
    BY Keys DEF WithAuth, WithGit, Plain, Entry, GroupKinds, GitViews
  <1>. HIDE DEF u
  <1>3. /\ Len(r) = 3 + Len(u)
        /\ r[1] = WithAuth("ConfigMap", g, auth)
        /\ r[2] = WithGit("StatefulSet", g, auth, git)
        /\ r[3] = Plain("Service", g)
        /\ \A x \in 1..Len(u) : r[3 + x] = u[x]
    BY <1>1, <1>2, ThreeAndMore DEF RoleGroupResources, u
  <1>4. r[1].key = <<"ConfigMap", g>> /\ r[2].key = <<"StatefulSet", g>>
          /\ r[3].key = <<"Service", g>>
    BY <1>3 DEF WithAuth, WithGit, Plain
  <1>. HIDE DEF r
  <1>5. \A x \in 1..Len(r) : x > 3 => r[x].key = <<"AdminSecret", "cluster">>
    <2>. SUFFICES ASSUME NEW x \in 1..Len(r), x > 3
                  PROVE  r[x].key = <<"AdminSecret", "cluster">>
      OBVIOUS
    <2>1. x - 3 \in 1..Len(u) /\ x = 3 + (x - 3)
      BY <1>1, <1>3
    <2>. QED
      BY <2>1, <1>1, <1>3, Zenon
  <1>6. i \in 1..Len(r) /\ r[i].key = <<"StatefulSet", h>>
    BY DEF r
  <1>7. ~(i > 3)
    BY <1>5, <1>6
  <1>8. i = 1 \/ i = 2 \/ i = 3
    BY <1>1, <1>3, <1>6, <1>7
  <1>. QED
    BY <1>4, <1>6, <1>8 DEF r

\* The same of a whole list t.
StatefulSetSecond(t, g) ==
    \A i \in 1..Len(t), h \in RoleGroups :
        t[i].key = <<"StatefulSet", h>> => h = g /\ i = 2 /\ t[1].key = <<"ConfigMap", g>>

\* The list of a role group has this order.
LEMMA RoleGroupOrder ==
    ASSUME NEW g \in RoleGroups, NEW auth \in Views, NEW git \in GitViews,
           NoAuthentication \in Views
    PROVE  StatefulSetSecond(RoleGroupResources(g, auth, git), g)
  BY RoleGroupOrdered DEF StatefulSetSecond

\* Neither the sensitive key nor the reporting task registers a StatefulSet.
LEMMA OthersOrdered ==
    ASSUME NEW spec, NEW auth, NEW h \in RoleGroups
    PROVE  /\ \A i \in 1..Len(sensitiveKeyReconciler) :
                  sensitiveKeyReconciler[i].key # <<"StatefulSet", h>>
           /\ \A i \in 1..Len(ReportingTaskResources(spec, auth)) :
                  ReportingTaskResources(spec, auth)[i].key # <<"StatefulSet", h>>
  <1>1. \A i \in 1..Len(sensitiveKeyReconciler) :
            sensitiveKeyReconciler[i].key # <<"StatefulSet", h>>
    BY DEF sensitiveKeyReconciler, Plain
  <1>2. CASE WantsReportingTask(spec)
    <2>1. ReportingTaskResources(spec, auth) =
            << Plain("ReportingService", "cluster"), WithAuth("Job", spec.version, auth) >>
      BY <1>2 DEF ReportingTaskResources
    <2>2. \A i \in 1..Len(ReportingTaskResources(spec, auth)) : i = 1 \/ i = 2
      BY <2>1
    <2>. QED
      BY <1>1, <2>1, <2>2 DEF Plain, WithAuth
  <1>3. CASE ~WantsReportingTask(spec)
    <2>1. ReportingTaskResources(spec, auth) = << >>
      BY <1>3 DEF ReportingTaskResources
    <2>. QED
      BY <1>1, <2>1
  <1>. QED
    BY <1>2, <1>3

\* What the builders put into the parts that are compared.
LEMMA BuiltBodies ==
    ASSUME NEW e \in Entry, NEW spec, NEW cls
    PROVE  /\ e.key = KeyOf("ServiceAccount") => Body(e, spec, cls) = NifiServiceAccountName
           /\ e.key = KeyOf("Role") => Body(e, spec, cls) = {"leases", "configmaps"}
           /\ e.key = KeyOf("RoleBinding") =>
                 /\ Body(e, spec, cls).subject = NifiServiceAccountName
                 /\ Body(e, spec, cls).role = NifiRoleName
           /\ \A g \in RoleGroups : e.key = <<"StatefulSet", g>> =>
                 Body(e, spec, cls).serviceAccount = NifiServiceAccountName
  <1>1. e.key[1] = "ServiceAccount" => Body(e, spec, cls) = NifiServiceAccountName
    BY DEF Body
  <1>2. e.key[1] = "Role" => Body(e, spec, cls) = {"leases", "configmaps"}
    BY DEF Body
  <1>3. e.key[1] = "RoleBinding" =>
            Body(e, spec, cls) = [subject |-> NifiServiceAccountName, role |-> NifiRoleName]
    BY DEF Body
  <1>4. e.key[1] = "StatefulSet" =>
            Body(e, spec, cls) = NifiStatefulSet(spec, e.key[2], e.auth, e.git)
    BY DEF Body
  <1>5. \A x, y, z, w : NifiStatefulSet(x, y, z, w).serviceAccount = NifiServiceAccountName
    BY DEF NifiStatefulSet
  <1>. QED
    BY <1>1, <1>2, <1>3, <1>4, <1>5 DEF KeyOf

-----------------------------------------------------------------------------
\* Finishing the head of the list, whose object exists now, keeps the invariant.
LEMMA NextResourceKeepsOrder ==
    ASSUME TypeOK, Running, PodInv, NextResource,
           \A k \in Key : objects[k] # None => objects'[k] # None,
           objects'[Current.key] # None
    PROVE  Ordered(resources', objects')
  BY TailOrdered DEF TypeOK, Running, Current, PodInv, NextResource

\* Writing an object keeps what PodsHavePrerequisites compares: a StatefulSet at
\* the head of the list has all it needs.
LEMMA WriteKeepsBodies ==
    ASSUME TypeOK, Running, PodInv,
           objects' = [objects EXCEPT ![Current.key] = Desired]
    PROVE  /\ Bodies(objects')
           /\ objects'[Current.key] # None
           /\ \A k \in Key : objects[k] # None => objects'[k] # None
  <1>1. Current.key \in Key /\ Current \in Entry
    BY RunningType
  <1>2. /\ Desired # None
        /\ Current.key[1] \notin SecretKinds => Desired.body = Body(Current, inst.spec, classes)
    BY SomethingIsNotNone DEF Desired, DesiredObject, IsSecret
  <1>3. /\ objects'[Current.key] = Desired
        /\ \A k \in Key : k # Current.key => objects'[k] = objects[k]
    BY <1>1 DEF TypeOK
  <1>4. \A k \in Key : objects[k] # None => objects'[k] # None
    BY <1>2, <1>3
  <1>5. \A kind \in RbacKinds : KeyOf(kind) \in Key
    BY DEF KeyOf, Key
  <1>6. ASSUME NEW g \in RoleGroups, objects'[<<"StatefulSet", g>>] # None
        PROVE  /\ objects'[<<"StatefulSet", g>>].body.serviceAccount = NifiServiceAccountName
               /\ \A p \in Needs(g) : objects'[p] # None
    <2>1. CASE Current.key = <<"StatefulSet", g>>
      <3>1. 1 \in 1..Len(resources) /\ resources[1] = Current
        BY DEF TypeOK, Running, Current
      <3>2. \A p \in Needs(g) : objects[p] # None
        BY <2>1, <3>1 DEF PodInv, Ordered
      <3>. QED
        BY <2>1, <3>2, <1>1, <1>2, <1>3, <1>4, BuiltBodies, NeedsAreKeys DEF SecretKinds
    <2>2. CASE Current.key # <<"StatefulSet", g>>
      BY <2>2, <1>3, <1>4, <1>6, NeedsAreKeys DEF PodInv, Bodies
    <2>. QED
      BY <2>1, <2>2
  <1>7. objects'[KeyOf("ServiceAccount")] # None =>
            objects'[KeyOf("ServiceAccount")].body = NifiServiceAccountName
    BY <1>1, <1>2, <1>3, <1>5, BuiltBodies DEF PodInv, Bodies, RbacKinds, SecretKinds, KeyOf
  <1>8. objects'[KeyOf("Role")] # None =>
            objects'[KeyOf("Role")].body = {"leases", "configmaps"}
    BY <1>1, <1>2, <1>3, <1>5, BuiltBodies DEF PodInv, Bodies, RbacKinds, SecretKinds, KeyOf
  <1>9. objects'[KeyOf("RoleBinding")] # None =>
            /\ objects'[KeyOf("RoleBinding")].body.subject = NifiServiceAccountName
            /\ objects'[KeyOf("RoleBinding")].body.role = NifiRoleName
    BY <1>1, <1>2, <1>3, <1>5, BuiltBodies DEF PodInv, Bodies, RbacKinds, SecretKinds, KeyOf
  <1>. QED
    BY <1>2, <1>3, <1>4, <1>6, <1>7, <1>8, <1>9 DEF Bodies

\* The order depends on the needs only.
LEMMA SameOrder ==
    ASSUME NEW s, NEW old, NEW new, Ordered(s, old),
           \A g \in RoleGroups : \A p \in Needs(g) : new[p] = old[p]
    PROVE  Ordered(s, new)
  <1>. SUFFICES ASSUME NEW i \in 1..Len(s), NEW g \in RoleGroups,
                       s[i].key = <<"StatefulSet", g>>, NEW p \in Needs(g)
                PROVE  new[p] # None \/ \E j \in 1..(i-1) : s[j].key = p
    BY DEF Ordered
  <1>1. old[p] # None \/ \E j \in 1..(i-1) : s[j].key = p
    BY DEF Ordered
  <1>2. new[p] = old[p]
    OBVIOUS
  <1>. QED
    BY <1>1, <1>2

\* Objects of other kinds may come and go.
LEMMA OthersKeepOrder ==
    ASSUME PodInv, NEW k \in Key, k[1] \in {"Job", "AdminSecret", "SensitiveKey"},
           NEW new, \A x \in Key : x # k => new[x] = objects[x]
    PROVE  Bodies(new) /\ Ordered(resources, new)
  <1>1. ASSUME NEW g \in RoleGroups
        PROVE  /\ new[<<"StatefulSet", g>>] = objects[<<"StatefulSet", g>>]
               /\ \A p \in Needs(g) : new[p] = objects[p]
    <2>1. \A p \in Needs(g) : p \in Key /\ p # k
      BY NeedsAreKeys, Zenon
    <2>2. <<"StatefulSet", g>> \in Key /\ <<"StatefulSet", g>> # k
      BY NeedsAreKeys
    <2>. QED
      BY <2>1, <2>2
  <1>2. \A kind \in RbacKinds : new[KeyOf(kind)] = objects[KeyOf(kind)]
    BY DEF KeyOf, Key, RbacKinds
  <1>3. Bodies(new)
    BY <1>1, <1>2, Zenon DEF PodInv, Bodies, RbacKinds
  <1>4. Ordered(resources, objects)
    BY DEF PodInv
  <1>5. Ordered(resources, new)
    BY <1>1, <1>4, SameOrder, Zenon
  <1>. QED
    BY <1>3, <1>5

\* The inductive step: one step of the operator or of its environment.
LEMMA PodInvStep ==
    ASSUME NobodyDeletes, TypeOK, PodInv, [Next]_vars
    PROVE  PodInv'
  <1>1. ASSUME EndCall, UNCHANGED <<cr, objects, uid>> PROVE PodInv'
    <2>1. Ordered(<< >>, objects)
      BY DEF Ordered
    <2>. QED
      BY <1>1, <2>1 DEF EndCall, PodInv
  <1>2. ASSUME UNCHANGED <<pc, resources, objects, uid>>, cr' # None PROVE PodInv'
    BY <1>2 DEF PodInv
  <1>3. ASSUME Running, NextResource, UNCHANGED <<cr, uid>>, Bodies(objects'),
               \A k \in Key : objects[k] # None => objects'[k] # None,
               objects'[Current.key] # None
        PROVE  PodInv'
    <2>1. Ordered(resources', objects')
      BY <1>3, NextResourceKeepsOrder
    <2>. QED
      BY <1>3, <2>1 DEF Running, NextResource, PodInv
  <1>4. CASE StartReconcile
    BY <1>4, RbacRegistered DEF StartReconcile, PodInv
  <1>5. ASSUME NEW g \in RoleGroups, RegisterRoleGroup(g) PROVE PodInv'
    <2>0. PICK git \in NewGitSyncResources(inst.spec.gitSync) :
              resources' = resources \o RoleGroupResources(g, CurrentAuth, git)
      BY <1>5 DEF RegisterRoleGroup
    <2>. DEFINE t == RoleGroupResources(g, CurrentAuth, git)
    <2>1. resources \in Seq(Entry) /\ pc = "register" /\ resources' = resources \o t
            /\ Ordered(resources, objects)
      BY <1>5, <2>0 DEF RegisterRoleGroup, TypeOK, PodInv
    <2>2. CurrentAuth \in Views /\ NoAuthentication \in Views /\ git \in GitViews
      BY <1>5, AuthType, GitType DEF RegisterRoleGroup, TypeOK
    <2>3. t \in Seq(Entry)
      BY <2>2, RegistrationTypes
    <2>4. \A p \in RbacKeys : \E j \in 1..Len(resources) : resources[j].key = p
      BY <2>1 DEF PodInv
    <2>5. ASSUME NEW i \in 1..Len(t), NEW h \in RoleGroups, t[i].key = <<"StatefulSet", h>>,
                 NEW p \in Needs(h)
          PROVE  \/ \E j \in 1..Len(resources) : resources[j].key = p
                 \/ \E j \in 1..(i-1) : t[j].key = p
      <3>1. h = g /\ i = 2 /\ t[1].key = <<"ConfigMap", g>>
        <4>1. StatefulSetSecond(t, g)
          BY <2>2, RoleGroupOrder, Zenon
        <4>. HIDE DEF t
        <4>. QED
          BY <2>5, <4>1, Zenon DEF StatefulSetSecond
      <3>2. CASE p \in RbacKeys
        BY <3>2, <2>4
      <3>3. CASE p = <<"ConfigMap", g>>
        <4>1. 1 \in 1..(i-1) /\ t[1].key = p
          BY <3>1, <3>3
        <4>. QED
          BY <4>1
      <3>. QED
        BY <3>1, <3>2, <3>3, Zenon DEF Needs
    <2>. HIDE DEF t
    <2>6. Ordered(resources \o t, objects)
      BY <2>1, <2>3, <2>5, AppendOrdered, Zenon
    <2>7. ASSUME NEW p \in RbacKeys
          PROVE  \E j \in 1..Len(resources \o t) : (resources \o t)[j].key = p
      <3>1. PICK j \in 1..Len(resources) : resources[j].key = p
        BY <2>4
      <3>2. j \in 1..Len(resources \o t) /\ (resources \o t)[j] = resources[j]
        BY <2>1, <2>3, <3>1, Concatenation
      <3>. QED
        BY <3>1, <3>2
    <2>. QED
      BY <1>5, <2>1, <2>6, <2>7 DEF RegisterRoleGroup, PodInv
  <1>6. CASE FinishRegistration
    <2>1. CASE inst.spec.paused
      BY <1>1, <1>6, <2>1 DEF FinishRegistration
    <2>2. CASE ~inst.spec.paused
      <3>. DEFINE k == sensitiveKeyReconciler
                  t == ReportingTaskResources(inst.spec, CurrentAuth)
      <3>1. resources \in Seq(Entry) /\ resources' = (resources \o k) \o t /\ pc' = "run"
              /\ Ordered(resources, objects)
        BY <1>6, <2>2 DEF FinishRegistration, TypeOK, PodInv
      <3>2. inst # None /\ inst \in Instance /\ inst.spec \in Specs
        BY <1>6 DEF FinishRegistration, TypeOK, Instance
      <3>3. k \in Seq(Entry) /\ t \in Seq(Entry)
        BY <3>2, AuthType, RegistrationTypes
      <3>4. \A h \in RoleGroups : /\ \A i \in 1..Len(k) : k[i].key # <<"StatefulSet", h>>
                                  /\ \A i \in 1..Len(t) : t[i].key # <<"StatefulSet", h>>
        BY OthersOrdered
      <3>. HIDE DEF k, t
      <3>5. resources \o k \in Seq(Entry)
        BY <3>1, <3>3
      <3>6. Ordered(resources \o k, objects)
        BY <3>1, <3>3, <3>4, AppendOrdered, Zenon
      <3>7. Ordered((resources \o k) \o t, objects)
        BY <3>3, <3>4, <3>5, <3>6, AppendOrdered, Zenon
      <3>. QED
        BY <1>6, <3>1, <3>7 DEF FinishRegistration, PodInv
    <2>. QED
      BY <2>1, <2>2
  <1>7. CASE SkipExistingSecret
    BY <1>3, <1>7 DEF SkipExistingSecret, Stored, PodInv
  <1>8. CASE UpToDate
    <2>1. Desired # None
      BY SomethingIsNotNone, Zenon DEF Desired, DesiredObject
    <2>. QED
      BY <1>3, <1>8, <2>1 DEF UpToDate, Stored, PodInv
  <1>9. CASE WriteResource
    <2>1. /\ Bodies(objects') /\ objects'[Current.key] # None
          /\ \A k \in Key : objects[k] # None => objects'[k] # None
      BY <1>9, WriteKeepsBodies DEF WriteResource
    <2>2. CASE NextResource
      BY <1>3, <1>9, <2>1, <2>2 DEF WriteResource
    <2>3. CASE EndCall
      <3>1. Ordered(<< >>, objects')
        BY DEF Ordered
      <3>. QED
        BY <1>9, <2>1, <2>3, <3>1 DEF WriteResource, EndCall, PodInv
    <2>. QED
      BY <1>9, <2>2, <2>3 DEF WriteResource
  <1>10. CASE \/ RegisterRoleGroupError \/ FinishRegistrationError \/ AdminItemError
              \/ MissingKeyError \/ BuildError \/ JobUpdateRejected \/ EndReconcile
              \/ Forbidden \/ ApiError \/ Restart
    BY <1>1, <1>10, Zenon
       DEF RegisterRoleGroupError, FinishRegistrationError, Forbidden, AdminItemError,
            MissingKeyError, BuildError, JobUpdateRejected, EndReconcile, ApiError, Restart,
            RequeueWithError
  <1>11. CASE IgnoreDeleted \/ WatchEvent \/ Resync \/ UpdateGrants
    BY <1>2, <1>11 DEF IgnoreDeleted, WatchEvent, Resync, UpdateGrants, local, PodInv
  <1>12. ASSUME NEW x \in Specs, EditSpec(x) PROVE PodInv'
    <2>1. cr' \in Instance
      BY <1>12 DEF EditSpec, TypeOK, Instance
    <2>. QED
      BY <1>2, <1>12, <2>1, SomethingIsNotNone DEF EditSpec, local
  <1>13. ASSUME NEW c \in AuthClasses, NEW p \in NewProviders, EditClass(c, p) PROVE PodInv'
    BY <1>2, <1>13 DEF EditClass, local, PodInv
  <1>14. ASSUME NEW k \in Key, GarbageCollect(k) PROVE PodInv'
    <2>1. objects[k].owner \in 0..1 /\ objects[k].owner # 0 /\ cr.uid \in 1..1 /\ cr # None
      BY <1>14 DEF GarbageCollect, TypeOK, PodInv
    <2>. QED
      BY <1>14, <2>1 DEF GarbageCollect
  <1>15. ASSUME NEW v \in V1Versions, JobExpires(v) PROVE PodInv'
    <2>1. <<"Job", v>> \in Key /\ <<"Job", v>>[1] = "Job"
      BY Keys
    <2>2. \A x \in Key : x # <<"Job", v>> => objects'[x] = objects[x]
      BY <1>15 DEF JobExpires, TypeOK
    <2>3. Bodies(objects') /\ Ordered(resources, objects')
      BY <2>1, <2>2, OthersKeepOrder
    <2>. QED
      BY <1>15, <2>3 DEF JobExpires, local, PodInv
  <1>16. CASE ProvideKey \/ ProvideAdminSecret
    <2>1. /\ SensitiveKey \in Key /\ SensitiveKey[1] = "SensitiveKey"
          /\ AdminSecret \in Key /\ AdminSecret[1] = "AdminSecret"
      BY Keys DEF SensitiveKey, AdminSecret, KeyOf, SecretKinds
    <2>2. Bodies(objects') /\ Ordered(resources, objects')
      <3>1. CASE ProvideKey
        <4>1. \A x \in Key : x # SensitiveKey => objects'[x] = objects[x]
          BY <3>1 DEF ProvideKey, TypeOK
        <4>. QED
          BY <2>1, <4>1, OthersKeepOrder
      <3>2. CASE ProvideAdminSecret
        <4>1. \A x \in Key : x # AdminSecret => objects'[x] = objects[x]
          BY <3>2, Zenon DEF ProvideAdminSecret, TypeOK
        <4>. QED
          BY <2>1, <4>1, OthersKeepOrder
      <3>. QED
        BY <1>16, <3>1, <3>2
    <2>. QED
      BY <1>16, <2>2, Zenon DEF ProvideKey, ProvideAdminSecret, local, PodInv
  <1>17. CASE DeleteCluster \/ (\E k \in Key : DeleteObject(k)) \/ (\E x \in Specs : CreateCluster(x))
    BY <1>17, Zenon DEF DeleteCluster, DeleteObject, CreateCluster, Disturb, NobodyDeletes
  <1>18. CASE UNCHANGED vars
    BY <1>2, <1>18 DEF vars, local, PodInv
  <1>. QED
    BY <1>4, <1>5, <1>6, <1>7, <1>8, <1>9, <1>10, <1>11, <1>12, <1>13, <1>14, <1>15,
       <1>16, <1>17, <1>18, NextCases

\* As long as nobody deletes objects or the NifiCluster, a StatefulSet never exists
\* without the ConfigMap, ServiceAccount, Role and binding its pods need: whatever
\* the role groups and their order, edits, failed calls, early ends and restarts.
THEOREM PodOrder ==
    ASSUME NobodyDeletes
    PROVE  Spec => []PodsHavePrerequisites
  <1>1. Init => PodInv
    <2>. SUFFICES ASSUME Init PROVE PodInv
      OBVIOUS
    <2>1. cr # None /\ uid = 1 /\ pc = "idle" /\ resources = << >>
            /\ \A k \in Key : objects[k] = None
      BY DEF Init, None
    <2>2. \A kind \in RbacKinds : KeyOf(kind) \in Key
      BY DEF KeyOf, Key
    <2>3. Bodies(objects)
      BY <2>1, <2>2, NeedsAreKeys DEF Bodies, RbacKinds
    <2>4. Ordered(resources, objects)
      BY <2>1 DEF Ordered
    <2>. QED
      BY <2>1, <2>3, <2>4 DEF PodInv
  <1>2. TypeOK /\ PodInv /\ [Next]_vars => PodInv'
    BY PodInvStep
  <1>3. PodInv => PodsHavePrerequisites
    <2>. SUFFICES ASSUME PodInv, NEW g \in RoleGroups, objects[<<"StatefulSet", g>>] # None
                  PROVE  /\ objects[<<"ConfigMap", g>>] # None
                         /\ \A kind \in RbacKinds : objects[KeyOf(kind)] # None
      BY Zenon DEF PodsHavePrerequisites, PodInv, Bodies, RbacKinds
    <2>. QED
      BY DEF PodInv, Bodies, Needs, RbacKeys, RbacKinds
  <1>. QED
    BY <1>1, <1>2, <1>3, TypeCorrect, PTL DEF Spec

=============================================================================
