------------------------------- MODULE Website -------------------------------
(***************************************************************************)
(* The Website controller of the webhosting-operator, running in one shard *)
(* of its ring, and one Website: the objects that it creates for it (kids) *)
(* and the status that it writes.  Caches hold the objects that carry the  *)
(* shard's label (main.go's filtered watch cache) and may be arbitrarily   *)
(* old, one by one.  Users change the Website, its Theme and its kids; the *)
(* sharder drains the Website, assigns it and moves its kids.              *)
(*                                                                         *)
(* The content of a ConfigMap is what it was rendered from, the theme's    *)
(* name and version; the checksum of a content is the content.             *)
(***************************************************************************)
EXTENDS Integers

CONSTANTS Kinds,         \* kinds of the objects that are reconciled
          Themes,        \* names of Themes
          NoTheme,       \* the empty spec.theme
          Edited,        \* a kid's spec after an edit by a user
          None,          \* no spec, no content
          SkipWorkload,  \* the Website has the label skip-workload
          InitialTheme,
          MaxChanges,    \* bound on changes by users and the sharder
          MaxFaults,     \* bound on failing API calls
          MaxTotal       \* bound on changes and failing calls together

\* ConfigMap and Deployment are needed to serve a Website; an edit is not the
\* content of a Theme nor what is wanted of a Deployment, nor is None, and the
\* empty name is not the name of a Theme.
ASSUME WebsiteAssumption ==
  /\ {"ConfigMap", "Deployment"} \subseteq Kinds
  /\ Kinds \subseteq {"ConfigMap", "Service", "Ingress", "Deployment"}
  /\ NoTheme \notin Themes /\ InitialTheme \in Themes
  /\ Edited \notin Themes \X Nat
  /\ \A spec \in {None, Edited} : spec \notin [checksum : Themes \X Nat, replicas : {0, 1}]
  /\ SkipWorkload \in BOOLEAN
  /\ MaxChanges \in Nat \ {0} /\ MaxFaults \in Nat /\ MaxTotal \in Nat

VARIABLES site,     \* the Website in the API server
          theme,    \* version of each Theme in the API server, 0 if there is none
          kid,      \* the Website's ConfigMap, Service, Ingress and Deployment
          served,   \* spec of the Deployment whose pods run, and the content that they mount
          lost,     \* contents that the ConfigMap has had and has no more (history)
          cache,    \* the shard's copies of site, theme and kid
          queued,   \* the work queue holds the Website
          work,     \* the running reconcile
          changes, faults

vars == <<site, theme, kid, served, lost, cache, queued, work, changes, faults>>

NoStatus == [observed |-> 0, phase |-> "none"]

NoSite == [exists |-> FALSE, rv |-> 0, generation |-> 0, theme |-> NoTheme, deleting |-> FALSE,
           shard |-> "other", drain |-> FALSE, status |-> NoStatus]

\* generation, observed and rolledOut matter for the Deployment only
NoKid == [exists |-> FALSE, spec |-> None, shard |-> "other",
          generation |-> 0, observed |-> 0, rolledOut |-> FALSE]

NoPods == [spec |-> None, content |-> None]

Idle == [pc |-> "idle", site |-> NoSite, content |-> None, phase |-> "none", err |-> FALSE]

-----------------------------------------------------------------------------
(* The specs that the reconciler wants.                                    *)

\* The nginx configuration depends on the name of the Website alone.
RenderIndexHTML(w, version) == <<w.theme, version>>

reconcileConfigMap(w, version) == RenderIndexHTML(w, version)

reconcileService == "ClusterIP"

skipWorkload == SkipWorkload

\* rules, hosts and TLS as configured, and the ingress class
reconcileIngress == IF skipWorkload THEN "fake" ELSE "default"

calculateConfigMapChecksum(content) == content

reconcileDeployment(content) ==
  [checksum |-> calculateConfigMapChecksum(content), replicas |-> IF skipWorkload THEN 0 ELSE 1]

Desired(kind, w, version, content) ==
  CASE kind = "ConfigMap"  -> reconcileConfigMap(w, version)
    [] kind = "Service"    -> reconcileService
    [] kind = "Ingress"    -> reconcileIngress
    [] kind = "Deployment" -> reconcileDeployment(content)

\* rolledOut: Available, and Progressing with reason NewReplicaSetAvailable
IsDeploymentReady(d) == d.observed >= d.generation /\ d.rolledOut

\* what the filtered watch cache can hold of an object
Filtered(o, absent) == IF o.exists /\ o.shard = "me" THEN o ELSE absent

\* what the pods of a Deployment with this spec find in their volumes: the
\* ConfigMap is mounted by name, the checksum is an annotation.  Nothing is
\* known of an edited spec.
Mounts(spec) == spec \notin {None, Edited} /\ spec.replicas # 0

Pods(spec) == [spec |-> spec, content |-> IF Mounts(spec) THEN kid["ConfigMap"].spec ELSE None]

NextGeneration(k, g) == IF k \in {"Ingress", "Deployment"} THEN g + 1 ELSE g

-----------------------------------------------------------------------------
\* A Website that was just created and assigned, which counts as a change, or
\* one that is set up: reconciled, rolled out and ready.
Init ==
  /\ \E ready \in BOOLEAN :
       /\ site = [NoSite EXCEPT !.exists = TRUE, !.rv = 1, !.generation = 1,
                                !.theme = InitialTheme, !.shard = "me",
                                !.status = IF ready THEN [observed |-> 1, phase |-> "Ready"] ELSE NoStatus]
       /\ theme = [t \in Themes |-> 1]
       /\ kid = [k \in Kinds |->
                   IF ready
                   THEN [exists |-> TRUE, shard |-> "me", generation |-> 1, observed |-> 1, rolledOut |-> TRUE,
                         spec |-> Desired(k, site, 1, <<InitialTheme, 1>>)]
                   ELSE NoKid]
       /\ served = (IF ready THEN Pods(kid["Deployment"].spec) ELSE NoPods)
       /\ cache = [site |-> IF ready THEN site ELSE NoSite, theme |-> theme, kid |-> kid]
       /\ changes = IF ready THEN 0 ELSE 1
  /\ lost = {}
  /\ queued = FALSE
  /\ work = Idle
  /\ faults = 0

-----------------------------------------------------------------------------
(* Users, the sharder, and the controllers of Kubernetes.                  *)

Change == changes < MaxChanges /\ changes + faults < MaxTotal /\ changes' = changes + 1

operatorVars == <<cache, queued, work, faults>>

Contents(cm) == IF cm.exists THEN {cm.spec} ELSE {}

\* kept with every change of a kid
Lose == lost' = lost \cup (Contents(kid["ConfigMap"]) \ Contents(kid'["ConfigMap"]))

\* A Deployment's pods go with it.
Remove(k) ==
  /\ kid[k].exists
  /\ kid' = [kid EXCEPT ![k] = NoKid]
  /\ served' = IF k = "Deployment" THEN NoPods ELSE served

UpdateSite(t) ==
  /\ Change
  /\ site.exists /\ ~site.deleting /\ t # site.theme
  /\ site' = [site EXCEPT !.rv = @ + 1, !.generation = @ + 1, !.theme = t]
  /\ UNCHANGED <<theme, kid, served, lost, operatorVars>>

\* foreground deletion
DeleteSite ==
  /\ Change
  /\ site.exists /\ ~site.deleting
  /\ site' = [site EXCEPT !.rv = @ + 1, !.generation = @ + 1, !.deleting = TRUE]
  /\ UNCHANGED <<theme, kid, served, lost, operatorVars>>

ChangeTheme(t) ==
  /\ Change
  /\ \E v \in {theme[t] + 1, 0} \ {theme[t]} : theme' = [theme EXCEPT ![t] = v]
  /\ UNCHANGED <<site, kid, served, lost, operatorVars>>

\* Somebody edits or deletes a kid; ConfigMaps and Services have no generation.
\* The watch has delivered the kid as it was: only a relist could merge changes
\* into one event, or into none.
Tamper(k) ==
  /\ Change
  /\ kid[k].exists /\ Filtered(kid[k], NoKid) = cache.kid[k]
  /\ \/ Remove(k)
     \/ /\ kid' = [kid EXCEPT ![k].spec = Edited, ![k].generation = NextGeneration(k, @)]
        /\ UNCHANGED served
  /\ Lose
  /\ UNCHANGED <<site, theme, operatorVars>>

\* The sharder wants the Website on another shard, or gives it to this one.
Drain ==
  /\ Change
  /\ site.exists /\ site.shard = "me" /\ ~site.drain
  /\ site' = [site EXCEPT !.rv = @ + 1, !.drain = TRUE]
  /\ UNCHANGED <<theme, kid, served, lost, operatorVars>>

\* The watch delivers that the Website left before it comes back: only a relist
\* could merge the two events into one.
Assign ==
  /\ site.exists /\ site.shard # "me" /\ ~cache.site.exists
  /\ site' = [site EXCEPT !.rv = @ + 1, !.shard = "me"]
  /\ UNCHANGED <<theme, kid, served, lost, operatorVars, changes>>

\* Controlled objects follow without drain.
MoveKid(k) ==
  /\ site.exists /\ kid[k].exists /\ kid[k].shard # site.shard
  /\ kid' = [kid EXCEPT ![k].shard = site.shard]
  /\ UNCHANGED <<site, theme, served, lost, operatorVars, changes>>

\* The deployment controller observes a new spec, and ends its rollout.
ObserveDeployment ==
  /\ LET d == kid["Deployment"] IN
       /\ d.exists /\ d.observed < d.generation
       /\ kid' = [kid EXCEPT !["Deployment"].observed = d.generation,
                             !["Deployment"].rolledOut = FALSE]
  /\ UNCHANGED <<site, theme, served, lost, operatorVars, changes>>

\* Pods that run with this spec stay; new ones need the ConfigMap to start, and
\* mount it as it is.
RollOut ==
  /\ LET d == kid["Deployment"] IN
       /\ d.exists /\ d.observed = d.generation /\ ~d.rolledOut
       /\ kid' = [kid EXCEPT !["Deployment"].rolledOut = TRUE]
       /\ \/ d.spec = served.spec /\ UNCHANGED served
          \/ /\ d.spec # served.spec
             /\ Mounts(d.spec) => kid["ConfigMap"].exists
             /\ served' = Pods(d.spec)
  /\ UNCHANGED <<site, theme, lost, operatorVars, changes>>

\* The kubelet brings mounted volumes up to date, long after the ConfigMap has
\* changed; a pod that is replaced mounts them anew.
Refresh ==
  /\ Mounts(served.spec) /\ kid["ConfigMap"].exists
  /\ served.content # kid["ConfigMap"].spec
  /\ served' = Pods(served.spec)
  /\ UNCHANGED <<site, theme, kid, lost, operatorVars, changes>>

\* The garbage collector deletes the kids of a deleted Website, then the Website.
CollectGarbage ==
  /\ site.exists /\ site.deleting
  /\ \/ \E k \in Kinds : Remove(k) /\ Lose /\ UNCHANGED site
     \/ (\A k \in Kinds : ~kid[k].exists) /\ site' = NoSite /\ UNCHANGED <<kid, served, lost>>
  /\ UNCHANGED <<theme, operatorVars, changes>>

-----------------------------------------------------------------------------
(* Events.                                                                 *)

\* mutant: the controller does not react to its own status updates
websitePredicateSpec(old, new) == old.generation # new.generation

\* GenerationChanged or WebsiteStatusChanged
websitePredicate(old, new) ==
  old.generation # new.generation \/ old.status # new.status

\* mutant: only the controller's own predicates count
PredicateUndrained(old, new) ==
  ~old.exists \/ ~new.exists \/ websitePredicate(old, new)

\* shardcontroller.Predicate: isDrained, or isAssigned (all that is cached is)
\* and the controller's predicates, which pass creations and deletions
Predicate(old, new) ==
  new.drain \/ ~old.exists \/ ~new.exists \/ websitePredicate(old, new)

DeliverSite ==
  /\ LET new == Filtered(site, NoSite) IN
       /\ cache.site # new
       /\ cache' = [cache EXCEPT !.site = new]
       /\ queued' = (queued \/ Predicate(cache.site, new))
  /\ UNCHANGED <<site, theme, kid, served, lost, work, changes, faults>>

DeploymentAvailabilityChanged(old, new) == IsDeploymentReady(old) # IsDeploymentReady(new)

\* mutant: the end of a rollout is no event
OwnsPredicateSpec(k, old, new) ==
  \/ ~old.exists \/ ~new.exists
  \/ k = "ConfigMap" /\ old.spec # new.spec
  \/ k # "ConfigMap" /\ old.generation # new.generation

\* the data of a ConfigMap, the generation of the others
OwnsPredicate(k, old, new) ==
  \/ ~old.exists \/ ~new.exists
  \/ k = "ConfigMap" /\ old.spec # new.spec
  \/ k # "ConfigMap" /\ old.generation # new.generation
  \/ k = "Deployment" /\ DeploymentAvailabilityChanged(old, new)

DeliverKid(k) ==
  /\ LET new == Filtered(kid[k], NoKid) IN
       /\ cache.kid[k] # new
       /\ cache' = [cache EXCEPT !.kid[k] = new]
       /\ queued' = (queued \/ OwnsPredicate(k, cache.kid[k], new))
  /\ UNCHANGED <<site, theme, kid, served, lost, work, changes, faults>>

\* mutant: a Theme is taken to be used by no Website
MapThemeToWebsitesNone(t) == FALSE

\* whether the Website is among the cached Websites with this spec.theme
MapThemeToWebsites(t) == cache.site.exists /\ cache.site.theme = t

DeliverTheme(t) ==
  /\ cache.theme[t] # theme[t]
  /\ queued' = (queued \/ MapThemeToWebsites(t))
  /\ cache' = [cache EXCEPT !.theme[t] = theme[t]]
  /\ UNCHANGED <<site, theme, kid, served, lost, work, changes, faults>>

-----------------------------------------------------------------------------
(* Reconcile.  An error puts the Website into the queue again.             *)

Fault == faults < MaxFaults /\ changes + faults < MaxTotal /\ faults' = faults + 1

\* mutant: only the shard label is removed
AckDrainShardLabel ==
  /\ work.pc = "idle" /\ queued
  /\ cache.site.exists /\ cache.site.drain
  /\ site.exists /\ site.rv = cache.site.rv
  /\ site' = [site EXCEPT !.rv = @ + 1, !.shard = "other"]
  /\ queued' = FALSE
  /\ UNCHANGED <<theme, kid, served, lost, cache, work, changes, faults>>

\* The sharded reconciler acknowledges the drain; the removal of the label
\* passes the sharder webhook, which assigns the Website elsewhere.
AckDrain ==
  /\ work.pc = "idle" /\ queued
  /\ cache.site.exists /\ cache.site.drain
  /\ IF site.exists /\ site.rv = cache.site.rv
     THEN \/ /\ site' = [site EXCEPT !.rv = @ + 1, !.shard = "other", !.drain = FALSE]
             /\ queued' = FALSE /\ UNCHANGED faults
          \/ Fault /\ UNCHANGED <<site, queued>>
     ELSE UNCHANGED <<site, queued, faults>>
  /\ UNCHANGED <<theme, kid, served, lost, cache, work, changes>>

\* Start of Reconcile and of reconcileWebsite, up to the Theme.  The error of a
\* Website without theme is recorded, and the phase is left alone.
Reconcile ==
  /\ work.pc = "idle" /\ queued
  /\ ~cache.site.drain
  /\ queued' = FALSE
  /\ LET w == cache.site
         status(phase, err) == [Idle EXCEPT !.pc = "status", !.site = w, !.phase = phase, !.err = err]
     IN work' = CASE ~w.exists -> Idle
                  [] w.exists /\ w.deleting -> status("Terminating", FALSE)
                  [] w.exists /\ ~w.deleting /\ w.theme = NoTheme -> status(w.status.phase, FALSE)
                  [] w.exists /\ ~w.deleting /\ w.theme # NoTheme ->
                       IF cache.theme[w.theme] = 0
                       THEN status("Error", TRUE)
                       ELSE [Idle EXCEPT !.pc = "ConfigMap", !.site = w,
                                         !.content = reconcileConfigMap(w, cache.theme[w.theme])]
  /\ UNCHANGED <<site, theme, kid, served, lost, cache, changes, faults>>

NextStep(k) ==
  LET after == [ConfigMap |-> {"Service", "Ingress"}, Service |-> {"Ingress"}, Ingress |-> {}]
      rest  == after[k] \cap Kinds
  IN IF rest = {} THEN "Deployment" ELSE IF "Service" \in rest THEN "Service" ELSE "Ingress"

\* The kid d was created, patched or found as wanted.
Proceed(k, d) ==
  IF k = "Deployment"
  THEN work' = [work EXCEPT !.pc = "status",
                            !.phase = IF IsDeploymentReady(d) THEN "Ready" ELSE "Pending"]
  ELSE work' = [work EXCEPT !.pc = NextStep(k)]

\* mutant: a kid that could not be written does not keep the next from it
recordErrorContinue ==
  work' = [work EXCEPT !.pc = IF work.pc = "Deployment" THEN "status" ELSE NextStep(work.pc),
                       !.phase = "Error", !.err = TRUE]

recordError == work' = [work EXCEPT !.pc = "status", !.phase = "Error", !.err = TRUE]

\* CreateOrPatch: Get from the cache, then Create, Patch or nothing.  The patch
\* is taken to overwrite whatever was edited since the cached copy.
CreateOrPatch(k) ==
  LET cached == cache.kid[k]
      want   == Desired(k, work.site, work.content[2], work.content)
      new    == [NoKid EXCEPT !.exists = TRUE, !.spec = want, !.shard = "me", !.generation = 1]
  IN /\ work.pc = k
     /\ \/ /\ cached.exists /\ cached.spec = want
           /\ Proceed(k, cached) /\ UNCHANGED <<kid, faults>>
        \/ /\ cached.exists /\ cached.spec # want /\ kid[k].exists
           /\ kid' = [kid EXCEPT ![k].spec = want,
                        ![k].generation = IF kid[k].spec = want THEN @ ELSE NextGeneration(k, @)]
           /\ Proceed(k, kid'[k]) /\ UNCHANGED faults
        \/ /\ ~cached.exists /\ ~kid[k].exists
           /\ kid' = [kid EXCEPT ![k] = new]
           /\ Proceed(k, new) /\ UNCHANGED faults
        \* NotFound on Patch, AlreadyExists on Create
        \/ /\ ~(cached.exists /\ cached.spec = want) /\ cached.exists # kid[k].exists
           /\ recordError /\ UNCHANGED <<kid, faults>>
        \/ /\ ~(cached.exists /\ cached.spec = want) /\ cached.exists = kid[k].exists
           /\ Fault /\ recordError /\ UNCHANGED kid
     /\ Lose
     /\ UNCHANGED <<site, theme, served, cache, queued, changes>>

\* The end of Reconcile: an optimistic update unless the copy that was read has
\* the status already.
UpdateStatus ==
  /\ work.pc = "status"
  /\ LET status == [observed |-> work.site.generation, phase |-> work.phase] IN
       \/ /\ status = work.site.status
          /\ queued' = (queued \/ work.err)
          /\ UNCHANGED <<site, faults>>
       \/ /\ status # work.site.status
          /\ site.exists /\ site.rv = work.site.rv
          /\ site' = [site EXCEPT !.rv = @ + 1, !.status = status]
          /\ queued' = (queued \/ work.err)
          /\ UNCHANGED faults
       \/ /\ status # work.site.status
          /\ IF site.exists /\ site.rv = work.site.rv THEN Fault ELSE UNCHANGED faults
          /\ queued' = TRUE
          /\ UNCHANGED site
  /\ work' = Idle
  /\ UNCHANGED <<theme, kid, served, lost, cache, changes>>

-----------------------------------------------------------------------------
Deliver ==
  \/ DeliverSite
  \/ \E k \in Kinds : DeliverKid(k)
  \/ \E t \in Themes : DeliverTheme(t)

Operator == AckDrain \/ Reconcile \/ UpdateStatus \/ \E k \in Kinds : CreateOrPatch(k)

OtherControllers ==
  \/ \E k \in Kinds : MoveKid(k)
  \/ ObserveDeployment \/ RollOut \/ Refresh \/ CollectGarbage

Next ==
  \/ \E t \in Themes \cup {NoTheme} : UpdateSite(t)
  \/ \E t \in Themes : ChangeTheme(t)
  \/ \E k \in Kinds : Tamper(k)
  \/ DeleteSite \/ Drain \/ Assign
  \/ OtherControllers \/ Deliver \/ Operator

Spec == Init /\ [][Next]_vars

\* Watches deliver, the operator's workers run, errors are retried, and the
\* other controllers (deployments, the sharder's resync) do their work.
FairSpec ==
  /\ Spec
  /\ WF_vars(DeliverSite) /\ WF_vars(Deliver) /\ WF_vars(Operator) /\ WF_vars(OtherControllers)

-----------------------------------------------------------------------------
Phases == {"none", "Pending", "Ready", "Error", "Terminating"}

KidSpecs == {None, Edited, "ClusterIP", "fake", "default"}

SiteObject == [exists : BOOLEAN, rv : Nat, generation : Nat, theme : Themes \cup {NoTheme},
               deleting : BOOLEAN, shard : {"me", "other"}, drain : BOOLEAN,
               status : [observed : Nat, phase : Phases]]

\* The types of the variables that Reconcile writes; drain is only ever set for
\* an assigned Website, and the cache never holds an object of another shard.
TypeOK ==
  /\ site \in SiteObject /\ (site.drain => site.shard = "me")
  /\ cache.site \in SiteObject /\ (cache.site.exists => cache.site.shard = "me")
  /\ \A k \in Kinds : kid[k].exists /\ k # "Deployment" /\ k # "ConfigMap" => kid[k].spec \in KidSpecs
  /\ queued \in BOOLEAN
  /\ work.pc \in Kinds \cup {"idle", "status"} /\ work.phase \in Phases /\ work.err \in BOOLEAN
  /\ changes \in 0 .. MaxChanges /\ faults \in 0 .. MaxFaults

\* everything was delivered and reconciled
Quiet ==
  /\ cache = [site |-> Filtered(site, NoSite), theme |-> theme,
              kid |-> [k \in Kinds |-> Filtered(kid[k], NoKid)]]
  /\ ~queued /\ work.pc = "idle"

Mine == site.exists /\ site.shard = "me"

\* Nothing to do means nothing wrong: when events are delivered and the queue is
\* empty, the kids of an assigned Website are what its current theme asks for
\* (theme updates, edits and deletions of kids are all noticed).
KidsCurrent ==
  Quiet /\ Mine /\ ~site.deleting /\ site.theme # NoTheme =>
    LET content == <<site.theme, theme[site.theme]>> IN
      /\ theme[site.theme] # 0
      /\ \A k \in Kinds :
           /\ kid[k].exists
           /\ \/ kid[k].spec = Desired(k, site, theme[site.theme], content)
              \/ k = "Service" /\ kid[k].spec = Edited

\* When there is nothing to do, the status is the one of the current generation
\* and of the Deployment as it is, even though updates are skipped when a stale
\* copy has the wanted status (the reason for WebsiteStatusChanged).
StatusCurrent ==
  Quiet /\ Mine =>
    /\ site.status.observed = site.generation
    /\ site.deleting => site.status.phase = "Terminating"
    /\ ~site.deleting /\ site.theme # NoTheme =>
         site.status.phase = IF IsDeploymentReady(kid["Deployment"]) THEN "Ready" ELSE "Pending"

\* A Website that shows Ready for its current generation is served from the
\* theme of that generation, in the version that the controller knows, as soon
\* as it has seen the Website and the Deployment and has nothing to do: the
\* Deployment with the new checksum is written after the ConfigMap, so that the
\* pods of its rollout mount what it was computed from.  Before, it may be wrong:
\* Reconcile does not see its own last patch of the Deployment in the cache.  And
\* it may be wrong for a content that the ConfigMap has had before, was changed
\* from and has again: pods that mounted it in between have the right checksum,
\* no rollout replaces them, and they wait for the kubelet (see Converges).
ReadyIsServed ==
  LET want == <<site.theme, cache.theme[site.theme]>> IN
    /\ Mine /\ site.theme # NoTheme /\ ~skipWorkload
    /\ site.status = [observed |-> site.generation, phase |-> "Ready"]
    /\ cache.site = site /\ cache.kid["Deployment"] = Filtered(kid["Deployment"], NoKid)
    /\ ~queued /\ work.pc = "idle"
    /\ want \notin lost
    => served.content = want

\* After the last change every Website that stays assigned gets its kids and the
\* status that goes with them: failed calls, conflicts and kids that still
\* carry another shard's label (Create answers AlreadyExists) are retried.
Converges ==
  <>[](Mine /\ ~site.drain /\ ~site.deleting /\ site.theme # NoTheme /\ theme[site.theme] # 0 =>
         /\ site.status = [observed |-> site.generation, phase |-> "Ready"]
         /\ served.content = <<site.theme, theme[site.theme]>> \/ skipWorkload)

\* A drain is acknowledged although it changes neither generation nor status
\* (shardcontroller.Predicate), and whatever else happens to the Website.
DrainAcknowledged == site.drain ~> ~site.drain
=============================================================================
