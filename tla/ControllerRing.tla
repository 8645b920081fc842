--------------------------- MODULE ControllerRing ---------------------------
(***************************************************************************)
(* The control plane around one ControllerRing: the controllerring         *)
(* controller, which writes the ring's webhook configuration and status;   *)
(* the events that make the sharder controller resync the ring; and the    *)
(* webhook handler's decision on an object.  The API server has the ring,  *)
(* the leases of its shards and the webhook configuration; the sharder has *)
(* caches of the ring and the leases.                                      *)
(*                                                                         *)
(* A lease is "absent", "held" by its shard or "lost" (released, or        *)
(* acquired by the sharder): IsAvailable depends on the holder only, so no *)
(* clock is needed here.  What a resync does is the subject of Sharding.   *)
(***************************************************************************)
EXTENDS Integers, FiniteSets

CONSTANTS Shards,
          Specs,            \* ring specs: [resources |-> [main -> SUBSET controlled], selector]
          InitialSpec,
          Namespaces,
          ConfigSelector,   \* NamespaceSelector of the SharderConfig: a set of namespaces
          Objects,          \* [resource, kind, namespace, name, owner] of requests
          NoSelector, Invalid, ClusterScope, NoName, NoOwner, NoKey, None,
          MaxChanges,       \* bound on changes of the ring and of leases
          MaxFaults         \* bound on failing API calls

VARIABLES ring,       \* the ControllerRing in the API server
          lease,      \* the shards' leases in the API server
          webhook,    \* the spec that the MutatingWebhookConfiguration was built from, or None
          cache,      \* the sharder's cached ring and leases
          queue,      \* the controllers whose work queue holds the ring
          work,       \* running Reconcile of the controllerring controller
          skipped,    \* its last status update was skipped because a stale copy had the same status
          op,         \* running Operation of the sharder controller, or None
          last,       \* what the last successful Operation covered, or None
          due,        \* RequeueAfter of the periodic resync is pending
          changes, faults

vars == <<ring, lease, webhook, cache, queue, work, skipped, op, last, due, changes, faults>>

Controllers == {"controllerring", "sharder"}

NoStatus == [observed |-> 0, ready |-> "Unset", shards |-> 0, available |-> 0]

NoRing == [exists |-> FALSE, rv |-> 0, generation |-> 0, spec |-> None, status |-> NoStatus]

-----------------------------------------------------------------------------
(* What a ring selects, and the webhook's answer to a request.             *)

Controlled(spec) == UNION {spec.resources[m] : m \in DOMAIN spec.resources}

\* metav1.LabelSelectorAsSelector fails for an Invalid selector
Selector(spec) ==
  IF spec.selector = NoSelector THEN ConfigSelector ELSE spec.selector

Valid(spec) == Selector(spec) # Invalid

\* mutant: the selector of the ring is forgotten
GetSelectedNamespacesConfig(spec) == [ok |-> Valid(spec), namespaces |-> ConfigSelector]

\* the namespaces themselves do not change here
GetSelectedNamespaces(spec) ==
  IF Valid(spec) THEN [ok |-> TRUE, namespaces |-> Selector(spec)]
                 ELSE [ok |-> FALSE, namespaces |-> {}]

\* The rules of the ring's webhook; the API server applies a namespaceSelector
\* to objects that have a namespace, rules have AllScopes.
RuleForResource(spec, resource) ==
  resource \in DOMAIN spec.resources \cup Controlled(spec)

WebhookForControllerRing(spec, o) ==
  /\ RuleForResource(spec, o.resource)
  /\ o.namespace = ClusterScope \/ o.namespace \in Selector(spec)

\* Keys are group/kind/namespace/name; NoKey ("") is the key of objects that are not
\* assigned, None stands for an error.
ForObject(o) ==
  IF o.name = NoName THEN None ELSE <<o.kind, o.namespace, o.name>>

\* mutant: the key of a controlled object is its own
ForControllerOwn(o) == <<o.owner.kind, o.namespace, o.name>>

ForController(o) ==
  CASE o.owner = NoOwner -> NoKey
    [] o.owner # NoOwner /\ ~o.owner.complete -> None
    [] OTHER -> <<o.owner.kind, o.namespace, o.owner.name>>

\* mutant: controlled resources are not looked up
FuncForResourceMain(spec, o) ==
  IF o.resource \in DOMAIN spec.resources THEN ForObject(o) ELSE None

FuncForResource(spec, o) ==
  CASE o.resource \in DOMAIN spec.resources -> ForObject(o)
    [] o.resource \in Controlled(spec) \ DOMAIN spec.resources -> ForController(o)
    [] OTHER -> None

\* mutant: only the state Dead is unavailable
AvailableShardsNotLost(leases) == {s \in Shards : leases[s] # "lost"}

AvailableShards(leases) == {s \in Shards : leases[s] = "held"}

\* the cached ring of the request's path
ControllerRingForRequest == cache.ring

\* Handle for an unassigned object (the webhook's ObjectSelector sends no
\* other).  An Errored answer denies the request: FailurePolicy Ignore is
\* about calls that fail, not about answers.
Handle(o) ==
  LET hashKey == FuncForResource(ControllerRingForRequest.spec, o)
  IN IF ~ControllerRingForRequest.exists \/ hashKey = None
     THEN [answer |-> "errored", key |-> None]
     ELSE IF hashKey = NoKey \/ AvailableShards(cache.leases) = {}
          THEN [answer |-> "allowed", key |-> None]
          ELSE [answer |-> "assigned", key |-> hashKey]

\* what an Operation of the sharder controller covers
Covered == [shards : SUBSET Shards,
            resources : SUBSET UNION {DOMAIN spec.resources \cup Controlled(spec) : spec \in Specs},
            namespaces : SUBSET Namespaces]

\* the keys of objects and of their owners
Keys == {<<o.kind, o.namespace, o.name>> : o \in Objects}
        \cup {<<o.owner.kind, o.namespace, o.owner.name>> : o \in {x \in Objects : x.owner # NoOwner}}

\* Selectors are sets of namespaces; None is nothing else.
ASSUME RingAssumption ==
  /\ IsFiniteSet(Shards)
  /\ InitialSpec \in Specs
  /\ ConfigSelector \subseteq Namespaces
  /\ \A spec \in Specs : spec.selector \in {NoSelector, Invalid} \/ spec.selector \subseteq Namespaces
  /\ None \notin Specs /\ None \notin Covered /\ None \notin Keys \cup {NoKey}
  /\ MaxChanges \in Nat /\ MaxFaults \in Nat

-----------------------------------------------------------------------------
Init ==
  /\ ring = [exists |-> TRUE, rv |-> 1, generation |-> 1, spec |-> InitialSpec,
             status |-> NoStatus]
  /\ lease = [s \in Shards |-> "absent"]
  /\ webhook = None
  /\ cache = [ring |-> NoRing, leases |-> lease]
  /\ queue = {}
  /\ work = [pc |-> "idle", ring |-> NoRing]
  /\ skipped = FALSE
  /\ op = None /\ last = None
  /\ due = FALSE
  /\ changes = 0 /\ faults = 0

controllerVars == <<webhook, cache, queue, work, skipped, op, last, due, faults>>

Change == changes < MaxChanges /\ changes' = changes + 1

UpdateRing(spec) ==
  /\ Change
  /\ ring.exists /\ spec # ring.spec
  /\ ring' = [ring EXCEPT !.rv = @ + 1, !.generation = @ + 1, !.spec = spec]
  /\ UNCHANGED <<lease, controllerVars>>

\* A ring with the same name is not created again.
DeleteRing ==
  /\ Change
  /\ ring.exists
  /\ ring' = [ring EXCEPT !.exists = FALSE, !.rv = @ + 1]
  /\ UNCHANGED <<lease, controllerVars>>

\* the webhook configuration has a controller reference to the ring
CollectGarbage ==
  /\ ~ring.exists /\ webhook # None
  /\ webhook' = None
  /\ UNCHANGED <<ring, lease, cache, queue, work, skipped, op, last, due, changes, faults>>

\* The shard creates, loses or acquires its lease; the shardlease controller
\* deletes it when it is orphaned (a user may delete it at any time).
ChangeLease(s) ==
  /\ Change
  /\ \/ lease[s] = "absent" /\ lease' = [lease EXCEPT ![s] = "held"]
     \/ lease[s] = "held" /\ \E to \in {"lost", "absent"} : lease' = [lease EXCEPT ![s] = to]
     \/ lease[s] = "lost" /\ \E to \in {"held", "absent"} : lease' = [lease EXCEPT ![s] = to]
  /\ UNCHANGED <<ring, controllerVars>>

-----------------------------------------------------------------------------
(* Events.  An informer brings its cache to the current version, skipping  *)
(* any number of versions after a relist, and calls the event handlers.    *)

\* mutant: only the creation of a ring is handled
ControllerRingCreated(old, new) == new.exists /\ ~old.exists

ControllerRingCreatedOrUpdated(old, new) ==
  /\ new.exists
  /\ ~old.exists \/ old.generation # new.generation

DeliverRing ==
  /\ cache.ring # ring
  /\ cache' = [cache EXCEPT !.ring = ring]
  /\ queue' = IF ControllerRingCreatedOrUpdated(cache.ring, ring)
              THEN Controllers ELSE queue
  /\ UNCHANGED <<ring, lease, webhook, work, skipped, op, last, due, changes, faults>>

\* mutant: deletions of available shards are ignored
ShardLeaseAvailabilityChangedNoDelete(old, new, DeleteStateUnknown) ==
  new # "absent" /\ (old = "held") # (new = "held")

ShardLeaseAvailabilityChanged(old, new, DeleteStateUnknown) ==
  CASE old = "absent" -> new = "held"
    [] new = "absent" -> DeleteStateUnknown \/ old = "held"
    [] OTHER -> (old = "held") # (new = "held")

\* mutant: shards that are not available do not count as created or deleted
LeasePredicateAvailability(c, old, new, unknown) ==
  ShardLeaseAvailabilityChanged(old, new, unknown)

LeasePredicate(c, old, new, unknown) ==
  \/ c = "controllerring" /\ (old = "absent" \/ new = "absent")
  \/ ShardLeaseAvailabilityChanged(old, new, unknown)

\* MapLeaseToControllerRing: every lease here has the label of the ring
DeliverLease(s) ==
  /\ cache.leases[s] # lease[s]
  /\ cache' = [cache EXCEPT !.leases[s] = lease[s]]
  /\ \E unknown \in BOOLEAN :
       queue' = queue \cup {c \in Controllers :
                               LeasePredicate(c, cache.leases[s], lease[s], unknown)}
  /\ UNCHANGED <<ring, lease, webhook, work, skipped, op, last, due, changes, faults>>

-----------------------------------------------------------------------------
(* The controllerring controller.  An error puts the ring into the queue   *)
(* again (with a backoff, which is not modelled).                          *)

Fault == faults < MaxFaults /\ faults' = faults + 1

\* The webhook configuration is built from the ring alone and applied as a whole.
reconcileWebhooks(ringCopy) == webhook' = ringCopy.spec

\* The API server refuses an Invalid selector.  A failing call is the one that
\* applies the webhook configuration (made or not) or the list of the leases.
Reconcile ==
  /\ work.pc = "idle" /\ "controllerring" \in queue
  /\ queue' = queue \ {"controllerring"}
  /\ LET before == cache.ring IN
       \/ ~before.exists /\ UNCHANGED <<webhook, work, faults>>
       \/ /\ before.exists /\ Valid(before.spec)
          /\ reconcileWebhooks(before)
          /\ work' = [pc |-> "applied", ring |-> before]
          /\ UNCHANGED faults
       \/ /\ before.exists
          /\ IF Valid(before.spec)
             THEN Fault /\ (reconcileWebhooks(before) \/ UNCHANGED webhook)
             ELSE UNCHANGED <<webhook, faults>>
          /\ work' = [pc |-> "failed", ring |-> before]
  /\ UNCHANGED <<ring, lease, cache, skipped, op, last, due, changes>>

\* OptionallyUpdateStatus with the new status: nothing to do if the copy that
\* was read has it already, an optimistic update otherwise.
OptionallyUpdateStatus(status) ==
  \/ /\ status = work.ring.status
     /\ skipped' = (work.ring.rv # ring.rv)
     /\ UNCHANGED <<ring, faults>>
  \/ /\ status # work.ring.status
     /\ ring.exists /\ ring.rv = work.ring.rv
     /\ ring' = [ring EXCEPT !.rv = @ + 1, !.status = status]
     /\ skipped' = FALSE
     /\ UNCHANGED faults

\* NotFound, a conflict, or another failure of the update
UpdateFails(status) ==
  /\ status # work.ring.status
  /\ IF ring.exists /\ ring.rv = work.ring.rv THEN Fault ELSE UNCHANGED faults
  /\ UNCHANGED <<ring, skipped>>

updateStatusSuccess ==
  /\ work.pc = "applied"
  /\ work' = [pc |-> "idle", ring |-> NoRing]
  /\ LET leases == cache.leases
         status == [observed  |-> work.ring.generation,
                    ready     |-> "True",
                    shards    |-> Cardinality({s \in Shards : leases[s] # "absent"}),
                    available |-> Cardinality(AvailableShards(leases))]
     IN \/ OptionallyUpdateStatus(status) /\ UNCHANGED queue
        \/ UpdateFails(status) /\ queue' = queue \cup {"controllerring"}
  /\ UNCHANGED <<lease, webhook, cache, op, last, due, changes>>

updateStatusError ==
  /\ work.pc = "failed"
  /\ work' = [pc |-> "idle", ring |-> NoRing]
  /\ LET status == [work.ring.status EXCEPT !.observed = work.ring.generation,
                                            !.ready = "False"]
     IN OptionallyUpdateStatus(status) \/ UpdateFails(status)
  /\ queue' = queue \cup {"controllerring"}
  /\ UNCHANGED <<lease, webhook, cache, op, last, due, changes>>

-----------------------------------------------------------------------------
(* The sharder controller, as far as its triggers go.                      *)

NewOperation ==
  /\ op = None /\ "sharder" \in queue
  /\ queue' = queue \ {"sharder"}
  /\ LET current    == cache.ring
         namespaces == GetSelectedNamespaces(current.spec)
     IN op' = IF ~current.exists \/ ~namespaces.ok \* gone, or a TerminalError: no retry
              THEN None
              ELSE [shards     |-> AvailableShards(cache.leases),
                    resources  |-> DOMAIN current.spec.resources \cup Controlled(current.spec),
                    namespaces |-> namespaces.namespaces]
  /\ UNCHANGED <<ring, lease, webhook, cache, work, skipped, last, due, changes, faults>>

FinishOperation ==
  /\ op # None
  /\ op' = None
  /\ \/ last' = op /\ due' = TRUE /\ UNCHANGED <<queue, faults>>
     \/ Fault /\ queue' = queue \cup {"sharder"} /\ UNCHANGED <<last, due>>
  /\ UNCHANGED <<ring, lease, webhook, cache, work, skipped, changes>>

SyncPeriod ==
  /\ due
  /\ due' = FALSE
  /\ queue' = queue \cup {"sharder"}
  /\ UNCHANGED <<ring, lease, webhook, cache, work, skipped, op, last, changes, faults>>

-----------------------------------------------------------------------------
System ==
  \/ CollectGarbage
  \/ DeliverRing
  \/ \E s \in Shards : DeliverLease(s)
  \/ Reconcile \/ updateStatusSuccess \/ updateStatusError
  \/ NewOperation \/ FinishOperation \/ SyncPeriod

Next ==
  \/ \E spec \in Specs : UpdateRing(spec)
  \/ DeleteRing
  \/ \E s \in Shards : ChangeLease(s)
  \/ System

Spec == Init /\ [][Next]_vars

\* Watches deliver, and the work queues' items are processed and retried.
FairSpec ==
  /\ Spec
  /\ WF_vars(DeliverRing) /\ \A s \in Shards : WF_vars(DeliverLease(s))
  /\ WF_vars(Reconcile) /\ WF_vars(updateStatusSuccess) /\ WF_vars(updateStatusError)
  /\ WF_vars(NewOperation) /\ WF_vars(FinishOperation)

-----------------------------------------------------------------------------
Status == [observed : Nat, ready : {"Unset", "True", "False"},
           shards : 0 .. Cardinality(Shards), available : 0 .. Cardinality(Shards)]

RingObject == [exists : BOOLEAN, rv : Nat, generation : Nat, spec : Specs \cup {None},
               status : Status]

\* Every variable has its type, and the status never shows more available
\* shards than shards.
TypeOK ==
  /\ ring \in RingObject /\ ring.status.available <= ring.status.shards
  /\ lease \in [Shards -> {"absent", "held", "lost"}]
  /\ webhook \in Specs \cup {None}
  /\ cache \in [ring : RingObject, leases : [Shards -> {"absent", "held", "lost"}]]
  /\ queue \in SUBSET Controllers
  /\ work \in [pc : {"idle", "applied", "failed"}, ring : RingObject]
  /\ skipped \in BOOLEAN /\ due \in BOOLEAN
  /\ op \in Covered \cup {None}
  /\ last \in Covered \cup {None}
  /\ changes \in 0 .. MaxChanges /\ faults \in 0 .. MaxFaults

\* controller c has nothing to do
Quiet(c) ==
  /\ cache.leases = lease
  /\ cache.ring.exists = ring.exists
  /\ cache.ring.generation = ring.generation
  /\ c \notin queue
  /\ IF c = "sharder" THEN op = None ELSE work.pc = "idle"

\* No availability change and no change of the spec goes without a resync:
\* while the sharder controller has nothing to do, its last successful resync
\* worked with the shards, resources and namespaces there are (the predicates
\* of sharder/add.go, whatever events the informers merge).
ResyncCurrent ==
  Quiet("sharder") /\ ring.exists /\ Valid(ring.spec) =>
    /\ last # None
    /\ last.shards = AvailableShards(lease)
    /\ last.resources = DOMAIN ring.spec.resources \cup Controlled(ring.spec)
    /\ last.namespaces = Selector(ring.spec)

\* While the controllerring controller has nothing to do, the webhook
\* configuration is the ring's and the status shows the ring's generation and
\* counts its leases.  The one exception is the skipped update: the copy of the
\* ring that Reconcile read misses the controller's own last status update and
\* happens to have the wanted status, so DeepEqual skips the write
\* (OptionallyUpdateStatus), and the late status event does not pass the
\* generation predicate.
StatusCurrent ==
  Quiet("controllerring") /\ ring.exists =>
    /\ webhook = ring.spec
    /\ \/ skipped
       \/ ring.status = [observed  |-> ring.generation,
                         ready     |-> "True",
                         shards    |-> Cardinality({s \in Shards : lease[s] # "absent"}),
                         available |-> Cardinality(AvailableShards(lease))]

\* "the sharder controller will assign any objects that missed the sharder
\* webhook" (controllerring/reconciler.go): once both controllers are quiet, an
\* object that the API server would send to the webhook and that has a key is
\* one that resyncs look at.  This is so for objects with a namespace only: a
\* resync skips every object whose namespace is not among the selected ones,
\* and the namespace of a cluster-scoped object is none of them.
MissedAreResynced ==
  (\A c \in Controllers : Quiet(c)) /\ ring.exists =>
    \A o \in {x \in Objects : x.namespace # ClusterScope} :
      /\ WebhookForControllerRing(webhook, o)
      /\ FuncForResource(ring.spec, o) \notin {None, NoKey}
      => o.resource \in last.resources /\ o.namespace \in last.namespaces

\* an object of a ring's resource has a name (generateName is not supported),
\* a controlled one either no controller or a complete reference to it
WellFormed(spec, o) ==
  IF o.resource \in DOMAIN spec.resources THEN o.name # NoName
                                           ELSE o.owner # NoOwner => o.owner.complete

\* Once the cached ring is current and the webhook configuration follows the
\* ring, no request for a well-formed object is denied by Handle: rules and
\* key functions agree on the ring's resources.
NotDenied ==
  cache.ring.exists /\ webhook = cache.ring.spec =>
    \A o \in Objects :
      /\ WebhookForControllerRing(webhook, o)
      /\ WellFormed(webhook, o)
      => Handle(o).answer # "errored"

\* An object of a resource and an object of one of its controlled resources
\* that it owns go to the same shard: whenever Handle assigns both, it hashes
\* the same key (key.ForObject and key.ForController).  A resource that is
\* listed itself has keys of its own, whoever controls its objects.
OwnersAgree ==
  cache.ring.exists =>
    \A o, c \in Objects :
      /\ o.resource \in DOMAIN cache.ring.spec.resources
      /\ c.resource \in cache.ring.spec.resources[o.resource] \ DOMAIN cache.ring.spec.resources
      /\ c.owner # NoOwner
      /\ c.owner.kind = o.kind /\ c.owner.name = o.name /\ c.namespace = o.namespace
      /\ Handle(o).answer = "assigned" /\ Handle(c).answer = "assigned"
      => Handle(o).key = Handle(c).key

\* When the changes end, webhook configuration, observed generation and resyncs
\* end up at the ring's spec: no event is lost between a spec update and the
\* controllers, and conflicting status updates are retried until they succeed.
Settles ==
  <>[](ring.exists /\ Valid(ring.spec) =>
         /\ webhook = ring.spec
         /\ ring.status.observed = ring.generation
         /\ last # None /\ last.namespaces = Selector(ring.spec))
=============================================================================
