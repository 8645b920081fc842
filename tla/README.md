# Verification of kubernetes-controller-sharding

TLA+ models of the sharding system, model-checked with TLC on small instances and, for the core,
proved with TLAPS for all instances. `PROJECT.json` lists components, runs, the source lines behind
every definition, the hazards the properties are aimed at, the findings and the theorems.

Run from this directory, e.g. `tlc -config MCSharding.cfg MCSharding` and `tlapm ShardingProofs.tla`.

## 1. The system

Controllers that are *sharded* run as several instances, the **shards** of a `ControllerRing`. All
state lives in the Kubernetes API: a `Lease` per shard says that the shard is alive, and two labels
on every object of the ring say which shard is responsible (`shard`) and that the responsibility is
to end (`drain`).

| Component | State | Operations | Talks to the others by |
|---|---|---|---|
| Shard lease (`pkg/shard/lease`, client-go leader election) | last observed lease, process leads or not | Get, Create, Update, release | the Lease object |
| Lease states (`pkg/sharding/leases`) | none | `ToTimes`, `ToState`, `IsAvailable` | called by all sharder components |
| shardlease controller (`pkg/controller/shardlease`) | informer cache, work queue with delays | label a lease, take it over, delete it | the Lease object |
| sharder webhook (`pkg/webhook/sharder`) | lease cache, one per replica | assign an object without shard label | admission of object writes |
| sharder controller (`pkg/controller/sharder`) | one `Operation` per ring: snapshot of shards, work queue | list, drain, move | labels of objects |
| pager (`pkg/utils/pager`) | page buffer, background goroutine | list in pages | called by the sharder controller |
| hash ring (`pkg/sharding/consistenthash`, `ring`, `key`) | sorted tokens | `New`, `AddNodes`, `Hash` | called by webhook and controller |
| sharded reconciler (`pkg/shard/controller`) | object cache, running reconciles | reconcile, acknowledge a drain | labels of objects |
| controllerring controller (`pkg/controller/controllerring`) | caches of ring and leases, work queue | write webhook configuration and status | `MutatingWebhookConfiguration`, ring status |
| predicates, handlers (`pkg/sharding/predicate`, `handler`) | none | which events start a reconcile or a resync | called by the informers |
| webhosting-operator's Website controller | filtered object caches, work queue | reconcile four owned objects and a status, roll out themes | owned objects, shard and drain labels |
| experiment: scenarios, generators, tracker | life cycle of a run, worker pool, times per generation | prepare, generate load, measure latencies, clean up | Websites, leases and Deployments |
| checksum-controller | none | example controller | uses the packages above |
| measure, samples-generator | none | command line tools | |

What is hard here: two parties write each lease, on clocks of their own, from stale copies; requests
outlive the call that sent them; availability changes while an operation works on an old snapshot;
every replica has a cache of a different age; reconciles run while labels change; objects are listed
from an old watch cache; a dead shard acknowledges nothing; the goroutines of a resync wait for
each other on bounded channels; events are filtered by predicates that compare two versions of which
neither need be the last; status updates are skipped when a copy of unknown age looks right; and the
experiment measures with goroutines that store their times in any order. The complete list is under `hazards` in `PROJECT.json`.

What makes the components correct:

* *leases*: a shard that the sharder takes for dead has stopped, or is about to after a missed deadline;
  takeovers never come too early; a lease is never lost from sight; a shard that is gone is cleaned up;
* *assignment*: no object is reconciled by two shards, none is taken away while it is reconciled,
  and every object ends on the shard it hashes to;
* *resync*: it ends, it reports failures, it leaves no goroutine behind;
* *hash ring*: a key goes to the next token, and only a new node gains keys;
* *ControllerRing*: configuration, status and resyncs follow the ring and its shards; webhook, keys and
  resyncs agree on what belongs to the ring;
* *Website*: nothing to do means nothing wrong, Ready means served, and drains are acknowledged;
* *experiment*: the latencies are the right ones, load starts on prepared ground, nothing is left.

## 2. Modules

| Module | Models | Kind |
|---|---|---|
| `Leases` | `pkg/sharding/leases` | operators |
| `ShardLease` | one lease between its shard and the shardlease controller | state machine |
| `Ownership` | what sharding promises controllers | abstract specification |
| `Sharding` | webhook, sharder controller and sharded reconcilers of one ring | state machine, implements `Ownership` |
| `Resync` | goroutines of `ResyncControllerRing` and of the pager | state machine |
| `ConsistentHash` | the hash ring | algorithm, checked against a reference definition |
| `ControllerRing` | controllerring controller, triggers of resyncs, webhook decisions, keys | state machine |
| `Website` | Website controller of the webhosting-operator in one shard | state machine |
| `Scenario` | life cycle of an experiment scenario, its worker pool | state machine |
| `Tracker` | measurement of one Website's generations | state machine |
| `Experiment` | `Scenario` and `Tracker` together | composition |
| `ShardLeaseProofs`, `ShardingProofs`, `ResyncProofs`, `ConsistentHashProofs`, `ControllerRingProofs`, `WebsiteProofs`, `TrackerProofs`, `ExperimentProofs` | theorems | proofs |
| `MC*` | instances for TLC | |

A definition `...X` with the comment *mutant* is a faulty variant of the next definition; it is part
of no specification. Replacing the definition by it makes the property break that `PROJECT.json`
pairs it with.

### ShardLease

The lease is a record of the fields that `ToState` reads, the state label and the resourceVersion
`rv`. An update names the version it was computed from and is refused when the object moved on; the
sharder's `Delete` names none. Both clocks tick together, apart by a constant `skew`.

*Sharder side.* `Deliver` (watch event through `LeasePredicate`), `Wake` (delayed requeue),
`CreateRing` (ring watch), `RestartSharder`; `Reconcile` is `ReconcileRead`, then `MaintainLabel` if
the label is old, then one of `ActWait`, `ActAcquire`, `ActDelete`: it is split exactly at its API
calls, and the state computed at the beginning is used to the end, as in the code. A write may be
applied while its response is lost (`LoseResponse`). `RequeueAfter` ignores durations that are not
positive, like controller-runtime. `Deliver` brings the latest version (any older one is covered by
delivering before the next write), but never skips a deletion.

*Shard side* (client-go is external, modelled from its use): `BeginAttempt`, `GetLease`, `LandUpdate`
or `LandCreate`, `Respond` are the steps of `tryAcquireOrRenew`, with the fast path of a leader.
`Timeout` abandons a call; what it sent may still be applied (`LandLate`) for `AttemptTimeout` after
the attempt began. A create that arrives after its call was abandoned is not modelled.

The shards set `LeaderElectionReleaseOnCancel`, so the elector gives the lease back whenever it stops
renewing: `GiveUp` is the missed renew deadline, `Stop` the SIGTERM, at the moment when the manager has
stopped its controllers and cancels the elector. (The checksum-controller waits for them for 5 seconds
at most, `GracefulShutdownTimeout`; a reconcile that outlives that is not modelled.) Then come `Release`
(Get and Update, sent and applied at some later time, or lost) and `Exit`, within another
`RenewDeadline`. After `GiveUp` the process is *releasing* and its controllers run until `Exit`, which
stands for `OnStoppedLeading`; after `Stop` it is *stopping* and they do not. `Crash` is any other end.

*Properties.* `DeadImpliesStopping`, `TakeoverOnlyUncertain`, `NeverForgotten`, `LabelCurrent`,
`CollectedInTime` (an idle sharder has no lease that is to be taken over or deleted),
`GoneIsCollected`, and `DeadImpliesStopped` and `OnlyOrphanedDeleted`, which the code does not keep.
`DeadImpliesStopping` says what is left of the former: controllers run without the lease only while the
process releases it after a missed deadline, and if `ReleaseInTime` holds, the release is what took the
lease away, never the sharder. `ReleaseInTime` is the inequality of section 5 with a second
`RenewDeadline`; with the default durations it leaves less than 8 seconds for `AttemptTimeout` and skew
together, so it is a condition and no assumption. `LabelCurrent` and `CollectedInTime` are stated under
it and for a shard clock that is behind by at most 1, the duration of a released lease.

### Sharding

A shard is in `avail` while it holds its lease and in `running` while its process reconciles.
`Die` requires that it does not run: this is `DeadImpliesStopping` of `ShardLease` without its exception,
so the two modules fit together at that property. (Outside of it are a lease that is released before
the controllers stop, finding 1, and one that is deleted by the race of finding 2.) `view[r]`
is what replica `r`'s cache shows as available. Objects are identified with their keys; deletion and
new creation under the same name are not modelled, nor are objects outside the selected namespaces
or without controller, which the code leaves alone. Copies of objects carry a flag *current* in place
of a resourceVersion; a work item whose version was overtaken is dropped, since its patch would be
refused. Every write that leaves an object without shard label passes the webhook of some replica,
whose failure is ignored (`Admitted`); admission is atomic with the write.

`StartResync` may happen at any time (the triggers are a subset of that), `ListObject` and
`ListStale` (old watch cache, or failing patch) go through the objects, `DrainObject`, `MoveObject`
process work items, `AbortResync` is the loss of leadership or a restart. `BeginReconcile` checks the
labels in the shard's cache; the interval to `EndReconcile` is the whole actual reconcile. `AckDrain`
uses the optimistic lock and, since the work queue never runs one object twice at a time, excludes a
running reconcile.

`JoinsSettled` is an assumption on the environment: a shard joins between two resyncs and all
replicas see it at once. Exclusion is checked and proved under it. `sharding_join` shows what the
code does without it (finding 3). Convergence does not need it; the run checks it in the larger
instance, which has it, and with joins at any time it was explored with two shards and one replica.

*Properties.* `ExclusiveReconcile`, `AssignedWhileReconciled`, `OwnershipKept` (refinement, with the
shard label as owner), `Converges`, `DrainAnswered`.

### Resync

The generator, one background goroutine per pager, the workers and the caller, with channels as
bounded sequences. Sends to `errs` are steps that the caller, always receiving, takes part in.
*Properties.* `SuccessIsComplete`, `Returns`, `PagersEnd`, and `CancelReturns`, which the code does
not keep. A cancelled resync is exempt from the first two: it may report success for less.

### ConsistentHash

Strings are sequences of characters, digests numbers below `MaxHash`, the hash function is arbitrary.
`NextNodeOnRing` compares `Hash` with the reference "the node with the smallest way to go around the
ring", which is the `Position` that `Sharding` takes as a constant. `OnlyNewNodeGains` and
`OrderIrrelevant` are the properties for which consistent hashing is used. `OrderIrrelevant` holds as
long as no two tokens collide; the names `x-1` with token 10 and `x-11` with token 0 always do, since
`ring.go:79` joins name and index without a separator, and the node that is listed last owns the
token then.

### ControllerRing

One ring in the API server with `generation` and `rv`, its leases (absent, held, or lost: availability
depends on the holder only), and the webhook configuration as the spec it was built from. `cache` has
the sharder's copies. `DeliverRing` and `DeliverLease` bring a copy up to date, merging any number of
versions, and run the predicates; a deletion may be seen as `DeletedFinalStateUnknown`. `Reconcile`
reads the cached ring and applies the configuration (a failing call may come before or after that: the
list of the leases fails too), `updateStatusSuccess` or `updateStatusError` ends it: another controller
may act between the two API calls. A status update is refused when the ring moved on, and skipped when
the copy that was read has the status already. `NewOperation` takes the snapshot for a resync,
`FinishOperation` ends it, `SyncPeriod` repeats it. What a resync does is `Sharding`'s matter, when it
starts is this module's.

`Handle` is the webhook's answer for an unassigned object, `WebhookForControllerRing` whether the API
server asks at all, `FuncForResource`, `ForObject`, `ForController` the keys with their errors.

*Properties.* `ResyncCurrent`, `StatusCurrent`, `MissedAreResynced`, `NotDenied`, `OwnersAgree`, `Settles`.
Two limits are written into them because the code has them: a status update that was skipped on a
stale copy is not repeated (`skipped`), and resyncs never look at cluster-scoped objects, since the
namespace of such an object is in no set of selected namespaces (`sharder/reconciler.go:239`), though
the webhook's rules cover them.

### Website

One Website, the objects that the controller owns for it (`kid`), the Themes, and this shard's copy of
each, with a lag of its own. The cache only has objects that carry the shard's label, so a drained and
moved Website leaves it, and its kids leave one by one (`MoveKid`). `DeliverSite`, `DeliverKid`,
`DeliverTheme` run the predicates of `SetupWithManager`. `Reconcile` reads Website and Theme,
`CreateOrPatch` is one step per kid in the code's order (Get from the cache, then Create, Patch or
nothing), `UpdateStatus` the optimistic update at the end; each may fail. `AckDrain` is the sharded
reconciler's answer to a drain. A content is represented by what it was rendered from.

`served` is what runs: the spec of the Deployment that was rolled out last and the content that its pods
read from the ConfigMap, which they mount by name. `RollOut` starts pods with the ConfigMap as it is at
that moment (they wait for one that does not exist), and `Refresh` is the kubelet, which sooner or later
brings a changed ConfigMap into running pods. That the pods serve what the Deployment's checksum
annotation says is therefore a property and not a definition. `lost` remembers the contents that the
ConfigMap has had and has no more.

Assumed of watches: no change is merged with its reversal (a kid is edited only after its last version
was delivered, a Website comes back only after its departure was delivered); only a relist could do
that. ConfigMaps and Services have no `metadata.generation`.

*Properties.* `KidsCurrent`, `StatusCurrent`, `ReadyIsServed`, `Converges`, `DrainAcknowledged`. Four limits
of the code are written into them: an edit of the Service raises no event, since its predicate asks
for a generation that Services do not have; the status of a Website without theme keeps its former
phase; Ready may be announced too early for a moment, when `Reconcile` reads a Deployment that
misses the controller's own last patch, which the next event corrects; and when the ConfigMap gets back
a content that it had before, pods that mounted the content in between have the right checksum, so
that nothing replaces them and Ready is shown while they wait for the kubelet (`want \notin lost`).

### Scenario, Tracker and Experiment

`Scenario` follows `base.Start` from the owner object to the cleanup, with `pc` as its position:
`prepare`, `injectRunIDLabel`, `waitForDeployment`, `DeleteDeadLeases`, `waitForShardLeases`, then the
delegate's Prepare with the goroutines of `NTimesConcurrently` (`EmitWork`, `TakeWork`, `RetryOnError`,
`CollectError`), `AddTracker`, one `AddGenerator` per controller of the scenario, `Wait`, `Cleanup`,
`StopManager`. `Interrupt` cancels the context anywhere. The shards' rollouts and leases follow, also
when chaos and rolling-update disturb them. There is a wait for each of the two components, with a
`lastError` of its own; `waitForShardLeases` passes with an empty list of leases as well, so
`LoadIsPrepared` does not promise that there are shards.

`Tracker` has one Website. Calls of the generators return later than they take effect or not at all;
`RecordSpecChange` and `DeliverWebsite` start goroutines (`writers`) that go through the two locks of
`tracker.set` in any order (`setFast`, `setSlow`); `ReconcileObject` fills in missing times and records.
Assumed: goroutines started before an event have stored their times when its request runs one second
later, and those of a call before the next call for the same Website half a minute later.

`Experiment` runs both: generators act while they are in the manager, also after the cleanup.

*Properties.* `LatencyAccurate`, `Measured`, `LoadIsPrepared`, `CleanedUp`, `Terminates`.

## 3. Runs

| Run | Checks | Bounds, and why they suffice |
|---|---|---|
| `shard_lease` | safety of a lease | durations 3/1/1 and an `AttemptTimeout` and skew of 1, with which `ReleaseInTime` is tight and Ready, Expired, Uncertain, Dead and Orphaned all last a time unit or more; two starts, so that a restarted shard meets its old lease; one late update besides the releases; attempts begin at chosen times (`AttemptTimes`), so that a renewal, a takeover by the sharder and an attempt after it fit in; the sharder may be slow without limit |
| `shard_lease_release` | finding 1 | durations as `shard_lease`, one start, no skew: the shortest way to a released lease |
| `shard_lease_prompt` | label, takeover and deletion in time, cleanup as liveness | one start, skew of one unit in both directions, one late update, one fault of the sharder; time long enough for the whole way to the deletion |
| `shard_lease_delete` | finding 2 | two starts, the sharder may be slow |
| `sharding` | exclusion, refinement, convergence | three shards, since a third can receive an object while two disagree; one order of the shards around the ring, the others being renamings of it, as every set of shards may be available; two replicas with different caches; two disturbances of any kind, besides all normal steps |
| `sharding_join` | finding 3 | as `sharding`, one replica |
| `resync` | end of a resync, completeness | two workers, more pages than the page buffer and more items than the work queue hold, two failing calls, cancellation |
| `resync_cancel` | finding 4 | as `resync`, no failing call |
| `consistent_hash` | the ring | three nodes with two tokens and all 6^6 hash functions into six digests, collisions included |
| `controller_ring` | the ring's control plane | two shards, so that counts and sets differ; three specs: with and without controlled resources, the configured, an own and an invalid selector; objects with and without name, owner and namespace; three changes of ring or leases, so that one can overtake the handling of the other two; one failing call (1.0 million states) |
| `website` | the Website controller | ConfigMap and Deployment, which are written first and last and on which content, checksum and pods depend; two themes; the Website is created, or is set up with or without ready pods; two changes by users or the sharder, or one and a failing call (`MaxTotal`), so that a drain, a move or an edit can meet the handling of another change; any number of assignments and moves after it (0.6 million states). One change was explored with all four kinds. The invariants are proved for any kinds and any number of changes |
| `experiment` | scenarios and tracker | all four scenarios; two workers, four themes (more than channel and workers hold) and one project; one retry; two generations, so that one can stand in for the other; one failing call and an interruption at any time (0.6 million states). Three generations were explored for the invariants |

`MCShardLease` uses a `VIEW` that forgets version numbers but not which copies are current: versions
are only compared with the current one. It is sound, as the comment there explains, and only used by
runs without liveness.

`CHECK_DEADLOCK FALSE` only where the system stops: a resync that has returned (or, in finding 4, has
hung), a ring with all its nodes, a ControllerRing, Website or experiment whose changes are used up.

*Fairness.* ShardLease: watch, delaying queue and worker of the sharder make progress, time passes,
a process past its renew deadline gives up and its release ends. Nothing else is assumed of the shard. Sharding: caches catch up,
a resync repeats (the sync period) and its workers make progress, reconciles end, drains are
answered by running shards, and a shard without process is restarted or loses its lease, which is
`GoneIsCollected`. Users, joins and failures are under no fairness and bounded by `MaxEvents`, so that
liveness is about what follows the last disturbance. Resync: each goroutine that can run does.
ControllerRing: watches deliver, each controller's worker takes what is queued and ends; the periodic
resync is not needed. Website: watches deliver, the worker makes progress and errors are requeued,
the Deployment controller, the kubelets and the sharder's resync do their part. Experiment: only that bounded waits
end, calls return and the cluster makes progress; nothing of generators and tracker.

## 4. Findings

1. `shard_lease_release`: a leader that missed its renew deadline releases its lease (both shards set
   `LeaderElectionReleaseOnCancel`) and only then stops its controllers. In between the lease is dead
   and the sharder moves its objects without drain while they may be reconciled, against the comment
   that "controllers will only run as long as manager holds the shard lease". The order is client-go's.
2. `shard_lease_delete`: an orphaned lease is deleted by name on the evidence of a cached copy. A shard
   that restarted and acquired it in between loses its fresh lease and counts as unavailable until
   its next renewal creates it again.
3. `sharding_join`: a shard that joins during an `Operation` is unknown to the operation's snapshot. An
   object that the webhook gave to it meanwhile is moved without drain.
4. `resync_cancel`: after cancellation the workers are gone and the generator blocks on `work <- w`.

Observed while modelling, without a run of their own:

* a resync never assigns cluster-scoped objects that missed the webhook (`sharder/reconciler.go:239`);
* an answer of the webhook with an error denies the request, the failure policy *Ignore* is only about
  calls that fail; a request for a ring that the cache does not have yet is denied
  (`webhook/sharder/handler.go:53`);
* ring tokens are joined without a separator (`consistenthash/ring.go:79`, see ConsistentHash above);
* the status of a ring can stay old after an update that was skipped (`controllerring/reconciler.go:135`);
* a shard whose clock is behind by more than a second and that takes its dead lease back and releases it
  at once may keep the label *dead* beyond the time of *orphaned*, if the watch merged the two writes:
  the lease was and is dead, so no event passes, and the timer is that of the former lease
  (`predicate/lease.go:57`);
* pods of a Website may serve an older content while it is Ready, until the kubelet refreshes their
  volumes, if the ConfigMap got back a content that it had before (see Website above);
* edits of a Website's Service are not noticed (`website_controller.go:517`);
* `SecretDataChanged` of the checksum-controller passes the updates that change nothing and drops the
  others, and its `Create` leaves an existing ConfigMap alone (`checksum-controller/reconciler.go:80`, `:132`);
* `applyCacheOptions` of the sharder discards the result of `leaseSelector.Add` (`app/options.go`);
* `EmitN` gives all its requests the same name, against its comment (`generator/utils.go:52`);
* a scenario that fails or is interrupted during `prepare` leaves its owner object behind, and its waits
  report success when the context ends before the first poll (`base.go:242`); the wait for the shard
  leases is over at once while there are none (`base.go:259`).

## 5. Proofs

*ShardLeaseProofs*, from the assumptions of `ShardLease`, above all
`AttemptTimeout + RetryPeriod + RenewDeadline + MaxSkew < 2 * LeaseDuration` (10 + 2 + 10 + skew < 30
seconds with the defaults):

* `TypeCorrect`, `DeadStopped`, `TakeoverSound`, `NotForgotten`, `LabelsCurrent`, `CollectsInTime`.
* `DeadImpliesStopping` is not inductive: that a leader holds its lease depends on when it last
  renewed it, on responses still on the way, and on requests of former calls or processes. `IndInv`
  adds that copies with the current version have the current contents (`CopiesAgree`, on which the
  optimistic lock rests), that a leader's deadline is tied to the renew time in the API server
  (`LeaderInTime`), as is, with another `RenewDeadline`, that of a process which gives its lease back
  (`ReleaserInTime`), that a response in time tells of a lease still held (`LandedInTime`), and that old
  requests are fenced off by version or age (`LateAlive`, `LandedFence`, `ReleaseFence`). The takeover
  then needs `renewTime + 2 * LeaseDuration <= now`, which is past the leader's deadline, and under
  `ReleaseInTime` (20 + 2 + ... < 30 seconds) also past the end of a release. Without it the sharder may
  take over a lease while its shard is still releasing it.
* `NeverForgotten` needs in addition that a lease in the cache is pending unless its deletion is on
  the way (`Watched`), and that every requeue duration is positive in the state it is computed for.
* `LabelCurrent` is about events that do not come: `LeasePredicate` drops a version whose state is that
  of the copy before, and the timer set for that copy stays. `LabelInv` shows that the timer is not too
  late for the new version. The shard's writes are stamped in the order in which they are applied, also
  those that come late, and it waits for the end of the sharder's lease (`InOrder`, `Mark`); therefore
  an older copy in the same state changes its state no later (`CopiesBehind`, lemma `LaterChange`), and
  label and timer are right for the copy unless the lease is queued or being reconciled (`Labelled`).
  `ReleaseInTime` keeps releases out of the time in which the sharder holds the lease.
* `CollectedInTime` rests on `LabelInv` and one fact more (`InTime`): a sharder with nothing to do waits for
  a lease that is neither uncertain nor orphaned, or has yet to hear of its own takeover. What the shard
  writes after that is stamped after the end of the sharder's lease (`TakenOver`), so the event is not missed.
* The proof attempt corrected an earlier `LabelCurrent`, which did not restrict the skew; TLC then found
  the counterexample (section 4) with a shard clock that is two units behind.

*ShardingProofs*, for every set of shards, objects, replicas and every ring:

* `TypeCorrect` without further assumption; `Exclusive`, `AssignmentKept` and `ImplementsOwnership` under
  `JoinsSettled`.
* `IndInv`: no replica and no operation overlooks an available shard (`AvailableSeen`), therefore an
  object to be moved without drain has no available shard (`MoveSafe`); a copy that says *mine, not
  draining*, even an old one, is right (`CopiesSound`), because the label can only go by an
  acknowledgement based on the current version or by the death of the shard, which empties its cache;
  therefore reconciles run only where the object is assigned (`ReconOwned`).
* `ImplementsOwnership` maps every step to a step of `Ownership` or to a stutter.
* `Hash` chooses a minimum over an arbitrary, possibly infinite set of shards; well-founded induction
  on the naturals shows that it exists.

*ResyncProofs*, for any finite sets of workers and objects, any resources, pages, page buffer and number
of failing calls:

* `TypeCorrect`, `Complete`, `NotStuck`, `Terminating`.
* `SuccessIsComplete` says nothing of the goroutines on the way. `IndInv` follows each object:
  positions of generator and pagers fit together (`Phases`: channels are closed only behind the last
  page, the error channel is drained before the result), and a misplaced object is processed, or on a
  page still to come, in the page buffer, in the generator's or a worker's hand or in the work queue,
  unless an error is on the way to the caller (`NoneLost`). At the end all these places are empty.
* `Returns` without fairness: `NeverStuck` spells out when each goroutine can run and says that one of
  them can, unless the resync is in the one cancelled state (`Deserted`) that `resync_cancel` ends in.
  `Variant` is what is left to do, as 14 natural numbers; every step except the cancellation lowers one
  of them and raises none before it, and that lexicographic order is well-founded
  (`OrderWellFounded`). What remains for TLC is that a goroutine that can run does.

*ConsistentHashProofs*, for every hash function into any number of digests (`HashesAssumption` says no
more), any nodes and up to 100 tokens each:

* `TypeCorrect`, `NextOnRing`, `OnlyNewGains`, `HashNearest`, `OrderIsIrrelevant`.
* `IndInv`: the tokens are ascending (`Ascending`) and exactly those of the nodes added so far
  (`Complete`), the node that a token belongs to has this token (`Owned`), and tokens that collide are
  both kept (`BothKept`). `Sort` is defined by ranks and not as `SortSeq`, which the prover has no
  definition of; that its result is a sorted permutation is a lemma.
* The way from a key around the ring is different for different tokens, so the token that the binary
  search finds is the only nearest one. A join either brings a nearer one, which is the new node's, or
  leaves it.
* `HashNearest` is the link to `Sharding`: without collisions the distances of nodes from a key are
  different, which is `PositionAssumption`, and `Hash` chooses the smallest, which is `Sharding`'s `Hash`.
* `OrderIsIrrelevant`: `New` is a recursive function of the position in the list of nodes. That every
  prefix yields a ring with the facts of `IndInv` follows by its least counterexample, a position that
  well-foundedness of the naturals provides (no induction scheme is instantiated). Two rings with the
  same nodes then have the same tokens in the same order and, without collisions, the same owners.

*ControllerRingProofs*, from `RingAssumption` (finitely many shards, since the status counts them;
selectors name known namespaces; `None` is different from all values):

* `TypeCorrect`, `ResyncsCurrent`, `StatusesCurrent`, `MissedResynced`, `NoneDenied`, `OwnersTogether`.
* The properties speak of quiet states only. `IndInv` says what holds before them: copies with the
  ring's version have its contents and generations determine specs (`Copies`); unless the ring is
  queued for the sharder, the running or else the last operation covers what the caches show
  (`ResyncInv`); unless it is queued for the controllerring controller, configuration and status follow
  the cached ring or will when the running reconcile ends (`StatusInv`). So no predicate drops an event
  that it should pass. `NoneDenied` and `OwnersTogether` are facts about the operators `Handle`,
  `WebhookForControllerRing` and the keys, for every valid spec (`WebhookInv`).

*TrackerProofs* and *ExperimentProofs*, from `TrackerAssumption` and `ScenarioAssumption` (positive
numbers of workers, objects and generations):

* `TypeCorrect`, `Prepared`, `Accurate`, `AllMeasured`, `NotStuck`, `Terminating`, `LeavesNothing`, for
  `Experiment`, in which each step is one of the scenario's or one of the tracker's. `TrackerProofs`
  shows that the tracker's steps keep `TrackerInv`.
* Scenario: at each position of `base.Start` everything before it is done (`Stages`), and work items
  are conserved: those emitted are in the channel, with a worker, created, or turned into an error that
  is collected (`Counts`). So a Prepare without error has created all it should.
* Tracker: observations are ordered in time like generations (`Order`, `Before`), a goroutine or the
  stored object holds each observation until it is recorded (`Held`, `Stores`), and a request is pending
  for what is not recorded (`Requested`). `backfillGenerations` takes minima, which exist because the
  naturals are well-founded.

* `Terminates` without fairness, as for a resync: `NeverStuck` says that Start or a goroutine of its pool
  can go on, and every step of Start lowers `Variant`, ten natural numbers, which no other step raises. It
  needs that Start labels and adds nothing twice (`Positions`). `LeavesNothing` is the part of `CleanedUp`
  about what is there to collect: everything has a deleted owner, and nothing is added to it.

*WebsiteProofs*, from `WebsiteAssumption` (the controller owns at least ConfigMap and Deployment; an
edited content is none that the controller writes), for any number of changes and failing calls:

* `TypeCorrect`, `KidsAreCurrent`, `StatusIsCurrent`, `Mounted`, `ReadyServed`.
* `IndInv`: whatever is not as the controller wants it differs from the cached copy in what the
  predicates look at, so an event is coming that queues the Website. `SiteCopy` and `KidCopies` say how
  a copy may differ from its object, `RolledOut` what spec the pods run while the Deployment is ready,
  `WorkCopy` what the running reconcile read and has written, `KidsDone` and `StatusDone` what is right
  unless the Website is queued or in work.
* What the pods serve is `MountInv`: the checksum of a Deployment is one of a content that the ConfigMap
  has or has had (`DeploymentHad`), because the reconcile writes the Deployment only after the ConfigMap
  (`WorkHad`), and pods mount the content of their checksum unless it was lost (`PodsHad`).
* The proof attempt corrected an earlier `ReadyIsServed`, which held for one change only: the sharded
  reconciler that acknowledges a drain empties the queue of a Website whose status is old.

The assumptions are about the models' constants and say what types them; none restricts a
configuration of the code but the inequality of `ShardLease`. TLC evaluates each on its runs.

*Only model-checked*: liveness, which is out of the prover's reach like fairness and ENABLED:
`GoneIsCollected`, `Converges` (both), `DrainAnswered`, `Returns`, `PagersEnd`, `Settles`, `DrainAcknowledged`,
`CleanedUp`, `Terminates`. What these rest on is proved where it is safety: no deadlock and descent for
`Returns` and `Terminates`, the timers for `GoneIsCollected` (`NotForgotten`, `CollectsInTime`), and for
`Settles` and the Website's `Converges` that a quiet controller has done its work. That the conditions
in `NeverStuck` are those under which the actions are enabled was compared with TLC. All invariants
and action properties of the passing runs are proved.

## 6. Not modelled, and the plan

Not modelled for good: metrics, flags, defaults, API types, health checks, measure and sample tools
(input, output and wiring, without state that a property could be about), and the checksum-controller,
whose reconciler creates one object and whose sharding is that of the packages above. Of the modelled
parts, these details are left out: backoff times and rates; request paths and JSON of the webhook;
generator functions that no scenario uses; relists that merge a change with its reversal.

Nothing further is planned: what is not proved is out of the prover's reach (section 5).
