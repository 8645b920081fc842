----------------------------- MODULE ShardLease -----------------------------
(***************************************************************************)
(* The life of ONE shard's Lease object: the leader election client of the *)
(* shard that creates, renews and releases it (pkg/shard/lease, client-go) *)
(* and the shardlease controller of the sharder that watches it, keeps its *)
(* state label, takes it over when the shard stopped renewing it and       *)
(* deletes it in the end (pkg/controller/shardlease).                      *)
(*                                                                         *)
(* Both sides write the object through the API server.  An update carries  *)
(* the resourceVersion of the copy it was computed from and is refused if  *)
(* the object changed; the sharder's Delete carries none.                  *)
(*                                                                         *)
(* now is the sharder's clock, now + skew the shard's.                     *)
(***************************************************************************)
EXTENDS Leases, FiniteSets

CONSTANTS
  Name,            \* name of the lease = identity of the shard
  Sharder,         \* IdentityShardLeaseController
  NoHolder,        \* holderIdentity of a released lease
  LeaseDuration,   \* leader election of the shard, defaults 15s,
  RenewDeadline,   \*   10s
  RetryPeriod,     \*   2s
  AttemptTimeout,  \* longest run of one tryAcquireOrRenew, and longest life of a request
  MaxSkew,         \* bound on the difference of the two clocks
  MaxStarts,       \* bound: starts of the shard under the same name
  MaxFaults,       \* bound: restarts of the sharder and lost responses to it
  MaxLate,         \* bound: updates outliving the call that sent them
  MaxTime,         \* bound of the clock
  AttemptTimes,    \* bound: the shard begins attempts only at these times
  PromptSharder    \* TRUE: the sharder reacts before the clock advances

ASSUME NamesAssumption == Name # Sharder /\ Name # NoHolder /\ Sharder # NoHolder

ASSUME BoundsAssumption ==
  /\ MaxStarts \in Nat
  /\ MaxFaults \in Nat
  /\ MaxLate \in Nat
  /\ MaxTime \in Nat
  /\ AttemptTimes \subseteq Nat
  /\ PromptSharder \in BOOLEAN

(***************************************************************************)
(* The relation of the shard's leader election settings to the sharder's   *)
(* patience (a lease is taken over LeaseDuration after it expired) that    *)
(* the design relies on.  Defaults: 10 + 2 + 10 + skew < 30 seconds.       *)
(***************************************************************************)
ASSUME TimingAssumption ==
  /\ LeaseDuration \in Nat \ {0}
  /\ RenewDeadline \in Nat
  /\ RetryPeriod \in Nat
  /\ AttemptTimeout \in Nat
  /\ MaxSkew \in Nat
  /\ AttemptTimeout + RetryPeriod + RenewDeadline + MaxSkew < 2 * LeaseDuration

(***************************************************************************)
(* The same with the RenewDeadline for which a process may be busy giving  *)
(* its lease back.  The defaults leave AttemptTimeout + skew < 8 seconds   *)
(* for it, so this is no assumption: what depends on it says so.           *)
(***************************************************************************)
ReleaseInTime ==
  AttemptTimeout + RetryPeriod + 2 * RenewDeadline + MaxSkew < 2 * LeaseDuration

VARIABLES
  now, skew,
  lease,     \* the Lease in the API server, or NoLease
  rev,       \* the API server's revision counter
  ring,      \* the ControllerRing exists
  (* the sharder *)
  cache,     \* its informer's copy of the lease
  tomb,      \* a deletion that the watch has not delivered yet
  queued,    \* the lease's key is in the work queue
  wakeAt,    \* when the delaying queue adds the key, or Never
  rec,       \* the running Reconcile: pc, the local variables lease and now
  faults,
  (* the shard *)
  proc,      \* "down", "candidate", "leading", "releasing" or "stopping"
  starts,
  ll,        \* last record the leader elector observed, with its version
  observedAt,
  attempt,   \* start of the running tryAcquireOrRenew, or Never
  call,      \* its outstanding request, or NoCall
  retryAt,   \* earliest start of the next attempt
  stopBy,    \* when a leader gives up, and when its release has to be over
  late       \* requests nobody waits for any more that may still be applied

sharderVars == <<cache, tomb, queued, wakeAt, rec, faults>>
electorVars == <<ll, observedAt, attempt, call, retryAt, stopBy>>
shardVars   == <<proc, starts, electorVars, late>>
vars == <<now, skew, lease, rev, ring, sharderVars, shardVars>>

Never   == -1
NoLease == [rv |-> 0, holder |-> NoHolder, renewTime |-> 0, duration |-> 0,
            complete |-> FALSE, label |-> Unknown]
NoCall  == [kind |-> "none", rv |-> 0, fast |-> FALSE, landed |-> 0]
Idle    == [pc |-> "idle", lease |-> NoLease, at |-> 0]

Min2(a, b) == IF a = Never \/ b < a THEN b ELSE a
-----------------------------------------------------------------------------
(* The API server *)

Exists(l) == l.rv # 0

\* a write whose precondition on the resourceVersion holds
VersionMatches(rv) == Exists(lease) /\ lease.rv = rv

\* every write makes a new version of the object
Write(l) == /\ rev' = rev + 1
            /\ lease' = [l EXCEPT !.rv = rev + 1]

\* l with the given leader election record
Held(l, holder, renewTime, duration) ==
  [l EXCEPT !.holder = holder, !.renewTime = renewTime,
            !.duration = duration, !.complete = TRUE]

SameRecord(a, b) == /\ a.holder = b.holder
                    /\ a.renewTime = b.renewTime
                    /\ a.duration = b.duration
-----------------------------------------------------------------------------
(* The sharder: informer and work queue of the shardlease controller *)

\* mutant: only creations pass
LeasePredicateCreations(old, new) == Exists(new) /\ ~Exists(old)

\* LeasePredicate: creations, and updates that change the state, both states
\* taken at the time of the event; no deletions
LeasePredicate(old, new) ==
  /\ Exists(new)
  /\ Exists(old) => ToState(old, Name, now) # ToState(new, Name, now)

\* the watch brings the cache to the current version (an older version is
\* read when this happens before a later write), but skips no deletion
Deliver ==
  /\ tomb \/ cache # lease
  /\ cache' = IF tomb THEN NoLease ELSE lease
  /\ tomb' = FALSE
  /\ queued' = (queued \/ LeasePredicate(cache, cache'))
  /\ UNCHANGED <<now, skew, lease, rev, ring, wakeAt, rec, faults, shardVars>>

Wake ==
  /\ wakeAt # Never /\ wakeAt <= now
  /\ wakeAt' = Never
  /\ queued' = TRUE
  /\ UNCHANGED <<now, skew, lease, rev, ring, cache, tomb, rec, faults, shardVars>>

\* the ControllerRing is created: MapControllerRingToLeases enqueues its leases
CreateRing ==
  /\ ~ring
  /\ ring' = TRUE
  /\ queued' = (queued \/ Exists(cache))
  /\ UNCHANGED <<now, skew, lease, rev, cache, tomb, wakeAt, rec, faults, shardVars>>

\* a new process, or another replica that became leader: empty queue and cache
RestartSharder ==
  /\ faults < MaxFaults
  /\ faults' = faults + 1
  /\ cache' = NoLease /\ tomb' = FALSE /\ queued' = FALSE /\ wakeAt' = Never /\ rec' = Idle
  /\ UNCHANGED <<now, skew, lease, rev, ring, shardVars>>
-----------------------------------------------------------------------------
(* The sharder: Reconcile, split where it calls the API server *)

State == ToState(rec.lease, Name, rec.at)
Times == ToTimes(rec.lease, rec.at)

\* both Gets read the caches; shard.State is fixed here
ReconcileRead ==
  /\ queued /\ rec.pc = "idle"
  /\ queued' = FALSE
  /\ rec' = IF Exists(cache) /\ ring
            THEN [pc    |-> IF cache.label # ToState(cache, Name, now) THEN "label" ELSE "act",
                  lease |-> cache, at |-> now]
            ELSE Idle
  /\ UNCHANGED <<now, skew, lease, rev, ring, cache, tomb, wakeAt, faults, shardVars>>

\* an error is returned: the key is added again (after a backoff)
ReconcileError == rec' = Idle /\ queued' = TRUE /\ UNCHANGED wakeAt

\* the result's RequeueAfter: ignored unless it is positive; the delaying
\* queue keeps the earlier time
RequeueAfter(d) == /\ rec' = Idle
                   /\ wakeAt' = IF d > 0 THEN Min2(wakeAt, now + d) ELSE wakeAt
                   /\ UNCHANGED queued

\* a write is applied but the sharder gets an error instead of the response
LoseResponse == faults < MaxFaults /\ faults' = faults + 1 /\ ReconcileError

\* Patch of the state label, with optimistic lock
MaintainLabel ==
  /\ rec.pc = "label"
  /\ \/ /\ VersionMatches(rec.lease.rv)
        /\ Write([lease EXCEPT !.label = State])
        /\ \/ /\ rec' = [rec EXCEPT !.pc = "act", !.lease = lease']
              /\ UNCHANGED <<queued, wakeAt, faults>>
           \/ LoseResponse
     \/ /\ ~VersionMatches(rec.lease.rv)
        /\ ReconcileError
        /\ UNCHANGED <<lease, rev, faults>>
  /\ UNCHANGED <<now, skew, ring, cache, tomb, shardVars>>

\* mutant: a dead lease is not looked at again
ActWaitNotDead ==
  /\ rec.pc = "act" /\ State \in {Ready, Expired, Dead}
  /\ RequeueAfter(CASE State = Ready   -> Times.ToExpired
                    [] State = Expired -> Times.ToUncertain
                    [] State = Dead    -> 0)
  /\ UNCHANGED <<now, skew, lease, rev, ring, cache, tomb, faults, shardVars>>

ActWait ==
  /\ rec.pc = "act" /\ State \in {Ready, Expired, Dead}
  /\ RequeueAfter(CASE State = Ready   -> Times.ToExpired
                    [] State = Expired -> Times.ToUncertain
                    [] State = Dead    -> Times.ToOrphaned)
  /\ UNCHANGED <<now, skew, lease, rev, ring, cache, tomb, faults, shardVars>>

\* mutant: the lease is acquired by a patch without optimistic lock
ActAcquireUnlocked ==
  /\ rec.pc = "act" /\ State = Uncertain
  /\ Exists(lease)
  /\ Write(Held(lease, Sharder, rec.at, 2 * Times.LeaseDuration))
  /\ RequeueAfter(Times.LeaseDuration)
  /\ UNCHANGED <<now, skew, ring, cache, tomb, faults, shardVars>>

\* mutant: the time left is taken for the new duration
ActAcquireTimeLeft ==
  /\ rec.pc = "act" /\ State = Uncertain
  /\ VersionMatches(rec.lease.rv)
  /\ Write(Held(rec.lease, Sharder, rec.at, Times.ToUncertain))
  /\ RequeueAfter(Times.LeaseDuration)
  /\ UNCHANGED <<now, skew, ring, cache, tomb, faults, shardVars>>

\* Update: sent with the version of the copy
ActAcquire ==
  /\ rec.pc = "act" /\ State = Uncertain
  /\ \/ /\ VersionMatches(rec.lease.rv)
        /\ Write(Held(rec.lease, Sharder, rec.at, 2 * Times.LeaseDuration))
        /\ \/ RequeueAfter(Times.LeaseDuration) /\ UNCHANGED faults
           \/ LoseResponse
     \/ /\ ~VersionMatches(rec.lease.rv)
        /\ ReconcileError
        /\ UNCHANGED <<lease, rev, faults>>
  /\ UNCHANGED <<now, skew, ring, cache, tomb, shardVars>>

\* Delete: by name, whatever the object's version
ActDelete ==
  /\ rec.pc = "act" /\ State = Orphaned
  /\ \/ /\ Exists(lease)
        /\ lease' = NoLease /\ rev' = rev + 1 /\ tomb' = TRUE
        /\ \/ rec' = Idle /\ UNCHANGED <<queued, wakeAt, faults>>
           \/ LoseResponse
     \/ /\ ~Exists(lease)
        /\ ReconcileError
        /\ UNCHANGED <<lease, rev, tomb, faults>>
  /\ UNCHANGED <<now, skew, ring, cache, shardVars>>
-----------------------------------------------------------------------------
(* The shard: one process at a time, its leader elector on a LeaseLock *)

Start ==
  /\ proc = "down" /\ starts < MaxStarts
  /\ starts' = starts + 1
  /\ proc' = "candidate"
  /\ ll' = NoLease /\ retryAt' = now
  /\ UNCHANGED <<now, skew, lease, rev, ring, sharderVars,
                 observedAt, attempt, call, stopBy, late>>

IsLeader     == Exists(ll) /\ ll.holder = Name
LeaseValid(since, l, t) == since + l.duration > t

\* tryAcquireOrRenew begins; a valid leader updates its last version at once
BeginAttempt ==
  /\ proc \in {"candidate", "leading"} /\ attempt = Never /\ retryAt <= now /\ now \in AttemptTimes
  /\ attempt' = now
  /\ call' = IF IsLeader /\ LeaseValid(observedAt, ll, now)
             THEN [kind |-> "update", rv |-> ll.rv, fast |-> TRUE, landed |-> 0]
             ELSE NoCall
  /\ UNCHANGED <<now, skew, lease, rev, ring, sharderVars, proc, starts, ll,
                 observedAt, retryAt, stopBy, late>>

Attempting == attempt # Never /\ now <= attempt + AttemptTimeout

EndAttempt == attempt' = Never /\ call' = NoCall /\ retryAt' = now + RetryPeriod

\* Get, then Create or Update, unless somebody else holds a valid lease
GetLease ==
  /\ Attempting /\ call = NoCall
  /\ IF Exists(lease)
     THEN /\ ll' = [lease EXCEPT !.label = Unknown]
          /\ observedAt' = IF Exists(ll) /\ SameRecord(ll, lease) THEN observedAt ELSE now
          /\ IF lease.holder \in {Name, NoHolder} \/ ~LeaseValid(observedAt', lease, attempt)
             THEN /\ call' = [kind |-> "update", rv |-> lease.rv, fast |-> FALSE, landed |-> 0]
                  /\ UNCHANGED <<attempt, retryAt>>
             ELSE EndAttempt
     ELSE /\ call' = [kind |-> "create", rv |-> 0, fast |-> FALSE, landed |-> 0]
          /\ UNCHANGED <<ll, observedAt, attempt, retryAt>>
  /\ UNCHANGED <<now, skew, lease, rev, ring, sharderVars, proc, starts, stopBy, late>>

\* an answer with an error, or none in time: a fast update falls back to Get
CallFailed ==
  IF call.fast THEN call' = NoCall /\ UNCHANGED <<attempt, retryAt>>
               ELSE EndAttempt

\* LeaseLock.Update: keeps the labels that the sharder set
LandUpdate ==
  /\ Attempting /\ call.kind = "update" /\ call.landed = 0
  /\ \/ /\ VersionMatches(call.rv)
        /\ Write(Held(lease, Name, attempt + skew, LeaseDuration))
        /\ call' = [call EXCEPT !.landed = rev + 1]
        /\ UNCHANGED <<attempt, retryAt>>
     \/ /\ ~VersionMatches(call.rv)
        /\ CallFailed
        /\ UNCHANGED <<lease, rev>>
  /\ UNCHANGED <<now, skew, ring, sharderVars, proc, starts, ll, observedAt, stopBy, late>>

\* LeaseLock.Create
LandCreate ==
  /\ Attempting /\ call.kind = "create" /\ call.landed = 0
  /\ \/ /\ ~Exists(lease)
        /\ Write(Held(NoLease, Name, attempt + skew, LeaseDuration))
        /\ call' = [call EXCEPT !.landed = rev + 1]
        /\ UNCHANGED <<attempt, retryAt>>
     \/ /\ Exists(lease)
        /\ CallFailed
        /\ UNCHANGED <<lease, rev>>
  /\ UNCHANGED <<now, skew, ring, sharderVars, proc, starts, ll, observedAt, stopBy, late>>

\* the successful response arrives: the process leads until RenewDeadline
\* after its next renewal is due
Respond ==
  /\ Attempting /\ call.landed # 0
  /\ proc' = "leading"
  /\ ll' = [Held(NoLease, Name, attempt + skew, LeaseDuration) EXCEPT !.rv = call.landed]
  /\ observedAt' = now
  /\ stopBy' = now + RetryPeriod + RenewDeadline
  /\ EndAttempt
  /\ UNCHANGED <<now, skew, lease, rev, ring, sharderVars, starts, late>>

\* what the API server may still apply of an update that is not waited for
Leftover == IF Attempting /\ call.kind = "update" /\ call.landed = 0
            THEN {[kind |-> "update", rv |-> call.rv, stamp |-> attempt + skew]}
            ELSE {}

\* requests left behind are lost or still on their way; one that was
\* overtaken by a write will be refused and need not be kept
KeepLate(reqs) ==
  \/ late' = late
  \/ /\ late' = {r \in late \cup reqs : VersionMatches(r.rv)}
     /\ late' # late
     /\ Cardinality({r \in late' : r.kind = "update"}) <= MaxLate

\* the call or the whole attempt times out, or its connection breaks
Timeout ==
  /\ attempt # Never
  /\ KeepLate(Leftover)
  /\ IF call = NoCall THEN EndAttempt ELSE CallFailed
  /\ UNCHANGED <<now, skew, lease, rev, ring, sharderVars, proc, starts, ll,
                 observedAt, stopBy>>

Down == /\ proc' = "down" /\ attempt' = Never /\ call' = NoCall
        /\ ll' = NoLease /\ observedAt' = 0 /\ retryAt' = 0 /\ stopBy' = 0
        /\ UNCHANGED <<now, skew, lease, rev, ring, sharderVars, starts>>

Crash ==
  /\ proc # "down"
  /\ KeepLate(Leftover)
  /\ Down

\* renew() returns: its attempt is cancelled, and release() begins
EndLeading(next) ==
  /\ proc = "leading"
  /\ KeepLate(Leftover)
  /\ proc' = next /\ attempt' = Never /\ call' = NoCall
  /\ stopBy' = now + RenewDeadline
  /\ UNCHANGED <<now, skew, lease, rev, ring, sharderVars, starts, ll, observedAt, retryAt>>

\* the elector could not renew within RenewDeadline; OnStoppedLeading comes
\* after the release, the controllers run until then
GiveUp == now = stopBy /\ EndLeading("releasing")

\* SIGTERM: the manager has stopped its controllers, then cancels the elector
Stop == EndLeading("stopping")

\* release(): Get for the version, IsLeader by the record observed last, Update
Release ==
  /\ proc \in {"releasing", "stopping"} /\ IsLeader /\ Exists(lease)
  /\ ll' = NoLease
  /\ KeepLate({[kind |-> "release", rv |-> lease.rv, stamp |-> now + skew]})
  /\ UNCHANGED <<now, skew, lease, rev, ring, sharderVars, proc, starts,
                 observedAt, attempt, call, retryAt, stopBy>>

\* the release is answered, fails, times out or was not needed
Exit ==
  /\ proc \in {"releasing", "stopping"}
  /\ UNCHANGED late
  /\ Down

LandLate ==
  \E r \in late :
    /\ VersionMatches(r.rv)
    /\ Write(IF r.kind = "release" THEN Held(lease, NoHolder, r.stamp, 1)
                                   ELSE Held(lease, Name, r.stamp, LeaseDuration))
    /\ late' = late \ {r}
    /\ UNCHANGED <<now, skew, ring, sharderVars, proc, starts, electorVars>>
-----------------------------------------------------------------------------
SharderIdle == /\ cache = lease /\ ~tomb /\ ~queued /\ rec = Idle
               /\ wakeAt = Never \/ wakeAt > now

\* a leader that could not renew gives up at its deadline, a release ends at
\* its own, and the API server drops a request at the end of its timeout
Tick ==
  /\ now < MaxTime
  /\ proc \in {"leading", "releasing", "stopping"} => now < stopBy
  /\ PromptSharder => SharderIdle
  /\ now' = now + 1
  /\ late' = {r \in late : now < r.stamp - skew + AttemptTimeout}
  /\ UNCHANGED <<skew, lease, rev, ring, sharderVars, proc, starts, electorVars>>

\* the end of the modelled time
Horizon == now = MaxTime /\ UNCHANGED vars

Init ==
  /\ now = 0
  /\ skew \in -MaxSkew .. MaxSkew
  /\ lease = NoLease /\ rev = 0
  /\ ring \in BOOLEAN
  /\ cache = NoLease /\ tomb = FALSE /\ queued = FALSE /\ wakeAt = Never /\ rec = Idle /\ faults = 0
  /\ proc = "down" /\ starts = 0
  /\ ll = NoLease /\ observedAt = 0 /\ attempt = Never /\ call = NoCall
  /\ retryAt = 0 /\ stopBy = 0 /\ late = {}

Reconcile == ReconcileRead \/ MaintainLabel \/ ActWait \/ ActAcquire \/ ActDelete

SharderNext == Deliver \/ Wake \/ CreateRing \/ RestartSharder \/ Reconcile

ElectorNext == \/ BeginAttempt \/ GetLease \/ LandUpdate \/ LandCreate
               \/ Respond \/ Timeout

ShardNext == \/ Start \/ ElectorNext \/ Crash \/ GiveUp \/ Stop \/ Release \/ Exit
             \/ LandLate

Next == SharderNext \/ ShardNext \/ Tick \/ Horizon

Spec == Init /\ [][Next]_vars

(***************************************************************************)
(* Fairness: the workers, the watch and the delaying queue of the running  *)
(* sharder always get on; time passes; a process that reached its renew    *)
(* deadline, or the timeout of its release, goes on to the next step.      *)
(* Nothing else is assumed of the shard, and nothing of failures.          *)
(***************************************************************************)
Fairness == /\ WF_vars(Deliver) /\ WF_vars(Wake) /\ WF_vars(Reconcile)
            /\ WF_vars(Tick) /\ WF_vars(GiveUp) /\ WF_vars(Exit)

FairSpec == Spec /\ Fairness
-----------------------------------------------------------------------------
Lease == [rv : Nat, holder : {Name, Sharder, NoHolder}, renewTime : Int,
          duration : Nat, complete : BOOLEAN, label : ShardState]
Rec     == [pc : {"idle", "label", "act"}, lease : Lease, at : Nat]
Call    == [kind : {"none", "create", "update"}, rv : Nat, fast : BOOLEAN, landed : Nat]
Request == [kind : {"update", "release"}, rv : Nat, stamp : Int]

TypeOK ==
  /\ now \in Nat /\ skew \in -MaxSkew .. MaxSkew
  /\ lease \in Lease /\ rev \in Nat /\ ring \in BOOLEAN
  /\ cache \in Lease /\ tomb \in BOOLEAN /\ queued \in BOOLEAN /\ wakeAt \in Nat \cup {Never}
  /\ rec \in Rec
  /\ faults \in Nat
  /\ proc \in {"down", "candidate", "leading", "releasing", "stopping"} /\ starts \in Nat
  /\ ll \in Lease /\ observedAt \in Nat
  /\ attempt \in Nat \cup {Never} /\ call \in Call
  /\ retryAt \in Nat /\ stopBy \in Nat
  /\ late \subseteq Request

\* the controllers of the shard run
Running == proc \in {"leading", "releasing"}

\* the sharder takes the shard for unavailable: it moves the shard's objects
\* without asking it
Lost == Exists(lease) /\ ~IsAvailable(ToState(lease, Name, now))

(***************************************************************************)
(* Controllers run only while the shard holds its lease, as main.go says   *)
(* ("controllers will only run as long as manager holds the shard lease"). *)
(* This is violated: a leader that could not renew releases its lease      *)
(* before it stops its controllers.                                        *)
(***************************************************************************)
DeadImpliesStopped == Lost => ~Running

(***************************************************************************)
(* That is the only case.  A shard whose lease was taken over or released  *)
(* has stopped its controllers or is about to, having missed its renew     *)
(* deadline; and if a release is over before the sharder's patience is, no *)
(* lease is ever taken from a shard whose controllers run.                 *)
(***************************************************************************)
DeadImpliesStopping ==
  Lost /\ Running => /\ proc = "releasing"
                     /\ ReleaseInTime => lease.holder = NoHolder

(***************************************************************************)
(* The sharder never takes a lease from a shard before it has been expired *)
(* for LeaseDuration, however old the copy is that it decided on.          *)
(***************************************************************************)
TakeoverOnlyUncertain ==
  [][ lease.holder = Name /\ lease'.holder = Sharder
        => ToState(lease, Name, now) = Uncertain ]_vars

(***************************************************************************)
(* The shardlease controller never loses a lease of its ring: as long as   *)
(* its cache shows the lease, the lease is queued, timed or reconciled.    *)
(***************************************************************************)
NeverForgotten == Exists(lease) /\ cache = lease /\ ring
                    => queued \/ wakeAt # Never \/ rec # Idle

\* what the properties about the sharder's timing need
Punctual == PromptSharder /\ ReleaseInTime /\ skew >= -1

(***************************************************************************)
(* With a sharder that reacts at once, its timers and predicates keep the  *)
(* state label equal to the state at every moment, if the shard's clock is *)
(* behind by at most the duration (1) of a released lease.  With a slower  *)
(* clock the state may change unseen: a shard takes its dead lease back    *)
(* and releases it, the watch shows only the outcome (as after a relist),  *)
(* the lease is Dead as before and LeasePredicate drops the event, but its *)
(* stamp is so old that it is Orphaned before the timer set for the dead   *)
(* lease is due.  The same happens when a shard releases a lease that the  *)
(* sharder took over in the meantime, for which ReleaseInTime leaves no    *)
(* time.                                                                   *)
(***************************************************************************)
LabelCurrent == Punctual /\ SharderIdle /\ ring /\ Exists(lease)
                  => lease.label = ToState(lease, Name, now)

(***************************************************************************)
(* Under the same conditions takeover and deletion come at the very moment *)
(* they are due: a sharder that has nothing to do leaves no lease behind   *)
(* that is uncertain or orphaned.                                          *)
(***************************************************************************)
CollectedInTime ==
  Punctual /\ SharderIdle /\ ring /\ Exists(lease)
    => ToState(lease, Name, now) \notin {Uncertain, Orphaned}

(***************************************************************************)
(* Only a lease that is orphaned is deleted (docs/design.md: "The orphaned *)
(* `Lease` is cleaned up after 1 minute").                                 *)
(***************************************************************************)
OnlyOrphanedDeleted ==
  [][ Exists(lease) /\ ~Exists(lease') => ToState(lease, Name, now) = Orphaned ]_vars

(***************************************************************************)
(* The lease of a shard that is gone for good is taken over and deleted.   *)
(***************************************************************************)
CollectTime == MaxSkew + 4 * LeaseDuration + leaseTTL

GoneIsCollected ==
  (proc = "down" /\ starts = MaxStarts /\ ring /\ now + CollectTime <= MaxTime)
     ~> ~Exists(lease)
=============================================================================
