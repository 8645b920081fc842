------------------------------ MODULE Sharding ------------------------------
(***************************************************************************)
(* How objects of one ControllerRing get to shards and leave them: the     *)
(* sharder webhook that assigns, the sharder controller's resync that      *)
(* drains and moves, and the shards that reconcile and acknowledge drains. *)
(*                                                                         *)
(* A shard is available while it holds its Lease.  ShardLease shows that a *)
(* shard whose lease was taken over or released runs no reconciles, except *)
(* in the moment between the release and the stop of its controllers when  *)
(* it has missed its renew deadline: without that moment, this is the      *)
(* guard of Die.  The sharder sees leases through informer caches, one per *)
(* replica; webhooks run on every replica, the controller on the Leader.   *)
(*                                                                         *)
(* A version of an object is its labels.  A resourceVersion is only used   *)
(* to ask whether a copy is of the current version: a copy keeps a flag    *)
(* cur instead, and a work item whose version was overtaken, which the API *)
(* server would refuse with a conflict, is dropped at once.                *)
(***************************************************************************)
EXTENDS Naturals, FiniteSets

CONSTANTS
  Shards,
  Mains,         \* objects of the ring's main resources
  Controlled,    \* objects of its controlled resources,
  Owner,         \*   each with the main object that is its controller
  None,          \* no shard label
  Position,      \* Position[k][s]: distance from key k to shard s around the hash ring
  Replicas,      \* replicas of the sharder,
  Leader,        \*   of which one runs the controllers
  JoinsSettled,  \* TRUE: a shard joins between resyncs and all replicas see it at once
  MaxEvents      \* bound: joins, crashes, user updates, failures of sharder and webhook

ASSUME ShardingAssumption ==
  /\ None \notin Shards
  /\ Mains \cap Controlled = {}
  /\ Owner \in [Controlled -> Mains]
  /\ Leader \in Replicas
  /\ JoinsSettled \in BOOLEAN
  /\ MaxEvents \in Nat

ASSUME PositionAssumption ==
  /\ Position \in [Mains -> [Shards -> Nat]]
  /\ \A k \in Mains, s, t \in Shards : Position[k][s] = Position[k][t] => s = t

Objects == Mains \cup Controlled

VARIABLES
  avail,      \* shards that hold their lease
  running,    \* shards whose process leads and reconciles
  view,       \* view[r]: shards that replica r's lease cache shows as available
  objects,    \* objects that exist
  store,      \* store[o]: labels shard and drain of o in the API server
  cache,      \* cache[s][o]: copy of o in shard s
  recon,      \* recon[s]: objects that s is reconciling
  resyncing,  \* the leader executes an Operation for the ring,
  snapshot,   \*   with these shards available at its start,
  todo,       \*   these objects not listed yet
  items,      \*   and these work items not processed yet
  events

shardVars  == <<avail, running, view>>
objectVars == <<objects, store, cache>>
opVars     == <<resyncing, snapshot, todo>>
vars == <<shardVars, objectVars, recon, opVars, items, events>>

Unassigned == [shard |-> None, drain |-> FALSE]
NoCopy     == [shard |-> None, drain |-> FALSE, cur |-> FALSE]

\* FuncForResource: a controlled object hashes like its controller
Key(o) == IF o \in Controlled THEN Owner[o] ELSE o

\* Ring.Hash over the available shards
Hash(ring, k) ==
  IF ring = {} THEN None
  ELSE CHOOSE s \in ring : \A t \in ring : Position[k][s] <= Position[k][t]

Event == events < MaxEvents /\ events' = events + 1
-----------------------------------------------------------------------------
(* The API server *)

Outdated(copy) == [shard |-> copy.shard, drain |-> copy.drain, cur |-> FALSE]

\* a new version of o: all copies of it are old, all work items for it too
Write(o, labels) ==
  /\ store' = [store EXCEPT ![o] = labels]
  /\ cache' = [s \in Shards |-> [cache[s] EXCEPT ![o] = Outdated(@)]]
  /\ items' = {i \in items : i.obj # o}

\* a patch that changes nothing makes no new version
Patch(o, labels) ==
  IF labels = store[o] THEN items' = {i \in items : i.obj # o} /\ UNCHANGED <<store, cache>>
                       ELSE Write(o, labels)

\* the webhook's answers for an object without shard label, by replica
Assignments(o) == {[shard |-> Hash(view[r], Key(o)), drain |-> FALSE] : r \in Replicas}

\* a write that leaves o without shard label passes the webhook, whose
\* failure is ignored
Admitted(o) ==
  \/ \E labels \in Assignments(o) : Patch(o, labels) /\ UNCHANGED events
  \/ Patch(o, Unassigned) /\ Event
-----------------------------------------------------------------------------
(* Shards and their leases *)

Join(s) ==
  /\ s \notin avail /\ Event
  /\ JoinsSettled => ~resyncing
  /\ avail' = avail \cup {s}
  /\ running' = running \cup {s}
  /\ view' = IF JoinsSettled THEN [r \in Replicas |-> view[r] \cup {s}] ELSE view
  /\ UNCHANGED <<objectVars, recon, opVars, items>>

\* the process ends; a new one has an empty cache
Crash(s) ==
  /\ s \in running /\ Event
  /\ running' = running \ {s}
  /\ recon' = [recon EXCEPT ![s] = {}]
  /\ cache' = [cache EXCEPT ![s] = [o \in Objects |-> NoCopy]]
  /\ UNCHANGED <<avail, view, objects, store, opVars, items>>

\* a new process under the name that still holds the lease
Restart(s) ==
  /\ s \in avail \ running
  /\ running' = running \cup {s}
  /\ UNCHANGED <<avail, view, objectVars, recon, opVars, items, events>>

\* the lease is released, or taken over by the shardlease controller
Die(s) ==
  /\ s \in avail \ running
  /\ avail' = avail \ {s}
  /\ UNCHANGED <<running, view, objectVars, recon, opVars, items, events>>

\* the lease cache of a replica catches up
Observe(r, s) ==
  /\ (s \in avail) # (s \in view[r])
  /\ view' = [view EXCEPT ![r] = IF s \in avail THEN @ \cup {s} ELSE @ \ {s}]
  /\ UNCHANGED <<avail, running, objectVars, recon, opVars, items, events>>
-----------------------------------------------------------------------------
(* Users *)

Create(o) ==
  /\ o \notin objects
  /\ objects' = objects \cup {o}
  /\ Admitted(o)
  /\ UNCHANGED <<shardVars, recon, opVars>>

\* any update that leaves the ring's labels alone
Update(o) ==
  /\ o \in objects /\ Event
  /\ \E labels \in (IF store[o].shard = None THEN Assignments(o) ELSE {store[o]}) :
        Write(o, labels)
  /\ UNCHANGED <<shardVars, objects, recon, opVars>>
-----------------------------------------------------------------------------
(* The sharder controller: Reconcile and its Operation *)

\* NewOperation: on a change of availability, an error or the sync period
StartResync ==
  /\ ~resyncing
  /\ resyncing' = TRUE
  /\ snapshot' = view[Leader]
  /\ todo' = Objects
  /\ UNCHANGED <<shardVars, objectVars, recon, items, events>>

\* mutant: objects are moved without drain
WorkItemsNoDrain(o) ==
  IF o \notin objects \/ Hash(snapshot, Key(o)) \in {None, store[o].shard} THEN {}
  ELSE {[obj |-> o, drain |-> FALSE]}

\* mutant: controlled objects are drained like the others
WorkItemsDrainAll(o) ==
  IF o \notin objects \/ Hash(snapshot, Key(o)) \in {None, store[o].shard} THEN {}
  ELSE {[obj |-> o, drain |-> store[o].shard # None /\ store[o].shard \in snapshot]}

\* mutant: an object that has been drained needs nothing more
WorkItemsDrainOnce(o) ==
  IF o \notin objects \/ store[o].drain \/ Hash(snapshot, Key(o)) \in {None, store[o].shard} THEN {}
  ELSE {[obj   |-> o,
         drain |-> store[o].shard # None /\ store[o].shard \in snapshot /\ o \notin Controlled]}

\* workItemForObject
WorkItems(o) ==
  LET desiredShard == Hash(snapshot, Key(o))
      currentShard == store[o].shard
  IN IF o \notin objects \/ desiredShard \in {None, currentShard} THEN {}
     ELSE {[obj   |-> o,
            drain |-> currentShard # None /\ currentShard \in snapshot /\ o \notin Controlled]}

\* the pager hands one more object to workItemForObject
ListObject(o) ==
  /\ resyncing /\ o \in todo
  /\ todo' = todo \ {o}
  /\ items' = items \cup WorkItems(o)
  /\ UNCHANGED <<shardVars, objectVars, recon, resyncing, snapshot, events>>

\* the list came from an old watch cache: the work item, if there is any, is
\* refused with a conflict; so is one whose patch fails
ListStale(o) ==
  /\ resyncing /\ o \in todo /\ Event
  /\ todo' = todo \ {o}
  /\ UNCHANGED <<shardVars, objectVars, recon, resyncing, snapshot, items>>

DrainObject(o) ==
  /\ [obj |-> o, drain |-> TRUE] \in items
  /\ Patch(o, [shard |-> store[o].shard, drain |-> TRUE])
  /\ UNCHANGED <<shardVars, objects, recon, opVars, events>>

MoveObject(o) ==
  /\ [obj |-> o, drain |-> FALSE] \in items
  /\ Admitted(o)
  /\ UNCHANGED <<shardVars, objects, recon, opVars>>

FinishResync ==
  /\ resyncing /\ todo = {} /\ items = {}
  /\ resyncing' = FALSE
  /\ snapshot' = {}
  /\ UNCHANGED <<shardVars, objectVars, recon, todo, items, events>>

\* the leader restarts or loses its leadership: queued work is lost
AbortResync ==
  /\ resyncing /\ Event
  /\ resyncing' = FALSE
  /\ snapshot' = {} /\ todo' = {} /\ items' = {}
  /\ UNCHANGED <<shardVars, objectVars, recon>>
-----------------------------------------------------------------------------
(* A shard: sharded Reconciler around the actual one *)

SyncCache(s, o) ==
  /\ s \in running /\ o \in objects /\ ~cache[s][o].cur
  /\ cache' = [cache EXCEPT ![s][o] =
                 [shard |-> store[o].shard, drain |-> store[o].drain, cur |-> TRUE]]
  /\ UNCHANGED <<shardVars, objects, store, recon, opVars, items, events>>

\* mutant: reconciles whatever the cache holds
BeginReconcileUnchecked(s, o) ==
  /\ s \in running /\ o \in Mains \ recon[s]
  /\ cache[s][o].cur
  /\ recon' = [recon EXCEPT ![s] = @ \cup {o}]
  /\ UNCHANGED <<shardVars, objectVars, opVars, items, events>>

\* mutant: controlled objects are reconciled, too
BeginReconcileAll(s, o) ==
  /\ s \in running /\ o \in Objects \ recon[s]
  /\ cache[s][o].shard = s /\ ~cache[s][o].drain
  /\ recon' = [recon EXCEPT ![s] = @ \cup {o}]
  /\ UNCHANGED <<shardVars, objectVars, opVars, items, events>>

\* the work queue runs one Reconcile per object at a time
BeginReconcile(s, o) ==
  /\ s \in running /\ o \in Mains \ recon[s]
  /\ cache[s][o].shard = s /\ ~cache[s][o].drain
  /\ recon' = [recon EXCEPT ![s] = @ \cup {o}]
  /\ UNCHANGED <<shardVars, objectVars, opVars, items, events>>

EndReconcile(s, o) ==
  /\ o \in recon[s]
  /\ recon' = [recon EXCEPT ![s] = @ \ {o}]
  /\ UNCHANGED <<shardVars, objectVars, opVars, items, events>>

\* mutant: the drain is acknowledged while a reconcile still runs
AckDrainEarly(s, o) ==
  /\ s \in running /\ o \in Mains
  /\ cache[s][o].shard = s /\ cache[s][o].drain
  /\ cache[s][o].cur
  /\ Admitted(o)
  /\ UNCHANGED <<shardVars, objects, recon, opVars>>

\* acknowledge the drain: remove both labels, with optimistic lock
AckDrain(s, o) ==
  /\ s \in running /\ o \in Mains \ recon[s]
  /\ cache[s][o].shard = s /\ cache[s][o].drain
  /\ cache[s][o].cur
  /\ Admitted(o)
  /\ UNCHANGED <<shardVars, objects, recon, opVars>>
-----------------------------------------------------------------------------
Init ==
  /\ avail \in SUBSET Shards
  /\ running = avail
  /\ view = [r \in Replicas |-> avail]
  /\ objects = {}
  /\ store = [o \in Objects |-> Unassigned]
  /\ cache = [s \in Shards |-> [o \in Objects |-> NoCopy]]
  /\ recon = [s \in Shards |-> {}]
  /\ resyncing = FALSE /\ snapshot = {} /\ todo = {} /\ items = {}
  /\ events = 0

Resync == \/ StartResync \/ FinishResync
          \/ \E o \in Objects : ListObject(o) \/ ListStale(o) \/ DrainObject(o) \/ MoveObject(o)

Next ==
  \/ \E s \in Shards : Join(s) \/ Crash(s) \/ Restart(s) \/ Die(s)
  \/ \E r \in Replicas, s \in Shards : Observe(r, s)
  \/ \E o \in Objects : Create(o) \/ Update(o)
  \/ Resync \/ AbortResync
  \/ \E s \in Shards, o \in Objects :
        SyncCache(s, o) \/ BeginReconcile(s, o) \/ EndReconcile(s, o) \/ AckDrain(s, o)

Spec == Init /\ [][Next]_vars

(***************************************************************************)
(* Fairness: caches catch up, the resync repeats (SyncPeriod) and its      *)
(* workers get on, shards finish reconciles and answer drains, and a shard *)
(* without process is restarted or loses its lease.                        *)
(***************************************************************************)
Fairness ==
  /\ \A r \in Replicas : WF_vars(\E s \in Shards : Observe(r, s))
  /\ WF_vars(\E s \in Shards : Restart(s) \/ Die(s))
  /\ WF_vars(StartResync) /\ WF_vars(FinishResync)
  /\ \A o \in Objects : WF_vars(ListObject(o)) /\ WF_vars(DrainObject(o)) /\ WF_vars(MoveObject(o))
  /\ \A s \in Shards : WF_vars(\E o \in Objects : SyncCache(s, o))
  /\ \A s \in Shards, o \in Mains : WF_vars(EndReconcile(s, o)) /\ WF_vars(AckDrain(s, o))

FairSpec == Spec /\ Fairness
-----------------------------------------------------------------------------
Label == Shards \cup {None}
Labels == [shard : Label, drain : BOOLEAN]
Copy   == [shard : Label, drain : BOOLEAN, cur : BOOLEAN]
Item   == [obj : Objects, drain : BOOLEAN]

TypeOK ==
  /\ avail \subseteq Shards /\ running \subseteq Shards
  /\ view \in [Replicas -> SUBSET Shards]
  /\ objects \subseteq Objects
  /\ store \in [Objects -> Labels]
  /\ cache \in [Shards -> [Objects -> Copy]]
  /\ recon \in [Shards -> SUBSET Mains]
  /\ resyncing \in BOOLEAN /\ snapshot \subseteq Shards /\ todo \subseteq Objects
  /\ items \subseteq Item
  /\ events \in Nat

(***************************************************************************)
(* No object is reconciled by two shards at the same time                  *)
(* (docs/implement-sharding.md: "the sharder must prevent concurrent       *)
(* reconciliations of the same object in multiple shards").                *)
(***************************************************************************)
ExclusiveReconcile ==
  \A s, t \in Shards : s # t => recon[s] \cap recon[t] = {}

(***************************************************************************)
(* An object that a shard works on is not taken away: only the shard       *)
(* itself or its death end the assignment.                                 *)
(***************************************************************************)
AssignedWhileReconciled == \A s \in Shards : \A o \in recon[s] : store[o].shard = s

(***************************************************************************)
(* When the ring stays as it is, every object is in the end assigned to    *)
(* the shard that its key hashes to, controlled objects thereby to the     *)
(* shard of their controller, and no drain is left unanswered.             *)
(***************************************************************************)
Placed(o) == store[o] = [shard |-> Hash(avail, Key(o)), drain |-> FALSE]

Converges == <>[](avail = {} \/ \A o \in objects : Placed(o))

(***************************************************************************)
(* Every drain is answered, by the shard that has the object or, when that *)
(* shard dies first, by the sharder moving the object, unless nobody is    *)
(* left to take it.                                                        *)
(***************************************************************************)
DrainAnswered == \A o \in Mains : store[o].drain ~> (~store[o].drain \/ avail = {})

(***************************************************************************)
(* The refinement: labels are the ownership, reconciles are the work.      *)
(***************************************************************************)
Abstract == INSTANCE Ownership WITH
              Objects <- Mains,
              owner   <- [o \in Mains |-> store[o].shard],
              working <- recon

\* Sharding keeps the promise of Ownership
OwnershipKept == Abstract!Spec
=============================================================================
