------------------------ MODULE ControllerRingProofs ------------------------
(***************************************************************************)
(* Proofs about the control plane around a ControllerRing: nothing that    *)
(* the sharder controller or the controllerring controller has to react to *)
(* goes unnoticed, for any number of shards, any specs and objects, and    *)
(* any number of changes and failing calls.                                *)
(*                                                                         *)
(* The properties speak of moments in which caches are current.  The       *)
(* inductive invariant relates the controllers' work to the caches they    *)
(* work with, however old: what was not delivered yet is still an event    *)
(* to come.                                                                *)
(***************************************************************************)
EXTENDS ControllerRing, FiniteSetTheorems, TLAPS

LeaseStates == {"absent", "held", "lost"}

\* a ring object whose status counts make sense
Sound(r) == r \in RingObject /\ r.status.available <= r.status.shards

Types ==
  /\ TypeOK
  /\ ring.spec \in Specs
  /\ Sound(cache.ring) /\ (cache.ring.exists => cache.ring.spec \in Specs)
  /\ Sound(work.ring) /\ (work.pc # "idle" => work.ring.exists /\ work.ring.spec \in Specs)

\* A copy is the ring of an earlier version; one of the same version is the
\* ring, one of the same generation has its spec.
CopyOf(copy, r) ==
  /\ copy.rv <= r.rv /\ copy.generation <= r.generation
  /\ copy.exists /\ copy.rv = r.rv => copy = r
  /\ copy.exists /\ copy.generation = r.generation => copy.spec = r.spec

Copies ==
  /\ CopyOf(cache.ring, ring)
  /\ CopyOf(work.ring, ring)

\* what an Operation covers that starts with these copies
Coverage(r, leases) ==
  [shards     |-> AvailableShards(leases),
   resources  |-> DOMAIN r.spec.resources \cup Controlled(r.spec),
   namespaces |-> Selector(r.spec)]

\* Unless the ring is in the sharder's queue, the running Operation or the last
\* successful one covers what the sharder's caches show.
ResyncInv ==
  cache.ring.exists /\ Valid(cache.ring.spec) /\ "sharder" \notin queue =>
    Coverage(cache.ring, cache.leases) = IF op # None THEN op ELSE last

\* the status that updateStatusSuccess wants
Counted(generation, leases) ==
  [observed  |-> generation,
   ready     |-> "True",
   shards    |-> Cardinality({s \in Shards : leases[s] # "absent"}),
   available |-> Cardinality(AvailableShards(leases))]

\* Unless the ring is in the queue of the controllerring controller (or Reconcile
\* is going to put it there), webhook configuration and status follow the
\* cached ring, or will when Reconcile ends.
StatusInv ==
  ring.exists /\ cache.ring.exists /\ "controllerring" \notin queue /\ work.pc # "failed" =>
    /\ webhook = cache.ring.spec
    /\ work.pc = "idle" => skipped \/ ring.status = Counted(cache.ring.generation, cache.leases)
    /\ work.pc = "applied" => work.ring.generation = cache.ring.generation

WebhookInv == webhook # None => Valid(webhook)

IndInv == Types /\ Copies /\ ResyncInv /\ StatusInv /\ WebhookInv

-----------------------------------------------------------------------------
(* The operators.                                                          *)

\* The counts of a status are within their bounds, and no more shards are
\* available than there are.
LEMMA CountedTyped ==
  ASSUME NEW g \in Nat, NEW leases \in [Shards -> LeaseStates]
  PROVE  Counted(g, leases) \in Status /\ Counted(g, leases).available <= Counted(g, leases).shards
<1> DEFINE S == {s \in Shards : leases[s] # "absent"}
           A == AvailableShards(leases)
<1>1. A \subseteq S /\ S \subseteq Shards
  BY DEF AvailableShards
<1>2. IsFiniteSet(Shards)
  BY RingAssumption
<1>3. /\ IsFiniteSet(S) /\ Cardinality(S) <= Cardinality(Shards)
      /\ Cardinality(A) <= Cardinality(S) /\ IsFiniteSet(A)
  BY <1>1, <1>2, FS_Subset
<1>4. Cardinality(S) \in Nat /\ Cardinality(A) \in Nat /\ Cardinality(Shards) \in Nat
  BY <1>2, <1>3, FS_CardinalityType
<1> QED  BY <1>3, <1>4 DEF Counted, Status

\* What an Operation covers is of its type, and not None.
LEMMA CoverageTyped ==
  ASSUME NEW r, r.spec \in Specs, Valid(r.spec), NEW leases
  PROVE  Coverage(r, leases) \in Covered /\ Coverage(r, leases) # None
<1>1. Selector(r.spec) \subseteq Namespaces
  BY RingAssumption DEF Valid, Selector
<1>2. Coverage(r, leases) \in Covered
  BY <1>1 DEF Coverage, Covered, AvailableShards
<1> QED  BY <1>2, RingAssumption

\* A ring that is not cached is a sound object, and a copy of every ring.
LEMMA NoRingSound == Sound(NoRing) /\ ~NoRing.exists /\ NoRing.rv = 0 /\ NoRing.generation = 0
<1>1. Cardinality(Shards) \in Nat
  BY RingAssumption, FS_CardinalityType
<1> QED  BY <1>1 DEF Sound, NoRing, NoStatus, RingObject, Status

\* An update of the spec makes a ring of a ring.
LEMMA SpecUpdated ==
  ASSUME NEW r \in RingObject, NEW n \in Nat, NEW g \in Nat, NEW spec \in Specs
  PROVE  [r EXCEPT !.rv = n, !.generation = g, !.spec = spec] \in RingObject
  BY DEF RingObject

\* So does its deletion.
LEMMA RingDeleted ==
  ASSUME NEW r \in RingObject, NEW n \in Nat
  PROVE  [r EXCEPT !.exists = FALSE, !.rv = n] \in RingObject
  BY DEF RingObject

\* So does an update of its status.
LEMMA StatusUpdated ==
  ASSUME NEW r \in RingObject, NEW n \in Nat, NEW status \in Status
  PROVE  [r EXCEPT !.rv = n, !.status = status] \in RingObject
  BY DEF RingObject

\* Every change of a lease that changes which shards are available makes both
\* controllers look, one that changes how many there are the controllerring
\* controller (ShardLeaseAvailabilityChanged and the predicates around it).
LEMMA PredicateNotices ==
  ASSUME NEW s \in Shards, NEW old \in [Shards -> LeaseStates], NEW to \in LeaseStates,
         NEW unknown \in BOOLEAN, NEW new, new = [old EXCEPT ![s] = to]
  PROVE  /\ \/ AvailableShards(new) = AvailableShards(old)
            \/ \A c \in Controllers : LeasePredicate(c, old[s], to, unknown)
         /\ \/ {x \in Shards : new[x] # "absent"} = {x \in Shards : old[x] # "absent"}
            \/ LeasePredicate("controllerring", old[s], to, unknown)
  BY DEF AvailableShards, LeasePredicate, ShardLeaseAvailabilityChanged, LeaseStates, Controllers

-----------------------------------------------------------------------------
(* Types and copies.                                                       *)

\* Each step keeps the types, and copies of the ring that make sense.
LEMMA TypesStep ==
  ASSUME Types, Next
  PROVE  Types'
<1>1. /\ ring \in RingObject /\ ring.status.available <= ring.status.shards /\ ring.spec \in Specs
      /\ lease \in [Shards -> LeaseStates] /\ webhook \in Specs \cup {None}
      /\ cache \in [ring : RingObject, leases : [Shards -> LeaseStates]]
      /\ queue \in SUBSET Controllers
      /\ work \in [pc : {"idle", "applied", "failed"}, ring : RingObject]
      /\ skipped \in BOOLEAN /\ due \in BOOLEAN
      /\ op \in Covered \cup {None} /\ last \in Covered \cup {None}
      /\ changes \in 0 .. MaxChanges /\ faults \in 0 .. MaxFaults
  BY DEF Types, TypeOK, LeaseStates
<1>2. MaxChanges \in Nat /\ MaxFaults \in Nat
  BY RingAssumption
<1>3. ASSUME NEW status \in Status, status.available <= status.shards, OptionallyUpdateStatus(status)
      PROVE  /\ ring' \in RingObject /\ ring'.status.available <= ring'.status.shards
             /\ ring'.spec \in Specs /\ skipped' \in BOOLEAN /\ faults' \in 0 .. MaxFaults
  <2>1. CASE status = work.ring.status
    BY <1>1, <1>3, <2>1, Zenon DEF OptionallyUpdateStatus
  <2>2. CASE status # work.ring.status
    <3>1. ring.rv + 1 \in Nat
      BY <1>1 DEF RingObject
    <3>2. ring' = [ring EXCEPT !.rv = ring.rv + 1, !.status = status] /\ skipped' = FALSE /\ faults' = faults
      BY <1>3, <2>2 DEF OptionallyUpdateStatus
    <3>3. ring' \in RingObject
      BY <1>1, <3>1, <3>2, StatusUpdated
    <3>4. ring'.status = status /\ ring'.spec = ring.spec
      BY <1>1, <3>2 DEF RingObject
    <3> QED  BY <1>1, <1>3, <3>2, <3>3, <3>4
  <2> QED  BY <2>1, <2>2
<1>4. ASSUME NEW status, UpdateFails(status)
      PROVE  /\ ring' = ring /\ skipped' = skipped /\ faults' \in 0 .. MaxFaults
  BY <1>1, <1>2, <1>4 DEF UpdateFails, Fault
<1>5. CASE \E spec \in Specs : UpdateRing(spec)
  <2>1. PICK spec \in Specs : UpdateRing(spec)
    BY <1>5
  <2>2. ring' \in RingObject /\ ring'.spec \in Specs /\ ring'.status = ring.status
    <3>1. ring.rv + 1 \in Nat /\ ring.generation + 1 \in Nat
      BY <1>1 DEF RingObject
    <3>2. ring' = [ring EXCEPT !.rv = ring.rv + 1, !.generation = ring.generation + 1, !.spec = spec]
      BY <2>1 DEF UpdateRing
    <3>3. ring'.spec = spec /\ ring'.status = ring.status
      BY <1>1, <3>2 DEF RingObject
    <3>4. ring' \in RingObject
      BY <1>1, <3>1, <3>2, SpecUpdated
    <3> QED  BY <3>3, <3>4
  <2> QED  BY <1>1, <1>2, <2>1, <2>2 DEF UpdateRing, Change, controllerVars, Types, TypeOK, LeaseStates
<1>6. CASE DeleteRing
  <2>1. ring' \in RingObject /\ ring'.spec \in Specs /\ ring'.status = ring.status
    <3>1. ring.rv + 1 \in Nat
      BY <1>1 DEF RingObject
    <3>2. ring' = [ring EXCEPT !.exists = FALSE, !.rv = ring.rv + 1]
      BY <1>6 DEF DeleteRing
    <3>3. ring'.spec = ring.spec /\ ring'.status = ring.status
      BY <1>1, <3>2 DEF RingObject
    <3>4. ring' \in RingObject
      BY <1>1, <3>1, <3>2, RingDeleted
    <3> QED  BY <1>1, <3>3, <3>4
  <2> QED  BY <1>1, <1>2, <1>6, <2>1 DEF DeleteRing, Change, controllerVars, Types, TypeOK, LeaseStates
<1>7. CASE \E s \in Shards : ChangeLease(s)
  BY <1>1, <1>2, <1>7 DEF ChangeLease, Change, controllerVars, Types, TypeOK, LeaseStates
<1>8. CASE CollectGarbage
  BY <1>8 DEF CollectGarbage, Types, TypeOK
<1>9. CASE DeliverRing
  <2>1. cache' \in [ring : RingObject, leases : [Shards -> LeaseStates]] /\ cache'.ring = ring
    BY <1>1, <1>9 DEF DeliverRing
  <2> QED  BY <1>1, <1>9, <2>1 DEF DeliverRing, Types, TypeOK, Sound, Controllers, LeaseStates
<1>10. CASE \E s \in Shards : DeliverLease(s)
  <2>1. PICK s \in Shards : DeliverLease(s)
    BY <1>10
  <2>2. cache' \in [ring : RingObject, leases : [Shards -> LeaseStates]] /\ cache'.ring = cache.ring
    BY <1>1, <2>1 DEF DeliverLease
  <2>3. queue' \in SUBSET Controllers
    BY <1>1, <2>1 DEF DeliverLease
  <2> QED  BY <2>1, <2>2, <2>3 DEF DeliverLease, Types, TypeOK, LeaseStates
<1>11. CASE Reconcile
  <2>1. /\ work' \in [pc : {"idle", "applied", "failed"}, ring : RingObject]
        /\ Sound(work'.ring) /\ (work'.pc # "idle" => work'.ring.exists /\ work'.ring.spec \in Specs)
    BY <1>1, <1>11 DEF Reconcile, Types
  <2>2. webhook' \in Specs \cup {None} /\ faults' \in 0 .. MaxFaults
    BY <1>1, <1>2, <1>11 DEF Reconcile, reconcileWebhooks, Fault, Types
  <2> QED  BY <1>1, <1>11, <2>1, <2>2 DEF Reconcile, Types, TypeOK, LeaseStates
<1>12. CASE updateStatusSuccess
  <2>1. /\ work'.ring = NoRing /\ work'.pc = "idle"
        /\ work' \in [pc : {"idle", "applied", "failed"}, ring : RingObject]
    BY <1>12, NoRingSound DEF updateStatusSuccess, Sound
  <2>2. /\ ring' \in RingObject /\ ring'.status.available <= ring'.status.shards
        /\ ring'.spec \in Specs /\ skipped' \in BOOLEAN /\ faults' \in 0 .. MaxFaults
    <3> DEFINE st == Counted(work.ring.generation, cache.leases)
    <3>1. work.ring.generation \in Nat /\ cache.leases \in [Shards -> LeaseStates]
      BY <1>1 DEF RingObject
    <3>2. st \in Status /\ st.available <= st.shards
      BY <3>1, CountedTyped
    <3>3. OptionallyUpdateStatus(st) \/ UpdateFails(st)
      BY <1>12 DEF updateStatusSuccess, Counted
    <3> HIDE DEF st
    <3> QED  BY <1>1, <1>3, <1>4, <3>2, <3>3
  <2>3. queue' \in SUBSET Controllers
    BY <1>1, <1>12 DEF updateStatusSuccess, Controllers
  <2> QED  BY <1>1, <1>12, <2>1, <2>2, <2>3, NoRingSound
           DEF updateStatusSuccess, Types, TypeOK, LeaseStates
<1>13. CASE updateStatusError
  <2>1. /\ work'.ring = NoRing /\ work'.pc = "idle"
        /\ work' \in [pc : {"idle", "applied", "failed"}, ring : RingObject]
    BY <1>13, NoRingSound DEF updateStatusError, Sound
  <2>2. /\ ring' \in RingObject /\ ring'.status.available <= ring'.status.shards
        /\ ring'.spec \in Specs /\ skipped' \in BOOLEAN /\ faults' \in 0 .. MaxFaults
    <3> DEFINE st == [work.ring.status EXCEPT !.observed = work.ring.generation, !.ready = "False"]
    <3>1. work.ring.generation \in Nat /\ work.ring.status \in Status
          /\ work.ring.status.available <= work.ring.status.shards
      BY <1>1 DEF RingObject, Types, Sound
    <3>2. st \in Status /\ st.available <= st.shards
      BY <3>1 DEF Status
    <3>3. OptionallyUpdateStatus(st) \/ UpdateFails(st)
      BY <1>13 DEF updateStatusError
    <3> HIDE DEF st
    <3> QED  BY <1>1, <1>3, <1>4, <3>2, <3>3
  <2>3. queue' \in SUBSET Controllers
    BY <1>1, <1>13 DEF updateStatusError, Controllers
  <2> QED  BY <1>1, <1>13, <2>1, <2>2, <2>3, NoRingSound
           DEF updateStatusError, Types, TypeOK, LeaseStates
<1>14. CASE NewOperation
  <2>1. op' \in Covered \cup {None}
    <3>1. op' = None \/ (Valid(cache.ring.spec) /\ cache.ring.exists /\ op' = Coverage(cache.ring, cache.leases))
      BY <1>14 DEF NewOperation, GetSelectedNamespaces, Coverage
    <3> QED  BY <3>1, CoverageTyped DEF Types
  <2> QED  BY <1>1, <1>14, <2>1 DEF NewOperation, Types, TypeOK, LeaseStates
<1>15. CASE FinishOperation
  <2>1. faults' \in 0 .. MaxFaults /\ queue' \in SUBSET Controllers
    BY <1>1, <1>2, <1>15 DEF FinishOperation, Fault, Controllers
  <2>2. op' \in Covered \cup {None} /\ last' \in Covered \cup {None} /\ due' \in BOOLEAN
    BY <1>1, <1>15 DEF FinishOperation
  <2> QED  BY <1>1, <1>15, <2>1, <2>2 DEF FinishOperation, Types, TypeOK, LeaseStates
<1>16. CASE SyncPeriod
  BY <1>1, <1>16 DEF SyncPeriod, Types, TypeOK, LeaseStates, Controllers
<1> QED  BY <1>5, <1>6, <1>7, <1>8, <1>9, <1>10, <1>11, <1>12, <1>13, <1>14, <1>15, <1>16
         DEF Next, System

\* Versions and generations only grow, so a copy of the ring stays a copy.
LEMMA CopyStep ==
  ASSUME Types, Next, NEW copy \in RingObject, CopyOf(copy, ring)
  PROVE  CopyOf(copy, ring')
<1>1. ring \in RingObject /\ copy.rv \in Nat /\ copy.generation \in Nat /\ ring.rv \in Nat
      /\ ring.generation \in Nat
  BY DEF Types, TypeOK, RingObject
<1>2. CASE ring' = ring
  BY <1>2
<1>3. CASE \E spec \in Specs : UpdateRing(spec)
  <2>1. ring'.rv = ring.rv + 1 /\ ring'.generation = ring.generation + 1
    BY <1>1, <1>3 DEF UpdateRing, RingObject
  <2> QED  BY <1>1, <2>1 DEF CopyOf
<1>4. CASE DeleteRing
  <2>1. ring'.rv = ring.rv + 1 /\ ring'.generation = ring.generation /\ ring'.spec = ring.spec
    BY <1>1, <1>4 DEF DeleteRing, RingObject
  <2> QED  BY <1>1, <2>1 DEF CopyOf
<1>5. ASSUME NEW status, OptionallyUpdateStatus(status)
      PROVE  CopyOf(copy, ring')
  <2>1. \/ ring' = ring
        \/ ring'.rv = ring.rv + 1 /\ ring'.generation = ring.generation /\ ring'.spec = ring.spec
    BY <1>1, <1>5 DEF OptionallyUpdateStatus, RingObject
  <2> QED  BY <1>1, <2>1 DEF CopyOf
<1>6. CASE updateStatusSuccess
  BY <1>2, <1>5, <1>6 DEF updateStatusSuccess, UpdateFails
<1>7. CASE updateStatusError
  BY <1>2, <1>5, <1>7 DEF updateStatusError, UpdateFails
<1> QED  BY <1>2, <1>3, <1>4, <1>6, <1>7
         DEF Next, System, ChangeLease, controllerVars, CollectGarbage, DeliverRing, DeliverLease,
             Reconcile, NewOperation, FinishOperation, SyncPeriod

\* Cache and Reconcile have copies of the ring.
LEMMA CopiesStep ==
  ASSUME Types, Copies, Next
  PROVE  Copies'
<1>1. cache.ring \in RingObject /\ work.ring \in RingObject /\ ring \in RingObject
      /\ cache \in [ring : RingObject, leases : [Shards -> LeaseStates]]
  BY DEF Types, Sound, TypeOK, LeaseStates
<1>2. CopyOf(cache.ring, ring') /\ CopyOf(work.ring, ring')
  BY <1>1, CopyStep DEF Copies
<1>3. cache'.ring = cache.ring \/ (cache'.ring = ring /\ ring' = ring)
  <2>1. CASE DeliverRing
    BY <1>1, <2>1 DEF DeliverRing
  <2>2. CASE \E s \in Shards : DeliverLease(s)
    BY <1>1, <2>2 DEF DeliverLease
  <2> QED  BY <2>1, <2>2 DEF Next, System, UpdateRing, DeleteRing, ChangeLease, controllerVars, CollectGarbage,
              Reconcile, updateStatusSuccess, updateStatusError, NewOperation, FinishOperation, SyncPeriod
<1>4. work'.ring \in {work.ring, NoRing} \/ (work'.ring = cache.ring /\ ring' = ring)
  <2>1. CASE Reconcile
    BY <2>1 DEF Reconcile
  <2>2. CASE updateStatusSuccess \/ updateStatusError
    BY <2>2 DEF updateStatusSuccess, updateStatusError
  <2> QED  BY <2>1, <2>2 DEF Next, System, UpdateRing, DeleteRing, ChangeLease, controllerVars, CollectGarbage,
              DeliverRing, DeliverLease, NewOperation, FinishOperation, SyncPeriod
<1>5. Types'
  BY TypesStep
<1>6. CopyOf(NoRing, ring') /\ (ring' = ring => CopyOf(ring, ring'))
  <2>1. ring'.rv \in Nat /\ ring'.generation \in Nat
    BY <1>5 DEF Types, TypeOK, RingObject
  <2> QED  BY <2>1, NoRingSound DEF CopyOf
<1> QED  BY <1>2, <1>3, <1>4, <1>6 DEF Copies

-----------------------------------------------------------------------------
(* Resyncs.                                                                *)

\* No step leaves the sharder controller with an outdated Operation and
\* nothing to do.
LEMMA ResyncStep ==
  ASSUME Types, Copies, ResyncInv, Next
  PROVE  ResyncInv'
<1>1. /\ cache \in [ring : RingObject, leases : [Shards -> LeaseStates]]
      /\ queue \in SUBSET Controllers
      /\ lease \in [Shards -> LeaseStates]
      /\ cache.ring.exists => cache.ring.spec \in Specs
  BY DEF Types, TypeOK, LeaseStates
<1>2. CASE UNCHANGED <<cache, op, last>> /\ ("sharder" \in queue => "sharder" \in queue')
  BY <1>2 DEF ResyncInv
<1>3. CASE DeliverRing
  <2>1. cache'.ring = ring /\ cache'.leases = cache.leases /\ UNCHANGED <<op, last>>
    BY <1>1, <1>3 DEF DeliverRing
  <2> SUFFICES ASSUME ring.exists, "sharder" \notin queue', Valid(ring.spec)
               PROVE  Coverage(ring, cache.leases) = IF op # None THEN op ELSE last
    BY <2>1 DEF ResyncInv
  <2>2. cache.ring.exists /\ cache.ring.generation = ring.generation /\ "sharder" \notin queue
    BY <1>3 DEF DeliverRing, ControllerRingCreatedOrUpdated, Controllers
  <2>3. cache.ring.spec = ring.spec
    BY <2>2 DEF Copies, CopyOf
  <2> QED  BY <2>2, <2>3 DEF ResyncInv, Coverage
<1>4. CASE \E s \in Shards : DeliverLease(s)
  <2>1. PICK s \in Shards, unknown \in BOOLEAN :
          /\ cache' = [cache EXCEPT !.leases[s] = lease[s]]
          /\ queue' = queue \cup {c \in Controllers : LeasePredicate(c, cache.leases[s], lease[s], unknown)}
          /\ UNCHANGED <<op, last>>
    BY <1>4 DEF DeliverLease
  <2>2. cache'.ring = cache.ring /\ cache'.leases = [cache.leases EXCEPT ![s] = lease[s]]
    BY <1>1, <2>1
  <2>3. \/ AvailableShards(cache'.leases) = AvailableShards(cache.leases)
        \/ \A c \in Controllers : LeasePredicate(c, cache.leases[s], lease[s], unknown)
    BY <1>1, <2>2, PredicateNotices
  <2>4. "sharder" \notin queue' => AvailableShards(cache'.leases) = AvailableShards(cache.leases)
                                   /\ "sharder" \notin queue
    BY <2>1, <2>3 DEF Controllers
  <2> QED  BY <2>1, <2>2, <2>4 DEF ResyncInv, Coverage
<1>5. CASE NewOperation
  <2> SUFFICES ASSUME cache.ring.exists, Valid(cache.ring.spec)
               PROVE  op' = Coverage(cache.ring, cache.leases) /\ op' # None
    BY <1>5 DEF NewOperation, ResyncInv
  <2>1. op' = Coverage(cache.ring, cache.leases)
    BY <1>5 DEF NewOperation, GetSelectedNamespaces, Coverage
  <2> QED  BY <1>1, <2>1, CoverageTyped
<1>6. CASE FinishOperation
  BY <1>6 DEF FinishOperation, ResyncInv
<1> QED  BY <1>2, <1>3, <1>4, <1>5, <1>6
         DEF Next, System, UpdateRing, DeleteRing, ChangeLease, controllerVars, CollectGarbage,
             Reconcile, updateStatusSuccess, updateStatusError, SyncPeriod

-----------------------------------------------------------------------------
(* Webhook configuration and status.                                       *)

\* No step leaves the controllerring controller with an outdated webhook
\* configuration or status and nothing to do.
LEMMA StatusStep ==
  ASSUME Types, Copies, StatusInv, Next
  PROVE  StatusInv'
<1>1. /\ cache \in [ring : RingObject, leases : [Shards -> LeaseStates]]
      /\ lease \in [Shards -> LeaseStates] /\ ring \in RingObject
      /\ work \in [pc : {"idle", "applied", "failed"}, ring : RingObject]
  BY DEF Types, TypeOK, LeaseStates
<1>2. ASSUME UNCHANGED <<cache, work, webhook, skipped>>, ring'.exists => ring.exists,
             ring'.status = ring.status, "controllerring" \in queue => "controllerring" \in queue'
      PROVE  StatusInv'
  BY <1>2 DEF StatusInv
<1>3. CASE \E spec \in Specs : UpdateRing(spec)
  <2>1. ring'.exists = ring.exists /\ ring'.status = ring.status
    BY <1>1, <1>3 DEF UpdateRing, RingObject
  <2> QED  BY <1>2, <1>3, <2>1 DEF UpdateRing, controllerVars
<1>4. CASE DeleteRing
  <2>1. ~ring'.exists
    BY <1>1, <1>4 DEF DeleteRing, RingObject
  <2> QED  BY <2>1 DEF StatusInv
<1>5. CASE CollectGarbage
  BY <1>5 DEF CollectGarbage, StatusInv
<1>6. CASE DeliverRing
  <2>1. cache'.ring = ring /\ cache'.leases = cache.leases /\ UNCHANGED <<ring, work, webhook, skipped>>
    BY <1>1, <1>6 DEF DeliverRing
  <2> SUFFICES ASSUME ring.exists, "controllerring" \notin queue', work.pc # "failed"
               PROVE  /\ webhook = ring.spec
                      /\ work.pc = "idle" => skipped \/ ring.status = Counted(ring.generation, cache.leases)
                      /\ work.pc = "applied" => work.ring.generation = ring.generation
    BY <2>1 DEF StatusInv
  <2>2. cache.ring.exists /\ cache.ring.generation = ring.generation /\ "controllerring" \notin queue
    BY <1>6 DEF DeliverRing, ControllerRingCreatedOrUpdated, Controllers
  <2>3. cache.ring.spec = ring.spec
    BY <2>2 DEF Copies, CopyOf
  <2> QED  BY <2>2, <2>3 DEF StatusInv
<1>7. CASE \E s \in Shards : DeliverLease(s)
  <2>1. PICK s \in Shards, unknown \in BOOLEAN :
          /\ cache' = [cache EXCEPT !.leases[s] = lease[s]]
          /\ queue' = queue \cup {c \in Controllers : LeasePredicate(c, cache.leases[s], lease[s], unknown)}
          /\ UNCHANGED <<ring, work, webhook, skipped>>
    BY <1>7 DEF DeliverLease
  <2>2. cache'.ring = cache.ring /\ cache'.leases = [cache.leases EXCEPT ![s] = lease[s]]
    BY <1>1, <2>1
  <2>3. /\ \/ AvailableShards(cache'.leases) = AvailableShards(cache.leases)
           \/ \A c \in Controllers : LeasePredicate(c, cache.leases[s], lease[s], unknown)
        /\ \/ {x \in Shards : cache'.leases[x] # "absent"} = {x \in Shards : cache.leases[x] # "absent"}
           \/ LeasePredicate("controllerring", cache.leases[s], lease[s], unknown)
    BY <1>1, <2>2, PredicateNotices
  <2>4. ASSUME "controllerring" \notin queue'
        PROVE  /\ "controllerring" \notin queue
               /\ \A g : Counted(g, cache'.leases) = Counted(g, cache.leases)
    BY <2>1, <2>3, <2>4 DEF Controllers, Counted
  <2> QED  BY <2>1, <2>2, <2>4 DEF StatusInv
<1>8. CASE Reconcile
  <2>1. CASE ~cache.ring.exists
    BY <1>8, <2>1 DEF Reconcile, StatusInv
  <2>2. CASE work'.pc = "failed"
    BY <2>2 DEF StatusInv
  <2>3. CASE webhook' = cache.ring.spec /\ work' = [pc |-> "applied", ring |-> cache.ring]
    BY <1>8, <2>3 DEF Reconcile, StatusInv
  <2> QED  BY <1>8, <2>1, <2>2, <2>3 DEF Reconcile, reconcileWebhooks
<1>9. CASE updateStatusSuccess
  <2> DEFINE st == Counted(work.ring.generation, cache.leases)
  <2>1. /\ work.pc = "applied" /\ work'.pc = "idle" /\ UNCHANGED <<cache, webhook>>
        /\ \/ OptionallyUpdateStatus(st) /\ UNCHANGED queue
           \/ "controllerring" \in queue'
    BY <1>9 DEF updateStatusSuccess, Counted
  <2> HIDE DEF st
  <2> SUFFICES ASSUME ring'.exists, cache.ring.exists, "controllerring" \notin queue'
               PROVE  /\ webhook = cache.ring.spec
                      /\ skipped' \/ ring'.status = Counted(cache.ring.generation, cache.leases)
    BY <2>1 DEF StatusInv
  <2>2. OptionallyUpdateStatus(st) /\ "controllerring" \notin queue
    BY <2>1
  <2>3. ring.exists
    BY <1>1, <2>2 DEF OptionallyUpdateStatus, RingObject
  <2>4. webhook = cache.ring.spec /\ st = Counted(cache.ring.generation, cache.leases)
    BY <2>1, <2>2, <2>3 DEF StatusInv, st
  <2>5. skipped' \/ ring'.status = st
    <3>1. CASE st = work.ring.status /\ work.ring.rv = ring.rv
      <4>1. work.ring.exists
        BY <2>1 DEF Types
      <4>2. work.ring = ring
        BY <3>1, <4>1 DEF Copies, CopyOf
      <4> QED  BY <2>2, <3>1, <4>2 DEF OptionallyUpdateStatus
    <3>2. CASE st = work.ring.status /\ work.ring.rv # ring.rv
      BY <2>2, <3>2 DEF OptionallyUpdateStatus
    <3>3. CASE st # work.ring.status
      BY <1>1, <2>2, <3>3 DEF OptionallyUpdateStatus, RingObject
    <3> QED  BY <3>1, <3>2, <3>3
  <2> QED  BY <2>4, <2>5
<1>10. CASE updateStatusError
  BY <1>10 DEF updateStatusError, StatusInv
<1>11. CASE (\E s \in Shards : ChangeLease(s)) \/ NewOperation \/ FinishOperation \/ SyncPeriod
  BY <1>2, <1>11 DEF ChangeLease, controllerVars, NewOperation, FinishOperation, SyncPeriod
<1> QED  BY <1>3, <1>4, <1>5, <1>6, <1>7, <1>8, <1>9, <1>10, <1>11 DEF Next, System

\* Only webhook configurations with a valid selector are applied.
LEMMA WebhookStep ==
  ASSUME WebhookInv, Next
  PROVE  WebhookInv'
  BY DEF Next, System, UpdateRing, DeleteRing, ChangeLease, controllerVars, CollectGarbage,
     DeliverRing, DeliverLease, Reconcile, reconcileWebhooks, updateStatusSuccess,
     updateStatusError, NewOperation, FinishOperation, SyncPeriod, WebhookInv

-----------------------------------------------------------------------------
(* The theorems.                                                           *)

\* The inductive invariant holds initially.
LEMMA InitIndInv == Init => IndInv
<1> SUFFICES ASSUME Init PROVE IndInv
  OBVIOUS
<1>1. Types
  <2>1. ring \in RingObject /\ Sound(ring) /\ ring.spec \in Specs
    BY RingAssumption, NoRingSound DEF Init, Sound, RingObject, NoRing
  <2>2. cache.ring = NoRing /\ work.ring = NoRing /\ cache.leases = lease
    BY DEF Init
  <2>3. cache \in [ring : RingObject, leases : [Shards -> {"absent", "held", "lost"}]]
    BY NoRingSound DEF Init, Sound
  <2>4. /\ lease \in [Shards -> {"absent", "held", "lost"}] /\ webhook \in Specs \cup {None}
        /\ queue \in SUBSET Controllers /\ op \in Covered \cup {None} /\ last \in Covered \cup {None}
        /\ skipped \in BOOLEAN /\ due \in BOOLEAN
    BY DEF Init
  <2>5. changes \in 0 .. MaxChanges /\ faults \in 0 .. MaxFaults
    BY RingAssumption DEF Init
  <2>6. work \in [pc : {"idle", "applied", "failed"}, ring : RingObject] /\ work.pc = "idle"
    BY NoRingSound DEF Init, Sound
  <2> QED  BY <2>1, <2>2, <2>3, <2>4, <2>5, <2>6, NoRingSound DEF Types, TypeOK, Sound
<1>2. Copies
  <2>1. ring.rv = 1 /\ ring.generation = 1 /\ cache.ring = NoRing /\ work.ring = NoRing
    BY DEF Init
  <2> QED  BY <2>1, NoRingSound DEF Copies, CopyOf
<1>3. ResyncInv /\ StatusInv /\ WebhookInv
  BY NoRingSound DEF Init, ResyncInv, StatusInv, WebhookInv
<1> QED  BY <1>1, <1>2, <1>3 DEF IndInv

\* The inductive invariant holds in every reachable state.
THEOREM Invariance == Spec => []IndInv
<1>1. IndInv /\ [Next]_vars => IndInv'
  <2> SUFFICES ASSUME IndInv, [Next]_vars PROVE IndInv'
    OBVIOUS
  <2>1. CASE Next
    BY <2>1, TypesStep, CopiesStep, ResyncStep, StatusStep, WebhookStep DEF IndInv
  <2>2. CASE UNCHANGED vars
    BY <2>2 DEF vars, IndInv, Types, TypeOK, Sound, Copies, CopyOf, ResyncInv, StatusInv, WebhookInv,
       Coverage, Counted, AvailableShards
  <2> QED  BY <2>1, <2>2
<1> QED  BY <1>1, InitIndInv, PTL DEF Spec

\* Every variable keeps its type, and the status that the controllerring
\* controller writes never shows more available shards than shards.
THEOREM TypeCorrect == Spec => []TypeOK
<1>1. IndInv => TypeOK
  BY DEF IndInv, Types
<1> QED  BY <1>1, Invariance, PTL

\* The facts behind ResyncCurrent, for a single state.
LEMMA ResyncFacts ==
  ASSUME IndInv
  PROVE  ResyncCurrent
<1> SUFFICES ASSUME Quiet("sharder"), ring.exists, Valid(ring.spec)
             PROVE  /\ last # None
                    /\ last.shards = AvailableShards(lease)
                    /\ last.resources = DOMAIN ring.spec.resources \cup Controlled(ring.spec)
                    /\ last.namespaces = Selector(ring.spec)
  BY DEF ResyncCurrent
<1>1. /\ cache.leases = lease /\ cache.ring.exists /\ "sharder" \notin queue /\ op = None
      /\ cache.ring.spec = ring.spec
  BY DEF Quiet, IndInv, Copies, CopyOf
<1>2. last = Coverage(cache.ring, lease)
  BY <1>1 DEF IndInv, ResyncInv
<1>3. last # None
  BY <1>1, <1>2, CoverageTyped DEF IndInv, Types
<1> QED  BY <1>1, <1>2, <1>3 DEF Coverage

\* The facts behind StatusCurrent, for a single state.
LEMMA StatusFacts ==
  ASSUME IndInv
  PROVE  StatusCurrent
<1> SUFFICES ASSUME Quiet("controllerring"), ring.exists
             PROVE  webhook = ring.spec /\ (skipped \/ ring.status = Counted(ring.generation, lease))
  BY DEF StatusCurrent, Counted
<1>1. /\ cache.leases = lease /\ cache.ring.exists /\ "controllerring" \notin queue
      /\ work.pc = "idle" /\ cache.ring.generation = ring.generation /\ cache.ring.spec = ring.spec
  BY DEF Quiet, IndInv, Copies, CopyOf
<1> QED  BY <1>1 DEF IndInv, StatusInv

\* The sharder controller misses no change of availability and no change of the
\* spec, for any number of shards, changes, merged events and failed resyncs.
THEOREM ResyncsCurrent == Spec => []ResyncCurrent
  BY Invariance, ResyncFacts, PTL

\* The controllerring controller misses no change either: webhook configuration
\* and status follow the ring, up to the skipped update.
THEOREM StatusesCurrent == Spec => []StatusCurrent
  BY Invariance, StatusFacts, PTL

\* What the webhook would have assigned, a resync looks at.
THEOREM MissedResynced == Spec => []MissedAreResynced
<1>1. IndInv => MissedAreResynced
  <2> SUFFICES ASSUME IndInv, \A c \in Controllers : Quiet(c), ring.exists,
                      NEW o \in Objects, o.namespace # ClusterScope,
                      WebhookForControllerRing(webhook, o)
               PROVE  o.resource \in last.resources /\ o.namespace \in last.namespaces
    BY DEF MissedAreResynced
  <2>1. webhook = ring.spec
    BY StatusFacts DEF StatusCurrent, Controllers
  <2>2. Valid(ring.spec)
    BY <2>1, RingAssumption DEF IndInv, WebhookInv, Types
  <2>3. /\ last.resources = DOMAIN ring.spec.resources \cup Controlled(ring.spec)
        /\ last.namespaces = Selector(ring.spec)
    BY <2>2, ResyncFacts DEF ResyncCurrent, Controllers
  <2> QED  BY <2>1, <2>3 DEF WebhookForControllerRing, RuleForResource
<1> QED  BY <1>1, Invariance, PTL

\* The webhook denies no well-formed object once its configuration is the
\* cached ring's, whatever resources, selectors and owners there are.
THEOREM NoneDenied == Spec => []NotDenied
<1>1. NotDenied
  <2> SUFFICES ASSUME cache.ring.exists, webhook = cache.ring.spec, NEW o \in Objects,
                      WebhookForControllerRing(webhook, o), WellFormed(webhook, o)
               PROVE  Handle(o).answer # "errored"
    BY DEF NotDenied
  <2> DEFINE spec == cache.ring.spec
  <2>1. <<o.kind, o.namespace, o.name>> # None /\ NoKey # None
        /\ (o.owner # NoOwner => <<o.owner.kind, o.namespace, o.owner.name>> # None)
    BY RingAssumption DEF Keys
  <2>2. CASE o.resource \in DOMAIN spec.resources
    <3>1. FuncForResource(spec, o) = ForObject(o)
      BY <2>2 DEF FuncForResource
    <3>2. ForObject(o) # None
      BY <2>1, <2>2 DEF WellFormed, ForObject
    <3> QED  BY <3>1, <3>2 DEF Handle, ControllerRingForRequest
  <2>3. CASE o.resource \notin DOMAIN spec.resources
    <3>1. o.resource \in Controlled(spec)
      BY <2>3 DEF WebhookForControllerRing, RuleForResource
    <3>2. FuncForResource(spec, o) = ForController(o)
      BY <2>3, <3>1 DEF FuncForResource
    <3>3. ForController(o) # None
      BY <2>1, <2>3 DEF WellFormed, ForController
    <3> QED  BY <3>2, <3>3 DEF Handle, ControllerRingForRequest
  <2> QED  BY <2>2, <2>3
<1> QED  BY <1>1, PTL

\* An object and the objects that it owns have the same key, for all kinds of
\* rings and objects.
THEOREM OwnersTogether == Spec => []OwnersAgree
<1>1. OwnersAgree
  <2> SUFFICES ASSUME cache.ring.exists, NEW o \in Objects, NEW c \in Objects,
                      o.resource \in DOMAIN cache.ring.spec.resources,
                      c.resource \in cache.ring.spec.resources[o.resource] \ DOMAIN cache.ring.spec.resources,
                      c.owner # NoOwner,
                      c.owner.kind = o.kind, c.owner.name = o.name, c.namespace = o.namespace,
                      Handle(o).answer = "assigned", Handle(c).answer = "assigned"
               PROVE  Handle(o).key = Handle(c).key
    BY DEF OwnersAgree
  <2> DEFINE spec == cache.ring.spec
  <2>1. Handle(o).key = FuncForResource(spec, o) /\ FuncForResource(spec, o) # None
    BY DEF Handle, ControllerRingForRequest
  <2>2. Handle(c).key = FuncForResource(spec, c) /\ FuncForResource(spec, c) # None
    BY DEF Handle, ControllerRingForRequest
  <2>3. FuncForResource(spec, o) = ForObject(o)
    BY DEF FuncForResource
  <2>4. FuncForResource(spec, c) = ForController(c)
    BY DEF FuncForResource, Controlled
  <2>5. ForObject(o) = <<o.kind, o.namespace, o.name>>
    BY <2>1, <2>3 DEF ForObject
  <2>6. ForController(c) = <<c.owner.kind, c.namespace, c.owner.name>>
    BY <2>2, <2>4 DEF ForController
  <2> QED  BY <2>1, <2>2, <2>3, <2>4, <2>5, <2>6
<1> QED  BY <1>1, PTL
=============================================================================
