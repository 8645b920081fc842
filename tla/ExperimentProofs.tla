--------------------------- MODULE ExperimentProofs ---------------------------
(***************************************************************************)
(* A run that generates load is prepared, and what its tracker measures is *)
(* right, for any number of themes, projects, workers, retries, failing    *)
(* calls and generations, and whenever the experiment is interrupted.      *)
(*                                                                         *)
(* The inductive invariant of the scenario counts work items: those to be  *)
(* emitted, in the channel, with a worker and done sum up to what was      *)
(* ordered, unless an error is in the channel or was collected.            *)
(*                                                                         *)
(* Of liveness, the part without fairness: Start is never blocked and each *)
(* of its steps comes down in a well-founded order, and what it leaves     *)
(* behind can be collected.                                                *)
(***************************************************************************)
EXTENDS Experiment, TrackerProofs, FiniteSetTheorems, SequenceTheorems

Pool == [todo : Nat, work : Nat, worker : [1 .. Workers -> Nat], errs : Seq(BOOLEAN), failed : BOOLEAN]

ScenarioTypes ==
  /\ scenario \in Scenarios
  /\ pc \in Components \cup Kinds \cup {"owner", "inject", "delete", "leases", "settle", "run",
                                       "wait", "cleanup", "done"}
  /\ owner \in {"none", "present", "deleted"}
  /\ made \in [Kinds -> Nat]
  /\ pool \in Pool
  /\ canceled \in BOOLEAN /\ faults \in 0 .. MaxFaults

Bounds ==
  /\ pool.work <= Workers /\ Len(pool.errs) <= Workers
  /\ \A i \in 1 .. Workers : pool.worker[i] <= Retries + 1

\* What is done before a stage is reached.  A wait that ends with the context
\* lets Start go on, but then no call succeeds any more.
Stages ==
  /\ pc \notin {"owner", "inject", "cleanup", "done"} => labelled = Components
  /\ pc \notin {"run", "wait", "cleanup", "done"} => load = {}
  /\ rolledOut \subseteq Components
  /\ pc = "webhosting-operator" => "sharder" \in rolledOut \/ canceled
  /\ pc = "delete" => rolledOut = Components \/ canceled
  /\ pc \in {"leases", "themes", "projects", "settle", "run", "wait"} /\ load \subseteq {"website-tracker"} =>
       rolledOut = Components
  /\ owner = "deleted" => pc = "done"

Busy(worker) == Cardinality({i \in 1 .. Workers : worker[i] # 0})

\* no error that NTimesConcurrently will report
Clean == ~pool.failed /\ \A j \in 1 .. Len(pool.errs) : ~pool.errs[j]

Counts ==
  /\ \A k \in Kinds : made[k] <= N[k]
  /\ pc \in {"owner", "inject", "sharder", "webhosting-operator", "delete", "leases"} => \A k \in Kinds : made[k] = 0
  /\ pc = "themes" => made["projects"] = 0
  /\ pc = "projects" => made["themes"] = N["themes"]
  /\ pc \in {"settle", "run", "wait"} => made = N
  /\ pc \in Kinds => pool.todo + pool.work + Busy(pool.worker) + made[pc] <= N[pc]
  /\ pc \in Kinds /\ Clean => pool.todo + pool.work + Busy(pool.worker) + made[pc] = N[pc]

ScenarioInv == ScenarioTypes /\ Bounds /\ Stages /\ Counts

IndInv == ScenarioInv /\ TrackerInv

-----------------------------------------------------------------------------
(* Facts about the constants and the pool.                                 *)

\* Every delegate creates themes, then projects.
LEMMA PrepareKinds ==
  ASSUME scenario \in Scenarios
  PROVE  Prepare[1] = "themes" /\ Prepare[2] = "projects"
<1>1. scenario \in {"basic", "chaos", "rolling-update", "scale-out"}
  BY ScenarioAssumption
<1>2. Delegate(scenario) \in {basic, chaos, rollingUpdate, scaleOut}
  BY <1>1 DEF Delegate
<1> QED
  BY <1>2 DEF Prepare, basic, chaos, rollingUpdate, scaleOut

\* The number of busy workers, and how it changes with one of them.
LEMMA BusyCount ==
  ASSUME NEW f \in [1 .. Workers -> Nat]
  PROVE  /\ Busy(f) \in Nat
         /\ (\A i \in 1 .. Workers : f[i] = 0) => Busy(f) = 0
<1>1. IsFiniteSet(1 .. Workers)
  BY ScenarioAssumption, FS_Interval
<1>2. IsFiniteSet({i \in 1 .. Workers : f[i] # 0})
  BY <1>1, FS_Subset
<1>3. Busy(f) \in Nat
  BY <1>2, FS_CardinalityType DEF Busy
<1>4. ASSUME \A i \in 1 .. Workers : f[i] = 0 PROVE Busy(f) = 0
  <2>1. {i \in 1 .. Workers : f[i] # 0} = {}
    BY <1>4
  <2> QED
    BY <2>1, FS_EmptySet DEF Busy
<1> QED
  BY <1>3, <1>4

LEMMA BusyUpdate ==
  ASSUME NEW f \in [1 .. Workers -> Nat], NEW i \in 1 .. Workers, NEW n \in Nat,
         NEW e \in [1 .. Workers -> Nat], e[i] = n, \A j \in 1 .. Workers : j # i => e[j] = f[j]
  PROVE  /\ f[i] = 0 /\ n # 0 => Busy(e) = Busy(f) + 1
         /\ f[i] # 0 /\ n = 0 => Busy(e) = Busy(f) - 1
         /\ f[i] # 0 /\ n # 0 => Busy(e) = Busy(f)
<1> DEFINE F == {j \in 1 .. Workers : f[j] # 0}
<1> DEFINE E == {j \in 1 .. Workers : e[j] # 0}
<1>1. IsFiniteSet(1 .. Workers)
  BY ScenarioAssumption, FS_Interval
<1>2. IsFiniteSet(F) /\ IsFiniteSet(E)
  BY <1>1, FS_Subset
<1>3. ASSUME f[i] = 0, n # 0 PROVE Cardinality(E) = Cardinality(F) + 1
  <2>1. E = F \cup {i} /\ i \notin F
    BY <1>3
  <2> HIDE DEF E, F
  <2> QED
    BY <1>2, <2>1, FS_AddElement
<1>4. ASSUME f[i] # 0, n = 0 PROVE Cardinality(E) = Cardinality(F) - 1
  <2>1. E = F \ {i} /\ i \in F
    BY <1>4
  <2> HIDE DEF E, F
  <2> QED
    BY <1>2, <2>1, FS_RemoveElement
<1>5. ASSUME f[i] # 0, n # 0 PROVE E = F
  BY <1>5
<1> QED
  BY <1>3, <1>4, <1>5 DEF Busy

\* Steps of Start other than those of the pool, and steps of the cluster that
\* leave themes and projects alone.
LEMMA OutsidePool ==
  ASSUME ScenarioInv, UNCHANGED <<pool, made>>,
         \/ pc' = pc
         \/ pc' \in {"cleanup", "done"}
         \/ pc' \in {"owner", "inject", "sharder", "webhosting-operator", "delete", "leases"} /\ pc \in {"owner", "inject", "sharder", "webhosting-operator", "delete", "leases"}
         \/ pc' \in {"settle", "run", "wait"} /\ pc \in {"settle", "run", "wait"}
  PROVE  Bounds' /\ Counts'
<1>1. Bounds'
  BY DEF ScenarioInv, Bounds
<1>2. Clean' <=> Clean
  BY DEF Clean
<1>3. pool' = pool /\ made' = made /\ N \in [Kinds -> Nat]
  BY ScenarioAssumption
<1>4. CASE pc' = pc
  BY <1>1, <1>2, <1>3, <1>4 DEF ScenarioInv, Counts
<1>5. CASE pc' # pc
  <2>1. pc' \notin Kinds
    BY <1>5 DEF Kinds
  <2> QED
    BY <1>1, <1>3, <1>5, <2>1 DEF ScenarioInv, Counts
<1> QED
  BY <1>4, <1>5

LEMMA Failing ==
  ASSUME ScenarioInv
  PROVE  /\ Fails => faults' \in 0 .. MaxFaults
         /\ Succeeds => faults' \in 0 .. MaxFaults
         /\ Fail => pc' \in {"cleanup", "done"} /\ (pc = "owner" => pc' = "done")
<1>1. faults \in 0 .. MaxFaults /\ MaxFaults \in Nat
  BY ScenarioAssumption DEF ScenarioInv, ScenarioTypes
<1>2. ASSUME Fails PROVE faults' \in 0 .. MaxFaults
  BY <1>1, <1>2 DEF Fails
<1> QED
  BY <1>1, <1>2 DEF Succeeds, Fail, Kinds

-----------------------------------------------------------------------------
(* Start, outside of the pool.                                             *)

LEMMA PrepareInv ==
  ASSUME ScenarioInv, prepare \/ injectRunIDLabel \/ waitForDeployment \/ DeleteDeadLeases
  PROVE  ScenarioInv'
<1> USE Failing DEF ScenarioInv
<1>1. CASE prepare
  <2>1. /\ pc = "owner" /\ pc' \in {"inject", "done"} /\ owner' \in {"none", "present", "deleted"}
        /\ faults' \in 0 .. MaxFaults /\ (owner' = "deleted" => owner = "deleted")
        /\ UNCHANGED <<scenario, labelled, rolledOut, leases, made, pool, load, canceled>>
    BY <1>1 DEF prepare, CreateClusterScopedOwnerObject, ScenarioTypes
  <2>2. ScenarioTypes'
    BY <2>1 DEF ScenarioTypes
  <2>3. Stages'
    BY <2>1 DEF Stages
  <2>4. Bounds' /\ Counts'
    BY <2>1, OutsidePool
  <2> QED
    BY <2>2, <2>3, <2>4
<1>2. CASE injectRunIDLabel
  <2>1. /\ pc = "inject" /\ pc' \in {"inject", "sharder", "cleanup", "done"}
        /\ pc' = "sharder" => labelled' = Components
        /\ faults' \in 0 .. MaxFaults
        /\ UNCHANGED <<scenario, rolledOut, leases, owner, made, pool, load, canceled>>
    BY <1>2 DEF injectRunIDLabel
  <2>2. ScenarioTypes'
    BY <2>1 DEF ScenarioTypes, Components
  <2>3. Stages'
    BY <2>1 DEF Stages
  <2>4. Bounds' /\ Counts'
    BY <2>1, OutsidePool
  <2> QED
    BY <2>2, <2>3, <2>4
<1>3. CASE waitForDeployment
  <2>1. /\ pc \in Components /\ pc' \in Components \cup {"delete", "cleanup", "done"}
        /\ pc' = "webhosting-operator" => "sharder" \in rolledOut \/ canceled
        /\ pc' = "delete" => rolledOut = Components \/ canceled
        /\ faults' \in 0 .. MaxFaults
        /\ UNCHANGED <<scenario, labelled, rolledOut, leases, owner, made, pool, load, canceled>>
    BY <1>3 DEF waitForDeployment, PollUntilContextTimeout, ScenarioTypes, Stages, Components
  <2>2. ScenarioTypes'
    BY <2>1 DEF ScenarioTypes, Components
  <2>3. Stages'
    BY <2>1 DEF Stages, Components
  <2>4. Bounds' /\ Counts'
    BY <2>1, OutsidePool DEF Components
  <2> QED
    BY <2>2, <2>3, <2>4
<1>4. CASE DeleteDeadLeases
  <2>1. /\ pc = "delete" /\ pc' \in {"leases", "cleanup", "done"} /\ (pc' = "leases" => ~canceled)
        /\ faults' \in 0 .. MaxFaults
        /\ UNCHANGED <<scenario, labelled, rolledOut, leases, owner, made, pool, load, canceled>>
    BY <1>4 DEF DeleteDeadLeases, Succeeds
  <2>2. ScenarioTypes'
    BY <2>1 DEF ScenarioTypes
  <2>3. Stages'
    BY <2>1 DEF Stages
  <2>4. Bounds' /\ Counts'
    BY <2>1, OutsidePool
  <2> QED
    BY <2>2, <2>3, <2>4
<1> QED
  BY <1>1, <1>2, <1>3, <1>4

LEMMA RunInv ==
  ASSUME ScenarioInv, AddTracker \/ AddGenerator \/ Wait \/ Cleanup \/ StopManager
  PROVE  ScenarioInv'
<1> USE Failing DEF ScenarioInv
<1>1. CASE AddTracker
  <2>1. /\ pc = "settle" /\ pc' \in {"run", "cleanup", "done"}
        /\ faults' \in 0 .. MaxFaults
        /\ UNCHANGED <<scenario, labelled, rolledOut, leases, owner, made, pool, canceled>>
    BY <1>1 DEF AddTracker
  <2>2. ScenarioTypes'
    BY <2>1 DEF ScenarioTypes
  <2>3. Stages'
    BY <2>1 DEF Stages
  <2>4. Bounds' /\ Counts'
    BY <2>1, OutsidePool
  <2> QED
    BY <2>2, <2>3, <2>4
<1>2. CASE AddGenerator
  <2>1. /\ pc = "run" /\ pc' \in {"run", "wait", "cleanup", "done"} /\ load \subseteq load'
        /\ faults' \in 0 .. MaxFaults
        /\ UNCHANGED <<scenario, labelled, rolledOut, leases, owner, made, pool, canceled>>
    BY <1>2 DEF AddGenerator, ScenarioTypes
  <2>2. ScenarioTypes'
    BY <2>1 DEF ScenarioTypes
  <2>3. Stages'
    BY <2>1 DEF Stages
  <2>4. Bounds' /\ Counts'
    BY <2>1, OutsidePool
  <2> QED
    BY <2>2, <2>3, <2>4
<1>3. CASE Wait
  <2>1. /\ pc = "wait" /\ pc' \in {"cleanup", "done"}
        /\ UNCHANGED <<scenario, labelled, rolledOut, leases, owner, made, pool, load, canceled, faults>>
    BY <1>3 DEF Wait
  <2>2. ScenarioTypes'
    BY <2>1 DEF ScenarioTypes
  <2>3. Stages'
    BY <2>1 DEF Stages
  <2>4. Bounds' /\ Counts'
    BY <2>1, OutsidePool
  <2> QED
    BY <2>2, <2>3, <2>4
<1>4. CASE Cleanup
  <2>1. /\ pc = "cleanup" /\ pc' = "done" /\ owner' \in {"none", "present", "deleted"}
        /\ UNCHANGED <<scenario, labelled, rolledOut, leases, made, pool, load, canceled>>
    BY <1>4 DEF Cleanup, ScenarioTypes
  <2>2. faults' \in 0 .. MaxFaults
    BY <1>4, ScenarioAssumption DEF Cleanup, ScenarioTypes
  <2>3. ScenarioTypes'
    BY <2>1, <2>2 DEF ScenarioTypes
  <2>4. Stages'
    BY <2>1 DEF Stages
  <2>5. Bounds' /\ Counts'
    BY <2>1, OutsidePool
  <2> QED
    BY <2>3, <2>4, <2>5
<1>5. CASE StopManager
  <2>1. /\ pc = "done" /\ canceled' = TRUE
        /\ UNCHANGED <<scenario, pc, labelled, rolledOut, leases, owner, made, pool, load, faults>>
    BY <1>5 DEF StopManager
  <2>2. ScenarioTypes'
    BY <2>1 DEF ScenarioTypes
  <2>3. Stages'
    BY <2>1 DEF Stages
  <2>4. Bounds' /\ Counts'
    BY <2>1, OutsidePool
  <2> QED
    BY <2>2, <2>3, <2>4
<1> QED
  BY <1>1, <1>2, <1>3, <1>4, <1>5

\* An interrupt, and the failing call that loses the answer to the generator.
LEMMA InterruptInv ==
  ASSUME ScenarioInv, canceled' \in BOOLEAN, canceled => canceled', faults' \in 0 .. MaxFaults,
         UNCHANGED <<scenario, pc, labelled, rolledOut, leases, owner, made, pool, load>>
  PROVE  ScenarioInv'
<1>1. ScenarioTypes'
  BY DEF ScenarioInv, ScenarioTypes
<1>2. Stages'
  BY DEF ScenarioInv, Stages
<1> QED
  BY <1>1, <1>2, OutsidePool DEF ScenarioInv

-----------------------------------------------------------------------------
(* The cluster.                                                            *)

LEMMA ClusterInv ==
  ASSUME ScenarioInv,
         \/ \E c \in Components : RollOut(c)
         \/ BecomeReady \/ terminateRandomShard \/ triggerRollingUpdate
  PROVE  ScenarioInv'
<1> USE DEF ScenarioInv
<1>1. UNCHANGED <<scenario, pc, labelled, owner, made, pool, load, canceled, faults>>
  BY DEF RollOut, BecomeReady, terminateRandomShard, triggerRollingUpdate, clusterVars
<1>2. ScenarioTypes'
  BY <1>1 DEF ScenarioTypes
<1>3. Bounds' /\ Counts'
  BY <1>1, OutsidePool
<1>4. CASE \E c \in Components : RollOut(c)
  <2>1. rolledOut \subseteq rolledOut' /\ rolledOut' \subseteq Components
    BY <1>4 DEF RollOut, Stages
  <2>2. Stages'
    BY <1>1, <2>1 DEF Stages
  <2> QED
    BY <1>2, <1>3, <2>2
<1>5. CASE BecomeReady
  <2>1. rolledOut' = rolledOut
    BY <1>5 DEF BecomeReady
  <2>2. Stages'
    BY <1>1, <2>1 DEF Stages
  <2> QED
    BY <1>2, <1>3, <2>2
<1>6. CASE terminateRandomShard \/ triggerRollingUpdate
  <2>1. "shard-terminator" \in load \/ "rolling-updater" \in load
    BY <1>6 DEF terminateRandomShard, triggerRollingUpdate
  <2>2. load # {} /\ ~(load \subseteq {"website-tracker"})
    BY <2>1
  <2>3. pc \in {"run", "wait", "cleanup", "done"}
    BY <2>2 DEF Stages
  <2>4. rolledOut' \subseteq rolledOut
    BY <1>6 DEF terminateRandomShard, triggerRollingUpdate
  <2>5. Stages'
    BY <1>1, <2>2, <2>3, <2>4 DEF Stages
  <2> QED
    BY <1>2, <1>3, <2>5
<1> QED
  BY <1>4, <1>5, <1>6

LEMMA CollectGarbageInv ==
  ASSUME ScenarioInv, NEW k \in Kinds, CollectGarbage(k)
  PROVE  ScenarioInv'
<1> USE DEF ScenarioInv
<1>1. /\ UNCHANGED <<scenario, pc, labelled, rolledOut, leases, owner, pool, load, canceled, faults>>
      /\ made' = [made EXCEPT ![k] = 0] /\ pc = "done"
  BY DEF CollectGarbage, clusterVars, Stages
<1>2. made \in [Kinds -> Nat] /\ N \in [Kinds -> Nat]
  BY ScenarioAssumption DEF ScenarioTypes
<1>3. made' \in [Kinds -> Nat] /\ \A i \in Kinds : made'[i] = made[i] \/ made'[i] = 0
  BY <1>1, <1>2
<1>4. ScenarioTypes'
  BY <1>1, <1>3 DEF ScenarioTypes
<1>5. Bounds' /\ Stages'
  BY <1>1 DEF Bounds, Stages
<1>6. \A i \in Kinds : made'[i] <= N[i]
  BY <1>2, <1>3 DEF Counts
<1>7. Counts'
  BY <1>1, <1>6 DEF Counts, Kinds
<1> QED
  BY <1>4, <1>5, <1>7

-----------------------------------------------------------------------------
(* The pool.                                                               *)

\* A new pool for kind k has all of its work still to do.
LEMMA NewPoolFacts ==
  ASSUME NEW n \in Nat, NEW p, p = NewPool(n)
  PROVE  /\ p \in Pool /\ p.todo = n /\ p.work = 0 /\ p.worker \in [1 .. Workers -> Nat]
         /\ (\A i \in 1 .. Workers : p.worker[i] = 0) /\ Busy(p.worker) = 0
         /\ p.errs = <<>> /\ Len(p.errs) = 0 /\ ~p.failed
<1>1. p = [todo |-> n, work |-> 0, worker |-> [i \in 1 .. Workers |-> 0], errs |-> <<>>, failed |-> FALSE]
  BY DEF NewPool
<1>2. p.worker = [i \in 1 .. Workers |-> 0] /\ p.todo = n /\ p.work = 0 /\ p.errs = <<>> /\ ~p.failed
  BY <1>1
<1>3. p.worker \in [1 .. Workers -> Nat] /\ \A i \in 1 .. Workers : p.worker[i] = 0
  BY <1>2
<1>4. p \in Pool
  <2>1. PICK f \in [1 .. Workers -> Nat] : f = [i \in 1 .. Workers |-> 0]
    OBVIOUS
  <2>2. PICK q \in Seq(BOOLEAN) : q = <<>>
    BY EmptySeq, Zenon
  <2>3. PICK e \in BOOLEAN : e = FALSE
    OBVIOUS
  <2>4. p = [todo |-> n, work |-> 0, worker |-> f, errs |-> q, failed |-> e]
    BY <1>1, <2>1, <2>2, <2>3, Zenon
  <2> QED
    BY <2>4 DEF Pool
<1>5. Busy(p.worker) = 0
  BY <1>3, BusyCount
<1> QED
  BY <1>2, <1>3, <1>4, <1>5

LEMMA waitForShardLeasesInv == ASSUME ScenarioInv, waitForShardLeases PROVE ScenarioInv'
<1> USE DEF ScenarioInv
<1>1. /\ pc = "leases" /\ pc' \in {"leases", "themes", "cleanup", "done"}
      /\ faults' \in 0 .. MaxFaults
      /\ UNCHANGED <<scenario, labelled, rolledOut, leases, owner, made, load, canceled>>
      /\ pool' = IF pc' = "themes" THEN NewPool(N["themes"]) ELSE pool
  BY PrepareKinds, Failing DEF waitForShardLeases, PollUntilContextTimeout, ScenarioTypes
<1>2. CASE pc' # "themes"
  <2>1. pool' = pool
    BY <1>1, <1>2
  <2>2. ScenarioTypes'
    BY <1>1, <2>1 DEF ScenarioTypes, Kinds
  <2>3. Stages'
    BY <1>1, <1>2 DEF Stages
  <2>4. made' = made /\ (pc' = pc \/ pc' \in {"cleanup", "done"})
    BY <1>1, <1>2
  <2>5. Bounds' /\ Counts'
    BY <2>1, <2>4, OutsidePool
  <2> QED
    BY <2>2, <2>3, <2>5
<1>3. CASE pc' = "themes"
  <2>1. N["themes"] \in Nat /\ N["projects"] \in Nat /\ Workers \in Nat /\ Retries \in Nat
    BY ScenarioAssumption DEF Kinds
  <2>2. PICK p : p = NewPool(N["themes"])
    OBVIOUS
  <2>3. pool' = p
    BY <1>1, <1>3, <2>2
  <2>4. /\ p \in Pool /\ p.todo = N["themes"] /\ p.work = 0 /\ p.worker \in [1 .. Workers -> Nat]
        /\ (\A i \in 1 .. Workers : p.worker[i] = 0) /\ Busy(p.worker) = 0
        /\ p.errs = <<>> /\ Len(p.errs) = 0 /\ ~p.failed
    BY <2>1, <2>2, NewPoolFacts
  <2>5. ScenarioTypes'
    BY <1>1, <2>3, <2>4 DEF ScenarioTypes, Kinds
  <2>6. Bounds'
    BY <2>1, <2>3, <2>4 DEF Bounds
  <2>7. \A k \in Kinds : made[k] = 0
    BY <1>1 DEF Counts
  <2>8. Stages'
    BY <1>1, <1>3, <2>7 DEF Stages, Kinds
  <2>9. Counts'
    <3>1. \A k \in Kinds : made'[k] <= N[k]
      BY <1>1, <2>1, <2>7 DEF Kinds
    <3>2. made'["projects"] = 0 /\ made'["themes"] = 0
      BY <1>1, <2>7 DEF Kinds
    <3>3. pool'.todo + pool'.work + Busy(pool'.worker) + made'[pc'] = N[pc']
      BY <1>3, <2>1, <2>3, <2>4, <3>2
    <3> QED
      BY <1>3, <2>1, <3>1, <3>2, <3>3 DEF Counts
  <2> QED
    BY <2>5, <2>6, <2>8, <2>9
<1> QED
  BY <1>2, <1>3

\* what is ordered and not lost
Accounted == pool.todo + pool.work + Busy(pool.worker) + made[pc]

LEMMA PoolTyped ==
  ASSUME ScenarioInv, pc \in Kinds
  PROVE  /\ pool \in Pool /\ pool.todo \in Nat /\ pool.work \in Nat /\ pool.errs \in Seq(BOOLEAN)
         /\ pool.failed \in BOOLEAN
         /\ pool.worker \in [1 .. Workers -> Nat] /\ Busy(pool.worker) \in Nat
         /\ made \in [Kinds -> Nat] /\ made[pc] \in Nat /\ N[pc] \in Nat /\ Len(pool.errs) \in Nat
         /\ Workers \in Nat /\ Retries \in Nat
         /\ Accounted <= N[pc] /\ (Clean => Accounted = N[pc])
<1>1. pool \in Pool /\ made \in [Kinds -> Nat] /\ N \in [Kinds -> Nat] /\ Workers \in Nat /\ Retries \in Nat
  BY ScenarioAssumption DEF ScenarioInv, ScenarioTypes
<1>2. pool.worker \in [1 .. Workers -> Nat] /\ pool.errs \in Seq(BOOLEAN) /\ pool.todo \in Nat /\ pool.work \in Nat
      /\ pool.failed \in BOOLEAN
  BY <1>1 DEF Pool
<1>3. Busy(pool.worker) \in Nat
  BY <1>2, BusyCount
<1>4. Accounted <= N[pc] /\ (Clean => Accounted = N[pc])
  BY DEF ScenarioInv, Counts, Accounted
<1> QED
  BY <1>1, <1>2, <1>3, <1>4

\* What a step of the pool has to preserve.
LEMMA PoolStep ==
  ASSUME ScenarioInv, pc \in Kinds, UNCHANGED <<poolVars, pc>>, faults' \in 0 .. MaxFaults,
         pool' \in Pool, Bounds', made' \in [Kinds -> Nat],
         \A k \in Kinds : k # pc => made'[k] = made[k],
         Accounted' <= N[pc], Clean' => Accounted' = N[pc]
  PROVE  ScenarioInv'
<1>1. UNCHANGED <<scenario, labelled, rolledOut, leases, owner, load, canceled, pc>>
  BY DEF poolVars
<1>2. ScenarioTypes'
  BY <1>1 DEF ScenarioInv, ScenarioTypes
<1>3. Stages'
  BY <1>1 DEF ScenarioInv, Stages
<1>4. Counts'
  <2>1. pool'.todo \in Nat /\ pool'.work \in Nat /\ Busy(pool'.worker) \in Nat /\ made'[pc] \in Nat /\ N[pc] \in Nat
    <3>1. pool'.worker \in [1 .. Workers -> Nat] /\ pool'.todo \in Nat /\ pool'.work \in Nat
      BY DEF Pool
    <3> QED
      BY <3>1, BusyCount, ScenarioAssumption
  <2>2. Accounted' = pool'.todo + pool'.work + Busy(pool'.worker) + made'[pc]
    BY <1>1 DEF Accounted
  <2>3. made'[pc] <= N[pc]
    BY <2>1, <2>2
  <2>4. \A k \in Kinds : made'[k] <= N[k]
    BY <2>3 DEF ScenarioInv, Counts
  <2>5. pc = "themes" => made'["projects"] = 0
    BY DEF ScenarioInv, Counts, Kinds
  <2>6. pc = "projects" => made'["themes"] = N["themes"]
    BY DEF ScenarioInv, Counts, Kinds
  <2>7. pc \notin {"owner", "inject", "sharder", "webhosting-operator", "delete", "leases", "settle", "run", "wait"}
    BY DEF Kinds
  <2>8. pool'.todo + pool'.work + Busy(pool'.worker) + made'[pc'] <= N[pc']
    BY <1>1, <2>2
  <2>9. Clean' => pool'.todo + pool'.work + Busy(pool'.worker) + made'[pc'] = N[pc']
    BY <1>1, <2>2
  <2> QED
    BY <1>1, <2>4, <2>5, <2>6, <2>7, <2>8, <2>9, Zenon DEF Counts
<1> QED
  BY <1>2, <1>3, <1>4 DEF ScenarioInv

LEMMA EmitWorkInv == ASSUME ScenarioInv, EmitWork PROVE ScenarioInv'
<1>1. /\ pc \in Kinds /\ pool.todo > 0 /\ pool.work < Workers
      /\ UNCHANGED <<poolVars, pc>> /\ UNCHANGED <<made, faults>>
      /\ pool' = [pool EXCEPT !.todo = @ - 1, !.work = @ + 1]
  BY DEF EmitWork
<1>t. /\ pool \in Pool /\ pool.todo \in Nat /\ pool.work \in Nat /\ Workers \in Nat
      /\ Busy(pool.worker) \in Nat /\ made[pc] \in Nat /\ made \in [Kinds -> Nat]
      /\ Accounted <= N[pc] /\ (Clean => Accounted = N[pc])
  BY <1>1, PoolTyped
<1>2. PICK t \in Nat : t = pool.todo - 1
  BY <1>1, <1>t
<1>3. PICK n \in Nat : n = pool.work + 1
  BY <1>t
<1>4. pool' = [pool EXCEPT !.todo = t, !.work = n]
  BY <1>1, <1>2, <1>3
<1>5. pool' \in Pool /\ pool'.todo = t /\ pool'.work = n /\ pool'.worker = pool.worker /\ pool'.errs = pool.errs
      /\ pool'.failed = pool.failed
  BY <1>4, <1>t DEF Pool
<1>6. Bounds'
  BY <1>1, <1>t, <1>3, <1>5 DEF ScenarioInv, Bounds
<1>7. Accounted' = Accounted
  <2>1. Accounted' = t + n + Busy(pool.worker) + made[pc]
    BY <1>1, <1>5, Zenon DEF Accounted
  <2>2. Accounted = pool.todo + pool.work + Busy(pool.worker) + made[pc]
    BY DEF Accounted
  <2> QED
    BY <1>t, <1>2, <1>3, <2>1, <2>2
<1>8. Clean' <=> Clean
  BY <1>5 DEF Clean
<1>9. faults' \in 0 .. MaxFaults
  BY <1>1 DEF ScenarioInv, ScenarioTypes
<1> QED
  BY <1>1, <1>t, <1>5, <1>6, <1>7, <1>8, <1>9, PoolStep

\* The worker's part of the count.
LEMMA WorkerCounts ==
  ASSUME ScenarioInv, pc \in Kinds, NEW i \in 1 .. Workers, NEW n \in Nat, NEW f \in [1 .. Workers -> Nat],
         f[i] = n, \A j \in 1 .. Workers : j # i => f[j] = pool.worker[j]
  PROVE  /\ Busy(f) \in Nat
         /\ pool.worker[i] = 0 /\ n # 0 => Busy(f) = Busy(pool.worker) + 1
         /\ pool.worker[i] # 0 /\ n = 0 => Busy(f) = Busy(pool.worker) - 1
         /\ pool.worker[i] # 0 /\ n # 0 => Busy(f) = Busy(pool.worker)
<1>1. PICK w \in [1 .. Workers -> Nat] : w = pool.worker
  BY PoolTyped
<1>2. \A j \in 1 .. Workers : j # i => f[j] = w[j]
  BY <1>1
<1>3. Busy(f) \in Nat
  BY <1>2, BusyCount
<1>4. ASSUME w[i] = 0, n # 0 PROVE Busy(f) = Busy(w) + 1
  BY <1>2, <1>4, BusyUpdate, ZenonT(40)
<1>5. ASSUME w[i] # 0, n = 0 PROVE Busy(f) = Busy(w) - 1
  BY <1>2, <1>5, BusyUpdate
<1>6. ASSUME w[i] # 0, n # 0 PROVE Busy(f) = Busy(w)
  BY <1>2, <1>6, BusyUpdate
<1> QED
  BY <1>1, <1>2, <1>3, <1>4, <1>5, <1>6

LEMMA TakeWorkInv == ASSUME ScenarioInv, NEW i \in 1 .. Workers, TakeWork(i) PROVE ScenarioInv'
<1>1. /\ pc \in Kinds /\ pool.work > 0 /\ pool.worker[i] = 0
      /\ UNCHANGED <<poolVars, pc>> /\ UNCHANGED <<made, faults>>
      /\ pool' = [pool EXCEPT !.work = @ - 1, !.worker[i] = 1]
  BY DEF TakeWork
<1>t. /\ pool \in Pool /\ pool.todo \in Nat /\ pool.work \in Nat /\ Workers \in Nat /\ Retries \in Nat
      /\ pool.worker \in [1 .. Workers -> Nat]
      /\ Busy(pool.worker) \in Nat /\ made[pc] \in Nat /\ made \in [Kinds -> Nat]
      /\ Accounted <= N[pc] /\ (Clean => Accounted = N[pc])
  BY <1>1, PoolTyped
<1>2. PICK n \in Nat : n = pool.work - 1
  BY <1>1, <1>t
<1>3. PICK f : f = [pool.worker EXCEPT ![i] = 1]
  OBVIOUS
<1>f. f \in [1 .. Workers -> Nat] /\ Busy(f) = Busy(pool.worker) + 1
  <2>1. f \in [1 .. Workers -> Nat] /\ f[i] = 1 /\ \A j \in 1 .. Workers : j # i => f[j] = pool.worker[j]
    BY <1>t, <1>3
  <2>2. PICK one \in Nat : one = f[i] /\ one # 0
    BY <2>1
  <2>3. Busy(f) = Busy(pool.worker) + 1
    BY <1>1, <2>1, <2>2, WorkerCounts
  <2> QED
    BY <2>1, <2>3
<1>4. pool' = [pool EXCEPT !.work = n, !.worker = f]
  BY <1>1, <1>t, <1>2, <1>3 DEF Pool
<1>5. pool' \in Pool /\ pool'.todo = pool.todo /\ pool'.work = n /\ pool'.worker = f /\ pool'.errs = pool.errs
      /\ pool'.failed = pool.failed
  BY <1>4, <1>t, <1>f DEF Pool
<1>6. Bounds'
  <2>1. \A j \in 1 .. Workers : f[j] <= Retries + 1
    BY <1>t, <1>3 DEF ScenarioInv, Bounds
  <2> QED
    BY <1>t, <1>2, <1>5, <2>1 DEF ScenarioInv, Bounds
<1>8. Accounted' = Accounted
  <2>0. pool'.todo + pool'.work + Busy(pool'.worker) + made'[pc'] = pool.todo + n + Busy(f) + made[pc]
    BY <1>1, <1>5
  <2>1. Accounted' = pool.todo + n + Busy(f) + made[pc]
    BY <2>0 DEF Accounted
  <2>2. Accounted = pool.todo + pool.work + Busy(pool.worker) + made[pc]
    BY DEF Accounted
  <2>3. PICK t \in Nat, b \in Nat, m \in Nat : t = pool.todo /\ b = Busy(pool.worker) /\ m = made[pc]
    BY <1>t
  <2>4. PICK c \in Nat : c = Busy(f) /\ c = b + 1
    BY <1>f, <2>3
  <2>5. Accounted' = t + n + c + m
    BY <2>1, <2>3, <2>4, Zenon
  <2>6. Accounted = t + (n + 1) + b + m
    BY <1>2, <1>t, <2>2, <2>3
  <2> QED
    BY <2>4, <2>5, <2>6
<1>9. Clean' <=> Clean
  BY <1>5 DEF Clean
<1>10. faults' \in 0 .. MaxFaults
  BY <1>1 DEF ScenarioInv, ScenarioTypes
<1> QED
  BY <1>1, <1>t, <1>5, <1>6, <1>8, <1>9, <1>10, PoolStep

LEMMA Appended ==
  ASSUME NEW q \in Seq(BOOLEAN), NEW e \in BOOLEAN, NEW r, r = Append(q, e)
  PROVE  /\ r \in Seq(BOOLEAN) /\ Len(r) = Len(q) + 1 /\ r[Len(q) + 1] = e
         /\ \A j \in 1 .. Len(q) : r[j] = q[j]
  OBVIOUS

\* A worker sends its result: FALSE for an object that it has created.
LEMMA ResultSent ==
  ASSUME ScenarioInv, pc \in Kinds, NEW i \in 1 .. Workers, pool.worker[i] > 0, Len(pool.errs) < Workers,
         NEW e \in BOOLEAN, UNCHANGED <<poolVars, pc>>, faults' \in 0 .. MaxFaults,
         pool' = [pool EXCEPT !.worker[i] = 0, !.errs = Append(@, e)],
         made' \in [Kinds -> Nat], \A k \in Kinds : k # pc => made'[k] = made[k],
         e => made' = made, ~e => made'[pc] = made[pc] + 1
  PROVE  ScenarioInv'
<1>t. /\ pool \in Pool /\ pool.todo \in Nat /\ pool.work \in Nat /\ Workers \in Nat /\ Retries \in Nat
      /\ pool.worker \in [1 .. Workers -> Nat] /\ pool.errs \in Seq(BOOLEAN) /\ Len(pool.errs) \in Nat
      /\ Busy(pool.worker) \in Nat /\ made[pc] \in Nat /\ N[pc] \in Nat
      /\ Accounted <= N[pc] /\ (Clean => Accounted = N[pc])
  BY PoolTyped
<1>1. PICK f : f = [pool.worker EXCEPT ![i] = 0]
  OBVIOUS
<1>2. f \in [1 .. Workers -> Nat] /\ f[i] = 0 /\ \A j \in 1 .. Workers : j # i => f[j] = pool.worker[j]
  BY <1>1, <1>t
<1>3. PICK q \in Seq(BOOLEAN) : q = pool.errs
  BY <1>t
<1>4. PICK r : r = Append(q, e)
  OBVIOUS
<1>5. /\ r \in Seq(BOOLEAN) /\ Len(r) = Len(q) + 1 /\ r[Len(q) + 1] = e
      /\ \A j \in 1 .. Len(q) : r[j] = q[j]
  BY <1>4, Appended
<1>6. pool' = [pool EXCEPT !.worker = f, !.errs = r]
  BY <1>1, <1>3, <1>4, <1>t DEF Pool
<1>7. pool' \in Pool /\ pool'.todo = pool.todo /\ pool'.work = pool.work /\ pool'.worker = f /\ pool'.errs = r
      /\ pool'.failed = pool.failed
  BY <1>6, <1>t, <1>2, <1>5 DEF Pool
<1>8. Busy(f) \in Nat /\ Busy(f) = Busy(pool.worker) - 1
  <2>1. PICK zero \in Nat : zero = f[i] /\ zero = 0
    BY <1>2
  <2>2. pool.worker[i] # 0
    BY <1>t
  <2> QED
    BY <1>2, <2>1, <2>2, WorkerCounts
<1>9. Bounds'
  <2>1. \A j \in 1 .. Workers : f[j] <= Retries + 1
    <3> SUFFICES ASSUME NEW j \in 1 .. Workers PROVE f[j] <= Retries + 1
      OBVIOUS
    <3>1. pool.worker[j] <= Retries + 1
      BY DEF ScenarioInv, Bounds
    <3>2. CASE j = i
      <4>1. f[j] = 0
        BY <1>2, <3>2
      <4> QED
        BY <1>t, <4>1
    <3>3. CASE j # i
      BY <1>2, <3>1, <3>3
    <3> QED
      BY <3>2, <3>3
  <2>2. Len(r) <= Workers
    BY <1>t, <1>3, <1>5
  <2> QED
    BY <1>7, <2>1, <2>2 DEF ScenarioInv, Bounds
<1>10. /\ Accounted' <= N[pc] /\ (e => Accounted' = Accounted - 1) /\ (~e => Accounted' = Accounted)
  <2>0. pool'.todo + pool'.work + Busy(pool'.worker) + made'[pc'] = pool.todo + pool.work + Busy(f) + made'[pc]
    BY <1>7
  <2>1. Accounted' = pool.todo + pool.work + Busy(f) + made'[pc]
    BY <2>0 DEF Accounted
  <2>2. PICK t \in Nat, n \in Nat, b \in Nat, m \in Nat :
          t = pool.todo /\ n = pool.work /\ b = Busy(pool.worker) /\ m = made[pc]
    BY <1>t
  <2>3. PICK c \in Nat, l \in Nat : c = Busy(f) /\ c = b - 1 /\ l = made'[pc]
    BY <1>8, <2>2
  <2>4. Accounted' = t + n + c + l
    BY <2>1, <2>2, <2>3, Zenon
  <2>5. Accounted = t + n + b + m
    BY <2>2 DEF Accounted
  <2>6. (e => l = m) /\ (~e => l = m + 1)
    BY <2>2, <2>3
  <2>7. PICK x \in Nat : x = N[pc] /\ t + n + b + m <= x
    BY <1>t, <2>5
  <2>8. (e => Accounted' = Accounted - 1) /\ (~e => Accounted' = Accounted)
    BY <2>3, <2>4, <2>5, <2>6, SMTT(30)
  <2>9. Accounted' <= x
    <3>1. l <= m + 1
      BY <2>6
    <3> QED
      BY <2>3, <2>4, <2>7, <3>1, SMTT(30)
  <2> QED
    BY <2>7, <2>8, <2>9
<1>11. Clean' => Clean /\ ~e
  <2>1. Len(q) + 1 \in 1 .. Len(r)
    BY <1>5, <1>t, <1>3
  <2>2. \A j \in 1 .. Len(q) : j \in 1 .. Len(r)
    BY <1>5, <1>t, <1>3
  <2>3. ASSUME Clean' PROVE ~pool.failed /\ \A j \in 1 .. Len(r) : ~r[j]
    BY <1>7, <2>3 DEF Clean
  <2> QED
    BY <1>3, <1>5, <2>1, <2>2, <2>3 DEF Clean
<1>12. Clean' => Accounted' = N[pc]
  BY <1>t, <1>10, <1>11
<1> QED
  BY <1>7, <1>9, <1>10, <1>12, PoolStep

LEMMA RetryOnErrorInv == ASSUME ScenarioInv, NEW i \in 1 .. Workers, RetryOnError(i) PROVE ScenarioInv'
<1>1. pc \in Kinds /\ pool.worker[i] > 0 /\ UNCHANGED <<poolVars, pc>>
  BY DEF RetryOnError
<1>t. /\ pool \in Pool /\ pool.todo \in Nat /\ pool.work \in Nat /\ Workers \in Nat /\ Retries \in Nat
      /\ pool.worker \in [1 .. Workers -> Nat] /\ pool.worker[i] \in Nat
      /\ Busy(pool.worker) \in Nat /\ made[pc] \in Nat /\ made \in [Kinds -> Nat]
      /\ Accounted <= N[pc] /\ (Clean => Accounted = N[pc])
  BY <1>1, PoolTyped
<1>2. CASE /\ Succeeds /\ Len(pool.errs) < Workers
           /\ IF pc = "themes" THEN CreateTheme ELSE CreateProject
           /\ pool' = [pool EXCEPT !.worker[i] = 0, !.errs = Append(@, FALSE)]
  <2>1. faults' \in 0 .. MaxFaults
    BY <1>2, Failing
  <2>2. made' = [made EXCEPT ![pc] = @ + 1]
    BY <1>1, <1>2 DEF CreateTheme, CreateProject, Kinds
  <2>3. made' \in [Kinds -> Nat] /\ made'[pc] = made[pc] + 1 /\ \A k \in Kinds : k # pc => made'[k] = made[k]
    BY <1>1, <1>t, <2>2
  <2>4. PICK e \in BOOLEAN : e = FALSE
    OBVIOUS
  <2>5. pool' = [pool EXCEPT !.worker[i] = 0, !.errs = Append(@, e)]
    BY <1>2, <2>4, Zenon
  <2> QED
    BY <1>1, <1>2, <2>1, <2>3, <2>4, <2>5, ResultSent
<1>3. CASE /\ Fails /\ pool.worker[i] <= Retries
           /\ pool' = [pool EXCEPT !.worker[i] = @ + 1] /\ UNCHANGED made
  <2>1. faults' \in 0 .. MaxFaults
    BY <1>3, Failing
  <2>2. PICK n \in Nat : n = pool.worker[i] + 1 /\ n # 0 /\ n <= Retries + 1
    BY <1>3, <1>t
  <2>3. PICK f : f = [pool.worker EXCEPT ![i] = n]
    OBVIOUS
  <2>4. f \in [1 .. Workers -> Nat] /\ f[i] = n /\ \A j \in 1 .. Workers : j # i => f[j] = pool.worker[j]
    BY <2>3, <1>t
  <2>5. pool' = [pool EXCEPT !.worker = f]
    BY <1>3, <1>t, <2>2, <2>3 DEF Pool
  <2>6. pool' \in Pool /\ pool'.todo = pool.todo /\ pool'.work = pool.work /\ pool'.worker = f /\ pool'.errs = pool.errs
        /\ pool'.failed = pool.failed
    BY <2>5, <1>t, <2>4 DEF Pool
  <2>7. Busy(f) = Busy(pool.worker)
    <3>1. pool.worker[i] # 0
      BY <1>1, <1>t
    <3> QED
      BY <1>1, <2>2, <2>4, <3>1, WorkerCounts
  <2>8. Bounds'
    <3>1. \A j \in 1 .. Workers : f[j] <= Retries + 1
      BY <1>t, <2>2, <2>4 DEF ScenarioInv, Bounds
    <3> QED
      BY <2>6, <3>1 DEF ScenarioInv, Bounds
  <2>9. Accounted' = Accounted
    BY <1>1, <1>3, <2>6, <2>7 DEF Accounted
  <2>10. Clean' <=> Clean
    BY <2>6 DEF Clean
  <2> QED
    BY <1>1, <1>3, <1>t, <2>1, <2>6, <2>8, <2>9, <2>10, PoolStep
<1>4. CASE /\ Fails /\ Len(pool.errs) < Workers
           /\ pool' = [pool EXCEPT !.worker[i] = 0, !.errs = Append(@, TRUE)] /\ UNCHANGED made
  <2>1. faults' \in 0 .. MaxFaults
    BY <1>4, Failing
  <2>2. PICK e \in BOOLEAN : e = TRUE
    OBVIOUS
  <2>3. pool' = [pool EXCEPT !.worker[i] = 0, !.errs = Append(@, e)]
    BY <1>4, <2>2, Zenon
  <2> QED
    BY <1>1, <1>4, <1>t, <2>1, <2>2, <2>3, ResultSent
<1> QED
  BY <1>2, <1>3, <1>4 DEF RetryOnError

LEMMA CollectErrorInv == ASSUME ScenarioInv, CollectError PROVE ScenarioInv'
<1>1. /\ pc \in Kinds /\ pool.errs # <<>> /\ UNCHANGED <<poolVars, pc>> /\ UNCHANGED <<made, faults>>
      /\ pool' = [pool EXCEPT !.errs = Tail(@), !.failed = @ \/ Head(pool.errs)]
  BY DEF CollectError
<1>t. /\ pool \in Pool /\ pool.errs \in Seq(BOOLEAN) /\ Len(pool.errs) \in Nat /\ Workers \in Nat
      /\ made \in [Kinds -> Nat] /\ Accounted <= N[pc] /\ (Clean => Accounted = N[pc])
  BY <1>1, PoolTyped
<1>2. PICK q \in Seq(BOOLEAN) : q = pool.errs /\ q # <<>>
  BY <1>1, <1>t
<1>3. PICK r : r = Tail(q)
  OBVIOUS
<1>4. /\ r \in Seq(BOOLEAN) /\ Len(r) = Len(q) - 1 /\ Len(q) \in Nat \ {0} /\ Head(q) = q[1]
      /\ \A j \in 1 .. Len(r) : r[j] = q[j + 1]
  <2>1. Len(q) \in Nat \ {0}
    BY <1>2, EmptySeq, Zenon
  <2>2. /\ Head(q) \in BOOLEAN /\ Tail(q) \in Seq(BOOLEAN) /\ Len(Tail(q)) = Len(q) - 1
        /\ \A j \in 1 .. Len(Tail(q)) : Tail(q)[j] = q[j + 1]
    BY <1>2, HeadTailProperties
  <2>3. Head(q) = q[1]
    BY <1>2, <2>1
  <2> QED
    BY <1>3, <2>1, <2>2, <2>3, Zenon
<1>5. PICK e \in BOOLEAN : e <=> (pool.failed \/ Head(q))
  OBVIOUS
<1>6. pool' = [pool EXCEPT !.errs = r, !.failed = e]
  <2>1. pool.failed \in BOOLEAN /\ Head(q) \in BOOLEAN
    BY <1>t, <1>4 DEF Pool
  <2>2. (pool.failed \/ Head(q)) = e
    BY <1>5, <2>1, Zenon
  <2> QED
    BY <1>1, <1>2, <1>3, <2>2, Zenon
<1>7. pool' \in Pool /\ pool'.todo = pool.todo /\ pool'.work = pool.work /\ pool'.worker = pool.worker
      /\ pool'.errs = r /\ pool'.failed = e
  BY <1>6, <1>t, <1>4 DEF Pool
<1>8. Bounds'
  <2>1. Len(r) <= Workers
    BY <1>2, <1>4, <1>t DEF ScenarioInv, Bounds
  <2> QED
    BY <1>7, <2>1 DEF ScenarioInv, Bounds
<1>9. Accounted' = Accounted
  BY <1>1, <1>7 DEF Accounted
<1>10. Clean' => Clean
  <2> SUFFICES ASSUME Clean' PROVE Clean
    OBVIOUS
  <2>1. ~e /\ \A j \in 1 .. Len(r) : ~r[j]
    BY <1>7 DEF Clean
  <2>2. ~pool.failed /\ ~q[1]
    BY <1>4, <1>5, <2>1
  <2>3. ASSUME NEW j \in 1 .. Len(q), j # 1 PROVE ~q[j]
    <3>1. j - 1 \in 1 .. Len(r) /\ (j - 1) + 1 = j
      BY <1>4, <2>3
    <3>2. PICK l \in 1 .. Len(r) : l + 1 = j
      BY <3>1
    <3> QED
      BY <1>4, <2>1, <3>2
  <2> QED
    BY <1>2, <2>2, <2>3 DEF Clean
<1>11. faults' \in 0 .. MaxFaults
  BY <1>1 DEF ScenarioInv, ScenarioTypes
<1> QED
  BY <1>1, <1>t, <1>7, <1>8, <1>9, <1>10, <1>11, PoolStep

\* If NTimesConcurrently succeeds everything that was ordered exists.
LEMMA NTimesConcurrentlyInv == ASSUME ScenarioInv, NTimesConcurrently PROVE ScenarioInv'
<1>1. /\ pc \in Kinds /\ pool.todo = 0 /\ pool.work = 0 /\ pool.errs = <<>>
      /\ (\A i \in 1 .. Workers : pool.worker[i] = 0)
      /\ UNCHANGED <<scenario, labelled, rolledOut, leases, owner, load, canceled, made, faults>>
  BY DEF NTimesConcurrently, poolVars
<1>2. Prepare[1] = "themes" /\ Prepare[2] = "projects"
  BY PrepareKinds DEF ScenarioInv, ScenarioTypes
<1>t. /\ pool.worker \in [1 .. Workers -> Nat] /\ made \in [Kinds -> Nat] /\ made[pc] \in Nat
      /\ (Clean => Accounted = N[pc])
  BY <1>1, PoolTyped
<1>n. N["themes"] \in Nat \ {0} /\ N["projects"] \in Nat \ {0} /\ Workers \in Nat /\ Retries \in Nat
  BY ScenarioAssumption DEF Kinds
<1>3. CASE pool.failed
  <2>1. pc' \in {"cleanup", "done"} /\ pool' = pool
    BY <1>2, <1>3, Failing DEF NTimesConcurrently
  <2>2. ScenarioTypes'
    BY <1>1, <2>1 DEF ScenarioInv, ScenarioTypes
  <2>3. Stages'
    <3>1. owner # "deleted"
      BY <1>1 DEF ScenarioInv, Stages, Kinds
    <3> QED
      BY <1>1, <2>1, <3>1 DEF ScenarioInv, Stages
  <2> QED
    BY <1>1, <2>1, <2>2, <2>3, OutsidePool DEF ScenarioInv
<1>4. CASE ~pool.failed
  <2>1. made[pc] = N[pc]
    <3>1. Busy(pool.worker) = 0
      BY <1>1, <1>t, BusyCount
    <3>2. Clean
      BY <1>1, <1>4 DEF Clean
    <3> QED
      BY <1>1, <1>t, <3>1, <3>2 DEF Accounted
  <2>2. CASE pc = "themes"
    <3>1. pc' = "projects" /\ pool' = NewPool(N["projects"])
      BY <1>2, <1>4, <2>2 DEF NTimesConcurrently
    <3>2. PICK p : p = NewPool(N["projects"])
      OBVIOUS
    <3>3. pool' = p
      BY <3>1, <3>2
    <3>4. /\ p \in Pool /\ p.todo = N["projects"] /\ p.work = 0
          /\ (\A i \in 1 .. Workers : p.worker[i] = 0) /\ Busy(p.worker) = 0
          /\ p.errs = <<>> /\ Len(p.errs) = 0 /\ ~p.failed
      BY <1>n, <3>2, NewPoolFacts
    <3>5. ScenarioTypes'
      BY <1>1, <3>1, <3>3, <3>4 DEF ScenarioInv, ScenarioTypes, Kinds
    <3>6. Bounds'
      BY <1>n, <3>3, <3>4 DEF Bounds
    <3>7. made["projects"] = 0 /\ made["themes"] = N["themes"] /\ made["themes"] # 0
      BY <1>n, <2>1, <2>2 DEF ScenarioInv, Counts
    <3>8. Stages'
      BY <1>1, <2>2, <3>1, <3>7 DEF ScenarioInv, Stages
    <3>9. Counts'
      <4>1. \A k \in Kinds : made'[k] <= N[k]
        BY <1>1 DEF ScenarioInv, Counts
      <4>2. pool'.todo + pool'.work + Busy(pool'.worker) + made'[pc'] = N[pc'] /\ N[pc'] \in Nat
        BY <1>1, <1>n, <3>1, <3>3, <3>4, <3>7
      <4> QED
        BY <1>1, <3>1, <3>7, <4>1, <4>2 DEF Counts
    <3> QED
      BY <3>5, <3>6, <3>8, <3>9 DEF ScenarioInv
  <2>3. CASE pc = "projects"
    <3>1. pc' = "settle" /\ pool' = pool
      BY <1>2, <1>4, <2>3 DEF NTimesConcurrently
    <3>2. made = N
      <4>1. \A k \in Kinds : made[k] = N[k]
        BY <2>1, <2>3 DEF ScenarioInv, Counts, Kinds
      <4> QED
        BY <1>t, <4>1, ScenarioAssumption
    <3>3. ScenarioTypes'
      BY <1>1, <3>1 DEF ScenarioInv, ScenarioTypes
    <3>4. Bounds'
      BY <3>1 DEF ScenarioInv, Bounds
    <3>5. Stages'
      BY <1>1, <2>3, <3>1 DEF ScenarioInv, Stages
    <3>6. Counts'
      <4>1. \A k \in Kinds : made'[k] <= N[k]
        BY <1>1 DEF ScenarioInv, Counts
      <4> QED
        BY <1>1, <3>1, <3>2, <4>1 DEF Counts, Kinds
    <3> QED
      BY <3>3, <3>4, <3>5, <3>6 DEF ScenarioInv
  <2> QED
    BY <1>1, <2>2, <2>3 DEF Kinds
<1> QED
  BY <1>3, <1>4

-----------------------------------------------------------------------------
(* The experiment.                                                         *)

LEMMA StartInv == ASSUME ScenarioInv, Start PROVE ScenarioInv'
  BY PrepareInv, waitForShardLeasesInv, EmitWorkInv, TakeWorkInv, RetryOnErrorInv, CollectErrorInv,
     NTimesConcurrentlyInv, RunInv DEF Start

LEMMA ScenarioInitInv == ScenarioInit => ScenarioInv
<1> SUFFICES ASSUME ScenarioInit PROVE ScenarioInv
  OBVIOUS
<1> USE DEF ScenarioInit
<1>1. PICK p : p = NewPool(0)
  OBVIOUS
<1>2. pool = p
  BY <1>1
<1>3. /\ p \in Pool /\ p.work = 0 /\ p.errs = <<>> /\ Len(p.errs) = 0 /\ \A i \in 1 .. Workers : p.worker[i] = 0
  BY <1>1, NewPoolFacts
<1>4. made \in [Kinds -> Nat] /\ \A k \in Kinds : made[k] = 0
  OBVIOUS
<1>5. /\ scenario \in Scenarios /\ pc = "owner" /\ owner = "none" /\ load = {} /\ canceled \in BOOLEAN
      /\ faults \in 0 .. MaxFaults
  <2>1. canceled \in BOOLEAN /\ pc = "owner" /\ owner = "none" /\ load = {} /\ scenario \in Scenarios
    BY Zenon
  <2>2. faults \in 0 .. MaxFaults
    BY ScenarioAssumption
  <2> QED
    BY <2>1, <2>2
<1>6. ScenarioTypes
  BY <1>2, <1>3, <1>4, <1>5 DEF ScenarioTypes
<1>7. Bounds
  BY <1>2, <1>3, ScenarioAssumption DEF Bounds
<1>8. Stages
  BY <1>5 DEF Stages
<1>9. Counts
  BY <1>4, <1>5, ScenarioAssumption DEF Counts, Kinds
<1> QED
  BY <1>6, <1>7, <1>8, <1>9 DEF ScenarioInv

\* Every step of the experiment is one of the scenario's, of the tracker's, or
\* leaves the part alone.
LEMMA NextParts ==
  ASSUME IndInv, [Next]_vars
  PROVE  IndInv'
<1>u. ASSUME UNCHANGED scenarioVars PROVE ScenarioInv'
  <2> USE <1>u DEF scenarioVars
  <2>1. ScenarioTypes' /\ Stages'
    BY DEF IndInv, ScenarioInv, ScenarioTypes, Stages
  <2>2. Bounds' /\ Counts'
    BY OutsidePool DEF IndInv
  <2> QED
    BY <2>1, <2>2 DEF ScenarioInv
<1>1. CASE StartStep
  <2>1. ScenarioInv'
    BY <1>1, StartInv DEF StartStep, IndInv
  <2>2. TrackerInv'
    BY <1>1, TrackerStepInv DEF StartStep, IndInv
  <2> QED
    BY <2>1, <2>2 DEF IndInv
<1>2. CASE Interrupt /\ UNCHANGED trackerVars
  <2>1. ScenarioInv'
    BY <1>2, InterruptInv DEF Interrupt, IndInv, ScenarioInv, ScenarioTypes
  <2>2. TrackerInv'
    BY <1>2, TrackerStepInv DEF IndInv
  <2> QED
    BY <2>1, <2>2 DEF IndInv
<1>3. CASE Cluster
  <2>1. CASE UNCHANGED trackerVars /\ ((\E c \in Components : RollOut(c)) \/ BecomeReady \/ terminateRandomShard \/ triggerRollingUpdate)
    <3>1. ScenarioInv'
      BY <2>1, ClusterInv DEF IndInv
    <3>2. TrackerInv'
      BY <2>1, TrackerStepInv DEF IndInv
    <3> QED
      BY <3>1, <3>2 DEF IndInv
  <2>2. ASSUME NEW k \in Kinds, CollectGarbage(k),
               web' = IF k = "projects" THEN [web EXCEPT !.exists = FALSE] ELSE web,
               UNCHANGED <<watched, call, writers, object, request, now, seen, changed>>
        PROVE  IndInv'
    <3>1. ScenarioInv'
      BY <2>2, CollectGarbageInv DEF IndInv
    <3>2. CASE k = "projects"
      <4>1. TrackerStep
        BY <2>2, <3>2 DEF TrackerStep
      <4> QED
        BY <3>1, <4>1, TrackerStepInv DEF IndInv
    <3>3. CASE k # "projects"
      <4>1. UNCHANGED trackerVars
        BY <2>2, <3>3 DEF trackerVars
      <4> QED
        BY <3>1, <4>1, TrackerStepInv DEF IndInv
    <3> QED
      BY <3>2, <3>3
  <2> QED
    BY <1>3, <2>1, <2>2 DEF Cluster
<1>4. CASE Generate /\ UNCHANGED scenarioVars
  <2>1. TrackerStep
    BY <1>4 DEF Generate, TrackerStep
  <2> QED
    BY <1>4, <1>u, <2>1, TrackerStepInv DEF IndInv
<1>5. CASE leases /\ UpdateWebsiteStatus /\ UNCHANGED scenarioVars
  <2>1. TrackerStep
    BY <1>5 DEF TrackerStep
  <2> QED
    BY <1>5, <1>u, <2>1, TrackerStepInv DEF IndInv
<1>6. CASE /\ LoseResponse /\ ~canceled /\ faults < MaxFaults /\ faults' = faults + 1
           /\ UNCHANGED <<scenario, pc, lastError, labelled, rolledOut, leases, owner, made, pool, load,
                          err, canceled>>
  <2>1. TrackerStep
    BY <1>6 DEF TrackerStep
  <2>2. faults' \in 0 .. MaxFaults /\ canceled' \in BOOLEAN
    BY <1>6, ScenarioAssumption DEF IndInv, ScenarioInv, ScenarioTypes
  <2>3. ScenarioInv'
    BY <1>6, <2>2, InterruptInv DEF IndInv
  <2> QED
    BY <2>1, <2>3, TrackerStepInv DEF IndInv
<1>7. CASE Track
  <2>1. TrackerStep /\ UNCHANGED scenarioVars
    BY <1>7 DEF TrackerStep, Track
  <2> QED
    BY <1>u, <2>1, TrackerStepInv DEF IndInv
<1>8. CASE UNCHANGED vars
  <2>1. UNCHANGED scenarioVars /\ UNCHANGED trackerVars
    BY <1>8 DEF vars
  <2> QED
    BY <1>u, <2>1, TrackerStepInv DEF IndInv
<1> QED
  BY <1>1, <1>2, <1>3, <1>4, <1>5, <1>6, <1>7, <1>8 DEF Next

\* The inductive invariant holds in every state of the experiment: no work item
\* of NTimesConcurrently is lost without an error, and no observation of the
\* tracker without a time in its map or a goroutine that holds it.
THEOREM Invariance == Spec => []IndInv
<1>1. Init => IndInv
  BY ScenarioInitInv, TrackerInitInv DEF Init, IndInv
<1>2. IndInv /\ [Next]_vars => IndInv'
  BY NextParts
<1> QED
  BY <1>1, <1>2, PTL DEF Spec

\* The experiment's types: channels and attempts within their bounds, no more
\* themes and projects than ordered, times that have passed.
THEOREM TypeCorrect == Spec => []TypeOK
<1>1. IndInv => TypeOK
  <2> SUFFICES ASSUME IndInv PROVE TypeOK
    OBVIOUS
  <2>1. TrackerTypeOK
    BY TrackerTyped DEF IndInv
  <2>2. ScenarioTypeOK
    <3>1. pool \in Pool /\ Workers \in Nat /\ Retries \in Nat /\ made \in [Kinds -> Nat] /\ N \in [Kinds -> Nat]
      BY ScenarioAssumption DEF IndInv, ScenarioInv, ScenarioTypes
    <3>2. pool.work \in 0 .. Workers /\ \A i \in 1 .. Workers : pool.worker[i] \in 0 .. Retries + 1
      BY <3>1 DEF IndInv, ScenarioInv, Bounds, Pool
    <3>3. \A k \in Kinds : made[k] \in 0 .. N[k]
      BY <3>1 DEF IndInv, ScenarioInv, Counts
    <3>4. pool.errs \in UNION {[1 .. i -> BOOLEAN] : i \in 0 .. Workers}
      <4>1. PICK q \in Seq(BOOLEAN) : q = pool.errs /\ Len(q) <= Workers
        BY <3>1 DEF Pool, IndInv, ScenarioInv, Bounds
      <4>2. q \in [1 .. Len(q) -> BOOLEAN] /\ Len(q) \in 0 .. Workers
        BY <3>1, <4>1
      <4> QED
        BY <4>1, <4>2
    <3> QED
      BY <3>2, <3>3, <3>4 DEF ScenarioTypeOK, IndInv, ScenarioInv, ScenarioTypes
  <2> QED
    BY <2>1, <2>2 DEF TypeOK
<1> QED
  BY <1>1, Invariance, PTL

\* Start reaches the load only with all themes and projects created, and its
\* controllers generate it only after the components are rolled out with the
\* run ID and ready: whatever calls fail, and although a wait that ends with
\* the canceled context reports success.
THEOREM Prepared == Spec => []LoadIsPrepared
<1>1. IndInv => LoadIsPrepared
  BY DEF IndInv, ScenarioInv, Stages, Counts, LoadIsPrepared
<1> QED
  BY <1>1, Invariance, PTL

\* The latencies that the tracker records end with the first observation of the
\* generation, or of the next newer one that was observed.
THEOREM Accurate == Spec => []LatencyAccurate
  BY TrackerAccurate, Invariance, PTL DEF IndInv

\* The tracker loses no spec change that a goroutine has stored.
THEOREM AllMeasured == Spec => []Measured
  BY TrackerMeasured, Invariance, PTL DEF IndInv

-----------------------------------------------------------------------------
(* Start is not blocked.                                                   *)

\* the delegate's controllers that Run has not added yet, by position
Generators == Delegate(scenario).Run
Unadded == {i \in DOMAIN Generators : Generators[i] \notin load}

\* A component or a controller is left while Start is labelling or adding them.
Positions ==
  /\ lastError \in BOOLEAN
  /\ labelled \subseteq Components /\ (pc \in {"owner", "inject"} => labelled # Components)
  /\ pc = "run" => Unadded # {}

\* a goroutine of NTimesConcurrently that is not blocked
PoolRuns ==
  \/ pool.todo > 0 /\ pool.work < Workers
  \/ pool.work > 0 /\ \E i \in 1 .. Workers : pool.worker[i] = 0
  \/ Len(pool.errs) < Workers /\ \E i \in 1 .. Workers : pool.worker[i] > 0
  \/ pool.errs # <<>>
  \/ pool.todo = 0 /\ pool.work = 0 /\ pool.errs = <<>> /\ \A i \in 1 .. Workers : pool.worker[i] = 0

StartRuns ==
  \/ pc \in {"owner", "inject", "sharder", "webhosting-operator", "delete", "leases", "settle", "wait", "cleanup"}
  \/ pc \in Kinds /\ PoolRuns
  \/ pc = "run" /\ Unadded # {}
  \/ pc = "done" /\ ~canceled

\* Start and the workers of its pool are never blocked on each other.
NeverStuck == (pc = "done" /\ canceled) \/ StartRuns

\* Every delegate's first controller is the website generator.
LEMMA GeneratorsTyped ==
  ASSUME scenario \in Scenarios
  PROVE  /\ IsFiniteSet(DOMAIN Generators) /\ DOMAIN Generators \subseteq Nat /\ 1 \in DOMAIN Generators
         /\ Generators[1] = "website-generator"
<1>1. scenario \in {"basic", "chaos", "rolling-update", "scale-out"}
  BY ScenarioAssumption
<1>2. Delegate(scenario) \in {basic, chaos, rollingUpdate, scaleOut}
  BY <1>1 DEF Delegate
<1>3. /\ Generators[1] = "website-generator"
      /\ \E n \in {2, 3, 4} : DOMAIN Generators = 1 .. n
  <2>1. CASE Delegate(scenario) = basic
    <3>1. Generators = <<"website-generator", "website-deleter", "website-mutator">>
      BY <2>1 DEF Generators, basic
    <3> QED  BY <3>1
  <2>2. CASE Delegate(scenario) = chaos
    <3>1. Generators = <<"website-generator", "website-mutator", "shard-terminator">>
      BY <2>2 DEF Generators, chaos
    <3> QED  BY <3>1
  <2>3. CASE Delegate(scenario) = rollingUpdate
    <3>1. Generators = <<"website-generator", "website-deleter", "website-mutator", "rolling-updater">>
      BY <2>3 DEF Generators, rollingUpdate
    <3> QED  BY <3>1
  <2>4. CASE Delegate(scenario) = scaleOut
    <3>1. Generators = <<"website-generator", "website-mutator">>
      BY <2>4 DEF Generators, scaleOut
    <3> QED  BY <3>1
  <2> QED  BY <1>2, <2>1, <2>2, <2>3, <2>4
<1>4. PICK n \in {2, 3, 4} : DOMAIN Generators = 1 .. n
  BY <1>3
<1>5. IsFiniteSet(1 .. n)
  BY FS_Interval
<1> QED
  BY <1>3, <1>4, <1>5

LEMMA PositionsInit == Init => Positions
<1> SUFFICES ASSUME Init PROVE Positions
  OBVIOUS
<1>1. lastError \in BOOLEAN
  BY Zenon DEF Init, ScenarioInit
<1> QED
  BY <1>1 DEF Init, ScenarioInit, Positions, Components

LEMMA PositionsStart ==
  ASSUME ScenarioInv, Positions, Start
  PROVE  Positions'
<1>1. scenario \in Scenarios /\ scenario' = scenario
  BY DEF ScenarioInv, ScenarioTypes, Start, prepare, injectRunIDLabel, waitForDeployment, DeleteDeadLeases,
         waitForShardLeases, EmitWork, CollectError, NTimesConcurrently, TakeWork, RetryOnError, AddTracker,
         AddGenerator, Wait, Cleanup, StopManager, poolVars
<1>2. Prepare[1] = "themes" /\ Prepare[2] = "projects"
  BY <1>1, PrepareKinds
<1>3. lastError' \in BOOLEAN
  <2>1. lastError' = lastError \/ lastError' = TRUE \/ lastError' = FALSE
    BY DEF Start, prepare, injectRunIDLabel, waitForDeployment, DeleteDeadLeases,
         waitForShardLeases, EmitWork, CollectError, NTimesConcurrently, TakeWork, RetryOnError, AddTracker,
         AddGenerator, Wait, Cleanup, StopManager, poolVars, PollUntilContextTimeout
  <2> QED
    BY <2>1, Zenon DEF Positions
<1>4. CASE injectRunIDLabel
  BY <1>3, <1>4 DEF injectRunIDLabel, Positions, Components, Fail, Kinds
<1>5. CASE AddTracker
  <2>1. pc' = "run" => load' = {"website-tracker"}
    BY <1>5 DEF AddTracker, Fail, Kinds
  <2>2. pc' = "run" => Unadded' # {}
    BY <1>1, <2>1, GeneratorsTyped DEF Unadded, Generators
  <2> QED
    BY <1>3, <1>5, <2>2 DEF AddTracker, Positions, Fail, Kinds
<1>6. CASE AddGenerator
  <2>1. pc' = "run" => ~ \A i \in DOMAIN Delegate(scenario).Run : Delegate(scenario).Run[i] \in load'
    BY <1>6 DEF AddGenerator, Fail, Kinds
  <2>2. pc' = "run" => Unadded' # {}
    BY <1>1, <2>1 DEF Unadded, Generators
  <2>3. pc' \notin {"owner", "inject"} /\ labelled' = labelled
    BY <1>6 DEF AddGenerator, Fail, Kinds
  <2> QED
    BY <1>3, <2>2, <2>3 DEF Positions
<1>7. CASE prepare \/ waitForDeployment \/ DeleteDeadLeases \/ waitForShardLeases
  <2>1. labelled' = labelled /\ pc' # "run" /\ (pc' \in {"owner", "inject"} => pc = "owner")
    BY <1>2, <1>7 DEF prepare, waitForDeployment, DeleteDeadLeases, waitForShardLeases,
                      PollUntilContextTimeout, Fail, Kinds, Components
  <2> QED
    BY <1>3, <2>1 DEF Positions
<1>8. CASE EmitWork \/ CollectError \/ NTimesConcurrently \/ \E i \in 1 .. Workers : TakeWork(i) \/ RetryOnError(i)
  <2>1. labelled' = labelled /\ pc \in Kinds /\ pc' \in Kinds \cup {"settle", "cleanup"}
    BY <1>2, <1>8 DEF EmitWork, CollectError, NTimesConcurrently, TakeWork, RetryOnError, poolVars, Fail, Kinds
  <2> QED
    BY <1>3, <2>1 DEF Positions, Kinds
<1>9. CASE Wait \/ Cleanup \/ StopManager
  <2>1. labelled' = labelled /\ pc' \in {"cleanup", "done"}
    BY <1>9 DEF Wait, Cleanup, StopManager, Fail, Kinds
  <2> QED
    BY <1>3, <2>1 DEF Positions
<1> QED
  BY <1>4, <1>5, <1>6, <1>7, <1>8, <1>9 DEF Start

\* Only Start moves on, and fills or empties its pool.
LEMMA OthersKeep ==
  ASSUME Next, ~StartStep
  PROVE  /\ UNCHANGED <<scenario, pc, lastError, labelled, pool, load, owner>>
         /\ \/ canceled' /\ ~canceled /\ faults' = faults
            \/ canceled' = canceled /\ faults < MaxFaults /\ faults' = faults + 1
            \/ UNCHANGED <<canceled, faults>>
<1>1. CASE Interrupt
  BY <1>1 DEF Interrupt
<1>2. CASE Cluster
  BY <1>2 DEF Cluster, RollOut, BecomeReady, terminateRandomShard, triggerRollingUpdate, CollectGarbage, clusterVars
<1>3. CASE UNCHANGED scenarioVars
  BY <1>3 DEF scenarioVars
<1> QED
  BY <1>1, <1>2, <1>3 DEF Next, Track

\* Start never labels or adds anything twice: there is a component left while it injects
\* the run ID, and a controller while it is in Run.
THEOREM PositionsKept == Spec => [](IndInv /\ Positions)
<1>1. IndInv /\ Positions /\ [Next]_vars => Positions'
  <2> SUFFICES ASSUME IndInv, Positions, [Next]_vars PROVE Positions'
    OBVIOUS
  <2>1. CASE StartStep
    BY <2>1, PositionsStart DEF IndInv, StartStep
  <2>2. CASE UNCHANGED <<scenario, pc, lastError, labelled, load>>
    BY <2>2 DEF Positions, Unadded, Generators
  <2>3. CASE UNCHANGED vars
    BY <2>2, <2>3 DEF vars, scenarioVars
  <2> QED
    BY <2>1, <2>2, <2>3, OthersKeep
<1> QED
  BY <1>1, PositionsInit, Invariance, PTL DEF Spec

\* Until Start has returned and the manager has stopped, one of the goroutines can go on,
\* whatever the number of workers, with channels that hold no more items than there
\* are workers: emitter, workers and collector do not wait for each other in a circle.
THEOREM NotStuck == Spec => []NeverStuck
<1>1. IndInv /\ Positions => NeverStuck
  <2> SUFFICES ASSUME IndInv, Positions, pc \in Kinds, ~PoolRuns PROVE FALSE
    BY DEF NeverStuck, StartRuns, Positions, IndInv, ScenarioInv, ScenarioTypes, Components
  <2>1. /\ pool.todo \in Nat /\ pool.work \in Nat /\ pool.errs \in Seq(BOOLEAN)
        /\ pool.worker \in [1 .. Workers -> Nat] /\ Workers \in Nat \ {0}
    BY PoolTyped, ScenarioAssumption DEF IndInv
  <2>2. pool.errs = <<>>
    BY DEF PoolRuns
  <2>3. Len(pool.errs) = 0
    BY <2>2
  <2>4. \A i \in 1 .. Workers : pool.worker[i] = 0
    BY <2>1, <2>3 DEF PoolRuns
  <2>5. pool.work = 0
    BY <2>1, <2>4 DEF PoolRuns
  <2>6. pool.todo = 0
    BY <2>1, <2>5 DEF PoolRuns
  <2> QED
    BY <2>2, <2>4, <2>5, <2>6 DEF PoolRuns
<1> QED
  BY <1>1, PositionsKept, PTL

-----------------------------------------------------------------------------
(* What is left behind.                                                    *)

\* Every Website is in a namespace, and all that Start leaves behind goes with the
\* owner that it has deleted, unless calls fail.
Reclaimable ==
  /\ web.exists => made["projects"] > 0
  /\ pc = "done" /\ faults = 0 => owner = "deleted" \/ \A k \in Kinds : made[k] = 0

\* Once the owner is deleted nothing is created that would have to go with it.
NothingNew == [][owner = "deleted" => owner' = "deleted" /\ \A k \in Kinds : made'[k] <= made[k]]_vars

\* What Start does to the owner, and to themes and projects.
LEMMA StartLeaves ==
  ASSUME ScenarioInv, Start
  PROVE  /\ \A k \in Kinds : made[k] \in Nat /\ made'[k] >= made[k]
         /\ pc = "done" => UNCHANGED <<pc, owner, made, faults>>
         /\ pc' = "done" /\ faults' = 0 =>
              \/ faults = 0 /\ pc = "done"
              \/ owner' = "deleted"
              \/ \A k \in Kinds : made'[k] = 0
<1>1. made \in [Kinds -> Nat] /\ faults \in Nat /\ MaxFaults \in Nat
  BY ScenarioAssumption DEF ScenarioInv, ScenarioTypes
<1>2. scenario \in Scenarios
  BY DEF ScenarioInv, ScenarioTypes
<1>3. Prepare[1] = "themes" /\ Prepare[2] = "projects"
  BY <1>2, PrepareKinds
<1>4. CASE prepare \/ injectRunIDLabel \/ waitForDeployment \/ DeleteDeadLeases \/ waitForShardLeases
  <2>1. made' = made /\ pc \in {"owner", "inject", "sharder", "webhosting-operator", "delete", "leases"}
    BY <1>4 DEF prepare, injectRunIDLabel, waitForDeployment, DeleteDeadLeases, waitForShardLeases, Components
  <2> QED
    BY <1>1, <2>1 DEF ScenarioInv, Counts
<1>5. CASE EmitWork \/ CollectError \/ NTimesConcurrently \/ \E i \in 1 .. Workers : TakeWork(i)
  <2>1. made' = made /\ pc \in Kinds /\ pc' \in Kinds \cup {"settle", "cleanup"}
    BY <1>3, <1>5 DEF EmitWork, CollectError, NTimesConcurrently, TakeWork, Fail, Kinds
  <2> QED
    BY <1>1, <2>1 DEF Kinds
<1>6. CASE \E i \in 1 .. Workers : RetryOnError(i)
  <2>1. pc \in Kinds /\ pc' = pc
    BY <1>6 DEF RetryOnError
  <2>2. \/ made' = [made EXCEPT !["themes"] = @ + 1]
        \/ made' = [made EXCEPT !["projects"] = @ + 1]
        \/ made' = made
    BY <1>6 DEF RetryOnError, CreateTheme, CreateProject
  <2>3. \A k \in Kinds : made'[k] >= made[k]
    BY <1>1, <2>2
  <2> QED
    BY <1>1, <2>1, <2>3 DEF Kinds
<1>7. CASE AddTracker \/ AddGenerator \/ Wait
  <2>1. made' = made /\ pc \in {"settle", "run", "wait"} /\ pc' # "done"
    BY <1>7 DEF AddTracker, AddGenerator, Wait, Fail
  <2> QED
    BY <1>1, <2>1
<1>8. CASE Cleanup
  <2>1. made' = made /\ pc = "cleanup" /\ (owner' = "deleted" \/ faults' = faults + 1)
    BY <1>8 DEF Cleanup
  <2> QED
    BY <1>1, <2>1
<1>9. CASE StopManager
  BY <1>1, <1>9 DEF StopManager
<1> QED
  BY <1>4, <1>5, <1>6, <1>7, <1>8, <1>9 DEF Start

\* Nobody else creates themes or projects, and a Website only where there is a project.
LEMMA OthersLeave ==
  ASSUME IndInv, Next, ~StartStep
  PROVE  /\ \A k \in Kinds : made'[k] = made[k] \/ (made'[k] = 0 /\ owner = "deleted")
         /\ web'.exists => made'["projects"] > 0 \/ (web.exists /\ made'["projects"] = made["projects"])
<1>1. made \in [Kinds -> Nat] /\ web \in Site
  BY DEF IndInv, ScenarioInv, ScenarioTypes, TrackerInv, Types
<1>2. CASE Generate /\ made' = made
  <2>1. CASE CreateWebsite /\ made["projects"] > 0
    BY <1>2, <2>1
  <2>2. CASE MutateWebsite \/ DeleteWebsite
    <3>1. web'.exists => web.exists
      BY <1>1, <2>2 DEF MutateWebsite, DeleteWebsite, Site
    <3> QED
      BY <1>2, <3>1
  <2> QED
    BY <1>2, <2>1, <2>2 DEF Generate
<1>3. CASE Cluster
  <2>1. CASE UNCHANGED trackerVars /\ made' = made
    BY <2>1 DEF trackerVars
  <2>2. ASSUME NEW k \in Kinds, CollectGarbage(k),
               web' = IF k = "projects" THEN [web EXCEPT !.exists = FALSE] ELSE web
        PROVE  /\ \A c \in Kinds : made'[c] = made[c] \/ (made'[c] = 0 /\ owner = "deleted")
               /\ web'.exists => web.exists /\ made'["projects"] = made["projects"]
    <3>1. owner = "deleted" /\ made' = [made EXCEPT ![k] = 0]
      BY <2>2 DEF CollectGarbage
    <3>2. \A c \in Kinds : made'[c] = made[c] \/ (made'[c] = 0 /\ owner = "deleted")
      BY <1>1, <3>1
    <3>3. k = "projects" => ~web'.exists
      BY <1>1, <2>2 DEF Site
    <3>4. k # "projects" => web' = web /\ made'["projects"] = made["projects"]
      BY <1>1, <2>2, <3>1 DEF Kinds
    <3> QED
      BY <3>2, <3>3, <3>4
  <2> QED
    BY <1>3, <2>1, <2>2 DEF Cluster, RollOut, BecomeReady, terminateRandomShard, triggerRollingUpdate
<1>4. CASE made' = made /\ (web' = web \/ UpdateWebsiteStatus)
  <2>1. web'.exists => web.exists
    BY <1>1, <1>4 DEF UpdateWebsiteStatus, Site
  <2> QED
    BY <1>4, <2>1
<1>5. Interrupt /\ UNCHANGED trackerVars => made' = made /\ web' = web
  BY DEF Interrupt, trackerVars
<1>6. LoseResponse => web' = web
  BY DEF LoseResponse
<1>7. Track => made' = made /\ web' = web
  BY DEF Track, RecordSpecChange, DeliverWebsite, ReconcileObject, setFast, setSlow, scenarioVars
<1>8. UNCHANGED scenarioVars => made' = made
  BY DEF scenarioVars
<1> QED
  BY <1>2, <1>3, <1>4, <1>5, <1>6, <1>7, <1>8 DEF Next

\* The garbage collector can reach all that is left when Start has returned, unless calls
\* fail, and nothing is added although generators still run: CleanedUp without the part
\* that the collector gets its turn.
THEOREM LeavesNothing == Spec => []Reclaimable /\ NothingNew
<1>1. Init => Reclaimable
  BY DEF Init, ScenarioInit, TrackerInit, NoWebsite, Reclaimable
<1>2. IndInv /\ Reclaimable /\ [Next]_vars => Reclaimable'
  <2> SUFFICES ASSUME IndInv, Reclaimable, [Next]_vars PROVE Reclaimable'
    OBVIOUS
  <2>1. made \in [Kinds -> Nat] /\ "projects" \in Kinds /\ faults \in Nat
    BY ScenarioAssumption DEF IndInv, ScenarioInv, ScenarioTypes, Kinds
  <2>2. CASE StartStep
    <3>1. /\ web' = web /\ made'["projects"] >= made["projects"]
          /\ pc = "done" => UNCHANGED <<pc, owner, made, faults>>
          /\ pc' = "done" /\ faults' = 0 =>
               \/ faults = 0 /\ pc = "done"
               \/ owner' = "deleted"
               \/ \A k \in Kinds : made'[k] = 0
      BY <2>1, <2>2, StartLeaves DEF StartStep, IndInv, trackerVars
    <3>2. PICK m, n : m = made["projects"] /\ n = made'["projects"]
      OBVIOUS
    <3>3. m \in Nat /\ n >= m
      BY <2>1, <3>1, <3>2
    <3>4. IndInv'
      BY NextParts
    <3>5. n \in Nat
      BY <2>1, <3>2, <3>4 DEF IndInv, ScenarioInv, ScenarioTypes
    <3>6. web'.exists => made'["projects"] > 0
      BY <3>1, <3>2, <3>3, <3>5 DEF Reclaimable
    <3> QED
      BY <3>1, <3>6 DEF Reclaimable
  <2>3. CASE Next /\ ~StartStep
    <3>1. pc' = pc /\ owner' = owner /\ (faults' = 0 => faults = 0)
      BY <2>1, <2>3, OthersKeep
    <3>2. /\ \A k \in Kinds : made'[k] = made[k] \/ (made'[k] = 0 /\ owner = "deleted")
          /\ web'.exists => made'["projects"] > 0 \/ (web.exists /\ made'["projects"] = made["projects"])
      BY <2>3, OthersLeave
    <3> QED
      BY <3>1, <3>2 DEF Reclaimable
  <2>4. CASE UNCHANGED vars
    BY <2>4 DEF vars, scenarioVars, trackerVars, Reclaimable
  <2> QED
    BY <2>2, <2>3, <2>4
<1>3. IndInv /\ [Next]_vars =>
        [owner = "deleted" => owner' = "deleted" /\ \A k \in Kinds : made'[k] <= made[k]]_vars
  <2> SUFFICES ASSUME IndInv, Next, owner = "deleted"
               PROVE  owner' = "deleted" /\ \A k \in Kinds : made'[k] <= made[k]
    OBVIOUS
  <2>1. made \in [Kinds -> Nat] /\ pc = "done"
    BY DEF IndInv, ScenarioInv, ScenarioTypes, Stages
  <2>2. CASE StartStep
    <3>1. owner' = owner /\ made' = made
      BY <2>1, <2>2, StartLeaves DEF StartStep, IndInv
    <3> QED
      BY <2>1, <3>1
  <2>3. CASE ~StartStep
    BY <2>1, <2>3, OthersKeep, OthersLeave
  <2> QED
    BY <2>2, <2>3
<1> QED
  BY <1>1, <1>2, <1>3, Invariance, PTL DEF Spec, NothingNew

-----------------------------------------------------------------------------
(* Start comes to an end.                                                  *)

\* the stages of Start, counted from the last one
Stage ==
  IF pc = "owner" THEN 12 ELSE IF pc = "inject" THEN 11 ELSE
  IF pc = "sharder" THEN 10 ELSE IF pc = "webhosting-operator" THEN 9 ELSE
  IF pc = "delete" THEN 8 ELSE IF pc = "leases" THEN 7 ELSE IF pc = "themes" THEN 6 ELSE
  IF pc = "projects" THEN 5 ELSE IF pc = "settle" THEN 4 ELSE IF pc = "run" THEN 3 ELSE
  IF pc = "wait" THEN 2 ELSE IF pc = "cleanup" THEN 1 ELSE 0

\* components without the run ID, a wait that has not polled, a manager that is running
Unlabelled == Components \ labelled
Polled == IF lastError THEN 0 ELSE 1
Manager == IF canceled THEN 0 ELSE 1

\* what is left to do, the more important first
Variant ==
  << Stage, Cardinality(Unlabelled), Polled, pool.todo, pool.work, Busy(pool.worker),
     MaxFaults - faults, Len(pool.errs), Cardinality(Unadded), Manager >>

\* some entry is smaller, and none before it larger
Below(u, v) == \E i \in 1 .. 10 : u[i] < v[i] /\ \A j \in 1 .. i - 1 : u[j] <= v[j]

\* the lexicographic order on such sequences of naturals
LessThan == {ss \in Nat \X Nat : ss[1] < ss[2]}
Descent == LexProductOrdering(LessThan, Nat, 10)

\* Every step of Start is one towards its end, and no other step leads away from it.
Descends == [][(~StartStep /\ Variant' = Variant) \/ <<Variant', Variant>> \in Descent]_vars

\* The entries of the variant, now and after a step.
LEMMA Entries ==
  /\ Variant[1] = Stage /\ Variant[2] = Cardinality(Unlabelled) /\ Variant[3] = Polled
  /\ Variant[4] = pool.todo /\ Variant[5] = pool.work /\ Variant[6] = Busy(pool.worker)
  /\ Variant[7] = MaxFaults - faults /\ Variant[8] = Len(pool.errs)
  /\ Variant[9] = Cardinality(Unadded) /\ Variant[10] = Manager
BY DEF Variant

LEMMA NextEntries ==
  /\ Variant'[1] = Stage' /\ Variant'[2] = Cardinality(Unlabelled') /\ Variant'[3] = Polled'
  /\ Variant'[4] = pool'.todo /\ Variant'[5] = pool'.work /\ Variant'[6] = Busy(pool'.worker)
  /\ Variant'[7] = MaxFaults - faults' /\ Variant'[8] = Len(pool'.errs)
  /\ Variant'[9] = Cardinality(Unadded') /\ Variant'[10] = Manager'
BY DEF Variant

\* They are natural numbers.
LEMMA VariantNat ==
  ASSUME ScenarioInv
  PROVE  /\ \A j \in 1 .. 10 : Variant[j] \in Nat
         /\ IsFiniteSet(Unlabelled) /\ IsFiniteSet(Unadded) /\ Unadded \subseteq Nat
<1>1. scenario \in Scenarios /\ pool \in Pool /\ faults \in 0 .. MaxFaults /\ MaxFaults \in Nat
  BY ScenarioAssumption DEF ScenarioInv, ScenarioTypes
<1>2. /\ pool.todo \in Nat /\ pool.work \in Nat /\ pool.errs \in Seq(BOOLEAN)
      /\ pool.worker \in [1 .. Workers -> Nat]
  BY <1>1 DEF Pool
<1>3. Busy(pool.worker) \in Nat
  BY <1>2, BusyCount
<1>4. IsFiniteSet(Unadded) /\ Unadded \subseteq Nat
  BY <1>1, GeneratorsTyped, FS_Subset DEF Unadded
<1>5. IsFiniteSet(Unlabelled)
  <2>1. IsFiniteSet({"sharder"})
    BY FS_Singleton
  <2>2. IsFiniteSet({"sharder"} \cup {"webhosting-operator"})
    BY <2>1, FS_AddElement
  <2>3. Unlabelled \subseteq {"sharder"} \cup {"webhosting-operator"}
    BY DEF Unlabelled, Components
  <2> QED
    BY <2>2, <2>3, FS_Subset
<1>6. Cardinality(Unadded) \in Nat /\ Cardinality(Unlabelled) \in Nat
  BY <1>4, <1>5, FS_CardinalityType
<1>7. Stage \in Nat /\ Polled \in Nat /\ Manager \in Nat
  BY DEF Stage, Polled, Manager
<1>8. MaxFaults - faults \in Nat /\ Len(pool.errs) \in Nat
  BY <1>1, <1>2
<1>9. /\ Variant[1] \in Nat /\ Variant[2] \in Nat /\ Variant[3] \in Nat /\ Variant[4] \in Nat
      /\ Variant[5] \in Nat /\ Variant[6] \in Nat /\ Variant[7] \in Nat /\ Variant[8] \in Nat
      /\ Variant[9] \in Nat /\ Variant[10] \in Nat
  BY <1>2, <1>3, <1>6, <1>7, <1>8, Entries
<1> QED
  BY <1>4, <1>5, <1>9

\* Start goes through its stages in their order.
LEMMA StageDescends ==
  ASSUME Stage' < Stage
  PROVE  Below(Variant', Variant)
<1>1. Variant'[1] < Variant[1]
  BY Entries, NextEntries
<1> QED
  BY <1>1 DEF Below

\* What a step within a stage leaves alone.
LEMMA SameStage ==
  ASSUME ScenarioInv, pc' = pc
  PROVE  /\ Variant'[1] <= Variant[1]
         /\ labelled' = labelled => Variant'[2] <= Variant[2]
         /\ labelled' = labelled /\ lastError' = lastError => Variant'[3] <= Variant[3]
         /\ pool' = pool => Variant'[4] <= Variant[4] /\ Variant'[5] <= Variant[5]
                            /\ Variant'[6] <= Variant[6] /\ Variant'[8] <= Variant[8]
         /\ faults' = faults => Variant'[7] <= Variant[7]
         /\ UNCHANGED <<scenario, load>> => Variant'[9] <= Variant[9]
<1>1. \A j \in 1 .. 10 : Variant[j] \in Nat
  BY VariantNat
<1>2. Stage' = Stage
  BY DEF Stage
<1>3. labelled' = labelled => Unlabelled' = Unlabelled
  BY DEF Unlabelled
<1>4. lastError' = lastError => Polled' = Polled
  BY DEF Polled
<1>5. UNCHANGED <<scenario, load>> => Unadded' = Unadded
  BY DEF Unadded, Generators
<1>6. /\ Variant'[1] = Variant[1]
      /\ labelled' = labelled => Variant'[2] = Variant[2]
      /\ lastError' = lastError => Variant'[3] = Variant[3]
      /\ faults' = faults => Variant'[7] = Variant[7]
      /\ UNCHANGED <<scenario, load>> => Variant'[9] = Variant[9]
  BY <1>2, <1>3, <1>4, <1>5, Entries, NextEntries
<1>7. pool' = pool => /\ Variant'[4] = Variant[4] /\ Variant'[5] = Variant[5]
                      /\ Variant'[6] = Variant[6] /\ Variant'[8] = Variant[8]
  BY Entries, NextEntries
<1> QED
  BY <1>1, <1>6, <1>7

\* The steps of Start outside of the pool.
LEMMA OutsideDescends ==
  ASSUME ScenarioInv, Positions,
         \/ prepare \/ injectRunIDLabel \/ waitForDeployment \/ DeleteDeadLeases \/ waitForShardLeases
         \/ AddTracker \/ AddGenerator \/ Wait \/ Cleanup \/ StopManager
  PROVE  Below(Variant', Variant)
<1>1. scenario \in Scenarios
  BY DEF ScenarioInv, ScenarioTypes
<1>2. Prepare[1] = "themes"
  BY <1>1, PrepareKinds
<1>3. CASE prepare \/ DeleteDeadLeases \/ AddTracker \/ Wait \/ Cleanup
  <2>1. Stage' < Stage
    BY <1>3 DEF prepare, DeleteDeadLeases, AddTracker, Wait, Cleanup, Fail, Kinds, Stage
  <2> QED
    BY <2>1, StageDescends
<1>4. CASE injectRunIDLabel
  <2>1. CASE pc' = "inject"
    <3>1. pc = "inject"
      BY <1>4 DEF injectRunIDLabel
    <3>2. PICK c : c \in Unlabelled /\ labelled' = labelled \cup {c}
      <4>1. labelled \subseteq Components /\ labelled # Components
        BY <3>1 DEF Positions
      <4> DEFINE d == IF "sharder" \in labelled THEN "webhosting-operator" ELSE "sharder"
      <4>2. labelled' = labelled \cup {d}
        BY <1>4, <2>1, <3>1 DEF injectRunIDLabel, Fail, Kinds
      <4>3. d \in Unlabelled
        BY <4>1 DEF Unlabelled, Components
      <4> QED
        BY <4>2, <4>3
    <3>3. Unlabelled' = Unlabelled \ {c}
      BY <3>2 DEF Unlabelled
    <3>4. IsFiniteSet(Unlabelled) /\ Cardinality(Unlabelled) \in Nat
      BY VariantNat, FS_CardinalityType
    <3>5. Cardinality(Unlabelled') = Cardinality(Unlabelled) - 1
      BY <3>2, <3>3, <3>4, FS_RemoveElement
    <3>6. Variant'[2] < Variant[2] /\ Variant'[1] <= Variant[1]
      BY <2>1, <3>1, <3>4, <3>5, SameStage, Entries, NextEntries
    <3> QED
      BY <3>6 DEF Below
  <2>2. CASE pc' # "inject"
    <3>1. Stage' < Stage
      BY <1>4, <2>2 DEF injectRunIDLabel, Fail, Kinds, Stage
    <3> QED
      BY <3>1, StageDescends
  <2> QED
    BY <2>1, <2>2
<1>5. CASE waitForDeployment \/ waitForShardLeases
  <2>1. CASE pc' = pc
    <3>1. ~lastError /\ lastError' /\ labelled' = labelled
      BY <1>2, <1>5, <2>1 DEF waitForDeployment, waitForShardLeases, PollUntilContextTimeout, Fail, Kinds, Components
    <3>2. Polled' < Polled
      BY <3>1 DEF Polled
    <3>3. Variant'[3] < Variant[3] /\ Variant'[2] <= Variant[2] /\ Variant'[1] <= Variant[1]
      BY <2>1, <3>1, <3>2, SameStage, Entries, NextEntries
    <3> QED
      BY <3>3 DEF Below
  <2>2. CASE pc' # pc
    <3>1. Stage' < Stage
      BY <1>2, <1>5, <2>2 DEF waitForDeployment, waitForShardLeases, PollUntilContextTimeout, Fail, Kinds,
                                    Components, Stage
    <3> QED
      BY <3>1, StageDescends
  <2> QED
    BY <2>1, <2>2
<1>6. CASE AddGenerator
  <2>1. CASE pc' = pc
    <3>1. /\ pc = "run" /\ UNCHANGED <<scenario, lastError, labelled, pool, faults>>
          /\ load' = load \cup {Generators[Min(Unadded)]}
      BY <1>6, <2>1 DEF AddGenerator, Fail, Kinds, Unadded, Generators
    <3>2. IsFiniteSet(Unadded) /\ Unadded \subseteq Nat /\ Unadded # {} /\ Cardinality(Unadded) \in Nat
      BY <3>1, VariantNat, FS_CardinalityType DEF Positions
    <3>3. Min(Unadded) \in Unadded
      BY <3>2, Least
    <3>4. Unadded' \subseteq Unadded /\ Unadded' # Unadded
      <4>1. PICK m \in Unadded : m = Min(Unadded)
        BY <3>3
      <4>2. m \notin Unadded'
        BY <3>1, <4>1 DEF Unadded, Generators
      <4>3. Unadded' \subseteq Unadded
        BY <3>1 DEF Unadded, Generators
      <4> QED
        BY <4>2, <4>3
    <3>5. Cardinality(Unadded') < Cardinality(Unadded)
      <4>1. PICK S, T : S = Unadded /\ T = Unadded'
        OBVIOUS
      <4>2. IsFiniteSet(S) /\ T \subseteq S /\ T # S /\ Cardinality(S) \in Nat
        BY <3>2, <3>4, <4>1
      <4>3. Cardinality(T) \in Nat /\ Cardinality(T) <= Cardinality(S) /\ Cardinality(T) # Cardinality(S)
        BY <4>2, FS_Subset, FS_CardinalityType
      <4> QED
        BY <4>1, <4>2, <4>3
    <3>6. Variant'[9] < Variant[9]
      BY <3>5, Entries, NextEntries
    <3>7. \A j \in 1 .. 8 : Variant'[j] <= Variant[j]
      BY <2>1, <3>1, SameStage
    <3> QED
      BY <3>6, <3>7 DEF Below
  <2>2. CASE pc' # pc
    <3>1. Stage' < Stage
      BY <1>6, <2>2 DEF AddGenerator, Fail, Kinds, Stage
    <3> QED
      BY <3>1, StageDescends
  <2> QED
    BY <2>1, <2>2
<1>7. CASE StopManager
  <2>1. UNCHANGED <<scenario, pc, lastError, labelled, pool, load, faults>> /\ ~canceled /\ canceled'
    BY <1>7 DEF StopManager
  <2>2. Variant'[10] < Variant[10]
    BY <2>1, Entries, NextEntries DEF Manager
  <2>3. \A j \in 1 .. 9 : Variant'[j] <= Variant[j]
    BY <2>1, SameStage
  <2> QED
    BY <2>2, <2>3 DEF Below
<1> QED
  BY <1>3, <1>4, <1>5, <1>6, <1>7

\* The steps of NTimesConcurrently.
LEMMA PoolDescends ==
  ASSUME ScenarioInv,
         \/ EmitWork \/ CollectError \/ NTimesConcurrently
         \/ \E i \in 1 .. Workers : TakeWork(i) \/ RetryOnError(i)
  PROVE  Below(Variant', Variant)
<1>1. scenario \in Scenarios /\ pc \in Kinds
  BY DEF ScenarioInv, ScenarioTypes, EmitWork, CollectError, NTimesConcurrently, TakeWork, RetryOnError
<1>2. Prepare[1] = "themes" /\ Prepare[2] = "projects"
  BY <1>1, PrepareKinds
<1>3. /\ pool \in Pool /\ pool.todo \in Nat /\ pool.work \in Nat /\ pool.errs \in Seq(BOOLEAN)
      /\ pool.worker \in [1 .. Workers -> Nat] /\ Busy(pool.worker) \in Nat /\ Len(pool.errs) \in Nat
      /\ faults \in Nat /\ MaxFaults \in Nat
  BY <1>1, PoolTyped, ScenarioAssumption DEF ScenarioInv, ScenarioTypes
<1>4. CASE NTimesConcurrently
  <2>1. Stage' < Stage
    BY <1>2, <1>4 DEF NTimesConcurrently, Fail, Kinds, Stage
  <2> QED
    BY <2>1, StageDescends
<1>5. ASSUME pc' = pc, UNCHANGED poolVars
      PROVE  Variant'[1] <= Variant[1] /\ Variant'[2] <= Variant[2] /\ Variant'[3] <= Variant[3]
  BY <1>5, SameStage DEF poolVars
<1>6. CASE EmitWork
  <2>1. pool'.todo = pool.todo - 1
    BY <1>3, <1>6 DEF EmitWork, Pool
  <2>2. Variant'[4] < Variant[4]
    BY <1>3, <2>1, Entries, NextEntries
  <2> QED
    BY <1>5, <1>6, <2>2 DEF EmitWork, Below
<1>7. CASE CollectError
  <2>1. /\ pool.errs # <<>> /\ UNCHANGED <<poolVars, pc, faults>>
        /\ pool' = [pool EXCEPT !.errs = Tail(@), !.failed = @ \/ Head(pool.errs)]
    BY <1>7 DEF CollectError
  <2>2. pool'.todo = pool.todo /\ pool'.work = pool.work /\ pool'.worker = pool.worker /\ pool'.errs = Tail(pool.errs)
    BY <1>3, <2>1 DEF Pool
  <2>3. PICK q \in Seq(BOOLEAN) : q = pool.errs /\ q # <<>>
    BY <1>3, <2>1
  <2>4. Len(Tail(q)) < Len(q)
    <3>1. Len(q) \in Nat \ {0}
      BY <2>3, EmptySeq, Zenon
    <3>2. Len(Tail(q)) = Len(q) - 1
      BY <2>3, HeadTailProperties
    <3> QED
      BY <3>1, <3>2
  <2>5. Variant'[8] < Variant[8]
    BY <2>2, <2>3, <2>4, Entries, NextEntries
  <2>6. /\ Variant'[4] = Variant[4] /\ Variant'[5] = Variant[5] /\ Variant'[6] = Variant[6]
        /\ Variant'[7] = Variant[7]
    BY <2>1, <2>2, Entries, NextEntries
  <2>7. \A j \in 4 .. 7 : Variant'[j] <= Variant[j]
    <3>1. Variant[4] \in Int /\ Variant[5] \in Int /\ Variant[6] \in Int /\ Variant[7] \in Int
      BY <1>3, Entries
    <3>2. /\ Variant'[4] <= Variant[4] /\ Variant'[5] <= Variant[5] /\ Variant'[6] <= Variant[6]
          /\ Variant'[7] <= Variant[7]
      BY <2>6, <3>1
    <3> QED
      BY <3>2
  <2>8. pc' = pc /\ UNCHANGED poolVars
    BY <2>1
  <2>9. \A j \in 1 .. 7 : Variant'[j] <= Variant[j]
    BY <1>5, <2>7, <2>8
  <2> QED
    BY <2>5, <2>9 DEF Below
<1>8. ASSUME NEW i \in 1 .. Workers, TakeWork(i) PROVE Below(Variant', Variant)
  <2>1. UNCHANGED <<poolVars, pc>> /\ pool'.work = pool.work - 1 /\ pool'.todo = pool.todo
    BY <1>3, <1>8 DEF TakeWork, Pool
  <2>2. Variant'[5] < Variant[5] /\ Variant'[4] <= Variant[4]
    BY <1>3, <2>1, Entries, NextEntries
  <2> QED
    BY <1>5, <2>1, <2>2 DEF Below
<1>9. ASSUME NEW i \in 1 .. Workers, RetryOnError(i) PROVE Below(Variant', Variant)
  <2>1. UNCHANGED <<poolVars, pc>> /\ pool.worker[i] > 0 /\ pool.worker[i] \in Nat
    BY <1>3, <1>9 DEF RetryOnError
  <2>2. PICK n \in Nat :
          /\ pool'.worker = [pool.worker EXCEPT ![i] = n] /\ pool'.todo = pool.todo /\ pool'.work = pool.work
          /\ n = 0 \/ (faults' = faults + 1)
    <3>1. CASE pool' = [pool EXCEPT !.worker[i] = @ + 1] /\ ~canceled /\ Fails
      <4>1. pool'.worker = [pool.worker EXCEPT ![i] = pool.worker[i] + 1] /\ pool'.todo = pool.todo /\ pool'.work = pool.work
        BY <1>3, <3>1 DEF Pool
      <4>2. faults' = faults + 1 /\ pool.worker[i] + 1 \in Nat
        BY <2>1, <3>1 DEF Fails
      <4> QED
        BY <4>1, <4>2
    <3>2. ASSUME NEW e, pool' = [pool EXCEPT !.worker[i] = 0, !.errs = Append(@, e)]
          PROVE  pool'.worker = [pool.worker EXCEPT ![i] = 0] /\ pool'.todo = pool.todo /\ pool'.work = pool.work
      BY <1>3, <3>2 DEF Pool
    <3> QED
      BY <1>9, <3>1, <3>2 DEF RetryOnError
  <2>3. PICK f : f = pool'.worker
    OBVIOUS
  <2>4. f \in [1 .. Workers -> Nat] /\ f[i] = n /\ \A j \in 1 .. Workers : j # i => f[j] = pool.worker[j]
    BY <1>3, <2>2, <2>3
  <2>5. (n = 0 => Busy(f) = Busy(pool.worker) - 1) /\ (n # 0 => Busy(f) = Busy(pool.worker))
    <3>1. PICK g \in [1 .. Workers -> Nat] : g = pool.worker
      BY <1>3
    <3>2. g[i] # 0 /\ f[i] = n /\ \A j \in 1 .. Workers : j # i => f[j] = g[j]
      BY <2>1, <2>4, <3>1
    <3>3. /\ g[i] # 0 /\ n = 0 => Busy(f) = Busy(g) - 1
          /\ g[i] # 0 /\ n # 0 => Busy(f) = Busy(g)
      BY <2>4, <3>2, BusyUpdate
    <3> QED
      BY <3>1, <3>2, <3>3
  <2>6. Variant'[4] <= Variant[4] /\ Variant'[5] <= Variant[5]
    BY <1>3, <2>2, Entries, NextEntries
  <2>7. CASE n = 0
    <3>1. Variant'[6] < Variant[6]
      BY <1>3, <2>3, <2>5, <2>7, Entries, NextEntries
    <3> QED
      BY <1>5, <2>1, <2>6, <3>1 DEF Below
  <2>8. CASE n # 0
    <3>1. Variant'[6] <= Variant[6]
      BY <1>3, <2>3, <2>5, <2>8, Entries, NextEntries
    <3>2. Variant'[7] < Variant[7]
      BY <1>3, <2>2, <2>8, Entries, NextEntries
    <3> QED
      BY <1>5, <2>1, <2>6, <3>1, <3>2 DEF Below
  <2> QED
    BY <2>7, <2>8
<1> QED
  BY <1>4, <1>6, <1>7, <1>8, <1>9

\* There is no infinite descent.
LEMMA DescentWellFounded == IsWellFoundedOn(Descent, [1 .. 10 -> Nat])
<1>1. IsWellFoundedOn(LessThan, Nat)
  BY NatLessThanWellFounded DEF OpToRel, LessThan
<1> QED
  BY <1>1, WFLexProductOrdering DEF Descent

\* The first entry that differs is smaller.
LEMMA BelowIsLess ==
  ASSUME NEW u \in [1 .. 10 -> Nat], NEW v \in [1 .. 10 -> Nat], Below(u, v)
  PROVE  <<u, v>> \in Descent
<1>1. PICK i \in 1 .. 10 : u[i] < v[i] /\ \A j \in 1 .. i - 1 : u[j] <= v[j]
  BY DEF Below
<1> DEFINE S == {k \in 1 .. 10 : u[k] # v[k]}
<1>2. i \in S /\ S \subseteq Nat
  BY <1>1
<1>3. PICK k \in S : \A j \in S : k <= j
  <2> HIDE DEF S
  <2> QED
    BY <1>2, Least
<1>4. \A j \in 1 .. k - 1 : u[j] = v[j]
  <2> SUFFICES ASSUME NEW j \in 1 .. k - 1 PROVE u[j] = v[j]
    OBVIOUS
  <2>1. j \in 1 .. 10 /\ ~(k <= j)
    OBVIOUS
  <2> QED
    BY <1>3, <2>1
<1>5. k \in 1 .. 10 /\ u[k] \in Nat /\ v[k] \in Nat /\ u[k] < v[k]
  <2>1. k \in 1 .. 10 /\ u[k] # v[k] /\ k <= i
    BY <1>2, <1>3
  <2>2. CASE k = i
    BY <1>1, <2>1, <2>2
  <2>3. CASE k # i
    <3>1. k \in 1 .. i - 1
      BY <2>1, <2>3
    <3> QED
      BY <1>1, <2>1, <3>1
  <2> QED
    BY <2>2, <2>3
<1>6. <<u[k], v[k]>> \in LessThan
  BY <1>5 DEF LessThan
<1> QED
  BY <1>4, <1>5, <1>6 DEF Descent, LexProductOrdering

\* Every step of Start and of its workers comes down in an order without infinite descent
\* (DescentWellFounded), and nobody else, neither the cluster nor generators, tracker or
\* an interruption, leads back up: with NotStuck, Start returns and the manager stops after
\* finitely many steps of it, for any number of workers, objects, retries and failures.
THEOREM Terminating == Spec => Descends
<1>1. ASSUME IndInv PROVE Variant \in [1 .. 10 -> Nat]
  <2>1. Variant = [j \in 1 .. 10 |-> Variant[j]]
    BY DEF Variant
  <2>2. \A j \in 1 .. 10 : Variant[j] \in Nat
    BY <1>1, VariantNat DEF IndInv
  <2> QED
    BY <2>1, <2>2
<1>2. IndInv => Variant \in [1 .. 10 -> Nat]
  BY <1>1
<1>3. (IndInv => Variant \in [1 .. 10 -> Nat])'
  BY <1>2, PTL
<1>4. IndInv /\ Positions /\ IndInv' /\ [Next]_vars =>
        [(~StartStep /\ Variant' = Variant) \/ <<Variant', Variant>> \in Descent]_vars
  <2> SUFFICES ASSUME IndInv, Positions, IndInv', Next
               PROVE  <<Variant', Variant>> \in Descent \/ (~StartStep /\ Variant' = Variant)
    OBVIOUS
  <2>1. PICK u \in [1 .. 10 -> Nat], v \in [1 .. 10 -> Nat] : u = Variant' /\ v = Variant
    BY <1>2, <1>3
  <2>2. ASSUME Below(Variant', Variant) PROVE <<Variant', Variant>> \in Descent
    BY <2>1, <2>2, BelowIsLess
  <2>3. CASE StartStep
    BY <2>2, <2>3, OutsideDescends, PoolDescends DEF IndInv, StartStep, Start
  <2>4. CASE ~StartStep
    <3>1. UNCHANGED <<scenario, pc, lastError, labelled, pool, load>>
      BY <2>4, OthersKeep
    <3>2. ScenarioInv
      BY DEF IndInv
    <3>3. CASE canceled' /\ ~canceled /\ faults' = faults
      <4>1. Variant'[10] < Variant[10]
        BY <3>3, Entries, NextEntries DEF Manager
      <4>2. \A j \in 1 .. 9 : Variant'[j] <= Variant[j]
        BY <3>1, <3>2, <3>3, SameStage
      <4>3. Below(Variant', Variant)
        BY <4>1, <4>2 DEF Below
      <4> QED
        BY <2>2, <4>3
    <3>4. CASE faults' = faults + 1
      <4>1. faults \in Nat /\ MaxFaults \in Nat
        BY <3>2, ScenarioAssumption DEF ScenarioInv, ScenarioTypes
      <4>2. Variant'[7] < Variant[7]
        <5>1. Variant[7] = MaxFaults - faults /\ Variant'[7] = MaxFaults - faults'
          BY Entries, NextEntries
        <5> QED
          BY <3>4, <4>1, <5>1
      <4>3. \A j \in 1 .. 6 : Variant'[j] <= Variant[j]
        BY <3>1, <3>2, SameStage
      <4>4. Below(Variant', Variant)
        BY <4>2, <4>3 DEF Below
      <4> QED
        BY <2>2, <4>4
    <3>5. CASE UNCHANGED <<canceled, faults>>
      <4>1. Variant' = Variant
        BY <3>1, <3>5 DEF Variant, Stage, Unlabelled, Polled, Unadded, Generators, Manager
      <4> QED
        BY <2>4, <4>1
    <3> QED
      BY <2>4, <3>3, <3>4, <3>5, OthersKeep
  <2> QED
    BY <2>3, <2>4
<1> QED
  BY <1>4, PositionsKept, PTL DEF Spec, Descends
===============================================================================
