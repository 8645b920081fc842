------------------------------ MODULE Scenario ------------------------------
(***************************************************************************)
(* One run of an experiment scenario (scenario/base and the delegates):    *)
(* Start prepares the observed components, creates themes and projects     *)
(* with a pool of workers (NTimesConcurrently), adds the load generators   *)
(* to the manager, waits, and deletes the owner of all that it created.    *)
(* The experiment may be interrupted at any time.                          *)
(***************************************************************************)
EXTENDS Integers, Sequences, FiniteSetsExt

CONSTANTS Scenarios,   \* subset of {"basic", "chaos", "rolling-update", "scale-out"}
          N,           \* number of objects of each kind that Prepare creates
          Workers,     \* workers of NTimesConcurrently
          Retries,     \* of RetryOnError
          MaxFaults    \* bound on failing API calls

VARIABLES scenario,   \* name of the selected scenario
          pc,         \* where Start is
          lastError,  \* lastError of the running wait
          labelled,   \* observed components that have the run ID
          rolledOut,  \* components that are rolled out with it
          leases,     \* all shard leases are ready
          owner,      \* the owner object: "none", "present" or "deleted"
          made,       \* number of themes and projects in the API server
          pool,       \* running NTimesConcurrently
          load,       \* controllers that were added to the manager
          err,        \* Start's error
          canceled,   \* the manager's context is canceled
          faults

scenarioVars == <<scenario, pc, lastError, labelled, rolledOut, leases, owner, made, pool,
                  load, err, canceled, faults>>

Components == {"sharder", "webhosting-operator"}

Kinds == {"themes", "projects"}

ASSUME ScenarioAssumption ==
  /\ Scenarios \subseteq {"basic", "chaos", "rolling-update", "scale-out"}
  /\ N \in [Kinds -> Nat \ {0}]
  /\ Workers \in Nat \ {0} /\ Retries \in Nat /\ MaxFaults \in Nat

(* What the delegates create in Prepare, and what controllers they add to  *)
(* the manager in Run, in this order.                                      *)

basic ==
  [Prepare |-> <<"themes", "projects">>,
   Run     |-> <<"website-generator", "website-deleter", "website-mutator">>]

chaos ==
  [Prepare |-> <<"themes", "projects">>,
   Run     |-> <<"website-generator", "website-mutator", "shard-terminator">>]

rollingUpdate ==
  [Prepare |-> <<"themes", "projects">>,
   Run     |-> <<"website-generator", "website-deleter", "website-mutator", "rolling-updater">>]

scaleOut ==
  [Prepare |-> <<"themes", "projects">>,
   Run     |-> <<"website-generator", "website-mutator">>]

Delegate(name) ==
  CASE name = "basic" -> basic
    [] name = "chaos" -> chaos
    [] name = "rolling-update" -> rollingUpdate
    [] name = "scale-out" -> scaleOut

Prepare == Delegate(scenario).Prepare

\* worker: 0 if it waits for work, else the attempt that it makes
NewPool(n) ==
  [todo |-> n, work |-> 0, worker |-> [i \in 1 .. Workers |-> 0], errs |-> <<>>, failed |-> FALSE]

ScenarioInit ==
  /\ scenario \in Scenarios
  /\ pc = "owner" /\ lastError = FALSE
  /\ labelled = {} /\ rolledOut = {} /\ leases = FALSE
  /\ owner = "none" /\ made = [k \in Kinds |-> 0] /\ pool = NewPool(0)
  /\ load = {} /\ err = FALSE /\ canceled = FALSE /\ faults = 0

\* An API call with Start's context fails when that is canceled.
Succeeds == ~canceled /\ UNCHANGED faults
Fails == IF canceled THEN UNCHANGED faults ELSE faults < MaxFaults /\ faults' = faults + 1

\* Start returns the error; before prepare has returned there is no cleanup.
Fail == err' = TRUE /\ pc' = IF pc \in Kinds \cup {"settle", "run", "wait"} THEN "cleanup" ELSE "done"

-----------------------------------------------------------------------------
(* prepare                                                                 *)

CreateClusterScopedOwnerObject == owner' = "present"

prepare ==
  /\ pc = "owner"
  /\ \/ Succeeds /\ CreateClusterScopedOwnerObject /\ pc' = "inject" /\ UNCHANGED err
     \/ Fails /\ Fail /\ UNCHANGED owner
  /\ UNCHANGED <<scenario, lastError, labelled, rolledOut, leases, made, pool, load, canceled>>

\* The new label rolls the component out again; its shards get new leases.
injectRunIDLabel ==
  /\ pc = "inject"
  /\ LET c == IF "sharder" \in labelled THEN "webhosting-operator" ELSE "sharder" IN
     \/ /\ Succeeds /\ labelled' = labelled \cup {c}
        /\ pc' = IF labelled' = Components THEN "sharder" ELSE "inject"
        /\ UNCHANGED err
     \/ Fails /\ Fail /\ UNCHANGED labelled
  /\ UNCHANGED <<scenario, lastError, rolledOut, leases, owner, made, pool, load, canceled>>

\* mutant: a wait that expires is not an error
PollUntilContextTimeoutLenient(ready, next) ==
  \/ Succeeds /\ ready /\ pc' = next /\ lastError' = FALSE /\ UNCHANGED err
  \/ Succeeds /\ ~ready /\ ~lastError /\ lastError' = TRUE /\ UNCHANGED <<pc, err>>
  \/ Fails /\ Fail /\ UNCHANGED lastError
  \/ lastError /\ pc' = next /\ lastError' = FALSE /\ UNCHANGED <<faults, err>>

\* One poll, a failing poll, or the end of the context or of the two minutes:
\* then lastError is returned, which is nil if there was no poll before.
PollUntilContextTimeout(ready, next) ==
  \/ Succeeds /\ ready /\ pc' = next /\ lastError' = FALSE /\ UNCHANGED err
  \/ Succeeds /\ ~ready /\ ~lastError /\ lastError' = TRUE /\ UNCHANGED <<pc, err>>
  \/ ~canceled /\ Fails /\ Fail /\ UNCHANGED lastError
  \/ lastError /\ Fail /\ UNCHANGED <<faults, lastError>>
  \/ canceled /\ ~lastError /\ pc' = next /\ UNCHANGED <<faults, lastError, err>>

\* one component after the other; the cache has seen the label after two seconds
waitForDeployment ==
  /\ pc \in Components
  /\ PollUntilContextTimeout(pc \in rolledOut,
                             IF pc = "sharder" THEN "webhosting-operator" ELSE "delete")
  /\ UNCHANGED <<scenario, labelled, rolledOut, leases, owner, made, pool, load, canceled>>

DeleteDeadLeases ==
  /\ pc = "delete"
  /\ \/ Succeeds /\ pc' = "leases" /\ UNCHANGED err
     \/ Fails /\ Fail
  /\ UNCHANGED <<scenario, lastError, labelled, rolledOut, leases, owner, made, pool, load, canceled>>

\* A lease that is not ready keeps Start waiting; while there is none at all,
\* the list is empty and nothing does.
waitForShardLeases ==
  /\ pc = "leases"
  /\ \E ready \in {TRUE, leases} : PollUntilContextTimeout(ready, Prepare[1])
  /\ pool' = IF pc' = Prepare[1] THEN NewPool(N[Prepare[1]]) ELSE pool
  /\ UNCHANGED <<scenario, labelled, rolledOut, leases, owner, made, load, canceled>>

-----------------------------------------------------------------------------
(* Delegate.Prepare: CreateThemes, then CreateProjects.                    *)

poolVars == <<scenario, lastError, labelled, rolledOut, leases, owner, load, canceled>>

\* mutant: the channel is taken to be unbounded
EmitWorkUnbounded ==
  /\ pc \in Kinds /\ pool.todo > 0
  /\ pool' = [pool EXCEPT !.todo = @ - 1, !.work = @ + 1]
  /\ UNCHANGED <<poolVars, pc, made, err, faults>>

EmitWork ==
  /\ pc \in Kinds /\ pool.todo > 0 /\ pool.work < Workers
  /\ pool' = [pool EXCEPT !.todo = @ - 1, !.work = @ + 1]
  /\ UNCHANGED <<poolVars, pc, made, err, faults>>

TakeWork(i) ==
  /\ pc \in Kinds /\ pool.work > 0 /\ pool.worker[i] = 0
  /\ pool' = [pool EXCEPT !.work = @ - 1, !.worker[i] = 1]
  /\ UNCHANGED <<poolVars, pc, made, err, faults>>

CreateTheme == made' = [made EXCEPT !["themes"] = @ + 1]

CreateProject == made' = [made EXCEPT !["projects"] = @ + 1]

\* do: one attempt.  AlreadyExists is retried up to Retries times; the worker
\* sends the result when there is room in the channel.
RetryOnError(i) ==
  /\ pc \in Kinds /\ pool.worker[i] > 0
  /\ \/ /\ Succeeds /\ Len(pool.errs) < Workers
        /\ IF pc = "themes" THEN CreateTheme ELSE CreateProject
        /\ pool' = [pool EXCEPT !.worker[i] = 0, !.errs = Append(@, FALSE)]
     \/ /\ ~canceled /\ Fails /\ pool.worker[i] <= Retries
        /\ pool' = [pool EXCEPT !.worker[i] = @ + 1]
        /\ UNCHANGED made
     \/ /\ Fails /\ Len(pool.errs) < Workers
        /\ pool' = [pool EXCEPT !.worker[i] = 0, !.errs = Append(@, TRUE)]
        /\ UNCHANGED made
  /\ UNCHANGED <<poolVars, pc, err>>

\* mutant: the collector leaves after the first error
CollectErrorFirst ==
  /\ pc \in Kinds /\ pool.errs # <<>> /\ ~pool.failed
  /\ pool' = [pool EXCEPT !.errs = Tail(@), !.failed = @ \/ Head(pool.errs)]
  /\ UNCHANGED <<poolVars, pc, made, err, faults>>

CollectError ==
  /\ pc \in Kinds /\ pool.errs # <<>>
  /\ pool' = [pool EXCEPT !.errs = Tail(@), !.failed = @ \/ Head(pool.errs)]
  /\ UNCHANGED <<poolVars, pc, made, err, faults>>

\* The workers are gone, the collector has seen all results.
NTimesConcurrently ==
  /\ pc \in Kinds
  /\ pool.todo = 0 /\ pool.work = 0 /\ pool.errs = <<>> /\ \A i \in 1 .. Workers : pool.worker[i] = 0
  /\ IF pool.failed THEN Fail
                    ELSE UNCHANGED err /\ pc' = IF pc = Prepare[1] THEN Prepare[2] ELSE "settle"
  /\ pool' = IF pc' = Prepare[2] THEN NewPool(N[Prepare[2]]) ELSE pool
  /\ UNCHANGED <<poolVars, made, faults>>

-----------------------------------------------------------------------------
(* Run, cleanup and the manager.                                           *)

\* 30 seconds pass; the tracker is added before any load.
AddTracker ==
  /\ pc = "settle"
  /\ \/ Succeeds /\ load' = {"website-tracker"} /\ pc' = "run" /\ UNCHANGED err
     \/ Fails /\ Fail /\ UNCHANGED load
  /\ UNCHANGED <<scenario, lastError, labelled, rolledOut, leases, owner, made, pool, canceled>>

\* Controllers start when they are added.  The context is not looked at.
AddGenerator ==
  /\ pc = "run"
  /\ LET all  == Delegate(scenario).Run
         next == all[Min({i \in DOMAIN all : all[i] \notin load})]
     IN \/ /\ load' = load \cup {next}
           /\ pc' = IF \A i \in DOMAIN all : all[i] \in load' THEN "wait" ELSE "run"
           /\ UNCHANGED <<faults, err>>
        \/ ~canceled /\ Fails /\ Fail /\ UNCHANGED load
  /\ UNCHANGED <<scenario, lastError, labelled, rolledOut, leases, owner, made, pool, canceled>>

\* 15 minutes pass, or the context ends
Wait ==
  /\ pc = "wait"
  /\ IF canceled THEN Fail ELSE pc' = "cleanup" /\ UNCHANGED err
  /\ UNCHANGED <<scenario, lastError, labelled, rolledOut, leases, owner, made, pool, load, canceled, faults>>

\* mutant: the deletion uses Start's context
CleanupSameContext ==
  /\ pc = "cleanup"
  /\ pc' = "done"
  /\ \/ Succeeds /\ owner' = "deleted" /\ UNCHANGED err
     \/ Fails /\ err' = TRUE /\ UNCHANGED owner
  /\ UNCHANGED <<scenario, lastError, labelled, rolledOut, leases, made, pool, load, canceled>>

\* with a context of its own
Cleanup ==
  /\ pc = "cleanup"
  /\ pc' = "done"
  /\ \/ owner' = "deleted" /\ UNCHANGED <<faults, err>>
     \/ faults < MaxFaults /\ faults' = faults + 1 /\ err' = TRUE /\ UNCHANGED owner
  /\ UNCHANGED <<scenario, lastError, labelled, rolledOut, leases, made, pool, load, canceled>>

\* The scenario is done or has failed: the manager stops, a minute later.
StopManager ==
  /\ pc = "done" /\ ~canceled
  /\ canceled' = TRUE
  /\ UNCHANGED <<scenario, pc, lastError, labelled, rolledOut, leases, owner, made, pool, load, err, faults>>

\* the experiment is interrupted
Interrupt ==
  /\ pc # "done" /\ ~canceled
  /\ canceled' = TRUE
  /\ UNCHANGED <<scenario, pc, lastError, labelled, rolledOut, leases, owner, made, pool, load, err, faults>>

-----------------------------------------------------------------------------
(* The cluster.                                                            *)

clusterVars == <<scenario, pc, lastError, labelled, owner, pool, load, err, canceled, faults>>

RollOut(c) ==
  /\ c \in labelled \ rolledOut
  /\ rolledOut' = rolledOut \cup {c}
  /\ UNCHANGED <<clusterVars, leases, made>>

BecomeReady ==
  /\ "webhosting-operator" \in rolledOut /\ ~leases
  /\ leases' = TRUE
  /\ UNCHANGED <<clusterVars, rolledOut, made>>

\* Themes and projects go with their owner.
CollectGarbage(k) ==
  /\ owner = "deleted" /\ made[k] > 0
  /\ made' = [made EXCEPT ![k] = 0]
  /\ UNCHANGED <<clusterVars, rolledOut, leases>>

\* The pod of some shard is deleted and replaced by a new one.
terminateRandomShard ==
  /\ "shard-terminator" \in load /\ ~canceled /\ leases
  /\ leases' = FALSE
  /\ UNCHANGED <<clusterVars, rolledOut, made>>

triggerRollingUpdate ==
  /\ "rolling-updater" \in load /\ ~canceled
  /\ "webhosting-operator" \in rolledOut
  /\ leases' = FALSE
  /\ rolledOut' = rolledOut \ {"webhosting-operator"}
  /\ UNCHANGED <<clusterVars, made>>

-----------------------------------------------------------------------------
ScenarioTypeOK ==
  /\ pc \in Components \cup Kinds \cup {"owner", "inject", "delete", "leases", "settle", "run",
                                       "wait", "cleanup", "done"}
  /\ owner \in {"none", "present", "deleted"}
  /\ \A k \in Kinds : made[k] \in 0 .. N[k]
  /\ pool.work \in 0 .. Workers /\ pool.errs \in UNION {[1 .. i -> BOOLEAN] : i \in 0 .. Workers}
  /\ \A i \in 1 .. Workers : pool.worker[i] \in 0 .. Retries + 1
  /\ faults \in 0 .. MaxFaults

Start ==
  \/ prepare \/ injectRunIDLabel \/ waitForDeployment
  \/ DeleteDeadLeases \/ waitForShardLeases
  \/ EmitWork \/ CollectError \/ NTimesConcurrently
  \/ \E i \in 1 .. Workers : TakeWork(i) \/ RetryOnError(i)
  \/ AddTracker \/ AddGenerator \/ Wait \/ Cleanup \/ StopManager

\* A run that gets as far as generating load has what it needs: all themes and
\* projects exist until the cleanup, and the components have been rolled out
\* with the run ID, although waits that end with the context report success.
\* It is not promised that there are shards: no lease is as good as ready ones
\* to waitForShardLeases.
LoadIsPrepared ==
  pc \in {"settle", "run", "wait"} =>
    /\ made = N
    /\ labelled = Components
    /\ load \subseteq {"website-tracker"} => rolledOut = Components
=============================================================================
