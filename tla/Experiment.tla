----------------------------- MODULE Experiment -----------------------------
(***************************************************************************)
(* The experiment: a scenario and the tracker of one of its Websites.  The *)
(* scenario's load generators create, change and delete the Website from   *)
(* the moment they are added to the manager until the manager stops, which *)
(* is some time after the scenario has cleaned up.                         *)
(***************************************************************************)
EXTENDS Scenario, Tracker

vars == <<scenarioVars, trackerVars>>

Init == ScenarioInit /\ TrackerInit

\* Once the manager's context is canceled nothing is requeued.
StopOnContextCanceled == ~canceled

\* Requests are requeued whatever Do returns.
Every(name) == name \in load /\ StopOnContextCanceled

\* The same for each Website that is cached; one that is gone is forgotten.
ForEach(name) == name \in load /\ StopOnContextCanceled

\* Without themes there is nothing to do, without namespaces it is an error.
Generate ==
  \/ Every("website-generator") /\ made["themes"] > 0 /\ made["projects"] > 0 /\ CreateWebsite
  \/ ForEach("website-mutator") /\ made["themes"] > 0 /\ MutateWebsite
  \/ Every("website-deleter") /\ DeleteWebsite

StartStep == Start /\ UNCHANGED trackerVars

Cluster ==
  \/ \E c \in Components : RollOut(c) /\ UNCHANGED trackerVars
  \/ (BecomeReady \/ terminateRandomShard \/ triggerRollingUpdate) /\ UNCHANGED trackerVars
  \* what is in a namespace goes with it
  \/ \E k \in Kinds :
       /\ CollectGarbage(k)
       /\ web' = IF k = "projects" THEN [web EXCEPT !.exists = FALSE] ELSE web
       /\ UNCHANGED <<watched, call, writers, object, request, now, seen, changed>>

\* one goroutine or worker of the tracker, and the answers to calls
Track ==
  /\ "website-tracker" \in load /\ ~canceled
  /\ \/ RecordSpecChange \/ DeliverWebsite \/ ReconcileObject
     \/ \E w \in writers : setFast(w) \/ setSlow(w)
  /\ UNCHANGED scenarioVars

Next ==
  \/ StartStep
  \/ Interrupt /\ UNCHANGED trackerVars
  \/ Cluster
  \/ Generate /\ UNCHANGED scenarioVars
  \/ leases /\ UpdateWebsiteStatus /\ UNCHANGED scenarioVars
  \/ /\ LoseResponse /\ ~canceled /\ faults < MaxFaults /\ faults' = faults + 1
     /\ UNCHANGED <<scenario, pc, lastError, labelled, rolledOut, leases, owner, made, pool, load,
                    err, canceled>>
  \/ Track

Spec == Init /\ [][Next]_vars

\* Waits are bounded (two minutes, 30 seconds, 15 minutes) and calls return; the
\* garbage collector works.
FairSpec == Spec /\ WF_vars(StartStep) /\ WF_vars(Cluster)

-----------------------------------------------------------------------------
\* The types of both parts: channels and attempts within their bounds, times
\* that have passed.
TypeOK == ScenarioTypeOK /\ TrackerTypeOK

\* Unless API calls fail, nothing that the experiment created for its load is
\* left, whenever it was interrupted and although generators still run when
\* the owner is deleted.
CleanedUp == <>[](faults = 0 => (\A k \in Kinds : made[k] = 0) /\ ~web.exists)

\* Start returns, with all workers of NTimesConcurrently, and the manager stops,
\* whatever calls fail.
Terminates == <>(pc = "done" /\ canceled)
=============================================================================
