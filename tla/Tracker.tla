------------------------------- MODULE Tracker -------------------------------
(***************************************************************************)
(* The WebsiteTracker of the experiment, which measures how long it takes  *)
(* until a generation of a Website is ready, and one Website.  Times of    *)
(* spec changes and of observations are stored by goroutines (writers) in  *)
(* the tracker's map of objects; a delayed request makes Reconcile record  *)
(* latencies.  Time advances with each observation, 0 is the zero time.    *)
(***************************************************************************)
EXTENDS Integers, FiniteSetsExt

CONSTANTS MaxGenerations,   \* bound on spec changes of the Website
          None

VARIABLES web,       \* the Website in the API server
          watched,   \* the tracker's cached copy of it
          call,      \* generation that an unanswered Create or Patch has written, or None
          writers,   \* goroutines that are about to store a time
          object,    \* tracker.objects[uid]: times of each generation, or None
          request,   \* the work queue holds the Website's UID
          now,
          seen,      \* history: when each generation was first observed as ready, or 0
          changed    \* history: generations whose spec change a goroutine has stored

trackerVars == <<web, watched, call, writers, object, request, now, seen, changed>>

Generations == 1 .. MaxGenerations

NoWebsite == [exists |-> FALSE, generation |-> 0, observed |-> 0, ready |-> FALSE]

NoTimes == [created |-> 0, ready |-> 0, recorded |-> FALSE]

GenerationTimes == [created : Nat, ready : Nat, recorded : BOOLEAN]

ASSUME TrackerAssumption ==
  /\ MaxGenerations \in Nat \ {0}
  /\ None \notin Generations
  /\ \A known \in SUBSET Generations : None \notin [known -> GenerationTimes]

TrackerInit ==
  /\ web = NoWebsite /\ watched = NoWebsite
  /\ call = None /\ writers = {} /\ object = None /\ request = FALSE
  /\ now = 1 /\ seen = [g \in Generations |-> 0] /\ changed = {}

-----------------------------------------------------------------------------
(* The load generator.                                                     *)

CreateWebsite ==
  /\ call = None /\ web.generation = 0
  /\ web' = [NoWebsite EXCEPT !.exists = TRUE, !.generation = 1]
  /\ call' = 1
  /\ UNCHANGED <<watched, writers, object, request, now, seen, changed>>

\* The random theme may be the one that the Website has.  There is half a minute
\* between calls: the time of the last one is taken to be stored.
MutateWebsite ==
  /\ call = None /\ watched.exists /\ web.exists
  /\ \A w \in writers : w.kind # "created"
  /\ \/ web.generation < MaxGenerations /\ web' = [web EXCEPT !.generation = @ + 1]
     \/ UNCHANGED web
  /\ call' = web'.generation
  /\ UNCHANGED <<watched, writers, object, request, now, seen, changed>>

DeleteWebsite ==
  /\ watched.exists /\ web.exists
  /\ web' = [web EXCEPT !.exists = FALSE]
  /\ UNCHANGED <<watched, call, writers, object, request, now, seen, changed>>

Writer(kind, generation) ==
  [kind |-> kind, generation |-> generation, at |-> now, slow |-> FALSE, awaited |-> FALSE]

\* The call returns, after whatever has happened to the Website since.
RecordSpecChange ==
  /\ call # None
  /\ writers' = writers \cup {Writer("created", call)}
  /\ call' = None
  /\ UNCHANGED <<web, watched, object, request, now, seen, changed>>

\* The call has succeeded but its response is lost.
LoseResponse ==
  /\ call # None
  /\ call' = None
  /\ UNCHANGED <<web, watched, writers, object, request, now, seen, changed>>

-----------------------------------------------------------------------------
(* The webhosting-operator and the watch.                                  *)

\* The operator writes the status of the current generation.
UpdateWebsiteStatus ==
  /\ web.exists
  /\ \E ready \in BOOLEAN :
       /\ web.observed < web.generation \/ (ready /\ ~web.ready)
       /\ web' = [web EXCEPT !.observed = web.generation, !.ready = ready]
  /\ UNCHANGED <<watched, call, writers, object, request, now, seen, changed>>

observedNewReadyGeneration(old, new) ==
  /\ old.exists /\ new.exists
  /\ <<old.observed, old.ready>> # <<new.observed, new.ready>>
  /\ new.ready

\* websiteHandler.  Goroutines that were started until now are taken to have
\* stored their times when the request gets its turn a second later.
DeliverWebsite ==
  /\ watched # web
  /\ watched' = web
  /\ IF observedNewReadyGeneration(watched, web)
     THEN /\ writers' = { [w EXCEPT !.awaited = TRUE] : w \in writers \cup {Writer("ready", web.observed)} }
          /\ request' = TRUE /\ now' = now + 1
          /\ seen' = [seen EXCEPT ![web.observed] = IF @ = 0 THEN now ELSE @]
     ELSE UNCHANGED <<writers, request, now, seen, changed>>
  /\ UNCHANGED <<web, call, object, changed>>

-----------------------------------------------------------------------------
(* The tracker's map.                                                      *)

Times(generations, g) == IF g \in DOMAIN generations THEN generations[g] ELSE NoTimes

With(generations, g, times) ==
  [h \in DOMAIN generations \cup {g} |-> IF h = g THEN times ELSE generations[h]]

\* setGenerationCreated and setGenerationReady: the first time stays
setGeneration(generations, w) ==
  LET times == Times(generations, w.generation) IN
  With(generations, w.generation, IF times[w.kind] = 0 THEN [times EXCEPT ![w.kind] = w.at] ELSE times)

NoGenerations == [g \in {} |-> NoTimes]

\* the goroutine is done
Stored(w) ==
  /\ writers' = writers \ {w}
  /\ changed' = IF w.kind = "created" THEN changed \cup {w.generation} ELSE changed

\* tracker.set, first part: under the read lock, for existing objects
setFast(w) ==
  /\ ~w.slow
  /\ IF object # None
     THEN object' = setGeneration(object, w) /\ Stored(w)
     ELSE /\ writers' = (writers \ {w}) \cup {[w EXCEPT !.slow = TRUE]}
          /\ UNCHANGED <<object, changed>>
  /\ UNCHANGED <<web, watched, call, request, now, seen>>

\* mutant: no second look for an object that was added between the two locks
setSlowUnchecked(w) ==
  /\ w.slow
  /\ object' = setGeneration(NoGenerations, w)
  /\ Stored(w)
  /\ UNCHANGED <<web, watched, call, request, now, seen>>

\* tracker.set, second part: under the write lock
setSlow(w) ==
  /\ w.slow
  /\ object' = setGeneration(IF object = None THEN NoGenerations ELSE object, w)
  /\ Stored(w)
  /\ UNCHANGED <<web, watched, call, request, now, seen>>

\* mutant: the list is taken to be sorted in descending order
backfillGenerationsDescending(generations) ==
  [g \in DOMAIN generations |->
     LET older == {h \in DOMAIN generations : h < g /\ ~generations[h].recorded /\ generations[h].ready # 0}
     IN IF ~generations[g].recorded /\ generations[g].ready = 0 /\ older # {}
        THEN [generations[g] EXCEPT !.ready = generations[Max(older)].ready]
        ELSE generations[g]]

\* the generations that follow g in the sorted list of values
sortedValues(generations, g) == {h \in DOMAIN generations : h > g}

\* The ready time of the next newer generation that is ready and not yet
\* recorded stands in for a generation that was never observed as ready.
backfillGenerations(generations) ==
  [g \in DOMAIN generations |->
     LET newer == {h \in sortedValues(generations, g) : ~generations[h].recorded /\ generations[h].ready # 0}
     IN IF ~generations[g].recorded /\ generations[g].ready = 0 /\ newer # {}
        THEN [generations[g] EXCEPT !.ready = generations[Min(newer)].ready]
        ELSE generations[g]]

recordNewReadyGenerations(generations) ==
  [g \in DOMAIN generations |->
     [generations[g] EXCEPT !.recorded = @ \/ (generations[g].created # 0 /\ generations[g].ready # 0)]]

\* Requeued unless every generation that is known is recorded.
ReconcileObject ==
  /\ request /\ \A w \in writers : ~w.awaited
  /\ object' = recordNewReadyGenerations(backfillGenerations(IF object = None THEN NoGenerations ELSE object))
  /\ request' = (\E g \in DOMAIN object' : ~object'[g].recorded)
  /\ UNCHANGED <<web, watched, call, writers, now, seen, changed>>

-----------------------------------------------------------------------------
TrackerTypeOK ==
  /\ web.generation \in 0 .. MaxGenerations /\ web.observed <= web.generation
  /\ call \in Generations \cup {None}
  /\ \A w \in writers : w.generation \in Generations /\ w.at \in 1 .. now
  /\ object = None \/ \A g \in DOMAIN object : g \in Generations /\ object[g].created <= now /\ object[g].ready < now

Recorded(g) == object # None /\ g \in DOMAIN object /\ object[g].recorded

\* A latency that was recorded ends when the generation itself was first
\* observed as ready or, if it never was, the next newer one that was: in
\* whatever order goroutines store their times, and although times of newer
\* generations are filled in for older ones ("This might be necessary if we
\* missed some watch events, or multiple generations were created in quick
\* succession", tracker/website.go).
LatencyAccurate ==
  \A g \in Generations :
    Recorded(g) => \E h \in g .. MaxGenerations :
                     /\ seen[h] # 0 /\ object[g].ready = seen[h]
                     /\ \A i \in g .. h - 1 : seen[i] = 0

\* No spec change that was stored is lost: once its generation or a newer one
\* was observed as ready it is recorded, or a request is pending and Reconcile
\* records it as soon as the goroutines have stored what they hold: also if
\* the answer to the call came after the observation, and if two goroutines
\* add the object to the tracker at once.
Measured ==
  \A g \in changed :
    (\E h \in Generations : h >= g /\ seen[h] # 0) =>
      \/ Recorded(g)
      \/ /\ request
         /\ writers = {} => recordNewReadyGenerations(backfillGenerations(object))[g].recorded
=============================================================================
